SPECIFICATION Spec
CONSTANTS
    p1 = p1  p2 = p2  p3 = p3  p4 = p4
    adder = adder  deleter = deleter  selection = selection  labeler = labeler  encoder = encoder
    Package = {p1, p2, p3, p4}
    Initial = {p3, p4}
    Writers = {adder, deleter}
    Batch <- MCBatch
    Readers = {selection, labeler, encoder}
    Exclusive = {labeler}
    Direct = {adder, deleter, selection, labeler}
INVARIANTS BatchesWhole EnumerationExact
PROPERTY CallsReturn
CHECK_DEADLOCK FALSE
