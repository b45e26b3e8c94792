SPECIFICATION Spec
CONSTANTS
    Tasks = {t1, t2, t3}
    Cleaners = {c1, c2}
    Kinds = {"root", "path"}
INVARIANTS RemovedForGood NothingLeft
PROPERTY CallsReturn
CHECK_DEADLOCK FALSE
