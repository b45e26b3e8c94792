SPECIFICATION Spec
CONSTANTS
    a = a
    b = b
    c = c
    d = d
    k = k
    plain = plain
    revised = revised
    found = found
    other = other
    None = None
    Caller <- MCCaller
    Key = {k}
    Type = {plain, revised}
    TypeOf <- MCTypeOf
    Fields <- MCFields
    Contents <- MCContents
    Size <- MCSize
    Failure = Failure
    Bypassing = {d}
    TTL = 0
INVARIANTS
    ServedWasResolved
    WholeOnceWritten
CHECK_DEADLOCK FALSE
