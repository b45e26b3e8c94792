SPECIFICATION Spec
CONSTANTS
    r = r
    l = l
    d = d
    f = f
    run = run
    x = x
    g = g
    h = h
    z = z
    Name <- MCName
    NameOrder <- MCOrder
    Root <- MCRoot
    Conditional <- MCConditional
    Cases <- MCCases
    NoBase = none
    MaxLinks = 8
INVARIANTS
    IndexExact
    LinksResolve
PROPERTIES
    Terminates
CHECK_DEADLOCK FALSE
