SPECIFICATION Spec
CONSTANTS
    Node = {1, 2, 3}
    RelType = {1}
    MaxEdges = 3
INVARIANT QueriesExact
PROPERTY GraphSpec
