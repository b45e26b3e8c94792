SPECIFICATION StructuresSpec
CONSTANTS
    \* the package collection
    a = a
    b = b
    c = c
    n1 = n1
    n2 = n2
    t1 = t1
    t2 = t2
    x = x
    y = y
    ID = {a, b, c}
    NoID = NoID
    Name = {n1, n2}
    Type = {t1, t2}
    Path = {x, y}
    NoPath = NoPath
    Nil = Nil
    Package <- MCPackage
    Threshold = 1
    MaxDelete = 2
    \* the spill buffer
    MaxOffset = 5
    MemLimit = 2
    MaxLength = 3
    Byte = {b1, b2}
    Zero = Zero
    NoFile = NoFile
    Failures = {"create", "write"}
INVARIANTS SetsWellFormed IndexesAgree
PROPERTIES OrderStable SparseSpec
