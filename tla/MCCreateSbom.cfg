SPECIFICATION Spec
CONSTANTS
    os = os
    bin = bin
    sig = sig
    elf = elf
    hid = hid
    db = db
    prog = prog
    lib = lib
    app = app
    old = old
    libname = libname
    other = other
    source = source
    elsewhere = elsewhere
    T1 = T1
    T2 = T2
    Key <- MCKey
    File <- MCFile
    Source = source
    Foreign = {elsewhere}
    RelType <- MCRelType
    ContainsType = "contains"
    Owned <- MCOwned
    Attr <- MCAttr
    Resolve <- MCResolve
    Forbidden <- MCForbidden
    Lib <- MCLib
    Imports <- MCImports
    Exports <- MCExports
    Glob <- MCGlob
    BaseName <- MCBaseName
    PkgTasks = {T1, T2}
    FileTasks = {"digests", "metadata", "executables"}
    Results <- MCResults
    Candidates <- MCCandidates
    Archives = {db}
    ESM <- ESMKeys
    Unreadable = {prog}
    Workers = 2
    Configs <- MCConfigs
INVARIANTS
    ReferentialIntegrity
    OutcomeJustified
    OwnedFilesCataloged
    UnknownsAccounted
    FinalRelationshipsExact
PROPERTY Termination
CHECK_DEADLOCK FALSE
