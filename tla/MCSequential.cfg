SPECIFICATION Spec
CONSTANTS
    Parts = {"compliance", "analysis", "selection", "images", "formats", "convert", "catalogers"}
    \* the package tasks
    k1 = k1  k2 = k2  owned = owned
    MaxPkgs = 2
    MaxRels = 2
    Configs <- AllConfigs
    CompliancePackages <- MCPackage
    RelatedFiles <- ComplianceFile
    os1 = os1  os2 = os2  jvm = jvm  sig = sig  bin = bin  bitnami = bitnami  bnbin = bnbin
    elf = elf  shadow = shadow  dbbin = dbbin  lang = lang
    first = first  second = second  third = third  fourth = fourth  fifth = fifth
    db = db  prog = prog  lib = lib  link = link  release = release  java = java  bn = bn
    app = app  plain = plain  seen = seen  hidden = hidden
    name = name
    ExclusionPackages <- ExclusionUniverse
    ScopePackages <- ScopeUniverse
    Key <- SharedKey
    File <- SharedFile
    Owned <- SharedOwned
    Source = source
    Foreign = {}
    RelType = {"contains", "ownership-by-file-overlap"}
    ContainsType = "contains"
    Attr <- MCAttr
    Resolve <- MCResolve
    Forbidden <- MCForbidden
    Lib = {}
    Imports = {}
    Exports = {}
    Glob = {}
    BaseName = {}
    \* the selection of catalogers
    dpkg = dpkg  gomod = gomod  digests = digests  contents = contents  mine = mine
    image = image  directory = directory  language = language  digest = digest
    unknown = unknown
    All = all
    Default = default
    FileTag = file
    PackageTasks <- MCPackageTasks
    FileTasks <- MCFileTasks
    Tags <- MCTags
    SourceTags <- MCSourceTags
    Requests <- MCRequests
    MaxCalls = 2
    \* the views of an image
    Path <- Letters
    Images <- MCImages
    PathLists <- MCPathLists
    \* the formats
    WithPurl <- MCWithPurl
    Fingerprints = {"p", "q"}
    FileNames = {"f"}
    Sboms <- MCSboms
    MaxConversions = 3
    \* the convert command
    Target = {"in", "a", "bad"}
    InputPath = "in"
    BadPath = "bad"
    OutputFormat = {"syft-json", "spdx-json", "bogus"}
    Unsupported = {"bogus"}
    MaxOutputs = 3
    \* the catalogers of .NET, Maven and Java archives
    application = application  libA = libA  libB = libB  libC = libC
    claimed1 = claimed1  claimed2 = claimed2  claimed3 = claimed3
    runtime = runtime  single = single  alone = alone
    Applications <- MCApplications
    Library = {application, libA, libB, libC}
    Executable = {claimed1, claimed2, claimed3, runtime, single, alone}
    RuntimeVersion <- MCRuntimeVersion
    Nothing = Nothing
    Family = {"dotnet", "maven", "java", "licenses", "cpes"}
    \* licenses and CPEs
    LicenseIDs = {"mit"}
    Expressions = {"expression"}
    Found <- MCFound
    Before <- MCBefore
    Alphabet <- MCAlphabet
    Digits = {"3"}
    Unparseable = {"?"}
    TopLevelDomains = {"org"}
    Additions <- MCAdditions
    Removals <- MCRemovals
    Dictionary <- MCDictionary
    ArtifactGroups <- MCArtifactGroups
    SiteVendors <- MCSiteVendors
    MaxCandidates = 6
    MaxFieldLength = 9
INVARIANTS
    RelationshipsFollow
    RemovedSpokenFor
    ExclusionExact
    SelectionExact
    ScopesAgree
    RoundTripExact
    OutputsFaithful
    DependenciesJumpSkipped
    ExecutablesSpokenFor
    PomsInherit
    DependenciesRelated
    ArchivesRelated
    LicensesMerged
    CpesJustified
CHECK_DEADLOCK FALSE
