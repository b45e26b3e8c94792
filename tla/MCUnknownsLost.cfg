CONSTANTS
    None = None
    Failed = Failed
    Parallelism = 2
    Perllocal <- MCPerllocal
    PmVersion <- MCPmVersion
    ModelName <- MCModelName
    Venvs <- MCVenvs
    GoodVersions <- MCGoodVersions
    Catalogers <- MCCatalogers
    Search <- MCSearch
    MediaTypes <- MCMediaTypes
    Outcomes <- MCOutcomes
    Panicky <- MCPanicky
SPECIFICATION CatalogSpec
INVARIANTS
    ParserErrorsPropagated
CHECK_DEADLOCK FALSE
