SPECIFICATION Spec
CONSTANTS
    MinAbbrevLen = 1
    HashLen = 3
    EvictEvery = 3
    ResultsOf <- MCResultsOf
    FileHash <- MCFileHash
    FileTool = "read"
    UntrustedTools = {"mcp"}
    MCPTools = {"mcp", "search"}
    NonCacheable = {"status"}
    ProtectedTools = {}
    StatusTools = {"status"}
    Configs <- MCConfigs
    Window = 40
    OutputLimit = 10
    SafetyMargin = 5
    BaseTokens = 2
    Overheads = {100}
    EditBound = 1
    Readers = {r1}
INVARIANTS
    RepliesKept
    PromptWellFormed
    CacheHonest
CHECK_DEADLOCK FALSE
