SPECIFICATION Spec
CONSTANTS
    ToolNames = {"x"}
    Callers = {"c1"}
    CoreTools <- MCCoreTools
    HostPolicies = {"deny"}
    HostSettings <- MCHostSettings
    Conns = {1, 2}
    DefaultTimeout = 1
    Threshold = 1
    MaxLag = 1
    Offers <- MCOffers
    ServerNames = {"a", "b"}
    Configurations <- MCConfigurations
    Dirs = {d1, d2}
    MaxReconfigures = 1
    MaxMoves = 1
    MaxHostOps = 1
INVARIANTS
    GatewayConsistent
    CallersSafe
SYMMETRY DirSymmetry
CHECK_DEADLOCK FALSE
