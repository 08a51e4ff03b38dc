SPECIFICATION Spec
CONSTANTS
    Callers = {"c1", "c2"}
    Providers <- MCProviders
    Switches <- MCSwitches
    Meta <- MCMeta
    Reserve = 3
    Margin = 10
    Sizes = {1, 5}
    MaxRetries = 1
    MaxBackoff = 1
    Ops <- MCOps
    Replies <- MCReplies
    Skills = {"k"}
    MaxCacheSize = 1
    MaxOps = 1
    MaxSwitches = 1
INVARIANTS
    CallsFaithful
    RequestsFit
    VerdictsSafe
    PlansCanFinish
CHECK_DEADLOCK FALSE
