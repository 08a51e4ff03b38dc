SPECIFICATION FairSpec
CONSTANTS
    Steps = {"a", "b", "c"}
    Plans <- TypicalPlans
    MaxRetries = 1
    MaxReplans = 2
    Configs <- AllConfigs
INVARIANTS
    PlanRespected
    SuccessMeansAllDone
    ModelDiscipline
PROPERTY
    Terminates
