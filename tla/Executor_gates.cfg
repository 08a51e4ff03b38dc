SPECIFICATION Spec
CONSTANTS
    Tools = {"read", "edit", "list"}
    Args = {"x"}
    Mutating = {"edit"}
    FileEdits = {"edit"}
    Bookkeeping = {"list"}
    StopTools = {"read"}
    ChecklistTool = "list"
    Configs <- AllGates
    Answers = {"deny"}
    MaxSteps = 2
    StepBound = 2
    CountBound = 2
    MaxCalls = 2
    ResumeLens = {0, 1}
    RepeatNudge = 2
    RepeatAbort = 0
    FruitNudge = 0
    FruitAbort = 0
    SameNudge = 0
    SameAbort = 0
    ParseAbort = 0
    TruncAbort = 0
INVARIANTS
    FinishGated
    
