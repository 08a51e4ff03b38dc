SPECIFICATION Spec
CONSTANTS
    Tools = {"read", "edit"}
    Args = {"x"}
    Mutating = {"edit"}
    FileEdits = {"edit"}
    Bookkeeping = {}
    StopTools = {}
    ChecklistTool = "none"
    Configs <- NoGates
    Answers = {"once", "deny"}
    MaxSteps = 2
    StepBound = 3
    CountBound = 4
    MaxCalls = 2
    ResumeLens = {0}
    RepeatNudge = 3
    RepeatAbort = 4
    FruitNudge = 1
    FruitAbort = 2
    SameNudge = 2
    SameAbort = 3
    ParseAbort = 2
    TruncAbort = 2
INVARIANT
    DenyStops
