SPECIFICATION Spec
CONSTANTS
    Tools = {"read"}
    Args = {"x", "y"}
    Mutating = {}
    FileEdits = {}
    Bookkeeping = {}
    StopTools = {}
    ChecklistTool = "none"
    Configs <- PlainOnly
    Answers = {"always", "deny"}
    MaxSteps = 1
    StepBound = 1
    CountBound = 2
    MaxCalls = 1
    ResumeLens = {0}
    RepeatNudge = 2
    RepeatAbort = 2
    FruitNudge = 0
    FruitAbort = 0
    SameNudge = 0
    SameAbort = 0
    ParseAbort = 0
    TruncAbort = 0
INVARIANT
    LoopBounded
