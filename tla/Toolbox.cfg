SPECIFICATION Spec
CONSTANTS
    Sessions = {s1, s2}
    MaxVersions = 4
    SigOf <- MCSigOf
    MaxOutside = 1
    MaxCrashes = 1
    MaxText = 5
    BufSize = 2
    CharsPerToken = 2
    MinBudget = 1
    DefaultResultReadLines = 2
    MaxLineBytes = 2
    MaxWindowLines = 2
    MaxNames = 3
    MaxLinks = 4
    Executors = {e1, e2}
    ToolNames = {"t1"}
    OpenVINODevices = 2
    LengthBuckets = {"short", "long"}
    MaxDocuments = 4
    MaxChunks = 3
    MaxFileLines = 3
    LineWidths = {1, 5}
    StepIds = {"s1", "x/s1"}
    DumpName <- SharedDump
    AttachmentIds = {"a1", "a2"}
    Contents = {"c1", "c2"}
    MaxAttachments = 3
    MaxFacts = 2
    MaxGiven = 3
    MaxWireLines = 4
    MaxEvents = 4
    MaxOutputItems = 3
    MaxTurns = 2
INVARIANTS
    FilesSafe
    OutputRecoverable
    JudgedIsTouched
    ShellJudged
    SetupSound
    EmbedderSound
    BatchesWhole
    IndexingFaithful
    BoardTold
    WorkRetold
    StreamsAssembled
    ExchangeFaithful
SYMMETRY Interchangeable
CHECK_DEADLOCK FALSE
