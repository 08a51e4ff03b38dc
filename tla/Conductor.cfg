SPECIFICATION Spec
CONSTANTS
    Agents = {a1, a2}
    MaxParallel = 1
    MaxSinkPanics = 1
    Runs = {r1}
    Callers = {c1, c2}
    Resumed = {0, 2}
INVARIANTS
    BatchTold
    RunsReported
PROPERTY
    BatchReturns
CHECK_DEADLOCK FALSE
