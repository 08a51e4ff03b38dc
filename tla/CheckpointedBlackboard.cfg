SPECIFICATION LiveSpec
CONSTANTS
    Writers = {w1, w2}
    Stoppers = {s1, s2}
    Fields = {plan, results}
    MaxPersistenceQueue = 1
    MaxWrites = 2
INVARIANTS
    QueueSafe
    Durability
PROPERTIES
    Refines
    CallersReturn
