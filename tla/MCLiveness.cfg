CONSTANTS
    \* a queue
    Keys = {k1}
    Replicas = {w1, w2}
    Budget = 2
    Concurrency = 2
    StallLimit = 1
    MaxQueueFaults = 3
    NoWorker = NoWorker
    \* collaboration rooms
    Clients = {p1, p2}
    MaxConnects = 2
    MaxSockets = 2
    MaxOdd = 1
    MaxEdits = 0
    MaxReplaced = 1
SPECIFICATION LivenessSpec
INVARIANTS
    RepeatsExplained
    GivingUpIsSeen
PROPERTIES
    JobsConclude
    SilentPeersLeave
CHECK_DEADLOCK FALSE
