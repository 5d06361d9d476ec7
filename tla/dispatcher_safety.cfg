\* Two clients, one service thread at first, three jobs, two resizes to none or
\* two threads, any of which may fail to start.
CONSTANTS
    j1 = j1
    j2 = j2
    j3 = j3
    Jobs = {j1, j2, j3}
    Clients = {c1, c2}
    Priority <- MCPriority
    HardwareConcurrency = 1
    Counts = {0, 2}
    IdMax = 5
    MaxResizes = 2
    StartsMayFail = TRUE
    Free = Free
    NoJob = NoJob
SPECIFICATION Spec
PROPERTIES KeepsContract
INVARIANTS TypeOK CountersExact NoLostWakeup JobOwnership NothingAfterDestruction
