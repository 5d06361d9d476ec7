CONSTANTS
    j1 = j1
    j2 = j2
    j3 = j3
    Jobs = {j1}
    Clients = {c1}
    Priority <- MCPriority
    HardwareConcurrency = 1
    Counts = {0, 2, 3}
    IdMax = 5
    MaxResizes = 5
    StartsMayFail = FALSE
    Free = Free
    NoJob = NoJob
SPECIFICATION Spec
INVARIANTS TerminateOnlyWhenIdsHeld ThreadsOwned
