\* Two clients, two service threads at first, two jobs, two resizes to one or two.
CONSTANTS
    j1 = j1
    j2 = j2
    j3 = j3
    Jobs = {j1, j3}
    Clients = {c1, c2}
    Priority <- MCPriority
    HardwareConcurrency = 2
    Counts = {1, 2}
    IdMax = 5
    MaxResizes = 2
    StartsMayFail = FALSE
    Free = Free
    NoJob = NoJob
SPECIFICATION FairSpec
PROPERTIES JobServed CallsReturn PoolShrinks
