\* Two clients, three items.  The thread may be scheduled inside the constructor
\* and then wait for ever on a mutex that does not exist yet: a real deadlock.
CONSTANTS
    Items = {i1, i2, i3}
    Clients = {c1, c2}
    Thread = Thread
    NoItem = NoItem
    StartsEarly = TRUE
SPECIFICATION FairSpec
CHECK_DEADLOCK FALSE
INVARIANTS InOrder NoLostWakeup StopIsFinal
PROPERTIES FinishedMeansProcessed ItemsProcessed CallsReturn
