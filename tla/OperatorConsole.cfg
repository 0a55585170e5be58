\* Three requests of every kind, one fault; a tick is 5 s, the refresh
\* period 15 s, and a host has 20 s to answer.  The console may be left for good.
SPECIFICATION FairSpec
CONSTANTS
    o1 = o1
    o2 = o2
    o3 = o3
    Flows <- AllFlows
    Operations = {o1, o2, o3}
    MaxKeys = 3
    Period = 3
    ProbeTime = 4
    MaxFaults = 1
    Faults = {"raise", "short", "grown", "spawn", "kill", "update"}
INVARIANT
    DialogHasOwner
PROPERTIES
    OperationsSettle
    StatusReturns
CHECK_DEADLOCK FALSE
