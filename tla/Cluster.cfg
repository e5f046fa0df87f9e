CONSTANTS
    Workers = 2
    MaxChild = 4
    MaxFaults = 2
    Channel = {"c"}
    Pattern = {}
    Msg = {"m1"}
    MaxCalls = 2
    MaxEvents = 2
    COUNTER = 256
SPECIFICATION BoundedSpec
CHECK_DEADLOCK FALSE
INVARIANTS
    ClusterSound
PROPERTIES
    WorkersAreReplaced
    StopEndsEveryProcess
