SPECIFICATION Spec
CONSTANTS
    Client = {0, 1}
    Home <- AllAtThree
    NumPartitions = 4
    LocalKeys = {7}
    RemoteKeys = {0, 3}
    Scripts <- GetsOnly
    RemoteLogs <- LowerFirst
    SingleCore = {TRUE}
    MaxTime = 3
INVARIANTS
    GetsAreCausal
CHECK_DEADLOCK FALSE
