SPECIFICATION Spec
CONSTANTS
    Client = {0, 1}
    Home <- AtOne
    NumPartitions = 2
    Remote = {"a", "b"}
    LocalKeys = {2}
    RemoteKeys = {0, 1}
    Scripts <- OneRead
    Log <- Chained
    Heard <- OnlyA
    SingleCore = {TRUE}
    LastTick = 2
    MaxTime = 3
INVARIANTS
    RotxIsCausal
CHECK_DEADLOCK FALSE
