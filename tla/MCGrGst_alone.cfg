SPECIFICATION FairSpec
CONSTANTS
    NumPartitions = 1
    Fanout = 2
    NumReplicas = 1
    MaxTime = 3
    RotxHome = {0}
INVARIANTS
    NoRotxLeftBehind
PROPERTIES
    GstAdvances
