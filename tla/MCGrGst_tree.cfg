SPECIFICATION FairSpec
CONSTANTS
    NumPartitions = 4
    Fanout = 2
    NumReplicas = 1
    MaxTime = 1
    RotxHome = {}
INVARIANTS
    TypeOK
    GstSafe
    RoundsDoNotOverlap
PROPERTIES
    GstAdvances
    ImplementsStableTime
