SPECIFICATION FairSpec
CONSTANTS
    Configs <- TreeAndPair
    Fanout = 2
    NumReplicas = 2
    MaxTime = 1
INVARIANTS
    TypeOK
    RoundsDoNotMix
PROPERTIES
    GstVectorAdvances
    ImplementsStableTimes
