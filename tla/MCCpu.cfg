SPECIFICATION FairSpec
CONSTANTS
    Tasks = {t1, t2, t3, t4}
    Locks = {l1, l2}
    NoLock = NoLock
    Cores = 2
    MaxSections = 2
    Ties = FALSE
INVARIANTS
    TypeOK
    MutualExclusion
    EveryEventOnce
    CoreAccounting
    NoLostWakeup
    WorkConserving
PROPERTIES
    EveryTaskCompletes
