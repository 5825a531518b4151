\* Room for two of the small values and none for the large one; a live batch
\* cache holds two entries at most.
CONSTANTS
    t1 = t1
    t2 = t2
    t3 = t3
    k1 = k1
    k2 = k2
    k3 = k3
    Threads <- ThreeThreads
    Keys <- ThreeKeys
    Faulty <- OneFaulty
    FaultyAhead <- OneFaulty
    Size <- Sizes
    SizeLimit = 2
    EntryLimit = 2
SPECIFICATION FairSpec
INVARIANTS
    TypeOK
    SingleFlight
    NoOrphanWait
    WithinLimit
    NeverRebuiltWhileCached
    TotalIsExact
PROPERTIES
    CallsReturn
\* Every thread may have panicked.
CHECK_DEADLOCK FALSE
