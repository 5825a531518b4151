\* Three workers, one of which may die while it builds a batch, epochs of three
\* steps, resumed at step 2: a single step is left over for the last epoch.
CONSTANTS
    w1 = w1
    w2 = w2
    w3 = w3
    Workers <- ThreeWorkers
    Faulty <- OneFaulty
    Depth = 1
    StepsPerEpoch = 3
    Start = 2
    Limit = 6
SPECIFICATION FairSpec
INVARIANTS
    TypeOK
    InOrder
    Accounting
PROPERTIES
    FeedSpec
    ShortEpochMeansLostWorker
    CallsReturn
\* The loader may be dropped, after which nothing is left to run.
CHECK_DEADLOCK FALSE
