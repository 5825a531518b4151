SPECIFICATION Spec
CONSTANTS
    short = short
    long = long
    Nothing = Nothing
    Nobody = Nobody
    Buckets <- MCBuckets
    LiveChunks <- MCLiveChunks
    StepsPerEpoch = 4
    TotalSteps = 10
    ChunksPerDocument = 3
    NumDocuments = 5
    BatchSize = 2
    PendingLimit = 3
    MaxContexts = 2
    MaxGeneration = 2
    ProbeEvery = 2
    CreditEvery = 2
    LogEvery = 1
    Accumulation = 3
    MaxPosted = 2
    MaxResumes = 2
INVARIANTS
    TypeOK
    WholeBudgetTrained
    SeekEqualsWalk
    CreditIsTheSteps
    CreditedOnce
    ResumeIsContinuation
    ContextOwnsItsState
PROPERTY IdentityUnlessDisturbed
CHECK_DEADLOCK FALSE
