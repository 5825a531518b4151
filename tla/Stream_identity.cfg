SPECIFICATION Spec
CONSTANTS
    short = short
    long = long
    Nothing = Nothing
    Nobody = Nobody
    Buckets <- MCBuckets
    LiveChunks <- MCLiveChunks
    StepsPerEpoch = 3
    TotalSteps = 3
    ChunksPerDocument = 2
    NumDocuments = 3
    BatchSize = 2
    PendingLimit = 2
    MaxContexts = 1
    MaxGeneration = 1
    ProbeEvery = 2
    CreditEvery = 2
    LogEvery = 1
    Accumulation = 1
    MaxPosted = 1
    MaxResumes = 0
PROPERTY StreamIdentity
CHECK_DEADLOCK FALSE
