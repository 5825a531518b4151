\* Three epochs: the window of two recent ones leaves the best one behind.
CONSTANTS
    MaxEpoch = 3
    KeepLast = 2
    MaxStarts = 3
    FewerStarts = 2
    GateModes = {"stable"}
    None = None
SPECIFICATION Spec
INVARIANTS
    SurvivesCrash
    TypeOK
    ExactResumeIsWhole
    Resumable
    RollbackIsWhole
    RollbackLoads
\* The bound on starts ends every run.
CHECK_DEADLOCK FALSE
