\* A node whose control calls may fail or time out, on a disk that works, with the
\* fairness of its scheduling.
CONSTANTS
    Cooldown = 2
    Interval = 1
    MaxInterval = 2
    RequiredSuccesses = 2
    MaxCount = 2
    ControlFails = TRUE
    DiskFails = FALSE
SPECIFICATION FairSpec
INVARIANTS
    DiskAgrees
PROPERTIES
    FailureDowngrades
    RecoversWithMemory
