\* A control requested by the last validation before a crash.
CONSTANTS
    MaxEpoch = 2
    KeepLast = 2
    MaxStarts = 2
    GateModes = {"stable", "recovery"}
    FewerStarts = 1
    None = None
SPECIFICATION Spec
INVARIANTS
    ExactResumeContinues
CHECK_DEADLOCK FALSE
