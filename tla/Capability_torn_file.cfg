\* A crash while the downgrade file is written.
CONSTANTS
    Cooldown = 1
    Interval = 1
    MaxInterval = 2
    RequiredSuccesses = 2
    MaxCount = 2
    ControlFails = FALSE
    DiskFails = FALSE
SPECIFICATION Spec
INVARIANTS
    OperatorCanClear
