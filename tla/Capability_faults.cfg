\* Control calls and writes of the downgrade file may fail.
CONSTANTS
    Cooldown = 3
    Interval = 1
    MaxInterval = 2
    RequiredSuccesses = 2
    MaxCount = 3
    ControlFails = TRUE
    DiskFails = TRUE
SPECIFICATION Spec
INVARIANTS
    TypeOK
    NeverStrandedReadOnly
PROPERTIES
    Hysteresis
