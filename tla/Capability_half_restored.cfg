\* A recovery whose last step fails leaves trainer roles nobody watches.
CONSTANTS
    Cooldown = 1
    Interval = 1
    MaxInterval = 2
    RequiredSuccesses = 2
    MaxCount = 2
    ControlFails = FALSE
    DiskFails = TRUE
SPECIFICATION Spec
PROPERTIES
    AcknowledgesHandledError
