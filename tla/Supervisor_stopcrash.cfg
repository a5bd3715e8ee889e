\* A stop is given while the poller is being forked again.
SPECIFICATION Spec
CONSTANTS
    MaxPid = 8
    MaxLaunches = 2
    MaxFaults = 1
    MaxEvents = 1
    Modes <- Daemons
    Crashers <- OnlyPollers
    Patient = TRUE
PROPERTY StopTerminates
CHECK_DEADLOCK FALSE
