\* A stop is given before the pid of the daemon is in the configuration.
SPECIFICATION Spec
CONSTANTS
    MaxPid = 6
    MaxLaunches = 2
    MaxFaults = 0
    MaxEvents = 0
    Modes <- Daemons
    Crashers <- Nobody
    Patient = FALSE
PROPERTY StopTerminates
CHECK_DEADLOCK FALSE
