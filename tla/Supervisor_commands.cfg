\* Commands to a settled system; children crash and threads dial.
SPECIFICATION Spec
CONSTANTS
    MaxPid = 14
    MaxLaunches = 2
    MaxFaults = 1
    MaxEvents = 2
    Modes <- BothModes
    Crashers <- Children
    Patient = TRUE
INVARIANTS TypeOK OnePoller
PROPERTIES DaemonHeals SettledStopTerminates StartReplaces
CHECK_DEADLOCK FALSE
