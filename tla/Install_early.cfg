\* Nothing but commands given in the source folder.
SPECIFICATION Spec
CONSTANTS
    Keys = {s1}
    Places <- SourceOnly
    MaxCommands = 2
    MaxSets = 1
    MaxPid = 0
    MaxFaults = 0
INVARIANT BootsAsConfigured
CHECK_DEADLOCK FALSE
