\* Commands one after another beside a daemon; crashes, failing copies, a restart.
SPECIFICATION Spec
CONSTANTS
    Keys = {s1}
    Places <- Anywhere
    MaxCommands = 3
    MaxSets = 2
    MaxPid = 2
    MaxFaults = 1
CONSTRAINT FewMixed
INVARIANTS TypeOK SuccessRuns UninstallLeavesNothing BootupAgrees SetStays DeletedIsSilent
CHECK_DEADLOCK FALSE
