\* The polling process with its main thread alone; no other program signals it.
SPECIFICATION Spec
CONSTANTS
    Cams = {c1, c2}
    MaxPid = 3
    Main = Main
    Gps = Gps
    Threads <- OneThread
    UserSignals = FALSE
    Inherits = {TRUE, FALSE}
INVARIANTS TypeOK StopAtMostOnce NeverWaitsForLiveChild NoStray DeviceExclusive
PROPERTIES ReportsEveryChild StopCamReturns
CHECK_DEADLOCK FALSE
