\* The lost wakeup of stopCam: ffmpeg ends between stat and pkilled = false.
SPECIFICATION Spec
CONSTANTS
    Cams = {c1}
    MaxPid = 2
    Main = Main
    Gps = Gps
    Threads <- OneThread
    UserSignals = FALSE
    Inherits = {FALSE}
PROPERTY PollsForever
CHECK_DEADLOCK FALSE
