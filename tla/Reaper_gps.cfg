\* The gps thread takes signals too, and another program sends SIGUSR1.
SPECIFICATION Spec
CONSTANTS
    Cams = {c1}
    MaxPid = 2
    Main = Main
    Gps = Gps
    Threads <- TwoThreads
    UserSignals = TRUE
    Inherits = {TRUE, FALSE}
PROPERTY ZombiesReaped
CHECK_DEADLOCK FALSE
