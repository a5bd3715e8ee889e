\* One poll after another; the network comes and goes, the answers come in pieces.
SPECIFICATION Spec
CONSTANTS
    MaxFds = 7
    MaxRecv = 40
    Answers <- Sent
    Cuts <- CutPoints
    Folders = 1
    Garbage <- Readings
INVARIANTS TypeOK WholeOrError
PROPERTIES ClosesConnection ReachesServer
