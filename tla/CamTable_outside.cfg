\* Cameras come and go, ffmpegs die, forks and the network fail, commands arrive.
SPECIFICATION Spec
CONSTANTS
    video0 = video0
    video1 = video1
    video10 = video10
    Cams <- ThreeCams
    Prefix <- OnePrefix
    AtBoot <- NoneOrPair
    MaxCams = 5
    MaxPid = 6
    Sessions = {s1}
    IPs = {a}
    MaxEvents = 3
    MaxNodes = 1
    MaxPlugged = 2
INVARIANTS TypeOK TableGovernsFfmpeg TableListsDev FallBackRecords NoSharedPid NoOverrun
PROPERTIES NoIdleRestart EveryCameraCaptured
