\* Every kind of connection; the network fails and signals reach the thread.
\* A fork may fail and a stray child be reaped.
SPECIFICATION Spec
CONSTANTS
    Reconnect = 3
    MaxLosses = 2
    MaxSignals = 2
    MaxFailures = 1
    MaxStrays = 1
    FirstGaps <- LongAgo
INVARIANTS TypeOK OneDialer WwanRestored
PROPERTIES DialsWhileDown KeepsProbing
CHECK_DEADLOCK FALSE
