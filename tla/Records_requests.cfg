\* Files are requested again and again, from several sessions.
SPECIFICATION Spec
CONSTANTS
    Files = {f1, f2, f3}
    Sessions = {s1, s2}
    MaxRequests = 5
INVARIANTS TypeOK NoStrayStream
PROPERTIES StopStops ViewShows
CHECK_DEADLOCK FALSE
