---------------------------- MODULE MCTransport -----------------------------
EXTENDS Transport

\* "HTTP/1.1 100 Continue\r\n\r\n" is 25 bytes, "HTTP/1.1 200 OK\r\n" 17.
Short    == [interim |-> 25, field |-> 42, width |-> 1, blank |-> 59, value |-> 9]
Long     == [interim |-> 25, field |-> 42, width |-> 2, blank |-> 60, value |-> 12]
Hasty    == [interim |-> 0,  field |-> 17, width |-> 2, blank |-> 35, value |-> 12]
Sent     == {Short, Long, Hasty}

\* Inside and at the end of each part of these answers.
CutPoints == {10, 23, 25, 30, 37, 42, 51, 58, 59, 60, 63, 64, 68, 72, 76}
Readings  == {0, 20}
=============================================================================
