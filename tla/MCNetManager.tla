---------------------------- MODULE MCNetManager -----------------------------
EXTENDS NetManager
\* The first difference, when the stack holds a time long past.
LongAgo == {Reconnect}
=============================================================================
