---------------------------- MODULE MCSupervisor -----------------------------
EXTENDS Supervisor
\* The roles that crash in the runs.
Nobody   == {}
OnlyPollers == {"second"}
Children == {"first", "second", "ffmpeg", "wvdial"}
\* The types of -s that are given.
Daemons == {"daemon"}
BothModes == {"daemon", "normal"}
=============================================================================
