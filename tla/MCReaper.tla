------------------------------ MODULE MCReaper -------------------------------
EXTENDS Reaper
\* Threads of the two regimes: gpsLocationUpdater has ended, or still runs.
OneThread  == {Main}
TwoThreads == {Main, Gps}
=============================================================================
