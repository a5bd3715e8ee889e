----------------------------- MODULE NetManager ------------------------------
(***************************************************************************)
(* The network manager thread of the first child: networkManager() of      *)
(* src/main.cpp.  Every reconnect-duration seconds it probes the internet  *)
(* and, when the probe fails, dials: through wvdial, which it keeps as a   *)
(* child, or through nmcli, which it runs to its end.                      *)
(*                                                                         *)
(* Time is kept as the seconds since presentCheckTime was last read,       *)
(* counted up to Reconnect, because only `>= reconnectDuration` is asked   *)
(* of it.  A signal handled by this thread ends sleep() and waitpid()      *)
(* early.                                                                  *)
(*                                                                         *)
(* The constructor of spawn waits for its child, although it was not asked *)
(* to, when the SIGCHLD handler has reaped an unregistered child before:   *)
(* the poller, before the main thread waited for it (Supervisor).  If fork *)
(* fails the object names process -1: waitpid then waits for any child,    *)
(* and kill signals every process.                                         *)
(*                                                                         *)
(* Left out: the uninitialised pointer wvdial holding anything but NULL,   *)
(* wvdialconf, a signal during an nmcli, what the children print, freed    *)
(* spawn objects.                                                          *)
(*                                                                         *)
(* Bounds: MaxLosses losses of the network, MaxSignals interrupted calls,  *)
(* MaxFailures failing forks, MaxStrays unregistered children reaped.      *)
(***************************************************************************)
EXTENDS Integers, FiniteSets

CONSTANTS
    Reconnect,       \* reconnect-duration, in seconds
    MaxLosses, MaxSignals, MaxFailures, MaxStrays,
    FirstGaps        \* what the first difference of the uninitialised times is

ASSUME TimeAssumption == Reconnect \in Nat \ {0}
ASSUME BoundAssumption ==
    MaxLosses \in Nat /\ MaxSignals \in Nat /\ MaxFailures \in Nat /\ MaxStrays \in Nat
ASSUME GapAssumption == FirstGaps \subseteq 0 .. Reconnect

VARIABLES
    pc,
    waitInterval,
    since,           \* seconds since presentCheckTime was read
    gap,             \* presentCheckTime - previousCheckTime
    wvdial,          \* the child that wvdial points to, NoChild or Failed
    dialers,         \* the wvdial processes that run
    hungup,          \* those that were sent SIGTERM
    wwan,            \* the radio is on
    online,
    mobileBroadbandCon,   \* the configured connection; it does not change
    processCleaned,  \* of the first child, set by its handler
    losses, signals, failures, strays

clock   == <<waitInterval, since, gap>>
dialing == <<wvdial, dialers, hungup>>
faults  == <<losses, signals, failures, strays>>
vars == <<pc, clock, dialing, wwan, online, mobileBroadbandCon, processCleaned, faults>>

NoChild == 0
Failed  == -1     \* what fork has returned
\* Two spawn objects are enough: there is the present child and its successor.
Children == {1, 2}
Seconds == 0 .. Reconnect

Connections == {"none", "wvdial", "an nmcli connection"}

\* The thread waits for its new wvdial, for a child that does not end, or is gone.
Held  == {"waiting", "stuck", "gone"}
Steps == {"stamp", "sleep", "test", "dial", "waitpid", "redial", "up", "up2", "off", "on"} \cup Held

TypeOK ==
    /\ pc \in Steps
    /\ waitInterval \in Seconds /\ since \in Seconds /\ gap \in Seconds
    /\ wvdial \in Children \cup {NoChild, Failed}
    /\ dialers \subseteq Children /\ hungup \subseteq dialers
    /\ wwan \in BOOLEAN /\ online \in BOOLEAN
    /\ mobileBroadbandCon \in Connections
    /\ processCleaned \in BOOLEAN
    /\ losses \in 0 .. MaxLosses /\ signals \in 0 .. MaxSignals
    /\ failures \in 0 .. MaxFailures /\ strays \in 0 .. MaxStrays

Init ==
    /\ pc = "stamp"
    /\ waitInterval = Reconnect
    /\ since \in FirstGaps
    /\ gap = 0
    /\ wvdial = NoChild
    /\ dialers = {} /\ hungup = {}
    /\ wwan = TRUE
    /\ online \in BOOLEAN
    /\ mobileBroadbandCon \in Connections
    /\ processCleaned = FALSE
    /\ losses = 0 /\ signals = 0 /\ failures = 0 /\ strays = 0

\* A signal ends a blocking call.
Signal ==
    /\ signals < MaxSignals /\ signals' = signals + 1
    /\ UNCHANGED <<losses, failures, strays>>

\* The fork in the constructor of spawn fails.
ForkFails ==
    /\ failures < MaxFailures /\ failures' = failures + 1
    /\ UNCHANGED <<losses, signals, strays>>

\* A call takes some time.
TakesTime == since' \in {x \in Seconds : x >= since}

-----------------------------------------------------------------------------
\* previousCheckTime = presentCheckTime; time(&presentCheckTime)
Stamp ==
    /\ pc = "stamp"
    /\ gap' = since
    /\ since' = 0
    /\ pc' = "sleep"
    /\ UNCHANGED <<waitInterval, dialing, wwan, online, mobileBroadbandCon, processCleaned, faults>>

\* Mutant of Slept: the thread sleeps a second less.
SleptShort == IF waitInterval = 0 THEN 0 ELSE waitInterval - 1

\* The seconds that sleep(waitInterval) takes.
Slept == waitInterval

\* sleep(waitInterval), which a signal cuts short.
Sleep ==
    /\ pc = "sleep"
    /\ \/ since' = Slept /\ UNCHANGED faults
       \/ Signal /\ since' \in {x \in Seconds : x < waitInterval}
    /\ pc' = "test"
    /\ UNCHANGED <<waitInterval, gap, dialing, wwan, online, mobileBroadbandCon, processCleaned>>

\* if (waitInterval = presentCheckTime - previousCheckTime >= reconnectDuration):
\* waitInterval becomes 1 and then reconnectDuration, or it becomes 0.
\* poke() takes its time.
Test ==
    /\ pc = "test"
    /\ IF gap >= Reconnect
       THEN /\ waitInterval' = Reconnect
            /\ TakesTime
            /\ pc' = CASE online \/ mobileBroadbandCon = "none" -> "stamp"
                       [] ~online /\ mobileBroadbandCon = "wvdial" -> "dial"
                       [] OTHER -> "up"
       ELSE /\ waitInterval' = 0
            /\ pc' = "stamp"
            /\ UNCHANGED since
    /\ UNCHANGED <<gap, dialing, wwan, online, mobileBroadbandCon, processCleaned, faults>>

\* A dial-up attempt may bring the network up.
MayConnect == online' \in {online, TRUE}

\* Mutants of ToHangUp: no signal is sent; a wvdial that has ended counts as
\* one that is being hung up.
ToHangUpNone == {}
ToHangUpDead == {wvdial}

\* kill(wvdial->cpid, SIGTERM): whom it reaches
ToHangUp == {wvdial} \cap dialers

\* if (wvdial) ..
Hangup ==
    /\ pc = "dial"
    /\ wvdial \in Children
    /\ hungup' = hungup \cup ToHangUp
    /\ TakesTime
    /\ pc' = "waitpid"
    /\ UNCHANGED <<waitInterval, gap, wvdial, dialers, wwan, online, mobileBroadbandCon,
                   processCleaned, faults>>

\* kill(-1, SIGTERM) reaches every process, the root process of the daemon too,
\* whose end ends its first child.
HangupAll ==
    /\ pc = "dial"
    /\ wvdial = Failed
    /\ hungup' = dialers
    /\ pc' = "gone"
    /\ UNCHANGED <<clock, wvdial, dialers, wwan, online, mobileBroadbandCon,
                   processCleaned, faults>>

\* Mutant of HungUp: the thread does not wait for the old wvdial.
HungUpAtOnce == TRUE

\* The old wvdial has ended.
HungUp == wvdial \notin dialers

\* waitpid(wvdial->cpid, NULL, WUNTRACED); delete wvdial
WaitDialer ==
    /\ pc = "waitpid"
    /\ \/ HungUp /\ UNCHANGED faults
       \/ Signal
    /\ pc' = "redial"
    /\ UNCHANGED <<clock, dialing, wwan, online, mobileBroadbandCon, processCleaned>>

\* What follows a fork that has failed: the constructor waits for -1, that is for
\* whichever child ends first, perhaps for ever, or does not wait.
AfterFailure(waits, next) == IF waits THEN {next, "stuck"} ELSE {next}

\* wvdial = new spawn("wvdial", ..): also the first time, after 40 seconds.
\* if (block || spawn::processCleaned)
Dial ==
    /\ pc = "redial" \/ (pc = "dial" /\ wvdial = NoChild)
    /\ \/ /\ \E c \in Children \ {wvdial} :
                wvdial' = c /\ dialers' = dialers \cup {c}
          /\ pc' = IF processCleaned THEN "waiting" ELSE "stamp"
          /\ MayConnect
          /\ UNCHANGED faults
       \/ /\ ForkFails
          /\ wvdial' = Failed
          /\ pc' \in AfterFailure(processCleaned, "stamp")
          /\ UNCHANGED <<dialers, online>>
    /\ processCleaned' = FALSE
    /\ TakesTime
    /\ UNCHANGED <<waitInterval, gap, hungup, wwan, mobileBroadbandCon>>

\* waitpid(this->cpid, ..) of the constructor
WaitSpawned ==
    /\ pc = "waiting"
    /\ \/ HungUp /\ UNCHANGED faults
       \/ Signal
    /\ TakesTime
    /\ pc' = "stamp"
    /\ UNCHANGED <<waitInterval, gap, dialing, wwan, online, mobileBroadbandCon, processCleaned>>

-----------------------------------------------------------------------------
(* nmcli; each command is run to its end by a blocking spawn               *)

\* nmcli con up: the thread goes on to s if it succeeds, else to f.  If the fork
\* fails the answer is that of another child.
ConUp(at, s, f) ==
    /\ pc = at
    /\ \/ /\ MayConnect
          /\ \E ok \in BOOLEAN : (ok => wwan) /\ pc' = IF ok THEN s ELSE f
          /\ UNCHANGED faults
       \/ /\ ForkFails
          /\ pc' \in AfterFailure(TRUE, s) \cup {f}
          /\ UNCHANGED online
    /\ processCleaned' = FALSE
    /\ TakesTime
    /\ UNCHANGED <<waitInterval, gap, dialing, wwan, mobileBroadbandCon>>

Up  == ConUp("up", "stamp", "up2")
Up2 == ConUp("up2", "stamp", "off")

\* nmcli nm wwan off, nmcli nm wwan on
Switch(at, value, next) ==
    /\ pc = at
    /\ \/ wwan' = value /\ pc' = next /\ UNCHANGED faults
       \/ ForkFails /\ pc' \in AfterFailure(TRUE, next) /\ UNCHANGED wwan
    /\ processCleaned' = FALSE
    /\ TakesTime
    /\ UNCHANGED <<waitInterval, gap, dialing, online, mobileBroadbandCon>>

\* Mutant of WwanOn: the radio stays off.
WwanOnForgets == Switch("on", FALSE, "stamp")

\* disableCon
WwanOff == Switch("off", FALSE, "on")

\* enableCon
WwanOn == Switch("on", TRUE, "stamp")

-----------------------------------------------------------------------------
(* Outside                                                                 *)

\* A wvdial ends: after SIGTERM, or with the connection.
DialerEnds(c) ==
    /\ c \in dialers
    /\ dialers' = dialers \ {c}
    /\ hungup' = hungup \ {c}
    /\ UNCHANGED <<pc, clock, wvdial, wwan, online, mobileBroadbandCon, processCleaned, faults>>

GoesDown ==
    /\ online
    /\ losses < MaxLosses
    /\ losses' = losses + 1
    /\ online' = FALSE
    /\ UNCHANGED <<pc, clock, dialing, wwan, mobileBroadbandCon, processCleaned,
                   signals, failures, strays>>

\* The handler of the main thread reaps a child that is in no processMap.
ReapsStray ==
    /\ strays < MaxStrays
    /\ strays' = strays + 1
    /\ processCleaned' = TRUE
    /\ UNCHANGED <<pc, clock, dialing, wwan, online, mobileBroadbandCon,
                   losses, signals, failures>>

Thread ==
    \/ Stamp \/ Sleep \/ Test \/ Hangup \/ HangupAll \/ WaitDialer \/ Dial \/ WaitSpawned
    \/ Up \/ Up2 \/ WwanOff \/ WwanOn

Next == Thread \/ (\E c \in Children : DialerEnds(c)) \/ GoesDown \/ ReapsStray

\* The thread is scheduled and SIGTERM ends wvdial.
Spec == Init /\ [][Next]_vars /\ WF_vars(Thread)
             /\ \A c \in Children : WF_vars(c \in hungup /\ DialerEnds(c))

-----------------------------------------------------------------------------
\* While the network is down the thread dials again and again: the timer of
\* the loop never stalls, unless a signal has once cut a wait short, or the
\* thread is held in a constructor or was killed by its own signal.  (Holds if
\* the uninitialised times differ by reconnect-duration at least.)
DialsWhileDown ==
    []<>(online \/ pc \in {"dial", "up"} \cup Held \/ mobileBroadbandCon = "none" \/ signals > 0)

\* The thread comes back to its timer whatever signals reach it: it waits for
\* no wvdial that it has not hung up, but for the one that a constructor waits
\* for by mistake; and a failed fork alone can stop it for good.
KeepsProbing == []<>(pc \in {"stamp", "waiting"} \/ (failures > 0 /\ pc \in Held))

\* The modem is never dialled by two wvdials at a time, unless a signal has
\* once cut a wait short.
OneDialer == signals = 0 => Cardinality(dialers) <= 1

\* A radio that was switched off is switched on again before the next probe,
\* whatever nmcli answers, unless a fork has failed.
WwanRestored == pc \in {"stamp", "sleep", "test"} /\ failures = 0 => wwan
=============================================================================
