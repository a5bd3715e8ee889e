------------------------------- MODULE Reaper --------------------------------
(***************************************************************************)
(* How the polling process starts ffmpeg, kills it, and learns that it has *)
(* ended: the constructor of class spawn (src/mystdlib.cpp), the SIGCHLD   *)
(* handler (signalHandler), csList::stopCam and csList::setCamState        *)
(* (src/main.cpp), one action per statement that touches what the handler  *)
(* also touches.  The handler runs on top of whichever thread receives the *)
(* signal, between any two of that thread's statements.                    *)
(*                                                                         *)
(* Bounds: MaxPid processes are started, then the main thread stops at     *)
(* Begin.  A pid is never handed out twice.  Left out: pipes, exec and the *)
(* command line, fork failure, and SIGCONT reports of waitpid.             *)
(***************************************************************************)
EXTENDS Naturals, FiniteSets

CONSTANTS
    Cams,            \* cameras in the table; the table itself does not change
    MaxPid,          \* number of processes the kernel starts
    Main, Gps,       \* the thread of run() and the thread of gpsLocationUpdater
    Threads,         \* the threads that exist
    UserSignals,     \* another program may send SIGUSR1
    Inherits         \* what processCleaned may be when the first child forks

ASSUME ThreadsAssumption == Main # Gps /\ Main \in Threads /\ Threads \subseteq {Main, Gps}
ASSUME CamAssumption == "no camera" \notin Cams
ASSUME PidAssumption == MaxPid \in Nat \ {0}
ASSUME FlagAssumption == UserSignals \in BOOLEAN /\ Inherits \subseteq BOOLEAN

Pids  == 1 .. MaxPid
NoPid == 0           \* the pid of an entry whose ffmpeg was never started
NoCam == "no camera"

VARIABLES
    \* the threads
    pc,              \* pc[t]: the next statement of thread t
    cam,             \* the camera setCamState works for
    cur,             \* cur[t]: the child whose spawn object t is constructing
    \* the memory of the process
    pid,             \* pid[c]: csl[..].pid
    registered,      \* the keys of processMap
    hooked,          \* the children whose spawn object has its onStopHandler
    stops,           \* stops[p]: calls of the stop handler of p (2: or more)
    processCleaned,  \* spawn::processCleaned
    pkilled,         \* the flag that stopCam spins on
    \* the signal handler
    hpc,             \* hpc[t]: where the handler is on thread t
    hcur,            \* hcur[t]: the pid it has reaped
    \* the kernel
    proc,            \* proc[p]: the state of process p
    doomed,          \* the processes that were sent SIGKILL
    owner,           \* owner[p]: the camera p has open, or NoCam
    lastPid,         \* the last pid handed out
    sigchld,         \* SIGCHLD is pending (pending signals coalesce)
    crashed,         \* the process died of a wild call or a double free
    inherited        \* processCleaned as this process got it by fork

threadVars == <<pc, cam, cur>>
spawnVars  == <<pid, registered, hooked>>
handlerVars == <<hpc, hcur>>
kernelVars == <<proc, doomed, owner, lastPid, sigchld>>
vars == <<threadVars, spawnVars, stops, processCleaned, pkilled, handlerVars,
          kernelVars, crashed, inherited>>

MainSteps  == {"idle", "stat", "arm", "kill", "spin", "assign"}
SpawnSteps == {"fork", "register", "sethandler", "check", "waitpid", "callstop"}
HandlerSteps == {"none", "reap", "lookup", "flag", "call", "wake"}

TypeOK ==
    /\ pc \in [Threads -> MainSteps \cup SpawnSteps \cup {"done"}]
    /\ cam \in Cams \cup {NoCam}
    /\ cur \in [Threads -> Pids \cup {NoPid}]
    /\ pid \in [Cams -> Pids \cup {NoPid}]
    /\ registered \subseteq Pids
    /\ hooked \subseteq Pids
    /\ stops \in [Pids -> 0..2]
    /\ processCleaned \in BOOLEAN
    /\ pkilled \in BOOLEAN
    /\ hpc \in [Threads -> HandlerSteps]
    /\ hcur \in [Threads -> Pids \cup {NoPid}]
    /\ proc \in [Pids -> {"unborn", "running", "zombie", "reaped"}]
    /\ doomed \subseteq Pids
    /\ owner \in [Pids -> Cams \cup {NoCam}]
    /\ lastPid \in 0 .. MaxPid
    /\ sigchld \in BOOLEAN
    /\ crashed \in BOOLEAN
    /\ inherited \in BOOLEAN

Init ==
    /\ pc = [t \in Threads |-> IF t = Main THEN "idle" ELSE "fork"]
    /\ cam = NoCam
    /\ cur = [t \in Threads |-> NoPid]
    /\ pid = [c \in Cams |-> NoPid]
    /\ registered = {}
    /\ hooked = {}
    /\ stops = [p \in Pids |-> 0]
    /\ inherited \in Inherits
    /\ processCleaned = inherited
    /\ pkilled = TRUE
    /\ hpc = [t \in Threads |-> "none"]
    /\ hcur = [t \in Threads |-> NoPid]
    /\ proc = [p \in Pids |-> "unborn"]
    /\ doomed = {}
    /\ owner = [p \in Pids |-> NoCam]
    /\ lastPid = 0
    /\ sigchld = FALSE
    /\ crashed = FALSE

\* Thread t is at statement s and no handler runs on top of it.
At(t, s) == ~crashed /\ hpc[t] = "none" /\ pc[t] = s

\* The handler on top of thread t is at statement s.
HandlerAt(t, s) == ~crashed /\ hpc[t] = s

Goto(t, s) == pc' = [pc EXCEPT ![t] = s]

HandlerGoto(t, s) == hpc' = [hpc EXCEPT ![t] = s]

\* stat("/proc/<pid>") succeeds: the process runs or has not been reaped.
InProc(p) == p \in Pids /\ proc[p] \in {"running", "zombie"}

-----------------------------------------------------------------------------
(* csList::setCamState and csList::stopCam, on the main thread             *)

\* setCamState(c) finds a new state to apply and calls stopCam.
Begin(c) ==
    /\ At(Main, "idle")
    /\ lastPid < MaxPid
    /\ cam' = c
    /\ Goto(Main, "stat")
    /\ UNCHANGED <<cur, spawnVars, stops, processCleaned, pkilled, handlerVars,
                   kernelVars, crashed, inherited>>

\* if (stat(proc.c_str(), &ptr) != -1)
Stat ==
    /\ At(Main, "stat")
    /\ Goto(Main, IF InProc(pid[cam]) THEN "arm" ELSE "fork")
    /\ UNCHANGED <<cam, cur, spawnVars, stops, processCleaned, pkilled,
                   handlerVars, kernelVars, crashed, inherited>>

\* Mutant of Arm: the flag is not cleared before the kill.
ArmForgets ==
    /\ At(Main, "arm")
    /\ Goto(Main, "kill")
    /\ UNCHANGED <<cam, cur, spawnVars, stops, processCleaned, pkilled,
                   handlerVars, kernelVars, crashed, inherited>>

\* pkilled = false
Arm ==
    /\ At(Main, "arm")
    /\ pkilled' = FALSE
    /\ Goto(Main, "kill")
    /\ UNCHANGED <<cam, cur, spawnVars, stops, processCleaned, handlerVars,
                   kernelVars, crashed, inherited>>

\* kill(cs.pid, SIGKILL): no effect on a process that has already exited.
Kill ==
    /\ At(Main, "kill")
    /\ doomed' = IF proc[pid[cam]] = "running" THEN doomed \cup {pid[cam]} ELSE doomed
    /\ Goto(Main, "spin")
    /\ UNCHANGED <<cam, cur, spawnVars, stops, processCleaned, pkilled,
                   handlerVars, proc, owner, lastPid, sigchld, crashed, inherited>>

\* while (!pkilled);
SpinEnds ==
    /\ At(Main, "spin")
    /\ pkilled
    /\ Goto(Main, "fork")
    /\ UNCHANGED <<cam, cur, spawnVars, stops, processCleaned, pkilled,
                   handlerVars, kernelVars, crashed, inherited>>

\* Mutant of StoredPids: the pid goes to the local copy cs, not to csl.
StoredPidsOfCopy == {pid[cam]}

\* Mutant of StoredPids: freed memory holds any number at all.
StoredPidsRubbish == IF stops[cur[Main]] > 0 THEN {MaxPid + 1} ELSE {cur[Main]}

\* csl[csIndex].pid = process->cpid, which is freed memory when the stop
\* handler, which deletes the object, has already run.
StoredPids == {cur[Main]} \cup (IF stops[cur[Main]] > 0 THEN {NoPid} ELSE {})

\* The last statements of setCamState.
Assign ==
    /\ At(Main, "assign")
    /\ \E p \in StoredPids : pid' = [pid EXCEPT ![cam] = p]
    /\ cam' = NoCam
    /\ cur' = [cur EXCEPT ![Main] = NoPid]
    /\ Goto(Main, "idle")
    /\ UNCHANGED <<registered, hooked, stops, processCleaned, pkilled,
                   handlerVars, kernelVars, crashed, inherited>>

-----------------------------------------------------------------------------
(* The constructor of spawn, on either thread.  The main thread starts     *)
(* ffmpeg with block = false; the gps thread starts stty, once, with       *)
(* block = true and the default stop handler.                              *)

\* this->cpid = fork()
Fork(t) ==
    /\ At(t, "fork")
    /\ lastPid < MaxPid
    /\ lastPid' = lastPid + 1
    /\ proc' = [proc EXCEPT ![lastPid + 1] = "running"]
    /\ owner' = [owner EXCEPT ![lastPid + 1] = IF t = Main THEN cam ELSE NoCam]
    /\ cur' = [cur EXCEPT ![t] = lastPid + 1]
    /\ Goto(t, "register")
    /\ UNCHANGED <<cam, spawnVars, stops, processCleaned, pkilled, handlerVars,
                   doomed, sigchld, crashed, inherited>>

\* processMap[this->cpid] = this
Register(t) ==
    /\ At(t, "register")
    /\ registered' = registered \cup {cur[t]}
    /\ Goto(t, "sethandler")
    /\ UNCHANGED <<cam, cur, pid, hooked, stops, processCleaned, pkilled,
                   handlerVars, kernelVars, crashed, inherited>>

\* this->onStopHandler = onStopHandler
SetHandler(t) ==
    /\ At(t, "sethandler")
    /\ hooked' = hooked \cup {cur[t]}
    /\ Goto(t, "check")
    /\ UNCHANGED <<cam, cur, pid, registered, stops, processCleaned, pkilled,
                   handlerVars, kernelVars, crashed, inherited>>

\* Where the constructor returns to.
AfterSpawn(t) == IF t = Main THEN "assign" ELSE "done"

\* Mutants of MustWait: block is always set; processCleaned is not looked at.
MustWaitAlways(t) == TRUE
MustWaitIfBlocking(t) == t # Main

\* block || spawn::processCleaned
MustWait(t) == processCleaned \/ t # Main

\* Mutant of Check: processCleaned is not reset.
CheckNoReset(t) ==
    /\ At(t, "check")
    /\ Goto(t, IF MustWait(t) THEN "waitpid" ELSE AfterSpawn(t))
    /\ UNCHANGED <<cam, cur, spawnVars, stops, processCleaned, pkilled,
                   handlerVars, kernelVars, crashed, inherited>>

\* if (block || spawn::processCleaned) spawn::processCleaned = false
Check(t) ==
    /\ At(t, "check")
    /\ IF MustWait(t)
       THEN processCleaned' = FALSE /\ Goto(t, "waitpid")
       ELSE UNCHANGED processCleaned /\ Goto(t, AfterSpawn(t))
    /\ UNCHANGED <<cam, cur, spawnVars, stops, pkilled, handlerVars, kernelVars,
                   crashed, inherited>>

\* waitpid(this->cpid, ..) returns: the child has exited and is reaped here,
\* or it was reaped before (ECHILD).  A signal also ends it: see Wake, Usr1.
WaitReturns(t) ==
    /\ At(t, "waitpid")
    /\ proc[cur[t]] # "running"
    /\ proc' = [proc EXCEPT ![cur[t]] = "reaped"]
    /\ Goto(t, "callstop")
    /\ UNCHANGED <<cam, cur, spawnVars, stops, processCleaned, pkilled,
                   handlerVars, doomed, owner, lastPid, sigchld, crashed, inherited>>

\* One more call of the stop handler of p.
Stopped(p) == stops' = [stops EXCEPT ![p] = IF @ = 2 THEN 2 ELSE @ + 1]

\* onStopHandler(this): ffmpegOnStopHandler deletes the object; to delete it
\* a second time may end the process.
CallStop(t) ==
    /\ At(t, "callstop")
    /\ Stopped(cur[t])
    /\ \/ UNCHANGED crashed
       \/ stops[cur[t]] > 0 /\ crashed' = TRUE
    /\ Goto(t, AfterSpawn(t))
    /\ UNCHANGED <<cam, cur, spawnVars, processCleaned, pkilled, handlerVars,
                   kernelVars, inherited>>

-----------------------------------------------------------------------------
(* signalHandler                                                           *)

\* The kernel delivers SIGCHLD to any thread that is not already handling it.
Deliver(t) ==
    /\ HandlerAt(t, "none")
    /\ sigchld
    /\ sigchld' = FALSE
    /\ HandlerGoto(t, "reap")
    /\ UNCHANGED <<threadVars, spawnVars, stops, processCleaned, pkilled, hcur,
                   proc, doomed, owner, lastPid, crashed, inherited>>

\* waitpid(-1, NULL, WNOHANG | WCONTINUED) > 0: some exited child.
Reap(t, p) ==
    /\ HandlerAt(t, "reap")
    /\ proc[p] = "zombie"
    /\ proc' = [proc EXCEPT ![p] = "reaped"]
    /\ hcur' = [hcur EXCEPT ![t] = p]
    /\ HandlerGoto(t, "lookup")
    /\ UNCHANGED <<threadVars, spawnVars, stops, processCleaned, pkilled,
                   doomed, owner, lastPid, sigchld, crashed, inherited>>

\* waitpid returns 0 or -1: the loop ends.
ReapNone(t) ==
    /\ HandlerAt(t, "reap")
    /\ \A p \in Pids : proc[p] # "zombie"
    /\ HandlerGoto(t, "wake")
    /\ UNCHANGED <<threadVars, spawnVars, stops, processCleaned, pkilled, hcur,
                   kernelVars, crashed, inherited>>

\* spawn *process = processMap[pid]
Lookup(t) ==
    /\ HandlerAt(t, "lookup")
    /\ HandlerGoto(t, IF hcur[t] \in registered THEN "call" ELSE "flag")
    /\ UNCHANGED <<threadVars, spawnVars, stops, processCleaned, pkilled, hcur,
                   kernelVars, crashed, inherited>>

\* spawn::processCleaned = true
Flag(t) ==
    /\ HandlerAt(t, "flag")
    /\ processCleaned' = TRUE
    /\ HandlerGoto(t, "reap")
    /\ UNCHANGED <<threadVars, spawnVars, stops, pkilled, hcur, kernelVars, crashed,
                   inherited>>

\* Mutant of AfterReport: one child per signal, if for while.
AfterReportIf == "wake"

\* while (..): the handler looks for a further child.
AfterReport == "reap"

\* process->onStopHandler(process).  Before SetHandler the member holds what
\* the heap block held before: the handler of a deleted spawn, or rubbish; a
\* deleted object is used, and freed, a second time.
Call(t) ==
    /\ HandlerAt(t, "call")
    /\ \/ /\ Stopped(hcur[t])
          /\ HandlerGoto(t, AfterReport)
          /\ UNCHANGED crashed
       \/ /\ hcur[t] \notin hooked \/ stops[hcur[t]] > 0
          /\ crashed' = TRUE
          /\ UNCHANGED <<stops, hpc>>
    /\ UNCHANGED <<threadVars, spawnVars, processCleaned, pkilled, hcur, kernelVars,
                   inherited>>

\* A signal without SA_RESTART ends a blocking waitpid of the thread.
Interrupted(t) == IF pc[t] = "waitpid" THEN Goto(t, "callstop") ELSE UNCHANGED pc

\* Mutant of Wake: pkilled is set for SIGUSR1 only.
WakeSilent(t) ==
    /\ HandlerAt(t, "wake")
    /\ HandlerGoto(t, "none")
    /\ Interrupted(t)
    /\ UNCHANGED <<cam, cur, spawnVars, stops, processCleaned, pkilled, hcur,
                   kernelVars, crashed, inherited>>

\* pkilled = true, and the handler returns.
Wake(t) ==
    /\ HandlerAt(t, "wake")
    /\ pkilled' = TRUE
    /\ HandlerGoto(t, "none")
    /\ Interrupted(t)
    /\ UNCHANGED <<cam, cur, spawnVars, stops, processCleaned, hcur, kernelVars,
                   crashed, inherited>>

\* SIGUSR1, which may arrive on top of the handler of SIGCHLD.
Usr1(t) ==
    /\ UserSignals
    /\ ~crashed
    /\ pkilled' = TRUE
    /\ IF hpc[t] = "none" THEN Interrupted(t) ELSE UNCHANGED pc
    /\ UNCHANGED <<cam, cur, spawnVars, stops, processCleaned, handlerVars,
                   kernelVars, crashed, inherited>>

-----------------------------------------------------------------------------
\* The kernel carries out a SIGKILL, or the process ends of its own accord.
Exit(p) ==
    /\ ~crashed
    /\ proc[p] = "running"
    /\ proc' = [proc EXCEPT ![p] = "zombie"]
    /\ sigchld' = TRUE
    /\ UNCHANGED <<threadVars, spawnVars, stops, processCleaned, pkilled,
                   handlerVars, doomed, owner, lastPid, crashed, inherited>>

StopCam == Stat \/ Arm \/ Kill \/ SpinEnds

Constructor(t) ==
    \/ Fork(t) \/ Register(t) \/ SetHandler(t) \/ Check(t)
    \/ WaitReturns(t) \/ CallStop(t)

Handler(t) ==
    \/ \E p \in Pids : Reap(t, p)
    \/ ReapNone(t) \/ Lookup(t) \/ Flag(t) \/ Call(t) \/ Wake(t)

Next ==
    \/ \E c \in Cams : Begin(c)
    \/ StopCam
    \/ Assign
    \/ \E t \in Threads : Constructor(t) \/ Handler(t) \/ Deliver(t) \/ Usr1(t)
    \/ \E p \in Pids : Exit(p)

\* Threads are scheduled, pending signals are delivered, SIGKILL kills.
\* Nothing forces run() to ask for a state change or ffmpeg to end.
Fairness ==
    /\ WF_vars(StopCam) /\ WF_vars(Assign)
    /\ \A t \in Threads : WF_vars(Constructor(t)) /\ WF_vars(Handler(t))
    /\ WF_vars(\E t \in Threads : Deliver(t))
    /\ \A p \in Pids : WF_vars(p \in doomed /\ Exit(p))

Spec == Init /\ [][Next]_vars /\ Fairness

-----------------------------------------------------------------------------
(* Safety                                                                  *)

\* The poller is forked by the first child, whose handler raises
\* processCleaned for each child it reaps that is in no processMap.  A poller
\* that inherits the flag raised waits for the first ffmpeg it starts.
Misled(p) == inherited /\ p = 1

\* The stop handler of an ffmpeg runs at most once: it deletes the spawn
\* object (ffmpegOnStopHandler), so a second call, from the constructor after
\* the one of the signal handler, would be a double free.  (Not so for an
\* ffmpeg that an inherited flag makes the constructor wait for: there the
\* handler's call ends the waitpid, and the constructor calls again.)
StopAtMostOnce ==
    \A p \in Pids : owner[p] # NoCam /\ ~Misled(p) => stops[p] <= 1

\* The polling loop blocks in waitpid for no ffmpeg that still runs but the
\* one an inherited flag makes it wait for: processCleaned, raised for a
\* child that was reaped before it was registered, is seen by the
\* constructor of that child and of no other.
NeverWaitsForLiveChild ==
    pc[Main] = "waitpid" => proc[cur[Main]] # "running" \/ Misled(cur[Main])

\* No ffmpeg escapes the camera table: each one that runs, was not killed and
\* whose object was not deleted is the one whose pid the table holds for its
\* camera, or setCamState is still starting it.  (Only a SIGUSR1 that ends
\* the wait for a misled ffmpeg deletes the object of one that runs.)
NoStray ==
    \A p \in Pids :
        (proc[p] = "running" /\ p \notin doomed /\ owner[p] # NoCam /\ stops[p] = 0)
            => pid[owner[p]] = p \/ p = cur[Main]

\* Some ffmpeg has ended without being killed.
SelfExited ==
    \E p \in Pids : owner[p] # NoCam /\ p \notin doomed /\ proc[p] \in {"zombie", "reaped"}

\* A camera device is opened by one ffmpeg at a time: stopCam returns only
\* when the old one is gone (Video4Linux refuses a second reader).  (Holds as
\* long as no signal but that of stopCam's own kill sets pkilled.)
DeviceExclusive ==
    SelfExited \/
    \A p, q \in Pids :
        (proc[p] = "running" /\ proc[q] = "running" /\ owner[p] = owner[q] /\ owner[p] # NoCam)
            => p = q

-----------------------------------------------------------------------------
(* Liveness, and the abstract specification                                *)

\* stopCam returns: the SIGCHLD of the process it has killed ends its spin.
\* (Holds as long as no ffmpeg ends by itself.)
StopCamReturns == pc[Main] = "spin" ~> (pc[Main] = "fork" \/ SelfExited \/ crashed)

\* No exited child stays a zombie.
ZombiesReaped == \A p \in Pids : proc[p] = "zombie" ~> (proc[p] = "reaped" \/ crashed)

\* The main thread always comes back to the polling loop.
PollsForever == []<>(pc[Main] = "idle" \/ crashed)

Life == [p \in Pids |->
            CASE stops[p] > 0 -> "reported"
              [] stops[p] = 0 /\ proc[p] \in {"unborn", "running"} -> proc[p]
              [] OTHER -> "exited"]

Child == INSTANCE ChildLife WITH Pids <- Pids, life <- Life, down <- crashed

\* Every ffmpeg that ends is reported to its stop handler, exactly once and
\* not before it has ended, however fork, exit, signal and registration
\* interleave.
ReportsEveryChild == Child!Spec
=============================================================================
