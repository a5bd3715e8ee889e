--------------------------- MODULE Reaper_proofs -----------------------------
(***************************************************************************)
(* Proofs about Reaper for a process whose only thread is the main one     *)
(* (gpsLocationUpdater has returned, as it does when there is no gps       *)
(* device), for any set of cameras and any number of processes, whether or *)
(* not other programs send SIGUSR1.                                        *)
(***************************************************************************)
EXTENDS Reaper, TLAPS

q == cur[Main]       \* the child under construction, or NoPid
h == hpc[Main]       \* where the handler is
r == hcur[Main]      \* the child it has reaped last

Constructing == {"register", "sethandler", "check", "waitpid", "callstop", "assign"}

\* The handler has reaped p and has not reported it yet.
Pending(p) == h \in {"lookup", "flag", "call"} /\ r = p

\* What the processes are: numbered in the order of the forks, all of them
\* ffmpegs, all but the newest one registered with their handler.
PidOrder ==
    /\ \A p \in Pids : proc[p] = "unborn" <=> p > lastPid
    /\ \A p \in Pids : owner[p] = NoCam <=> p > lastPid
    /\ \A p \in Pids : p \in registered <=> (p <= lastPid /\ ~(p = q /\ pc[Main] = "register"))
    /\ \A p \in Pids : p \in hooked <=> (p \in registered /\ ~(p = q /\ pc[Main] = "sethandler"))

\* What the program counter says of the other variables.
Position ==
    /\ pc[Main] # "done"
    /\ pc[Main] = "idle" <=> cam = NoCam
    /\ IF pc[Main] \in Constructing
       THEN q = lastPid /\ q \in Pids /\ owner[q] = cam
       ELSE q = NoPid
    /\ pc[Main] \in {"arm", "kill"} => pid[cam] \in Pids

\* A reported child was reaped; a child reaped but not yet reported is in the
\* hands of exactly one of handler, processCleaned and constructor.  Only of
\* the child that an inherited flag misleads the constructor about is nothing
\* of this true.
Reports ==
    /\ \A p \in Pids : ~Misled(p) => stops[p] <= 1 /\ (stops[p] > 0 => proc[p] = "reaped")
    /\ h \in {"lookup", "flag", "call"} =>
           r \in Pids /\ proc[r] = "reaped" /\ (stops[r] = 0 \/ Misled(r))
    /\ h = "flag" => r = q /\ pc[Main] = "register"
    /\ h = "call" => r \in registered
    /\ processCleaned =>
           pc[Main] \in {"register", "sethandler", "check"} \/ (lastPid = 0 /\ inherited)
    /\ (processCleaned /\ lastPid > 0) \/ pc[Main] \in {"waitpid", "callstop"} =>
           Misled(q) \/ (proc[q] = "reaped" /\ stops[q] = 0 /\ ~Pending(q))

\* No foreign signal ends the wait for a child that still runs.
Calm == ~UserSignals \/ ~inherited

\* Until a second child is started, every signal tells of the end of the
\* first, so that without foreign signals no child is reported before its end.
Told ==
    /\ lastPid <= 1 /\ (sigchld \/ h # "none") => proc[1] \in {"zombie", "reaped"}
    /\ lastPid <= 1 /\ h = "wake" => proc[1] = "reaped"
    /\ Calm => \A p \in Pids : stops[p] > 0 => proc[p] = "reaped"
    /\ Calm /\ pc[Main] = "callstop" => proc[q] = "reaped"

\* From the return of stopCam on, nothing that runs unkilled and unreported
\* has the camera open but the child under construction.
Vacated ==
    pc[Main] \in Constructing \cup {"spin", "fork"} =>
        \A p \in Pids :
            (proc[p] = "running" /\ p \notin doomed /\ owner[p] = cam /\ stops[p] = 0) => p = q

IInv == TypeOK /\ PidOrder /\ Position /\ Reports /\ Told /\ Vacated /\ NoStray

-----------------------------------------------------------------------------
\* The initial state satisfies the inductive invariant.
LEMMA InitInv ==
    ASSUME Threads = {Main}
    PROVE  Init => IInv
<1> SUFFICES ASSUME Init PROVE IInv
  OBVIOUS
<1> USE PidAssumption DEF Init, Pids, NoPid
<1>1. TypeOK
  <2>1. /\ pc \in [Threads -> MainSteps \cup SpawnSteps \cup {"done"}]
        /\ hpc \in [Threads -> HandlerSteps]
    BY DEF MainSteps, SpawnSteps, HandlerSteps
  <2>2. /\ stops \in [Pids -> 0..2]
        /\ proc \in [Pids -> {"unborn", "running", "zombie", "reaped"}]
        /\ owner \in [Pids -> Cams \cup {NoCam}]
        /\ lastPid \in 0 .. MaxPid
    OBVIOUS
  <2>3. /\ cur \in [Threads -> Pids \cup {NoPid}]
        /\ hcur \in [Threads -> Pids \cup {NoPid}]
        /\ pid \in [Cams -> Pids \cup {NoPid}]
    OBVIOUS
  <2>4. inherited \in BOOLEAN /\ processCleaned \in BOOLEAN
    BY FlagAssumption
  <2> QED  BY <2>1, <2>2, <2>3, <2>4 DEF TypeOK
<1>2. PidOrder
  BY DEF PidOrder, q
<1>3. Position
  BY DEF Position, Constructing, q
<1>4. Reports /\ Told
  BY DEF Reports, Told, Calm, Misled, h
<1>5. Vacated /\ NoStray
  BY DEF Vacated, NoStray, Constructing
<1> QED  BY <1>1, <1>2, <1>3, <1>4, <1>5 DEF IInv


\* What the steps of stopCam and setCamState preserve.
LEMMA MainStepInv ==
    ASSUME Threads = {Main}, IInv,
           (\E c \in Cams : Begin(c)) \/ StopCam \/ Assign
    PROVE  IInv'
<1> USE ThreadsAssumption, PidAssumption DEF IInv
<1> USE DEF At, Goto, threadVars, spawnVars, handlerVars, kernelVars, Pids, NoPid
<1>1. CASE \E c \in Cams : Begin(c)
  <2>1. TypeOK'
    BY <1>1 DEF TypeOK, MainSteps, SpawnSteps, HandlerSteps, Begin, Position
  <2>2. PidOrder'
    BY <1>1 DEF TypeOK, PidOrder, Position, Reports, Vacated, NoStray, q, h, r, Pending, Misled,
        Constructing, Begin
  <2>3. Position'
    BY <1>1, CamAssumption DEF TypeOK, Position, q, Constructing, NoCam, Begin
  <2>4. Reports'
    BY <1>1 DEF TypeOK, PidOrder, Position, Reports, Vacated, NoStray, q, h, r, Pending, Misled,
        Constructing, Begin
  <2>5. Vacated'
    BY <1>1 DEF TypeOK, PidOrder, Position, Reports, Vacated, NoStray, q, h, r, Pending, Misled,
        Constructing, Begin
  <2>6. NoStray'
    BY <1>1 DEF TypeOK, PidOrder, Position, Reports, Vacated, NoStray, q, h, r, Pending, Misled,
        Constructing, Begin
  <2>7. Told'
    BY <1>1 DEF TypeOK, PidOrder, Position, Reports, Told, Calm, q, h, r, Pending, Misled,
        Constructing, Begin
  <2> QED  BY <2>1, <2>2, <2>3, <2>4, <2>5, <2>6, <2>7
<1>2. CASE Stat
  <2>1. TypeOK'
    BY <1>2 DEF TypeOK, MainSteps, SpawnSteps, HandlerSteps, Stat, InProc, Position
  <2>2. PidOrder'
    BY <1>2 DEF TypeOK, PidOrder, Position, Reports, Vacated, NoStray, q, h, r, Pending, Misled,
        Constructing, Stat, InProc
  <2>3. Position'
    BY <1>2 DEF TypeOK, PidOrder, Position, Reports, Vacated, NoStray, q, h, r, Pending, Misled,
        Constructing, Stat, InProc
  <2>4. Reports'
    BY <1>2 DEF TypeOK, PidOrder, Position, Reports, Vacated, NoStray, q, h, r, Pending, Misled,
        Constructing, Stat, InProc
  <2>5. Vacated'
    BY <1>2 DEF TypeOK, PidOrder, Position, Reports, Vacated, NoStray, q, h, r, Pending, Misled,
        Constructing, Stat, InProc
  <2>6. NoStray'
    BY <1>2 DEF TypeOK, PidOrder, Position, Reports, Vacated, NoStray, q, h, r, Pending, Misled,
        Constructing, Stat, InProc
  <2>7. Told'
    BY <1>2 DEF TypeOK, PidOrder, Position, Reports, Told, Calm, q, h, r, Pending, Misled,
        Constructing, Stat, InProc
  <2> QED  BY <2>1, <2>2, <2>3, <2>4, <2>5, <2>6, <2>7
<1>3. CASE Arm
  <2>1. TypeOK'
    BY <1>3 DEF TypeOK, MainSteps, SpawnSteps, HandlerSteps, Arm, Position
  <2>2. PidOrder'
    BY <1>3 DEF TypeOK, PidOrder, Position, Reports, Vacated, NoStray, q, h, r, Pending, Misled,
        Constructing, Arm
  <2>3. Position'
    BY <1>3 DEF TypeOK, PidOrder, Position, Reports, Vacated, NoStray, q, h, r, Pending, Misled,
        Constructing, Arm
  <2>4. Reports'
    BY <1>3 DEF TypeOK, PidOrder, Position, Reports, Vacated, NoStray, q, h, r, Pending, Misled,
        Constructing, Arm
  <2>5. Vacated'
    BY <1>3 DEF TypeOK, PidOrder, Position, Reports, Vacated, NoStray, q, h, r, Pending, Misled,
        Constructing, Arm
  <2>6. NoStray'
    BY <1>3 DEF TypeOK, PidOrder, Position, Reports, Vacated, NoStray, q, h, r, Pending, Misled,
        Constructing, Arm
  <2>7. Told'
    BY <1>3 DEF TypeOK, PidOrder, Position, Reports, Told, Calm, q, h, r, Pending, Misled,
        Constructing, Arm
  <2> QED  BY <2>1, <2>2, <2>3, <2>4, <2>5, <2>6, <2>7
<1>4. CASE Kill
  <2>1. TypeOK'
    BY <1>4 DEF TypeOK, MainSteps, SpawnSteps, HandlerSteps, Kill, Position
  <2>2. PidOrder'
    BY <1>4 DEF TypeOK, PidOrder, Position, Reports, Vacated, NoStray, q, h, r, Pending, Misled,
        Constructing, Kill
  <2>3. Position'
    BY <1>4 DEF TypeOK, PidOrder, Position, Reports, Vacated, NoStray, q, h, r, Pending, Misled,
        Constructing, Kill
  <2>4. Reports'
    BY <1>4 DEF TypeOK, PidOrder, Position, Reports, Vacated, NoStray, q, h, r, Pending, Misled,
        Constructing, Kill
  <2>5. Vacated'
    BY <1>4 DEF TypeOK, PidOrder, Position, Reports, Vacated, NoStray, q, h, r, Pending, Misled,
        Constructing, Kill
  <2>6. NoStray'
    BY <1>4 DEF TypeOK, PidOrder, Position, Reports, Vacated, NoStray, q, h, r, Pending, Misled,
        Constructing, Kill
  <2>7. Told'
    BY <1>4 DEF TypeOK, PidOrder, Position, Reports, Told, Calm, q, h, r, Pending, Misled,
        Constructing, Kill
  <2> QED  BY <2>1, <2>2, <2>3, <2>4, <2>5, <2>6, <2>7
<1>5. CASE SpinEnds
  <2>1. TypeOK'
    BY <1>5 DEF TypeOK, MainSteps, SpawnSteps, HandlerSteps, SpinEnds, Position
  <2>2. PidOrder'
    BY <1>5 DEF TypeOK, PidOrder, Position, Reports, Vacated, NoStray, q, h, r, Pending, Misled,
        Constructing, SpinEnds
  <2>3. Position'
    BY <1>5 DEF TypeOK, PidOrder, Position, Reports, Vacated, NoStray, q, h, r, Pending, Misled,
        Constructing, SpinEnds
  <2>4. Reports'
    BY <1>5 DEF TypeOK, PidOrder, Position, Reports, Vacated, NoStray, q, h, r, Pending, Misled,
        Constructing, SpinEnds
  <2>5. Vacated'
    BY <1>5 DEF TypeOK, PidOrder, Position, Reports, Vacated, NoStray, q, h, r, Pending, Misled,
        Constructing, SpinEnds
  <2>6. NoStray'
    BY <1>5 DEF TypeOK, PidOrder, Position, Reports, Vacated, NoStray, q, h, r, Pending, Misled,
        Constructing, SpinEnds
  <2>7. Told'
    BY <1>5 DEF TypeOK, PidOrder, Position, Reports, Told, Calm, q, h, r, Pending, Misled,
        Constructing, SpinEnds
  <2> QED  BY <2>1, <2>2, <2>3, <2>4, <2>5, <2>6, <2>7
<1>6. CASE Assign
  <2>1. TypeOK'
    BY <1>6 DEF TypeOK, MainSteps, SpawnSteps, HandlerSteps, Assign, StoredPids, Position
  <2>2. PidOrder'
    BY <1>6 DEF TypeOK, PidOrder, Position, Reports, Vacated, NoStray, q, h, r, Pending, Misled,
        Constructing, Assign, StoredPids
  <2>3. Position'
    BY <1>6 DEF TypeOK, PidOrder, Position, Reports, Vacated, NoStray, q, h, r, Pending, Misled,
        Constructing, Assign, StoredPids
  <2>4. Reports'
    BY <1>6 DEF TypeOK, PidOrder, Position, Reports, Vacated, NoStray, q, h, r, Pending, Misled,
        Constructing, Assign, StoredPids
  <2>5. Vacated'
    BY <1>6 DEF TypeOK, PidOrder, Position, Reports, Vacated, NoStray, q, h, r, Pending, Misled,
        Constructing, Assign, StoredPids
  <2>6. NoStray'
    BY <1>6 DEF TypeOK, PidOrder, Position, Reports, Vacated, NoStray, q, h, r, Pending, Misled,
        Constructing, Assign, StoredPids
  <2>7. Told'
    BY <1>6 DEF TypeOK, PidOrder, Position, Reports, Told, Calm, q, h, r, Pending, Misled,
        Constructing, Assign, StoredPids
  <2> QED  BY <2>1, <2>2, <2>3, <2>4, <2>5, <2>6, <2>7
<1> QED  BY <1>1, <1>2, <1>3, <1>4, <1>5, <1>6 DEF StopCam

\* Calls of the stop handler are counted up to two.
LEMMA StoppedType ==
    ASSUME TypeOK, NEW p \in Pids, Stopped(p)
    PROVE  stops' \in [Pids -> 0..2]
<1>1. stops \in [Pids -> 0..2] /\ stops[p] \in 0..2
  BY DEF TypeOK
<1>2. PICK n \in 0..2 : n = IF stops[p] = 2 THEN 2 ELSE stops[p] + 1
  BY <1>1
<1>3. stops' = [stops EXCEPT ![p] = n]
  BY <1>2 DEF Stopped
<1> QED  BY <1>1, <1>3

\* What the steps of the constructor preserve.
LEMMA ConstructorInv ==
    ASSUME Threads = {Main}, IInv, Constructor(Main)
    PROVE  IInv'
<1> USE ThreadsAssumption, PidAssumption DEF IInv
<1> USE DEF At, Goto, threadVars, spawnVars, handlerVars, kernelVars, Pids, NoPid
<1>1. CASE Fork(Main)
  <2>1. TypeOK'
    BY <1>1 DEF TypeOK, MainSteps, SpawnSteps, HandlerSteps, Fork, Position
  <2>2. PidOrder'
    BY <1>1 DEF TypeOK, PidOrder, Position, Reports, Vacated, NoStray, q, h, r, Pending, Misled,
        Constructing, Fork
  <2>3. Position'
    BY <1>1 DEF TypeOK, PidOrder, Position, Reports, Vacated, NoStray, q, h, r, Pending, Misled,
        Constructing, Fork
  <2>4. Reports'
    BY <1>1 DEF TypeOK, PidOrder, Position, Reports, Vacated, NoStray, q, h, r, Pending, Misled,
        Constructing, Fork
  <2>5. Vacated'
    BY <1>1 DEF TypeOK, PidOrder, Position, Reports, Vacated, NoStray, q, h, r, Pending, Misled,
        Constructing, Fork
  <2>6. NoStray'
    BY <1>1 DEF TypeOK, PidOrder, Position, Reports, Vacated, NoStray, q, h, r, Pending, Misled,
        Constructing, Fork
  <2>7. Told'
    BY <1>1 DEF TypeOK, PidOrder, Position, Reports, Told, Calm, q, h, r, Pending, Misled,
        Constructing, Fork
  <2> QED  BY <2>1, <2>2, <2>3, <2>4, <2>5, <2>6, <2>7
<1>2. CASE Register(Main)
  <2>1. TypeOK'
    BY <1>2 DEF TypeOK, MainSteps, SpawnSteps, HandlerSteps, Register, Position, q,
        Constructing
  <2>2. PidOrder'
    BY <1>2 DEF TypeOK, PidOrder, Position, Reports, Vacated, NoStray, q, h, r, Pending, Misled,
        Constructing, Register
  <2>3. Position'
    BY <1>2 DEF TypeOK, PidOrder, Position, Reports, Vacated, NoStray, q, h, r, Pending, Misled,
        Constructing, Register
  <2>4. Reports'
    BY <1>2 DEF TypeOK, PidOrder, Position, Reports, Vacated, NoStray, q, h, r, Pending, Misled,
        Constructing, Register
  <2>5. Vacated'
    BY <1>2 DEF TypeOK, PidOrder, Position, Reports, Vacated, NoStray, q, h, r, Pending, Misled,
        Constructing, Register
  <2>6. NoStray'
    BY <1>2 DEF TypeOK, PidOrder, Position, Reports, Vacated, NoStray, q, h, r, Pending, Misled,
        Constructing, Register
  <2>7. Told'
    BY <1>2 DEF TypeOK, PidOrder, Position, Reports, Told, Calm, q, h, r, Pending, Misled,
        Constructing, Register
  <2> QED  BY <2>1, <2>2, <2>3, <2>4, <2>5, <2>6, <2>7
<1>3. CASE SetHandler(Main)
  <2>1. TypeOK'
    BY <1>3 DEF TypeOK, MainSteps, SpawnSteps, HandlerSteps, SetHandler, Position, q,
        Constructing
  <2>2. PidOrder'
    BY <1>3 DEF TypeOK, PidOrder, Position, Reports, Vacated, NoStray, q, h, r, Pending, Misled,
        Constructing, SetHandler
  <2>3. Position'
    BY <1>3 DEF TypeOK, PidOrder, Position, Reports, Vacated, NoStray, q, h, r, Pending, Misled,
        Constructing, SetHandler
  <2>4. Reports'
    BY <1>3 DEF TypeOK, PidOrder, Position, Reports, Vacated, NoStray, q, h, r, Pending, Misled,
        Constructing, SetHandler
  <2>5. Vacated'
    BY <1>3 DEF TypeOK, PidOrder, Position, Reports, Vacated, NoStray, q, h, r, Pending, Misled,
        Constructing, SetHandler
  <2>6. NoStray'
    BY <1>3 DEF TypeOK, PidOrder, Position, Reports, Vacated, NoStray, q, h, r, Pending, Misled,
        Constructing, SetHandler
  <2>7. Told'
    BY <1>3 DEF TypeOK, PidOrder, Position, Reports, Told, Calm, q, h, r, Pending, Misled,
        Constructing, SetHandler
  <2> QED  BY <2>1, <2>2, <2>3, <2>4, <2>5, <2>6, <2>7
<1>4. CASE Check(Main)
  <2>1. TypeOK'
    BY <1>4 DEF TypeOK, MainSteps, SpawnSteps, HandlerSteps, Check, MustWait, AfterSpawn, Position
  <2>2. PidOrder'
    BY <1>4 DEF TypeOK, PidOrder, Position, Reports, Vacated, NoStray, q, h, r, Pending, Misled,
        Constructing, Check, MustWait, AfterSpawn
  <2>3. Position'
    BY <1>4 DEF TypeOK, PidOrder, Position, Reports, Vacated, NoStray, q, h, r, Pending, Misled,
        Constructing, Check, MustWait, AfterSpawn
  <2>4. Reports'
    BY <1>4 DEF TypeOK, PidOrder, Position, Reports, Vacated, NoStray, q, h, r, Pending, Misled,
        Constructing, Check, MustWait, AfterSpawn
  <2>5. Vacated'
    BY <1>4 DEF TypeOK, PidOrder, Position, Reports, Vacated, NoStray, q, h, r, Pending, Misled,
        Constructing, Check, MustWait, AfterSpawn
  <2>6. NoStray'
    BY <1>4 DEF TypeOK, PidOrder, Position, Reports, Vacated, NoStray, q, h, r, Pending, Misled,
        Constructing, Check, MustWait, AfterSpawn
  <2>7. Told'
    BY <1>4 DEF TypeOK, PidOrder, Position, Reports, Told, Calm, q, h, r, Pending, Misled,
        Constructing, Check, MustWait, AfterSpawn
  <2> QED  BY <2>1, <2>2, <2>3, <2>4, <2>5, <2>6, <2>7
<1>5. CASE WaitReturns(Main)
  <2>1. TypeOK'
    BY <1>5 DEF TypeOK, MainSteps, SpawnSteps, HandlerSteps, WaitReturns, Position
  <2>2. PidOrder'
    BY <1>5 DEF TypeOK, PidOrder, Position, Reports, Vacated, NoStray, q, h, r, Pending, Misled,
        Constructing, WaitReturns
  <2>3. Position'
    BY <1>5 DEF TypeOK, PidOrder, Position, Reports, Vacated, NoStray, q, h, r, Pending, Misled,
        Constructing, WaitReturns
  <2>4. Reports'
    BY <1>5 DEF TypeOK, PidOrder, Position, Reports, Vacated, NoStray, q, h, r, Pending, Misled,
        Constructing, WaitReturns
  <2>5. Vacated'
    BY <1>5 DEF TypeOK, PidOrder, Position, Reports, Vacated, NoStray, q, h, r, Pending, Misled,
        Constructing, WaitReturns
  <2>6. NoStray'
    BY <1>5 DEF TypeOK, PidOrder, Position, Reports, Vacated, NoStray, q, h, r, Pending, Misled,
        Constructing, WaitReturns
  <2>7. Told'
    BY <1>5 DEF TypeOK, PidOrder, Position, Reports, Told, Calm, q, h, r, Pending, Misled,
        Constructing, WaitReturns
  <2> QED  BY <2>1, <2>2, <2>3, <2>4, <2>5, <2>6, <2>7
<1>6. CASE CallStop(Main)
  <2>1. TypeOK'
    <3>1. cur[Main] \in Pids
      BY <1>6 DEF CallStop, Position, q, Constructing
    <3>2. stops' \in [Pids -> 0..2]
      BY <1>6, <3>1, StoppedType DEF CallStop
    <3>3. pc' \in [Threads -> MainSteps \cup SpawnSteps \cup {"done"}]
      BY <1>6 DEF TypeOK, CallStop, AfterSpawn, MainSteps
    <3>4. crashed' \in BOOLEAN
      BY <1>6 DEF TypeOK, CallStop
    <3> QED  BY <1>6, <3>2, <3>3, <3>4 DEF TypeOK, CallStop
  <2>2. PidOrder'
    BY <1>6 DEF TypeOK, PidOrder, Position, Reports, Vacated, NoStray, q, h, r, Pending, Misled,
        Constructing, CallStop, Stopped, AfterSpawn
  <2>3. Position'
    BY <1>6 DEF TypeOK, PidOrder, Position, Reports, Vacated, NoStray, q, h, r, Pending, Misled,
        Constructing, CallStop, Stopped, AfterSpawn
  <2>4. Reports'
    BY <1>6 DEF TypeOK, PidOrder, Position, Reports, Vacated, NoStray, q, h, r, Pending, Misled,
        Constructing, CallStop, Stopped, AfterSpawn
  <2>5. Vacated'
    BY <1>6 DEF TypeOK, PidOrder, Position, Reports, Vacated, NoStray, q, h, r, Pending, Misled,
        Constructing, CallStop, Stopped, AfterSpawn
  <2>6. NoStray'
    BY <1>6 DEF TypeOK, PidOrder, Position, Reports, Vacated, NoStray, q, h, r, Pending, Misled,
        Constructing, CallStop, Stopped, AfterSpawn
  <2>7. Told'
    BY <1>6 DEF TypeOK, PidOrder, Position, Reports, Told, Calm, q, h, r, Pending, Misled,
        Constructing, CallStop, Stopped, AfterSpawn
  <2> QED  BY <2>1, <2>2, <2>3, <2>4, <2>5, <2>6, <2>7
<1> QED  BY <1>1, <1>2, <1>3, <1>4, <1>5, <1>6 DEF Constructor

\* What the steps of the signal handler preserve.
LEMMA HandlerInv ==
    ASSUME Threads = {Main}, IInv, Handler(Main)
    PROVE  IInv'
<1> USE ThreadsAssumption, PidAssumption DEF IInv
<1> USE DEF HandlerAt, HandlerGoto, Goto, threadVars, spawnVars, handlerVars, kernelVars, Pids, NoPid
<1>1. CASE \E p \in Pids : Reap(Main, p)
  <2>1. TypeOK'
    BY <1>1 DEF TypeOK, MainSteps, SpawnSteps, HandlerSteps, Reap, Position
  <2>2. PidOrder'
    BY <1>1 DEF TypeOK, PidOrder, Position, Reports, Vacated, NoStray, q, h, r, Pending, Misled,
        Constructing, Reap
  <2>3. Position'
    BY <1>1 DEF TypeOK, PidOrder, Position, Reports, Vacated, NoStray, q, h, r, Pending, Misled,
        Constructing, Reap
  <2>4. Reports'
    <3>1. PICK p \in Pids : Reap(Main, p)
      BY <1>1
    <3>2. p <= lastPid /\ (stops[p] = 0 \/ Misled(p)) /\ proc[p] = "zombie" /\ h = "reap"
      <4>1. proc[p] = "zombie" /\ h = "reap"
        BY <3>1 DEF Reap, h
      <4>2. p <= lastPid
        BY <4>1 DEF TypeOK, PidOrder
      <4>3. stops[p] \in 0..2
        BY DEF TypeOK
      <4>4. ~Misled(p) => ~(stops[p] > 0)
        BY <4>1 DEF Reports
      <4>5. stops[p] = 0 \/ Misled(p)
        BY <4>3, <4>4
      <4> QED  BY <4>1, <4>2, <4>5
    <3>3. r' = p /\ h' = "lookup" /\ proc' = [proc EXCEPT ![p] = "reaped"]
      BY <3>1 DEF TypeOK, Reap, h, r
    <3>4. /\ UNCHANGED <<stops, processCleaned, pc, q, lastPid, inherited>>
          /\ q \in Pids \cup {NoPid}
      BY <3>1 DEF TypeOK, Reap, q
    <3>5. \A x \in Pids :
            ~Misled(x)' => stops'[x] <= 1 /\ (stops'[x] > 0 => proc'[x] = "reaped")
      BY <3>2, <3>3, <3>4 DEF TypeOK, Reports, Misled
    <3>6. (processCleaned' /\ lastPid' > 0) \/ pc'[Main] \in {"waitpid", "callstop"} =>
              Misled(q)' \/ (proc'[q'] = "reaped" /\ stops'[q'] = 0 /\ ~Pending(q)')
      BY <3>2, <3>3, <3>4 DEF TypeOK, Reports, Pending, Position, Constructing, Misled
    <3> QED  BY <3>2, <3>3, <3>4, <3>5, <3>6 DEF TypeOK, Reports, Misled
  <2>5. Vacated'
    BY <1>1 DEF TypeOK, PidOrder, Position, Reports, Vacated, NoStray, q, h, r, Pending, Misled,
        Constructing, Reap
  <2>6. NoStray'
    BY <1>1 DEF TypeOK, PidOrder, Position, Reports, Vacated, NoStray, q, h, r, Pending, Misled,
        Constructing, Reap
  <2>7. Told'
    BY <1>1 DEF TypeOK, PidOrder, Position, Reports, Told, Calm, q, h, r, Pending, Misled,
        Constructing, Reap
  <2> QED  BY <2>1, <2>2, <2>3, <2>4, <2>5, <2>6, <2>7
<1>2. CASE ReapNone(Main)
  <2>1. TypeOK'
    BY <1>2 DEF TypeOK, MainSteps, SpawnSteps, HandlerSteps, ReapNone, Position
  <2>2. PidOrder'
    BY <1>2 DEF TypeOK, PidOrder, Position, Reports, Vacated, NoStray, q, h, r, Pending, Misled,
        Constructing, ReapNone
  <2>3. Position'
    BY <1>2 DEF TypeOK, PidOrder, Position, Reports, Vacated, NoStray, q, h, r, Pending, Misled,
        Constructing, ReapNone
  <2>4. Reports'
    BY <1>2 DEF TypeOK, PidOrder, Position, Reports, Vacated, NoStray, q, h, r, Pending, Misled,
        Constructing, ReapNone
  <2>5. Vacated'
    BY <1>2 DEF TypeOK, PidOrder, Position, Reports, Vacated, NoStray, q, h, r, Pending, Misled,
        Constructing, ReapNone
  <2>6. NoStray'
    BY <1>2 DEF TypeOK, PidOrder, Position, Reports, Vacated, NoStray, q, h, r, Pending, Misled,
        Constructing, ReapNone
  <2>7. Told'
    BY <1>2 DEF TypeOK, PidOrder, Position, Reports, Told, Calm, q, h, r, Pending, Misled,
        Constructing, ReapNone
  <2> QED  BY <2>1, <2>2, <2>3, <2>4, <2>5, <2>6, <2>7
<1>3. CASE Lookup(Main)
  <2>1. TypeOK'
    BY <1>3 DEF TypeOK, MainSteps, SpawnSteps, HandlerSteps, Lookup, Position
  <2>2. PidOrder'
    BY <1>3 DEF TypeOK, PidOrder, Position, Reports, Vacated, NoStray, q, h, r, Pending, Misled,
        Constructing, Lookup
  <2>3. Position'
    BY <1>3 DEF TypeOK, PidOrder, Position, Reports, Vacated, NoStray, q, h, r, Pending, Misled,
        Constructing, Lookup
  <2>4. Reports'
    BY <1>3 DEF TypeOK, PidOrder, Position, Reports, Vacated, NoStray, q, h, r, Pending, Misled,
        Constructing, Lookup
  <2>5. Vacated'
    BY <1>3 DEF TypeOK, PidOrder, Position, Reports, Vacated, NoStray, q, h, r, Pending, Misled,
        Constructing, Lookup
  <2>6. NoStray'
    BY <1>3 DEF TypeOK, PidOrder, Position, Reports, Vacated, NoStray, q, h, r, Pending, Misled,
        Constructing, Lookup
  <2>7. Told'
    BY <1>3 DEF TypeOK, PidOrder, Position, Reports, Told, Calm, q, h, r, Pending, Misled,
        Constructing, Lookup
  <2> QED  BY <2>1, <2>2, <2>3, <2>4, <2>5, <2>6, <2>7
<1>4. CASE Flag(Main)
  <2>1. TypeOK'
    BY <1>4 DEF TypeOK, MainSteps, SpawnSteps, HandlerSteps, Flag, Position
  <2>2. PidOrder'
    BY <1>4 DEF TypeOK, PidOrder, Position, Reports, Vacated, NoStray, q, h, r, Pending, Misled,
        Constructing, Flag
  <2>3. Position'
    BY <1>4 DEF TypeOK, PidOrder, Position, Reports, Vacated, NoStray, q, h, r, Pending, Misled,
        Constructing, Flag
  <2>4. Reports'
    BY <1>4 DEF TypeOK, PidOrder, Position, Reports, Vacated, NoStray, q, h, r, Pending, Misled,
        Constructing, Flag
  <2>5. Vacated'
    BY <1>4 DEF TypeOK, PidOrder, Position, Reports, Vacated, NoStray, q, h, r, Pending, Misled,
        Constructing, Flag
  <2>6. NoStray'
    BY <1>4 DEF TypeOK, PidOrder, Position, Reports, Vacated, NoStray, q, h, r, Pending, Misled,
        Constructing, Flag
  <2>7. Told'
    BY <1>4 DEF TypeOK, PidOrder, Position, Reports, Told, Calm, q, h, r, Pending, Misled,
        Constructing, Flag
  <2> QED  BY <2>1, <2>2, <2>3, <2>4, <2>5, <2>6, <2>7
<1>5. CASE Call(Main)
  <2>1. TypeOK'
    <3>1. stops' \in [Pids -> 0..2]
      <4>1. hcur[Main] \in Pids
        BY <1>5 DEF Reports, Call, h, r
      <4>2. CASE Stopped(hcur[Main])
        BY <4>1, <4>2, StoppedType
      <4>3. CASE UNCHANGED stops
        BY <4>3 DEF TypeOK
      <4> QED  BY <1>5, <4>2, <4>3 DEF Call
    <3>2. hpc' \in [Threads -> HandlerSteps]
      BY <1>5 DEF TypeOK, Call, AfterReport, HandlerSteps
    <3> QED  BY <1>5, <3>1, <3>2 DEF TypeOK, Call
  <2>2. PidOrder'
    BY <1>5 DEF TypeOK, PidOrder, Position, Reports, Vacated, NoStray, q, h, r, Pending, Misled,
        Constructing, Call, Stopped, AfterReport
  <2>3. Position'
    BY <1>5 DEF TypeOK, PidOrder, Position, Reports, Vacated, NoStray, q, h, r, Pending, Misled,
        Constructing, Call, Stopped, AfterReport
  <2>4. Reports'
    BY <1>5 DEF TypeOK, PidOrder, Position, Reports, Vacated, NoStray, q, h, r, Pending, Misled,
        Constructing, Call, Stopped, AfterReport
  <2>5. Vacated'
    BY <1>5 DEF TypeOK, PidOrder, Position, Reports, Vacated, NoStray, q, h, r, Pending, Misled,
        Constructing, Call, Stopped, AfterReport
  <2>6. NoStray'
    BY <1>5 DEF TypeOK, PidOrder, Position, Reports, Vacated, NoStray, q, h, r, Pending, Misled,
        Constructing, Call, Stopped, AfterReport
  <2>7. Told'
    BY <1>5 DEF TypeOK, PidOrder, Position, Reports, Told, Calm, q, h, r, Pending, Misled,
        Constructing, Call, Stopped, AfterReport
  <2> QED  BY <2>1, <2>2, <2>3, <2>4, <2>5, <2>6, <2>7
<1>6. CASE Wake(Main)
  <2>1. TypeOK'
    BY <1>6 DEF TypeOK, MainSteps, SpawnSteps, HandlerSteps, Wake, Interrupted, Position
  <2>2. PidOrder'
    BY <1>6 DEF TypeOK, PidOrder, Position, Reports, Vacated, NoStray, q, h, r, Pending, Misled,
        Constructing, Wake, Interrupted
  <2>3. Position'
    BY <1>6 DEF TypeOK, PidOrder, Position, Reports, Vacated, NoStray, q, h, r, Pending, Misled,
        Constructing, Wake, Interrupted
  <2>4. Reports'
    BY <1>6 DEF TypeOK, PidOrder, Position, Reports, Vacated, NoStray, q, h, r, Pending, Misled,
        Constructing, Wake, Interrupted
  <2>5. Vacated'
    BY <1>6 DEF TypeOK, PidOrder, Position, Reports, Vacated, NoStray, q, h, r, Pending, Misled,
        Constructing, Wake, Interrupted
  <2>6. NoStray'
    BY <1>6 DEF TypeOK, PidOrder, Position, Reports, Vacated, NoStray, q, h, r, Pending, Misled,
        Constructing, Wake, Interrupted
  <2>7. Told'
    BY <1>6 DEF TypeOK, PidOrder, Position, Reports, Told, Calm, q, h, r, Pending, Misled,
        Constructing, Wake, Interrupted
  <2> QED  BY <2>1, <2>2, <2>3, <2>4, <2>5, <2>6, <2>7
<1> QED  BY <1>1, <1>2, <1>3, <1>4, <1>5, <1>6 DEF Handler

\* What signals and exits preserve.
LEMMA KernelInv ==
    ASSUME Threads = {Main}, IInv,
           Deliver(Main) \/ Usr1(Main) \/ (\E p \in Pids : Exit(p))
    PROVE  IInv'
<1> USE ThreadsAssumption, PidAssumption DEF IInv
<1> USE DEF HandlerAt, HandlerGoto, Goto, threadVars, spawnVars, handlerVars, kernelVars, Pids, NoPid
<1>1. CASE Deliver(Main)
  <2>1. TypeOK'
    BY <1>1 DEF TypeOK, MainSteps, SpawnSteps, HandlerSteps, Deliver, Position
  <2>2. PidOrder'
    BY <1>1 DEF TypeOK, PidOrder, Position, Reports, Vacated, NoStray, q, h, r, Pending, Misled,
        Constructing, Deliver
  <2>3. Position'
    BY <1>1 DEF TypeOK, PidOrder, Position, Reports, Vacated, NoStray, q, h, r, Pending, Misled,
        Constructing, Deliver
  <2>4. Reports'
    BY <1>1 DEF TypeOK, PidOrder, Position, Reports, Vacated, NoStray, q, h, r, Pending, Misled,
        Constructing, Deliver
  <2>5. Vacated'
    BY <1>1 DEF TypeOK, PidOrder, Position, Reports, Vacated, NoStray, q, h, r, Pending, Misled,
        Constructing, Deliver
  <2>6. NoStray'
    BY <1>1 DEF TypeOK, PidOrder, Position, Reports, Vacated, NoStray, q, h, r, Pending, Misled,
        Constructing, Deliver
  <2>7. Told'
    BY <1>1 DEF TypeOK, PidOrder, Position, Reports, Told, Calm, q, h, r, Pending, Misled,
        Constructing, Deliver
  <2> QED  BY <2>1, <2>2, <2>3, <2>4, <2>5, <2>6, <2>7
<1>2. CASE Usr1(Main)
  <2>1. TypeOK'
    BY <1>2 DEF TypeOK, MainSteps, SpawnSteps, HandlerSteps, Usr1, Interrupted, Position
  <2>2. PidOrder'
    BY <1>2 DEF TypeOK, PidOrder, Position, Reports, Vacated, NoStray, q, h, r, Pending, Misled,
        Constructing, Usr1, Interrupted
  <2>3. Position'
    BY <1>2 DEF TypeOK, PidOrder, Position, Reports, Vacated, NoStray, q, h, r, Pending, Misled,
        Constructing, Usr1, Interrupted
  <2>4. Reports'
    BY <1>2 DEF TypeOK, PidOrder, Position, Reports, Vacated, NoStray, q, h, r, Pending, Misled,
        Constructing, Usr1, Interrupted
  <2>5. Vacated'
    BY <1>2 DEF TypeOK, PidOrder, Position, Reports, Vacated, NoStray, q, h, r, Pending, Misled,
        Constructing, Usr1, Interrupted
  <2>6. NoStray'
    BY <1>2 DEF TypeOK, PidOrder, Position, Reports, Vacated, NoStray, q, h, r, Pending, Misled,
        Constructing, Usr1, Interrupted
  <2>7. Told'
    BY <1>2 DEF TypeOK, PidOrder, Position, Reports, Told, Calm, q, h, r, Pending, Misled,
        Constructing, Usr1, Interrupted
  <2> QED  BY <2>1, <2>2, <2>3, <2>4, <2>5, <2>6, <2>7
<1>3. CASE \E p \in Pids : Exit(p)
  <2>1. TypeOK'
    BY <1>3 DEF TypeOK, MainSteps, SpawnSteps, HandlerSteps, Exit, Position
  <2>2. PidOrder'
    BY <1>3 DEF TypeOK, PidOrder, Position, Reports, Vacated, NoStray, q, h, r, Pending, Misled,
        Constructing, Exit
  <2>3. Position'
    BY <1>3 DEF TypeOK, PidOrder, Position, Reports, Vacated, NoStray, q, h, r, Pending, Misled,
        Constructing, Exit
  <2>4. Reports'
    BY <1>3 DEF TypeOK, PidOrder, Position, Reports, Vacated, NoStray, q, h, r, Pending, Misled,
        Constructing, Exit
  <2>5. Vacated'
    BY <1>3 DEF TypeOK, PidOrder, Position, Reports, Vacated, NoStray, q, h, r, Pending, Misled,
        Constructing, Exit
  <2>6. NoStray'
    BY <1>3 DEF TypeOK, PidOrder, Position, Reports, Vacated, NoStray, q, h, r, Pending, Misled,
        Constructing, Exit
  <2>7. Told'
    BY <1>3 DEF TypeOK, PidOrder, Position, Reports, Told, Calm, q, h, r, Pending, Misled,
        Constructing, Exit
  <2> QED  BY <2>1, <2>2, <2>3, <2>4, <2>5, <2>6, <2>7
<1> QED  BY <1>1, <1>2, <1>3

\* Every reachable state satisfies the inductive invariant.
LEMMA Inductive ==
    ASSUME Threads = {Main}
    PROVE  Spec => []IInv
<1>1. Init => IInv
  BY InitInv
<1>2. IInv /\ [Next]_vars => IInv'
  <2> SUFFICES ASSUME IInv, [Next]_vars PROVE IInv'
    OBVIOUS
  <2>1. CASE (\E c \in Cams : Begin(c)) \/ StopCam \/ Assign
    BY <2>1, MainStepInv
  <2>2. CASE \E t \in Threads : Constructor(t)
    BY <2>2, ConstructorInv
  <2>3. CASE \E t \in Threads : Handler(t)
    BY <2>3, HandlerInv
  <2>4. CASE (\E t \in Threads : Deliver(t) \/ Usr1(t)) \/ (\E p \in Pids : Exit(p))
    BY <2>4, KernelInv
  <2>5. CASE UNCHANGED vars
    BY <2>5 DEF vars, threadVars, spawnVars, handlerVars, kernelVars, IInv, TypeOK,
        PidOrder, Position, Reports, Told, Calm, Vacated, NoStray, q, h, r, Pending, Misled
  <2> QED  BY <2>1, <2>2, <2>3, <2>4, <2>5 DEF Next
<1> QED  BY <1>1, <1>2, PTL DEF Spec

-----------------------------------------------------------------------------
\* Every variable keeps its type.
THEOREM TypeCorrect ==
    ASSUME Threads = {Main}
    PROVE  Spec => []TypeOK
<1>1. IInv => TypeOK
  BY DEF IInv
<1> QED  BY <1>1, Inductive, PTL

\* The object of an ffmpeg is never deleted twice, whichever of the signal
\* handler and the constructor learns of its end first, unless an inherited
\* flag made the constructor wait for it.
THEOREM NoDoubleStop ==
    ASSUME Threads = {Main}
    PROVE  Spec => []StopAtMostOnce
<1>1. IInv => StopAtMostOnce
  BY DEF IInv, Reports, StopAtMostOnce
<1> QED  BY <1>1, Inductive, PTL

\* The polling loop blocks in waitpid for no ffmpeg that still runs but the
\* one that an inherited flag makes it wait for.
THEOREM NoWaitForLiveChild ==
    ASSUME Threads = {Main}
    PROVE  Spec => []NeverWaitsForLiveChild
<1>1. IInv => NeverWaitsForLiveChild
  BY DEF IInv, Reports, NeverWaitsForLiveChild, q, Misled
<1> QED  BY <1>1, Inductive, PTL

\* Every ffmpeg that runs, was not killed and was not reported is the one the
\* table knows of.
THEOREM NoStrayFfmpeg ==
    ASSUME Threads = {Main}
    PROVE  Spec => []NoStray
<1>1. IInv => NoStray
  BY DEF IInv
<1> QED  BY <1>1, Inductive, PTL

-----------------------------------------------------------------------------
\* A step that changes neither the processes nor the calls of the stop
\* handlers is no step in the lives of the children.
LEMMA LifeStays ==
    ASSUME UNCHANGED <<stops, proc>>
    PROVE  UNCHANGED Life
BY DEF Life

\* A child that was not reaped was not reported: it is where the kernel says.
LEMMA Unreported ==
    ASSUME IInv, Calm, NEW p \in Pids, proc[p] # "reaped"
    PROVE  stops[p] = 0 /\ Life[p] = IF proc[p] = "zombie" THEN "exited" ELSE proc[p]
<1>1. stops[p] = 0
  BY DEF IInv, Told, TypeOK
<1> QED  BY <1>1 DEF IInv, TypeOK, Life

\* A step of one child's process is the same step of its life, as long as
\* the child is not reaped.
LEMMA LifeFollows ==
    ASSUME IInv, Calm, ~crashed, NEW p \in Pids, NEW to \in {"running", "zombie"},
           proc[p] # "reaped", proc' = [proc EXCEPT ![p] = to],
           UNCHANGED <<stops, crashed>>
    PROVE  Child!Move(p, Life[p], IF to = "zombie" THEN "exited" ELSE to)
<1>1. stops[p] = 0
  BY Unreported
<1>2. PICK stage : stage = IF to = "zombie" THEN "exited" ELSE to
  OBVIOUS
<1>3. Life' = [Life EXCEPT ![p] = stage]
  <2>1. \A x \in Pids : x # p => Life'[x] = Life[x]
    BY DEF IInv, TypeOK, Life
  <2>2. Life'[p] = stage
    BY <1>1, <1>2 DEF IInv, TypeOK, Life
  <2>3. Life = [x \in Pids |-> Life[x]] /\ Life' = [x \in Pids |-> Life'[x]]
    BY DEF Life
  <2> QED  BY <2>1, <2>2, <2>3
<1> QED  BY <1>2, <1>3 DEF Child!Move

\* Reaping a child that has exited is no step of its life: it is reported by
\* the step that calls its stop handler.
LEMMA ReapStutters ==
    ASSUME IInv, NEW p \in Pids, proc[p] \in {"zombie", "reaped"},
           proc' = [proc EXCEPT ![p] = "reaped"], UNCHANGED stops
    PROVE  UNCHANGED Life
BY DEF IInv, TypeOK, Life

\* The call of a stop handler reports a child that has exited and was not
\* reported before.
LEMMA StoppedReports ==
    ASSUME IInv, ~crashed, NEW p \in Pids, proc[p] = "reaped", stops[p] = 0,
           Stopped(p), UNCHANGED <<proc, crashed>>
    PROVE  Child!Report(p)
<1>1. Life[p] = "exited"
  BY DEF Life
<1>2. stops' = [stops EXCEPT ![p] = 1]
  BY DEF Stopped, IInv, TypeOK
<1>3. Life' = [Life EXCEPT ![p] = "reported"]
  <2>1. \A x \in Pids : x # p => Life'[x] = Life[x]
    BY <1>2 DEF IInv, TypeOK, Life
  <2>2. Life'[p] = "reported"
    BY <1>2 DEF IInv, TypeOK, Life
  <2> QED  BY <2>1, <2>2 DEF Life
<1> QED  BY <1>1, <1>3 DEF Child!Report, Child!Move

\* A second call of a stop handler is no step in the life of the child; it may
\* bring the process down.
LEMMA StoppedAgain ==
    ASSUME IInv, ~crashed, NEW p \in Pids, stops[p] # 0, Stopped(p),
           UNCHANGED proc, UNCHANGED crashed \/ crashed' = TRUE
    PROVE  Child!Crash \/ UNCHANGED Child!vars
<1>1. stops' \in [Pids -> 0..2] /\ stops'[p] > 0 /\ stops[p] > 0
  BY DEF Stopped, IInv, TypeOK
<1>2. \A x \in Pids : x # p => stops'[x] = stops[x]
  BY DEF Stopped, IInv, TypeOK
<1>3. \A x \in Pids : Life'[x] = Life[x]
  BY <1>1, <1>2 DEF Life
<1>4. Life' = Life
  BY <1>3 DEF Life
<1> QED  BY <1>4 DEF Child!Crash, Child!vars

\* No step changes what the process got by fork.
LEMMA InheritedStays ==
    ASSUME [Next]_vars
    PROVE  UNCHANGED inherited
BY DEF Next, vars, Begin, StopCam, Stat, Arm, Kill, SpinEnds, Assign, Constructor, Fork,
    Register, SetHandler, Check, WaitReturns, CallStop, Handler, Reap, ReapNone, Lookup,
    Flag, Call, Wake, Deliver, Usr1, Exit

\* Every step of the process is a step of ChildLife, or none.
LEMMA Simulation ==
    ASSUME Threads = {Main}, IInv, Calm, [Next]_vars
    PROVE  [Child!Next]_(Child!vars)
<1> USE DEF Child!vars
<1>1. CASE (\E c \in Cams : Begin(c)) \/ StopCam \/ Assign
  <2>1. UNCHANGED <<stops, proc, crashed>>
    BY <1>1 DEF Begin, StopCam, Stat, Arm, Kill, SpinEnds, Assign, kernelVars
  <2> QED  BY <2>1, LifeStays
<1>2. CASE Constructor(Main)
  <2>1. CASE Fork(Main)
    <3>1. /\ ~crashed /\ UNCHANGED <<stops, crashed>>
          /\ proc' = [proc EXCEPT ![lastPid + 1] = "running"]
      BY <2>1 DEF Fork, At
    <3>2. lastPid + 1 \in Pids
      BY <2>1, PidAssumption DEF Fork, Pids, IInv, TypeOK
    <3>3. proc[lastPid + 1] = "unborn"
      BY <3>2, PidAssumption DEF IInv, PidOrder, TypeOK, Pids
    <3>4. PICK p \in Pids : p = lastPid + 1
      BY <3>2
    <3>5. Life[p] = "unborn"
      BY <3>3, <3>4, Unreported
    <3>6. Child!Start(p)
      BY <3>1, <3>3, <3>4, <3>5, LifeFollows DEF Child!Start
    <3> QED  BY <3>6 DEF Child!Next
  <2>2. CASE Register(Main) \/ SetHandler(Main) \/ Check(Main)
    <3>1. UNCHANGED <<stops, proc, crashed>>
      BY <2>2 DEF Register, SetHandler, Check, kernelVars
    <3> QED  BY <3>1, LifeStays
  <2>3. CASE WaitReturns(Main)
    <3>1. PICK p \in Pids : p = q
      BY <2>3 DEF IInv, Position, Constructing, WaitReturns, At
    <3>2. proc[p] \in {"zombie", "reaped"}
      <4>1. p <= lastPid
        BY <2>3, <3>1, PidAssumption DEF IInv, Position, Constructing, WaitReturns, At, TypeOK, Pids
      <4> QED  BY <2>3, <3>1, <4>1 DEF IInv, TypeOK, PidOrder, WaitReturns, q, Pids
    <3>3. UNCHANGED <<stops, crashed>> /\ proc' = [proc EXCEPT ![p] = "reaped"]
      BY <2>3, <3>1 DEF WaitReturns, q
    <3> QED  BY <3>2, <3>3, ReapStutters
  <2>4. CASE CallStop(Main)
    <3>1. PICK p \in Pids : p = q
      BY <2>4 DEF IInv, Position, Constructing, CallStop, At
    <3>2. proc[p] = "reaped"
      BY <2>4, <3>1 DEF IInv, Told, CallStop, At
    <3>3. ~crashed /\ Stopped(p) /\ UNCHANGED proc
      BY <2>4, <3>1 DEF CallStop, At, q, kernelVars
    <3>4. UNCHANGED crashed \/ (stops[p] > 0 /\ crashed' = TRUE)
      BY <2>4, <3>1 DEF CallStop, q
    <3>5. CASE stops[p] = 0
      <4>1. UNCHANGED crashed
        BY <3>4, <3>5
      <4> QED  BY <3>2, <3>3, <3>5, <4>1, StoppedReports DEF Child!Next
    <3>6. CASE stops[p] # 0
      BY <3>3, <3>4, <3>6, StoppedAgain DEF Child!Next
    <3> QED  BY <3>5, <3>6
  <2> QED  BY <1>2, <2>1, <2>2, <2>3, <2>4 DEF Constructor
<1>3. CASE Handler(Main)
  <2>1. CASE \E p \in Pids : Reap(Main, p)
    <3>1. PICK p \in Pids : Reap(Main, p)
      BY <2>1
    <3>2. /\ proc[p] = "zombie" /\ proc' = [proc EXCEPT ![p] = "reaped"]
          /\ UNCHANGED <<stops, crashed>>
      BY <3>1 DEF Reap
    <3> QED  BY <3>2, ReapStutters
  <2>2. CASE ReapNone(Main) \/ Lookup(Main) \/ Flag(Main) \/ Wake(Main)
    <3>1. UNCHANGED <<stops, proc, crashed>>
      BY <2>2 DEF ReapNone, Lookup, Flag, Wake, kernelVars
    <3> QED  BY <3>1, LifeStays
  <2>3. CASE Call(Main)
    <3>1. PICK p \in Pids : p = r
      BY <2>3 DEF IInv, Reports, Call, HandlerAt, h
    <3>2. ~crashed /\ proc[p] = "reaped" /\ UNCHANGED proc
      BY <2>3, <3>1 DEF IInv, Reports, Call, HandlerAt, h, kernelVars
    <3>3. CASE Stopped(p) /\ UNCHANGED crashed
      BY <3>2, <3>3, StoppedReports, StoppedAgain DEF Child!Next
    <3>4. CASE crashed' = TRUE /\ UNCHANGED stops
      BY <3>2, <3>4, LifeStays DEF Child!Next, Child!Crash
    <3> QED  BY <2>3, <3>1, <3>3, <3>4 DEF Call, r
  <2> QED  BY <1>3, <2>1, <2>2, <2>3 DEF Handler
<1>4. CASE Deliver(Main) \/ Usr1(Main)
  <2>1. UNCHANGED <<stops, proc, crashed>>
    BY <1>4 DEF Deliver, Usr1, kernelVars
  <2> QED  BY <2>1, LifeStays
<1>5. CASE \E p \in Pids : Exit(p)
  <2>1. PICK p \in Pids : Exit(p)
    BY <1>5
  <2>2. /\ ~crashed /\ proc[p] = "running"
        /\ proc' = [proc EXCEPT ![p] = "zombie"] /\ UNCHANGED <<stops, crashed>>
    BY <2>1 DEF Exit
  <2>3. Life[p] = "running"
    BY <2>2, Unreported
  <2>4. Child!Exit(p)
    BY <2>2, <2>3, LifeFollows DEF Child!Exit
  <2> QED  BY <2>4 DEF Child!Next
<1>6. CASE UNCHANGED vars
  BY <1>6, LifeStays DEF vars, kernelVars
<1> QED  BY <1>1, <1>2, <1>3, <1>4, <1>5, <1>6 DEF Next

\* Safety part of the refinement of ChildLife: a child is started once, a
\* child that runs is never reported to its stop handler, and one that has
\* exited is reported, by the constructor or the signal handler.  Only where
\* an inherited flag and a foreign SIGUSR1 come together may it fail.
THEOREM ReportsImplementChildLife ==
    ASSUME Threads = {Main}, ~UserSignals \/ Inherits = {FALSE}
    PROVE  Spec => Child!Init /\ [][Child!Next]_(Child!vars)
<1>1. Init => Child!Init
  BY DEF Init, Child!Init, Life
<1>2. Init => Calm
  BY DEF Init, Calm
<1>3. Calm /\ [Next]_vars => Calm'
  BY InheritedStays DEF Calm
<1>4. IInv /\ Calm /\ [Next]_vars => [Child!Next]_(Child!vars)
  BY Simulation
<1>5. Spec => []IInv
  BY Inductive
<1> QED  BY <1>1, <1>2, <1>3, <1>4, <1>5, PTL DEF Spec

-----------------------------------------------------------------------------
\* While no ffmpeg has ended by itself, SIGCHLD comes only from the process
\* that stopCam has killed: pkilled is raised when that process was reaped, and
\* no handler runs outside the spin.
Killing ==
    /\ \A c \in Cams : pid[c] # NoPid => owner[pid[c]] = c
    /\ pc[Main] \in {"arm", "kill"} => proc[pid[cam]] = "running"
    /\ pc[Main] \notin {"kill", "spin"} => pkilled
    /\ pc[Main] = "kill" => ~pkilled
    /\ pc[Main] = "spin" => pid[cam] \in doomed
    /\ \A p \in doomed :
           proc[p] = "reaped" \/ ( /\ pc[Main] = "spin" /\ p = pid[cam]
                                   /\ proc[p] # "unborn" /\ ~pkilled )
    /\ sigchld \/ h # "none" =>
           pc[Main] = "spin" /\ ~pkilled /\ proc[pid[cam]] # "running"
    /\ sigchld => h = "none"
    /\ h \notin {"none", "reap"} => proc[pid[cam]] = "reaped"

\* Nothing that was killed is still to be reaped, and no signal is on its way.
Quiet ==
    /\ \A c \in Cams : pid[c] # NoPid => owner[pid[c]] = c
    /\ \A p \in doomed : proc[p] = "reaped"
    /\ pkilled /\ ~sigchld /\ h = "none"

\* The initial state: nothing was killed.
LEMMA KillingInit ==
    ASSUME Threads = {Main}, Init
    PROVE  Killing
BY PidAssumption DEF Init, Killing, h, NoPid, Pids

\* A process that has ended by itself remains one that has.
LEMMA SelfExitedStays ==
    ASSUME Threads = {Main}, IInv, [Next]_vars, SelfExited
    PROVE  SelfExited'
<1> USE ThreadsAssumption DEF IInv, TypeOK
<1>1. PICK p \in Pids : owner[p] # NoCam /\ p \notin doomed /\ proc[p] \in {"zombie", "reaped"}
  BY DEF SelfExited
<1>2. owner'[p] # NoCam
  <2>1. CASE Fork(Main)
    BY <1>1, <2>1, PidAssumption DEF Fork, PidOrder, Position, Pids, At
  <2> QED  BY <1>1, <2>1 DEF Next, vars, Begin, StopCam, Stat, Arm, Kill, SpinEnds, Assign,
        Constructor, Register, SetHandler, Check, WaitReturns, CallStop, Handler, Reap,
        ReapNone, Lookup, Flag, Call, Wake, Deliver, Usr1, Exit, kernelVars
<1>3. p \notin doomed'
  BY <1>1 DEF Next, vars, Begin, StopCam, Stat, Arm, Kill, SpinEnds, Assign,
        Constructor, Fork, Register, SetHandler, Check, WaitReturns, CallStop, Handler, Reap,
        ReapNone, Lookup, Flag, Call, Wake, Deliver, Usr1, Exit, kernelVars
<1>4. proc'[p] \in {"zombie", "reaped"}
  <2>1. CASE Fork(Main)
    BY <1>1, <2>1, PidAssumption DEF Fork, PidOrder, Pids
  <2>2. CASE WaitReturns(Main)
    BY <1>1, <2>2 DEF WaitReturns
  <2>3. CASE \E x \in Pids : Reap(Main, x) \/ Exit(x)
    BY <1>1, <2>3 DEF Reap, Exit
  <2> QED  BY <1>1, <2>1, <2>2, <2>3 DEF Next, vars, Begin, StopCam, Stat, Arm, Kill, SpinEnds,
        Assign, Constructor, Register, SetHandler, Check, CallStop, Handler,
        ReapNone, Lookup, Flag, Call, Wake, Deliver, Usr1, kernelVars
<1> QED  BY <1>2, <1>3, <1>4 DEF SelfExited

\* The pid that the kernel hands out next belongs to no process yet.
LEMMA NextPid ==
    ASSUME IInv, lastPid < MaxPid
    PROVE  lastPid + 1 \in Pids /\ proc[lastPid + 1] = "unborn" /\ owner[lastPid + 1] = NoCam
<1>1. lastPid + 1 \in Pids
  BY PidAssumption DEF IInv, TypeOK, Pids
<1>2. lastPid + 1 > lastPid
  BY PidAssumption DEF IInv, TypeOK
<1> QED  BY <1>1, <1>2 DEF IInv, PidOrder

\* Without foreign signals a step keeps Killing, unless an ffmpeg ends by itself.
LEMMA KillingStep ==
    ASSUME Threads = {Main}, ~UserSignals, IInv, Killing, Next, ~SelfExited, ~SelfExited'
    PROVE  Killing'
<1> USE ThreadsAssumption, PidAssumption, CamAssumption DEF IInv, TypeOK, h, Pids, NoPid, NoCam
<1>1. \A p \in Pids : proc[p] \in {"zombie", "reaped"} => p \in doomed
  BY DEF SelfExited, PidOrder
<1>2. pc[Main] \notin {"kill", "spin"} => Quiet
  BY DEF Killing, Quiet
<1>3. Quiet' /\ pc'[Main] \notin {"arm", "kill", "spin"} => Killing'
  BY DEF Killing, Quiet
<1>4. CASE \E c \in Cams : Begin(c)
  <2>1. Quiet /\ pc'[Main] = "stat"
    BY <1>2, <1>4 DEF Begin, At, Goto
  <2>2. UNCHANGED <<kernelVars, handlerVars, pid, pkilled>>
    BY <1>4 DEF Begin, spawnVars
  <2> QED  BY <1>3, <2>1, <2>2 DEF Quiet, kernelVars, handlerVars
<1>5. CASE Stat
  BY <1>1, <1>5 DEF Stat, InProc, At, Goto, Killing, Position, kernelVars, spawnVars, handlerVars
<1>6. CASE Arm
  BY <1>6 DEF Arm, At, Goto, Killing, Position, kernelVars, spawnVars, handlerVars
<1>7. CASE Kill
  BY <1>7 DEF Kill, At, Goto, Killing, Position, kernelVars, spawnVars, handlerVars
<1>8. CASE SpinEnds
  BY <1>8 DEF SpinEnds, At, Goto, Killing, Position, kernelVars, spawnVars, handlerVars
<1>9. CASE Assign
  <2>1. PICK p \in StoredPids : pid' = [pid EXCEPT ![cam] = p]
    BY <1>9 DEF Assign
  <2>2. p = NoPid \/ owner[p] = cam
    BY <1>9, <2>1 DEF Assign, At, StoredPids, Position, Constructing, q
  <2>3. Quiet /\ pc'[Main] = "idle" /\ UNCHANGED <<kernelVars, handlerVars, pkilled>>
    BY <1>2, <1>9 DEF Assign, At, Goto
  <2>4. Quiet'
    BY <2>1, <2>2, <2>3 DEF Quiet, kernelVars, handlerVars
  <2> QED  BY <1>3, <2>3, <2>4
<1>10. CASE Fork(Main)
  <2>1. Quiet /\ pc'[Main] = "register" /\ UNCHANGED <<doomed, sigchld, pid, hpc, pkilled>>
    BY <1>2, <1>10 DEF Fork, At, Goto, spawnVars, handlerVars
  <2>2. proc[lastPid + 1] = "unborn" /\ owner[lastPid + 1] = NoCam
    BY <1>10, NextPid DEF Fork
  <2>3. \A p \in doomed' : proc'[p] = "reaped"
    BY <1>10, <2>1, <2>2 DEF Fork, Quiet
  <2>4. \A c \in Cams : pid'[c] # NoPid => owner'[pid'[c]] = c
    BY <1>10, <2>1, <2>2 DEF Fork, Quiet
  <2> QED  BY <1>3, <2>1, <2>3, <2>4 DEF Quiet
<1>11. CASE Register(Main) \/ SetHandler(Main) \/ Check(Main) \/ CallStop(Main)
  <2>1. Quiet /\ pc'[Main] \notin {"arm", "kill", "spin"}
    BY <1>2, <1>11 DEF Register, SetHandler, Check, CallStop, AfterSpawn, At, Goto
  <2>2. UNCHANGED <<kernelVars, handlerVars, pid, pkilled>>
    BY <1>11 DEF Register, SetHandler, Check, CallStop, spawnVars
  <2> QED  BY <1>3, <2>1, <2>2 DEF Quiet, kernelVars, handlerVars
<1>12. CASE WaitReturns(Main)
  <2>1. Quiet /\ pc'[Main] = "callstop" /\ UNCHANGED <<doomed, owner, sigchld, pid, hpc, pkilled>>
    BY <1>2, <1>12 DEF WaitReturns, At, Goto, spawnVars, handlerVars
  <2>2. \A p \in doomed' : proc'[p] = "reaped"
    BY <1>12, <2>1 DEF WaitReturns, Quiet
  <2> QED  BY <1>3, <2>1, <2>2 DEF Quiet
<1>13. CASE \E p \in Pids : Reap(Main, p)
  <2>1. PICK p \in Pids : Reap(Main, p)
    BY <1>13
  <2>2. h = "reap" /\ pc[Main] = "spin" /\ ~pkilled /\ ~sigchld /\ p = pid[cam]
    BY <1>1, <2>1 DEF Reap, HandlerAt, Killing
  <2>3. h' = "lookup" /\ UNCHANGED <<pc, cam, pkilled, sigchld, pid, owner, doomed>>
    BY <2>1 DEF Reap, HandlerGoto, threadVars, spawnVars
  <2>4. proc'[p] = "reaped" /\ \A x \in doomed : x # p => proc'[x] = proc[x]
    BY <2>1 DEF Reap
  <2> QED  BY <2>2, <2>3, <2>4 DEF Killing
<1>14. CASE ReapNone(Main)
  BY <1>14 DEF ReapNone, HandlerAt, HandlerGoto, Killing, Position, threadVars, kernelVars,
      spawnVars
<1>15. CASE Lookup(Main) \/ Flag(Main) \/ Call(Main)
  <2>1. h \in {"lookup", "flag", "call"} /\ h' \in {"flag", "call", "reap"}
    BY <1>15 DEF Lookup, Flag, Call, AfterReport, HandlerAt, HandlerGoto
  <2>2. UNCHANGED <<pc, cam, pkilled, pid, kernelVars>>
    BY <1>15 DEF Lookup, Flag, Call, threadVars, spawnVars
  <2> QED  BY <2>1, <2>2 DEF Killing, kernelVars
<1>16. CASE Wake(Main)
  BY <1>16 DEF Wake, Interrupted, HandlerAt, HandlerGoto, Goto, Killing, Position, kernelVars,
      spawnVars
<1>17. CASE Deliver(Main)
  BY <1>17 DEF Deliver, HandlerAt, HandlerGoto, Killing, Position, threadVars, spawnVars
<1>18. CASE \E p \in Pids : Exit(p)
  <2>1. PICK p \in Pids : Exit(p)
    BY <1>18
  <2>2. /\ proc[p] = "running" /\ proc' = [proc EXCEPT ![p] = "zombie"] /\ sigchld'
        /\ UNCHANGED <<pc, cam, pkilled, pid, owner, doomed, hpc>>
    BY <2>1 DEF Exit, threadVars, spawnVars, handlerVars
  <2>3. p \in doomed
    BY <2>2 DEF SelfExited, PidOrder
  <2>4. pc[Main] = "spin" /\ p = pid[cam] /\ ~pkilled /\ h = "none"
    BY <2>2, <2>3 DEF Killing
  <2> QED  BY <2>2, <2>4 DEF Killing
<1> QED  BY <1>4, <1>5, <1>6, <1>7, <1>8, <1>9, <1>10, <1>11, <1>12, <1>13, <1>14, <1>15,
      <1>16, <1>17, <1>18 DEF Next, StopCam, Constructor, Handler, Usr1

\* At most one running process has a camera open.
LEMMA OneReader ==
    ASSUME Threads = {Main}, ~UserSignals, IInv, Killing
    PROVE  DeviceExclusive
<1> SUFFICES ASSUME NEW x \in Pids, NEW y \in Pids, proc[x] = "running", proc[y] = "running",
                    owner[x] = owner[y], owner[x] # NoCam, x # y
             PROVE  FALSE
  BY DEF DeviceExclusive
<1> USE DEF IInv, TypeOK, NoPid, Pids
<1>1. \A p \in doomed : proc[p] = "running" => pc[Main] = "spin" /\ p = pid[cam] /\ owner[p] = cam
  BY DEF Killing, Position
<1>2. x \notin doomed \/ y \notin doomed
  BY <1>1
<1>3. \A z \in Pids : proc[z] = "running" => stops[z] = 0
  BY DEF Told, Calm
<1>4. CASE x \in doomed \/ y \in doomed
  <2>1. pc[Main] = "spin" /\ owner[x] = cam /\ q = NoPid
    BY <1>1, <1>4 DEF Position, Constructing
  <2>2. \A z \in Pids : proc[z] = "running" /\ owner[z] = cam => z \in doomed
    BY <1>3, <2>1 DEF Vacated
  <2> QED  BY <1>2, <2>1, <2>2
<1>5. CASE x \notin doomed /\ y \notin doomed
  <2>1. (pid[owner[x]] = x \/ x = q) /\ (pid[owner[y]] = y \/ y = q)
    BY <1>3, <1>5 DEF NoStray, q
  <2>2. q \in Pids => pc[Main] \in Constructing /\ owner[q] = cam
    BY DEF Position
  <2> QED  BY <1>3, <1>5, <2>1, <2>2 DEF Vacated
<1> QED  BY <1>2, <1>4, <1>5

\* A camera device is never open in two ffmpegs at once, as long as no ffmpeg
\* has ended by itself and no other program sends SIGUSR1.
THEOREM OneReaderPerDevice ==
    ASSUME Threads = {Main}, ~UserSignals
    PROVE  Spec => []DeviceExclusive
<1> DEFINE Safe == SelfExited \/ Killing
<1>1. Init => Safe
  BY KillingInit
<1>2. IInv /\ Safe /\ [Next]_vars => Safe'
  <2>1. ASSUME UNCHANGED vars, Killing PROVE Killing'
    BY <2>1 DEF Killing, h, vars, threadVars, spawnVars, handlerVars, kernelVars
  <2> QED  BY <2>1, SelfExitedStays, KillingStep
<1>3. IInv /\ Safe => DeviceExclusive
  BY OneReader DEF DeviceExclusive
<1>4. Spec => []IInv
  BY Inductive
<1> HIDE DEF Safe
<1> QED  BY <1>1, <1>2, <1>3, <1>4, PTL DEF Spec
=============================================================================
