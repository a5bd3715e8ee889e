----------------------------- MODULE Supervisor ------------------------------
(***************************************************************************)
(* The processes of ferryport and the commands that start and stop it:     *)
(* main, stopRunningProcess, firstFork, secondFork and the beginning of    *)
(* run() in src/main.cpp, the wvdials of its networkManager, and the fork  *)
(* in the constructor of spawn (src/mystdlib.cpp).                         *)
(*                                                                         *)
(* `-s daemon` is a chain: the root process forks the first child and      *)
(* waits, the first child forks the second child, the poller, starts a     *)
(* thread that may dial with wvdial, and waits, the poller forks ffmpegs.  *)
(* wait() returns for any child; one that ends before its parent waits is  *)
(* reaped by the SIGCHLD handler, and forgotten.  Every child but a free   *)
(* one asks to be killed when its parent dies, by a statement of its own   *)
(* after the fork; the first wvdial of a thread is a free child.  The      *)
(* poller writes the pid of the root process to the configuration, where   *)
(* the next command, -s or -x, reads it.  `-s normal` polls in the root    *)
(* process itself.                                                         *)
(*                                                                         *)
(* Bounds: MaxPid processes, MaxLaunches commands, MaxFaults crashes,      *)
(* MaxEvents crashes and wvdials together.  One ffmpeg per poller stands   *)
(* for all of them.  Left out: reused pids (kill of a stale pid then       *)
(* reaches nobody), failing forks, the other children of the network       *)
(* manager, whose end ends a wait as that of a wvdial does, a missing      *)
(* installation, -u -i -r -d, which begin with the same kill.              *)
(***************************************************************************)
EXTENDS Naturals, FiniteSets

CONSTANTS
    MaxPid, MaxLaunches, MaxFaults, MaxEvents,
    Modes,           \* the types of -s that are given
    Crashers,        \* the roles whose processes may crash
    Patient          \* a command is given, and a thread dials, only when all that
                     \* was done before has taken effect

Roles == {"root", "first", "second", "ffmpeg", "wvdial", "cli"}

ASSUME BoundAssumption ==
    MaxPid \in Nat /\ MaxLaunches \in Nat /\ MaxFaults \in Nat /\ MaxEvents \in Nat
ASSUME ModeAssumption == Modes \subseteq {"daemon", "normal"}
ASSUME CrasherAssumption == Crashers \subseteq Roles
ASSUME FlagAssumption == Patient \in BOOLEAN

Pids  == 1 .. MaxPid
NoPid == 0

VARIABLES
    pc,              \* pc[p]: the next statement of process p
    role, parent,    \* what p is, and whose child it is
    root,            \* root[p]: rootProcess as p has inherited it
    normal,          \* the root processes started by `-s normal`
    free,            \* the children spawned with freeChild = true
    armed,           \* the processes that have set PR_SET_PDEATHSIG
    doomed,          \* the processes that were sent SIGKILL or SIGTERM
    running,         \* running[p]: runningProcess, read from the configuration
    pidfile,         \* the pid in the configuration
    lastPid, launches, faults,
    shaken,          \* history: a wait has ended though the poller lives, or a
                     \* link of the chain above the poller has crashed
    orphaned,        \* history: a process has died before the prctl of its child
    last             \* the last command given

counters == <<lastPid, launches, faults, shaken, orphaned, last>>
vars == <<pc, role, parent, root, normal, free, armed, doomed, running, pidfile, counters>>

TypeOK ==
    /\ pc \in [Pids -> {"unborn", "kill", "fork", "manage", "wait", "arm", "write", "run", "gone"}]
    /\ role \in [Pids -> Roles]
    /\ parent \in [Pids -> Pids \cup {NoPid}]
    /\ root \in [Pids -> Pids \cup {NoPid}]
    /\ normal \subseteq Pids /\ free \subseteq Pids /\ armed \subseteq Pids /\ doomed \subseteq Pids
    /\ running \in [Pids -> Pids \cup {NoPid}]
    /\ pidfile \in Pids \cup {NoPid}
    /\ lastPid \in 0 .. MaxPid /\ launches \in 0 .. MaxLaunches /\ faults \in 0 .. MaxFaults
    /\ shaken \in BOOLEAN /\ orphaned \in BOOLEAN
    /\ last \in {"none", "start", "stop"}

Init ==
    /\ pc = [p \in Pids |-> "unborn"]
    /\ role = [p \in Pids |-> "cli"]
    /\ parent = [p \in Pids |-> NoPid]
    /\ root = [p \in Pids |-> NoPid]
    /\ normal = {} /\ free = {} /\ armed = {} /\ doomed = {}
    /\ running = [p \in Pids |-> NoPid]
    /\ pidfile = NoPid
    /\ lastPid = 0 /\ launches = 0 /\ faults = 0
    /\ shaken = FALSE /\ orphaned = FALSE
    /\ last = "none"

Alive(p) == p \in Pids /\ pc[p] \notin {"unborn", "gone"}

\* The crashes and the wvdials so far.
Events == faults + Cardinality({c \in Pids : role[c] = "wvdial"})

LivingChildren(p, r) == {c \in Pids : parent[c] = p /\ role[c] = r /\ Alive(c)}

Polling(p) == pc[p] = "run" /\ role[p] \in {"root", "second"}

\* Every process that lives is settled: the roots are in the configuration,
\* the children have armed themselves, the pollers have their ffmpeg.
Settled ==
    \A p \in Pids : Alive(p) =>
        /\ role[p] = "root" => pidfile = p
        /\ pc[p] \in {"wait", "run"} /\ p \notin doomed
        /\ Polling(p) => LivingChildren(p, "ffmpeg") # {}

-----------------------------------------------------------------------------
(* Commands                                                                *)

\* main() of a new command, which reads runningProcess first of all.
Launch(r, isNormal) ==
    LET p == lastPid + 1 IN
    /\ launches < MaxLaunches /\ lastPid < MaxPid
    /\ Patient => Settled
    /\ launches' = launches + 1 /\ lastPid' = p
    /\ last' = IF r = "root" THEN "start" ELSE "stop"
    /\ pc' = [pc EXCEPT ![p] = "kill"]
    /\ role' = [role EXCEPT ![p] = r]
    /\ root' = [root EXCEPT ![p] = p]
    /\ normal' = IF isNormal THEN normal \cup {p} ELSE normal
    /\ running' = [running EXCEPT ![p] = pidfile]
    /\ UNCHANGED <<parent, free, armed, doomed, pidfile, faults, shaken, orphaned>>

StartDaemon == "daemon" \in Modes /\ Launch("root", FALSE)
StartNormal == "normal" \in Modes /\ Launch("root", TRUE)
Stop        == Launch("cli", FALSE)

\* Mutant of StopRunningProcess: SIGTERM goes out only when a command stops.
StopRunningProcessCli(p) ==
    /\ pc[p] = "kill"
    /\ doomed' = IF Alive(running[p]) /\ role[p] = "cli" THEN doomed \cup {running[p]} ELSE doomed
    /\ pc' = [pc EXCEPT ![p] = CASE role[p] = "cli" -> "gone"
                                 [] p \in normal -> "write"
                                 [] OTHER -> "fork"]
    /\ UNCHANGED <<role, parent, root, normal, free, armed, running, pidfile, counters>>

\* stopRunningProcess: SIGTERM to the recorded root process.  -x ends here.
StopRunningProcess(p) ==
    /\ pc[p] = "kill"
    /\ doomed' = IF Alive(running[p]) THEN doomed \cup {running[p]} ELSE doomed
    /\ pc' = [pc EXCEPT ![p] = CASE role[p] = "cli" -> "gone"
                                 [] p \in normal -> "write"
                                 [] OTHER -> "fork"]
    /\ UNCHANGED <<role, parent, root, normal, free, armed, running, pidfile, counters>>

-----------------------------------------------------------------------------
(* The chain of processes                                                  *)

\* Mutant of Child: the poller's child is taken for a third link of the chain.
ChildEndless(p) == CASE role[p] = "root" -> "first" [] role[p] = "first" -> "second" [] OTHER -> "third"

\* Whose fork makes what.  The root process of `-s normal` is a poller itself.
Child(p) == CASE role[p] = "root" /\ p \notin normal -> "first"
              [] role[p] = "first" -> "second"
              [] OTHER -> "ffmpeg"

\* Process p forks a child in role r and is then at statement s.
Spawned(p, r, freeChild, s) ==
    LET c == lastPid + 1 IN
    /\ lastPid < MaxPid
    /\ lastPid' = c
    /\ pc' = [pc EXCEPT ![p] = s, ![c] = "arm"]
    /\ role' = [role EXCEPT ![c] = r]
    /\ parent' = [parent EXCEPT ![c] = p]
    /\ root' = [root EXCEPT ![c] = root[p]]
    /\ free' = IF freeChild THEN free \cup {c} ELSE free
    /\ UNCHANGED <<normal, armed, doomed, running, pidfile, launches, faults, shaken, orphaned, last>>

\* The fork of firstFork and of secondFork.
Fork(p) == pc[p] = "fork" /\ Spawned(p, Child(p), FALSE, "manage")

\* The parent starts its thread and waits, for whatever child it has left: the
\* handler has reaped those that have ended.  Without any, wait() returns at once.
Wait(p) ==
    /\ pc[p] = "manage"
    /\ pc' = [pc EXCEPT ![p] = IF \E c \in Pids : parent[c] = p /\ Alive(c)
                               THEN "wait" ELSE "fork"]
    /\ UNCHANGED <<role, parent, root, normal, free, armed, doomed, running, pidfile, counters>>

\* The poller starts an ffmpeg when it has none.
Capture(p) ==
    /\ Polling(p)
    /\ LivingChildren(p, "ffmpeg") = {}
    /\ Spawned(p, Child(p), FALSE, "run")

-----------------------------------------------------------------------------
(* The wvdials of the first child p                                        *)

DialledFrom(p) == {c \in Pids : parent[c] = p /\ role[c] = "wvdial"}
FirstDials(p)  == DialledFrom(p) \cap free

\* secondFork has started a thread each time, after its fork.
Threads(p) ==
    Cardinality({c \in Pids : parent[c] = p /\ role[c] = "second"})
        - (IF pc[p] = "manage" THEN 1 ELSE 0)

CanDial(p) ==
    /\ Alive(p) /\ role[p] = "first"
    /\ Patient => Settled
    /\ Events < MaxEvents

\* A thread dials for the first time.
Dial(p) ==
    /\ CanDial(p)
    /\ Cardinality(FirstDials(p)) < Threads(p)
    /\ Spawned(p, "wvdial", TRUE, pc[p])

\* A thread that finds the network down again ends its wvdial ...
Hangup(p) ==
    /\ CanDial(p)
    /\ \E c \in LivingChildren(p, "wvdial") : doomed' = doomed \cup {c}
    /\ UNCHANGED <<pc, role, parent, root, normal, free, armed, running, pidfile, counters>>

\* ... and, when it has ended, spawns another one, which is no free child.  (Each
\* thread that has dialled has one wvdial, which lives or does not.)
Redial(p) ==
    /\ CanDial(p)
    /\ Cardinality(LivingChildren(p, "wvdial")) < Cardinality(FirstDials(p))
    /\ Spawned(p, "wvdial", FALSE, pc[p])

-----------------------------------------------------------------------------
(* The children                                                            *)

\* Mutant of ArmedBy: the child forgets prctl.
ArmedByNone(p) == armed

\* prctl(PR_SET_PDEATHSIG, SIGKILL), unless the child is a free one
ArmedBy(p) == IF p \in free THEN armed ELSE armed \cup {p}

\* What follows in the child.
Arm(p) ==
    /\ pc[p] = "arm"
    /\ armed' = ArmedBy(p)
    /\ pc' = [pc EXCEPT ![p] = CASE role[p] = "first" -> "fork"
                                 [] role[p] = "second" -> "write"
                                 [] OTHER -> "run"]
    /\ UNCHANGED <<role, parent, root, normal, free, doomed, running, pidfile, counters>>

\* writeConfigValue("pid", rootProcess) in run()
WriteConfig(p) ==
    /\ pc[p] = "write"
    /\ pidfile' = root[p]
    /\ pc' = [pc EXCEPT ![p] = "run"]
    /\ UNCHANGED <<role, parent, root, normal, free, armed, doomed, running, counters>>

-----------------------------------------------------------------------------
(* Deaths                                                                  *)

\* Mutants of Woken: the parent gives up when its child has ended; it forks
\* again as soon as any process has ended.
WokenGivesUp(p) == [pc EXCEPT ![p] = "gone"]
WokenAlways(p)  == [x \in Pids |-> IF x = p THEN "gone"
                                   ELSE IF pc[x] = "wait" THEN "fork" ELSE pc[x]]

\* wait() of the parent of p returns, whichever child p is: it forks a new child.
Woken(p) == [x \in Pids |-> IF x = p THEN "gone"
                            ELSE IF x = parent[p] /\ pc[x] = "wait" THEN "fork" ELSE pc[x]]

\* p is gone; the kernel kills the children that have asked for it.
Dies(p) ==
    /\ pc' = Woken(p)
    /\ LET children == {c \in Pids : parent[c] = p /\ Alive(c)} IN
       /\ doomed' = doomed \cup (children \cap armed)
       /\ orphaned' = (orphaned \/ \E c \in children \ free : pc[c] = "arm")
    /\ UNCHANGED <<role, parent, root, normal, free, armed, running, pidfile, lastPid,
                   launches, last>>

\* The end of p ends the wait of a first child whose poller lives.
Shakes(p) ==
    /\ role[p] = "wvdial" /\ pc[parent[p]] = "wait"
    /\ LivingChildren(parent[p], "second") # {}

\* A signal kills p.
Killed(p) ==
    /\ Alive(p) /\ p \in doomed
    /\ shaken' = (shaken \/ Shakes(p))
    /\ Dies(p)
    /\ UNCHANGED faults

\* A process ends by itself.
Crash(p) ==
    /\ Alive(p) /\ role[p] \in Crashers
    /\ faults < MaxFaults /\ Events < MaxEvents
    /\ faults' = faults + 1
    /\ shaken' = (shaken \/ role[p] \in {"root", "first"} \/ Shakes(p))
    /\ Dies(p)

Step(p) == StopRunningProcess(p) \/ Fork(p) \/ Wait(p) \/ Arm(p) \/ WriteConfig(p) \/ Capture(p)

Network(p) == Dial(p) \/ Hangup(p) \/ Redial(p)

Next ==
    \/ StartDaemon \/ StartNormal \/ Stop
    \/ \E p \in Pids : Step(p) \/ Network(p) \/ Killed(p) \/ Crash(p)

\* Processes are scheduled and signals are carried out.  (No process can starve
\* another: each takes finitely many steps before the bounds stop it.)
Spec == Init /\ [][Next]_vars /\ WF_vars(\E p \in Pids : Step(p) \/ Killed(p))

-----------------------------------------------------------------------------
(* Properties                                                              *)

\* An instance never has two pollers that will both go on: a poller is forked
\* again only when the old one is gone or about to be killed.  (Holds as long as
\* only pollers and ffmpegs crash and no wait ends while the poller lives.)
OnePoller ==
    \A p, o \in Pids :
        (/\ role[p] = "second" /\ Alive(p) /\ p \notin doomed
         /\ role[o] = "second" /\ Alive(o) /\ o \notin doomed
         /\ root[p] = root[o] /\ ~shaken) => p = o

\* The poller has ended before its parent waited, which waits for a wvdial now.
Deaf(p) ==
    /\ role[p] = "first" /\ pc[p] = "wait"
    /\ LivingChildren(p, "second") = {} /\ LivingChildren(p, "wvdial") # {}

\* A daemon whose root process lives always polls again, whichever of its
\* children ends.  Only a poller that ends between the fork and the wait of its
\* parent, while a wvdial lives, is not replaced before that wvdial ends.
DaemonHeals ==
    []<>(\A r \in Pids : (Alive(r) /\ role[r] = "root" /\ r \notin doomed)
                            => \E p \in Pids : root[p] = r /\ (Polling(p) \/ Deaf(p)))

\* -x --stop "Terminates": when the last command was a stop, nothing is left
\* of the daemon in the end, not even an ffmpeg.
StopTerminates ==
    <>[](last = "stop") => <>[](\A p \in Pids : ~Alive(p))

\* It does so, whatever has crashed before and after it, where the daemon is
\* settled when the stop is given and no process dies between its fork and the
\* prctl of its child, but for a thread's first wvdial: a free child goes on.
SettledStopTerminates ==
    <>[](last = "stop" /\ ~orphaned) => <>[](\A p \in Pids \ free : ~Alive(p))

\* A second -s replaces the instance that runs: in the end only processes of
\* one instance are alive, free children apart, under the same conditions.
StartReplaces ==
    <>[](~orphaned) =>
        <>[](\A p, o \in Pids \ free : Alive(p) /\ Alive(o) => root[p] = root[o])
=============================================================================
