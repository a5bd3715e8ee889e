-------------------------- MODULE Supervisor_proofs --------------------------
(***************************************************************************)
(* Proofs about Supervisor for any number of processes, commands and       *)
(* faults, whichever processes may crash and whether or not commands are   *)
(* given, and threads dial, in haste.                                      *)
(***************************************************************************)
EXTENDS Supervisor, TLAPS

\* The processes are numbered in the order of their forks; commands are
\* nobody's children.
Family ==
    /\ \A p \in Pids : pc[p] = "unborn" <=> p > lastPid
    /\ \A p \in Pids : pc[p] = "unborn" => role[p] = "cli"
    /\ \A p \in Pids : role[p] \in {"root", "cli"} => parent[p] = NoPid
    /\ \A p \in Pids : pc[p] # "unborn" /\ role[p] \in {"root", "cli"} => root[p] = p
    /\ \A p \in normal : role[p] = "root"

\* The statements that a process of each role can be at.
Statements ==
    \A p \in Pids :
        \/ pc[p] = "gone"
        \/ pc[p] = "unborn" /\ role[p] = "cli"
        \/ pc[p] = "kill" /\ role[p] \in {"root", "cli"}
        \/ pc[p] = "arm" /\ role[p] \in {"first", "second", "ffmpeg", "wvdial"}
        \/ pc[p] \in {"fork", "manage", "wait"}
           /\ (role[p] = "first" \/ (role[p] = "root" /\ p \notin normal))
        \/ pc[p] = "write" /\ (role[p] = "second" \/ p \in normal)
        \/ pc[p] = "run" /\ (role[p] \in {"second", "ffmpeg", "wvdial"} \/ p \in normal)

\* The chain: the parent of a second child is a first child, its parent is the
\* root process, and both children have inherited rootProcess from it.  Who has
\* started an ffmpeg waits for nobody.  wvdials belong to first children.
Chain ==
    /\ \A p \in Pids : role[p] = "first" =>
           /\ parent[p] \in Pids /\ pc[parent[p]] # "unborn"
           /\ role[parent[p]] = "root" /\ root[p] = parent[p]
    /\ \A p \in Pids : role[p] = "second" =>
           /\ parent[p] \in Pids /\ pc[parent[p]] # "unborn"
           /\ role[parent[p]] = "first" /\ root[p] = root[parent[p]]
    /\ \A p \in Pids : role[p] = "ffmpeg" =>
           /\ parent[p] \in Pids
           /\ role[parent[p]] = "second" \/ parent[p] \in normal
    /\ \A p \in Pids : role[p] = "wvdial" =>
           /\ parent[p] \in Pids /\ pc[parent[p]] # "unborn"
           /\ role[parent[p]] = "first"

\* Commands and the configuration name root processes only; a first child is
\* killed by nothing but the death of its root process.
Targets ==
    /\ pidfile # NoPid => role[pidfile] = "root" /\ pc[pidfile] # "unborn"
    /\ \A p \in Pids : running[p] # NoPid =>
           role[running[p]] = "root" /\ pc[running[p]] # "unborn"
    /\ \A p \in doomed : pc[p] # "unborn" /\ (role[p] = "first" => pc[parent[p]] = "gone")

\* Unless the chain was shaken a root process forks once in its life, and a
\* first child has one living poller, except between two forks.
Forks ==
    ~shaken =>
    /\ \A p \in Pids : role[p] = "first" /\ pc[p] = "gone" => pc[parent[p]] = "gone"
    /\ \A p \in Pids : role[p] = "first" => pc[root[p]] \notin {"kill", "fork"}
    /\ \A p, o \in Pids : role[p] = "first" /\ role[o] = "first" /\ root[p] = root[o] => p = o
    /\ \A p \in Pids : role[p] = "second" /\ pc[p] # "gone" => pc[parent[p]] \in {"manage", "wait", "gone"}
    /\ \A p, o \in Pids : (/\ role[p] = "second" /\ role[o] = "second" /\ parent[p] = parent[o]
                           /\ pc[p] # "gone" /\ pc[o] # "gone") => p = o

IInv == TypeOK /\ Family /\ Statements /\ Chain /\ Targets /\ Forks

-----------------------------------------------------------------------------
\* The initial state satisfies the inductive invariant.
LEMMA InitInv == Init => IInv
<1> SUFFICES ASSUME Init PROVE IInv
  OBVIOUS
<1> USE BoundAssumption DEF Init, Pids, NoPid
<1>1. TypeOK
  <2>1. /\ shaken \in BOOLEAN /\ orphaned \in BOOLEAN /\ last \in {"none", "start", "stop"}
        /\ normal \subseteq Pids /\ free \subseteq Pids /\ armed \subseteq Pids /\ doomed \subseteq Pids
    BY Zenon
  <2>2. /\ lastPid \in 0 .. MaxPid /\ launches \in 0 .. MaxLaunches /\ faults \in 0 .. MaxFaults
    OBVIOUS
  <2>3. /\ role \in [Pids -> Roles] /\ parent \in [Pids -> Pids \cup {NoPid}]
        /\ root \in [Pids -> Pids \cup {NoPid}] /\ running \in [Pids -> Pids \cup {NoPid}]
        /\ pc \in [Pids -> {"unborn", "kill", "fork", "manage", "wait", "arm", "write", "run", "gone"}]
        /\ pidfile \in Pids \cup {NoPid}
    BY DEF Roles
  <2> QED  BY <2>1, <2>2, <2>3 DEF TypeOK
<1>2. Family /\ Statements /\ Chain /\ Targets /\ Forks
  BY DEF Family, Statements, Chain, Targets, Forks
<1> QED  BY <1>1, <1>2 DEF IInv

\* A new command is a root process, or one of its own, and nobody's child.
LEMMA LaunchInv ==
    ASSUME IInv, StartDaemon \/ StartNormal \/ Stop
    PROVE  IInv'
<1>1. PICK r \in {"root", "cli"}, isNormal \in BOOLEAN :
          Launch(r, isNormal) /\ (isNormal => r = "root")
  BY DEF StartDaemon, StartNormal, Stop
<1> USE BoundAssumption DEF IInv, Pids, NoPid
<1>2. PICK n \in Pids : n = lastPid + 1 /\ pc[n] = "unborn"
  BY <1>1 DEF Launch, TypeOK, Family
<1>3. /\ pc' = [pc EXCEPT ![n] = "kill"] /\ role' = [role EXCEPT ![n] = r]
      /\ root' = [root EXCEPT ![n] = n] /\ running' = [running EXCEPT ![n] = pidfile]
      /\ normal' = IF isNormal THEN normal \cup {n} ELSE normal
      /\ lastPid' = n /\ launches' = launches + 1 /\ launches < MaxLaunches
      /\ last' \in {"start", "stop"}
      /\ UNCHANGED <<parent, free, armed, doomed, pidfile, faults, shaken, orphaned>>
  BY <1>1, <1>2 DEF Launch
<1>4. TypeOK'
  BY <1>2, <1>3 DEF TypeOK, Roles
<1>5. Family'
  BY <1>1, <1>2, <1>3 DEF TypeOK, Family
<1>6. Statements'
  BY <1>1, <1>2, <1>3 DEF TypeOK, Family, Statements
<1>7. Chain'
  BY <1>1, <1>2, <1>3 DEF TypeOK, Family, Statements, Chain
<1>8. Targets'
  BY <1>1, <1>2, <1>3 DEF TypeOK, Family, Statements, Chain, Targets
<1>9. Forks'
  BY <1>1, <1>2, <1>3 DEF TypeOK, Family, Statements, Chain, Forks
<1> QED  BY <1>4, <1>5, <1>6, <1>7, <1>8, <1>9

\* SIGTERM goes to a root process; prctl and the configuration change no
\* relation between processes.
LEMMA StepInv ==
    ASSUME IInv, NEW p \in Pids, StopRunningProcess(p) \/ Wait(p) \/ Arm(p) \/ WriteConfig(p)
    PROVE  IInv'
<1> USE BoundAssumption DEF IInv, Pids, NoPid, counters
<1>1. CASE StopRunningProcess(p)
  <2>0. PICK s : s = CASE role[p] = "cli" -> "gone" [] p \in normal -> "write" [] OTHER -> "fork"
    OBVIOUS
  <2>1. /\ pc[p] = "kill" /\ pc' = [pc EXCEPT ![p] = s]
        /\ s \in {"gone", "write", "fork"}
        /\ role[p] = "cli" => s = "gone"
        /\ (role[p] # "cli" /\ p \in normal) => s = "write"
        /\ (role[p] # "cli" /\ p \notin normal) => s = "fork"
        /\ doomed' = IF Alive(running[p]) THEN doomed \cup {running[p]} ELSE doomed
        /\ UNCHANGED <<role, parent, root, normal, free, armed, running, pidfile, counters>>
    <3>1. /\ pc[p] = "kill" /\ pc' = [pc EXCEPT ![p] = s]
          /\ doomed' = IF Alive(running[p]) THEN doomed \cup {running[p]} ELSE doomed
          /\ UNCHANGED <<role, parent, root, normal, free, armed, running, pidfile, counters>>
      BY <1>1, <2>0 DEF StopRunningProcess
    <3>2. /\ s \in {"gone", "write", "fork"} /\ (role[p] = "cli" => s = "gone")
          /\ (role[p] # "cli" /\ p \in normal) => s = "write"
          /\ (role[p] # "cli" /\ p \notin normal) => s = "fork"
      BY <2>0 DEF Family
    <3> QED  BY <3>1, <3>2
  <2>2. role[p] \in {"root", "cli"}
    BY <2>1 DEF TypeOK, Family, Statements
  <2>3. TypeOK'
    BY <2>1 DEF TypeOK, Alive
  <2>4. Family'
    BY <2>1, <2>2 DEF TypeOK, Family
  <2>5. Statements'
    BY <2>1, <2>2 DEF TypeOK, Family, Statements
  <2>6. Chain'
    BY <2>1, <2>2 DEF TypeOK, Family, Statements, Chain
  <2>7. Targets'
    BY <2>1, <2>2 DEF TypeOK, Family, Statements, Chain, Targets, Alive
  <2>8. Forks'
    BY <2>1, <2>2 DEF TypeOK, Family, Statements, Chain, Forks
  <2> QED  BY <2>3, <2>4, <2>5, <2>6, <2>7, <2>8
<1>2. CASE Arm(p)
  <2>1. PICK s \in {"fork", "write", "run"} :
            /\ pc[p] = "arm" /\ pc' = [pc EXCEPT ![p] = s]
            /\ s = CASE role[p] = "first" -> "fork" [] role[p] = "second" -> "write" [] OTHER -> "run"
            /\ armed' = IF p \in free THEN armed ELSE armed \cup {p}
            /\ UNCHANGED <<role, parent, root, normal, free, doomed, running, pidfile, counters>>
    BY <1>2 DEF Arm, ArmedBy
  <2>2. role[p] \in {"first", "second", "ffmpeg", "wvdial"}
    BY <2>1 DEF TypeOK, Family, Statements
  <2>3. TypeOK'
    BY <2>1 DEF TypeOK
  <2>4. Family'
    BY <2>1, <2>2 DEF TypeOK, Family
  <2>5. Statements'
    BY <2>1, <2>2 DEF TypeOK, Family, Statements
  <2>6. Chain'
    BY <2>1, <2>2 DEF TypeOK, Family, Statements, Chain
  <2>7. Targets'
    BY <2>1, <2>2 DEF TypeOK, Family, Statements, Chain, Targets
  <2>8. Forks'
    BY <2>1, <2>2 DEF TypeOK, Family, Statements, Chain, Forks
  <2> QED  BY <2>3, <2>4, <2>5, <2>6, <2>7, <2>8
<1>3. CASE WriteConfig(p)
  <2>1. /\ pc[p] = "write" /\ pc' = [pc EXCEPT ![p] = "run"] /\ pidfile' = root[p]
        /\ UNCHANGED <<role, parent, root, normal, free, armed, doomed, running, counters>>
    BY <1>3 DEF WriteConfig
  <2>2. role[p] = "second" \/ p \in normal
    BY <2>1 DEF TypeOK, Family, Statements
  <2>3. root[p] \in Pids /\ role[root[p]] = "root" /\ pc[root[p]] # "unborn"
    BY <2>1, <2>2 DEF TypeOK, Family, Statements, Chain
  <2>4. TypeOK'
    BY <2>1 DEF TypeOK
  <2>5. Family'
    BY <2>1, <2>2 DEF TypeOK, Family
  <2>6. Statements'
    BY <2>1, <2>2 DEF TypeOK, Family, Statements
  <2>7. Chain'
    BY <2>1, <2>2 DEF TypeOK, Family, Statements, Chain
  <2>8. Targets'
    BY <2>1, <2>2, <2>3 DEF TypeOK, Family, Statements, Chain, Targets
  <2>9. Forks'
    BY <2>1, <2>2 DEF TypeOK, Family, Statements, Chain, Forks
  <2> QED  BY <2>4, <2>5, <2>6, <2>7, <2>8, <2>9
<1>4. CASE Wait(p)
  <2>1. PICK s \in {"fork", "wait"} :
            /\ pc[p] = "manage" /\ pc' = [pc EXCEPT ![p] = s]
            /\ s = "fork" => \A c \in Pids : parent[c] = p => ~Alive(c)
            /\ UNCHANGED <<role, parent, root, normal, free, armed, doomed, running, pidfile, counters>>
    BY <1>4 DEF Wait
  <2>2. (role[p] = "root" /\ p \notin normal) \/ role[p] = "first"
    BY <2>1 DEF TypeOK, Family, Statements
  <2>3. TypeOK'
    BY <2>1 DEF TypeOK
  <2>4. Family'
    BY <2>1, <2>2 DEF TypeOK, Family
  <2>5. Statements'
    BY <2>1, <2>2 DEF TypeOK, Family, Statements
  <2>6. Chain'
    BY <2>1, <2>2 DEF TypeOK, Family, Statements, Chain
  <2>7. Targets'
    BY <2>1, <2>2 DEF TypeOK, Family, Statements, Chain, Targets
  <2>8. Forks'
    <3>1. s = "fork" => \A c \in Pids : parent[c] = p => pc[c] \in {"unborn", "gone"}
      BY <2>1 DEF Alive
    <3> QED  BY <2>1, <2>2, <3>1 DEF TypeOK, Family, Statements, Chain, Forks
  <2> QED  BY <2>3, <2>4, <2>5, <2>6, <2>7, <2>8
<1> QED  BY <1>1, <1>2, <1>3, <1>4

\* A thread ends a wvdial of its process.
LEMMA HangupInv ==
    ASSUME IInv, NEW p \in Pids, Hangup(p)
    PROVE  IInv'
<1> USE BoundAssumption DEF IInv, Pids, NoPid, counters
<1>1. PICK c \in Pids : /\ role[c] = "wvdial" /\ pc[c] # "unborn"
                        /\ doomed' = doomed \cup {c}
                        /\ UNCHANGED <<pc, role, parent, root, normal, free, armed, running,
                                       pidfile, counters>>
  BY DEF Hangup, LivingChildren, Alive
<1>2. TypeOK'
  BY <1>1 DEF TypeOK
<1>3. Family' /\ Statements' /\ Chain' /\ Forks'
  BY <1>1 DEF Family, Statements, Chain, Forks
<1>4. Targets'
  BY <1>1 DEF Targets
<1> QED  BY <1>2, <1>3, <1>4

\* A fork adds a link to the chain, an ffmpeg at its end, or a wvdial beside it.
LEMMA ForkInv ==
    ASSUME IInv, NEW p \in Pids, Fork(p) \/ Capture(p) \/ Dial(p) \/ Redial(p)
    PROVE  IInv'
<1> USE BoundAssumption DEF IInv, Pids, NoPid
<1>1. PICK c \in Pids, r \in {"first", "second", "ffmpeg", "wvdial"},
           s \in {"unborn", "kill", "fork", "manage", "wait", "arm", "write", "run", "gone"} :
          /\ c = lastPid + 1 /\ lastPid' = c
          /\ pc' = [pc EXCEPT ![p] = s, ![c] = "arm"]
          /\ role' = [role EXCEPT ![c] = r] /\ parent' = [parent EXCEPT ![c] = p]
          /\ root' = [root EXCEPT ![c] = root[p]]
          /\ free' = free \/ free' = free \cup {c}
          /\ UNCHANGED <<normal, armed, doomed, running, pidfile, launches, faults, shaken,
                         orphaned, last>>
          /\ \/ s = "manage" /\ pc[p] = "fork" /\ r = Child(p)
             \/ s = "run" /\ Polling(p) /\ r = Child(p)
             \/ s = pc[p] /\ r = "wvdial" /\ Alive(p) /\ role[p] = "first"
  <2>1. /\ lastPid + 1 \in Pids
        /\ Child(p) \in {"first", "second", "ffmpeg", "wvdial"}
        /\ pc[p] \in {"unborn", "kill", "fork", "manage", "wait", "arm", "write", "run", "gone"}
    BY DEF Fork, Capture, Dial, Redial, Spawned, Child, TypeOK
  <2>2. CASE Fork(p)
    BY <2>1, <2>2 DEF Fork, Spawned
  <2>3. CASE Capture(p)
    BY <2>1, <2>3 DEF Capture, Spawned
  <2>4. CASE Dial(p)
    BY <2>1, <2>4 DEF Dial, CanDial, Spawned
  <2>5. CASE Redial(p)
    BY <2>1, <2>5 DEF Redial, CanDial, Spawned
  <2> QED  BY <2>2, <2>3, <2>4, <2>5
<1>2. pc[c] = "unborn" /\ p # c
  BY <1>1 DEF TypeOK, Family, Polling, Alive
<1>3. \/ s = "manage" /\ pc[p] = "fork"
         /\ \/ role[p] = "root" /\ p \notin normal /\ r = "first" /\ root[p] = p
            \/ role[p] = "first" /\ r = "second"
      \/ s = "run" /\ pc[p] = "run" /\ r = "ffmpeg" /\ (role[p] = "second" \/ p \in normal)
      \/ s = pc[p] /\ r = "wvdial" /\ pc[p] # "unborn" /\ role[p] = "first"
  <2>1. CASE s = "manage" /\ pc[p] = "fork" /\ r = Child(p)
    BY <1>1, <2>1 DEF TypeOK, Family, Statements, Child
  <2>2. CASE s = "run" /\ Polling(p) /\ r = Child(p)
    BY <1>1, <2>2 DEF TypeOK, Family, Statements, Polling, Child
  <2>3. CASE s = pc[p] /\ r = "wvdial" /\ Alive(p) /\ role[p] = "first"
    BY <2>3 DEF Alive
  <2> QED  BY <1>1, <2>1, <2>2, <2>3
<1>4. TypeOK'
  <2>1. /\ pc' \in [Pids -> {"unborn", "kill", "fork", "manage", "wait", "arm", "write", "run", "gone"}]
    BY <1>1 DEF TypeOK
  <2>2. role' \in [Pids -> Roles]
    BY <1>1 DEF TypeOK, Roles
  <2>3. /\ parent' \in [Pids -> Pids \cup {NoPid}] /\ root' \in [Pids -> Pids \cup {NoPid}]
        /\ lastPid' \in 0 .. MaxPid
    BY <1>1 DEF TypeOK
  <2>4. free' \subseteq Pids
    BY <1>1 DEF TypeOK
  <2> QED  BY <1>1, <2>1, <2>2, <2>3, <2>4 DEF TypeOK
<1>5. Family'
  BY <1>1, <1>2, <1>3 DEF TypeOK, Family, Statements
<1>6. Statements'
  BY <1>1, <1>2, <1>3 DEF TypeOK, Family, Statements
<1>7. Chain'
  BY <1>1, <1>2, <1>3 DEF TypeOK, Family, Statements, Chain
<1>8. Targets'
  BY <1>1, <1>2, <1>3 DEF TypeOK, Family, Statements, Chain, Targets
<1>9. Forks'
  <2> SUFFICES ASSUME ~shaken PROVE Forks'
    BY <1>1 DEF Forks
  <2>1. \A x \in Pids : x # c => /\ role'[x] = role[x] /\ parent'[x] = parent[x] /\ root'[x] = root[x]
                                 /\ role[x] \in {"first", "second"} =>
                                        parent[x] \in Pids /\ parent[x] # c /\ root[x] # c
    BY <1>1, <1>2 DEF TypeOK, Family, Chain
  <2>2. role'[c] = r /\ parent'[c] = p /\ root'[c] = root[p] /\ pc'[c] = "arm" /\ pc'[p] = s
        /\ \A x \in Pids : x # c /\ x # p => pc'[x] = pc[x]
    BY <1>1, <1>2 DEF TypeOK
  <2>3. /\ r = "first" => pc[p] = "fork" /\ role[p] = "root" /\ root[p] = p /\ s = "manage"
        /\ r = "second" => pc[p] = "fork" /\ role[p] = "first" /\ s = "manage"
        /\ r \in {"ffmpeg", "wvdial"} => s = pc[p]
        /\ s \notin {"gone", "kill", "fork"} \/ s = pc[p]
    BY <1>1, <1>3
  <2>4. \A x \in Pids : role'[x] = "first" /\ pc'[x] = "gone" => pc'[parent'[x]] = "gone"
    BY <1>2, <2>1, <2>2, <2>3 DEF Forks
  <2>5. \A x \in Pids : role'[x] = "first" => pc'[root'[x]] \notin {"kill", "fork"}
    BY <1>2, <2>1, <2>2, <2>3 DEF Forks, Chain
  <2>6. \A x, o \in Pids : role'[x] = "first" /\ role'[o] = "first" /\ root'[x] = root'[o] => x = o
    BY <1>2, <2>1, <2>2, <2>3 DEF Forks, Chain
  <2>7. \A x \in Pids : role'[x] = "second" /\ pc'[x] # "gone" => pc'[parent'[x]] \in {"manage", "wait", "gone"}
    BY <1>2, <2>1, <2>2, <2>3 DEF Forks
  <2>8. \A x, o \in Pids : (/\ role'[x] = "second" /\ role'[o] = "second" /\ parent'[x] = parent'[o]
                             /\ pc'[x] # "gone" /\ pc'[o] # "gone") => x = o
    BY <1>2, <2>1, <2>2, <2>3 DEF Forks
  <2> QED  BY <2>4, <2>5, <2>6, <2>7, <2>8 DEF Forks
<1> QED  BY <1>4, <1>5, <1>6, <1>7, <1>8, <1>9

\* When a process dies its waiting parent forks again.  A first child that was
\* killed has no parent any more that could.
LEMMA DeathInv ==
    ASSUME IInv, NEW p \in Pids, Killed(p) \/ Crash(p)
    PROVE  IInv'
<1> USE BoundAssumption DEF IInv, Pids, NoPid
<1>1. /\ Alive(p) /\ Dies(p) /\ faults' \in 0 .. MaxFaults
      /\ shaken' \in BOOLEAN
  <2>1. CASE Killed(p)
    <3>1. shaken' \in BOOLEAN
      BY <2>1, Zenon DEF Killed
    <3> QED  BY <2>1, <3>1 DEF Killed, TypeOK
  <2>2. CASE Crash(p)
    <3>1. shaken' \in BOOLEAN
      BY <2>2, Zenon DEF Crash
    <3>2. faults' \in 0 .. MaxFaults
      BY <2>2 DEF Crash, TypeOK
    <3> QED  BY <2>2, <3>1, <3>2 DEF Crash
  <2> QED  BY <2>1, <2>2
<1>2. ~shaken' => ~shaken /\ ~Shakes(p) /\ (role[p] = "first" => pc[parent[p]] = "gone")
  BY DEF Killed, Crash, Targets
<1>3. /\ \A x \in Pids : pc'[x] = IF x = p THEN "gone"
                                  ELSE IF x = parent[p] /\ pc[x] = "wait" THEN "fork" ELSE pc[x]
      /\ pc' \in [Pids -> {"unborn", "kill", "fork", "manage", "wait", "arm", "write", "run", "gone"}]
  BY <1>1 DEF Dies, Woken, TypeOK
<1>4. /\ UNCHANGED <<role, parent, root, normal, free, armed, running, pidfile, lastPid, launches, last>>
      /\ \A x \in doomed' : x \in doomed \/ (x \in Pids /\ parent[x] = p /\ Alive(x))
      /\ orphaned' \in BOOLEAN
  BY <1>1 DEF Dies, TypeOK
<1>5. pc[p] # "unborn" /\ pc[p] # "gone"
  BY <1>1 DEF Alive
<1>6. TypeOK'
  BY <1>1, <1>3, <1>4 DEF TypeOK
<1>7. Family'
  BY <1>3, <1>4, <1>5 DEF TypeOK, Family, Statements
<1>8. Statements'
  BY <1>3, <1>4, <1>5 DEF TypeOK, Family, Statements
<1>9. Chain'
  <2>1. \A x \in Pids : pc[x] # "unborn" => pc'[x] # "unborn"
    BY <1>3
  <2> QED  BY <1>4, <2>1 DEF Chain
<1>10. Targets'
  <2>1. /\ pidfile # NoPid => role[pidfile] = "root" /\ pc'[pidfile] # "unborn"
        /\ \A x \in Pids : running[x] # NoPid =>
               role[running[x]] = "root" /\ pc'[running[x]] # "unborn"
    BY <1>3 DEF TypeOK, Targets
  <2>2. \A x \in doomed' : pc'[x] # "unborn" /\ (role[x] = "first" => pc'[parent[x]] = "gone")
    <3> SUFFICES ASSUME NEW x \in doomed'
                 PROVE  pc'[x] # "unborn" /\ (role[x] = "first" => pc'[parent[x]] = "gone")
      OBVIOUS
    <3>1. x \in Pids /\ (role[x] = "first" => parent[x] \in Pids)
      BY <1>4 DEF TypeOK, Chain
    <3>2. CASE x \in doomed
      BY <1>3, <3>1, <3>2 DEF Targets
    <3>3. CASE parent[x] = p /\ Alive(x)
      BY <1>3, <3>1, <3>3 DEF Alive
    <3> QED  BY <1>4, <3>2, <3>3
  <2> QED  BY <1>4, <2>1, <2>2 DEF Targets
<1>11. Forks'
  <2> SUFFICES ASSUME ~shaken'
               PROVE  /\ \A x \in Pids : role[x] = "first" /\ pc'[x] = "gone" => pc'[parent[x]] = "gone"
                      /\ \A x \in Pids : role[x] = "first" => pc'[root[x]] \notin {"kill", "fork"}
                      /\ \A x, o \in Pids : role[x] = "first" /\ role[o] = "first" /\ root[x] = root[o]
                                                 => x = o
                      /\ \A x \in Pids : role[x] = "second" /\ pc'[x] # "gone"
                                              => pc'[parent[x]] \in {"manage", "wait", "gone"}
                      /\ \A x, o \in Pids : (/\ role[x] = "second" /\ role[o] = "second"
                                               /\ parent[x] = parent[o]
                                               /\ pc'[x] # "gone" /\ pc'[o] # "gone") => x = o
    BY <1>4 DEF Forks
  <2>1. /\ \A x \in Pids : role[x] = "first" /\ pc[x] = "gone" => pc[parent[x]] = "gone"
        /\ \A x \in Pids : role[x] = "first" => pc[root[x]] \notin {"kill", "fork"}
        /\ \A x, o \in Pids : role[x] = "first" /\ role[o] = "first" /\ root[x] = root[o] => x = o
        /\ \A x \in Pids : role[x] = "second" /\ pc[x] # "gone" => pc[parent[x]] \in {"manage", "wait", "gone"}
        /\ \A x, o \in Pids : (/\ role[x] = "second" /\ role[o] = "second" /\ parent[x] = parent[o]
                                 /\ pc[x] # "gone" /\ pc[o] # "gone") => x = o
    BY <1>2 DEF Forks
  <2>2. \A x \in Pids : pc'[x] # pc[x] /\ x # p =>
            /\ pc'[x] = "fork" /\ x = parent[p] /\ role[x] = "first"
            /\ \A o \in Pids : role[o] = "second" /\ parent[o] = x /\ pc[o] # "gone" => o = p
    <3> SUFFICES ASSUME NEW x \in Pids, x # p, x = parent[p], pc[x] = "wait"
                 PROVE  /\ role[x] = "first"
                        /\ \A o \in Pids : role[o] = "second" /\ parent[o] = x /\ pc[o] # "gone" => o = p
      BY <1>3
    <3>1. role[p] \notin {"root", "cli"}
      BY DEF Family
    <3>2. role[p] # "first"
      BY <1>2
    <3>3. role[p] # "ffmpeg"
      BY DEF Chain, Statements, Family
    <3>4. CASE role[p] = "second"
      BY <1>5, <2>1, <3>4 DEF Chain
    <3>5. CASE role[p] = "wvdial"
      <4>1. LivingChildren(x, "second") = {}
        BY <1>2, <3>5 DEF Shakes
      <4>2. \A o \in Pids : role[o] = "second" => pc[o] # "unborn"
        BY DEF Family
      <4> QED  BY <3>5, <4>1, <4>2 DEF LivingChildren, Alive, Chain
    <3> QED  BY <3>1, <3>2, <3>3, <3>4, <3>5 DEF TypeOK, Roles
  <2>3. \A x \in Pids : role[x] = "first" => parent[x] \in Pids /\ root[x] = parent[x] /\ role[parent[x]] = "root"
    BY DEF Chain
  <2>4. \A x \in Pids : role[x] = "second" => parent[x] \in Pids
    BY DEF Chain
  <2>5. \A x \in Pids : role[x] = "first" /\ pc'[x] = "gone" => pc'[parent[x]] = "gone"
    BY <1>2, <1>3, <2>1, <2>3
  <2>6. \A x \in Pids : role[x] = "first" => pc'[root[x]] \notin {"kill", "fork"}
    BY <1>3, <2>1, <2>2, <2>3
  <2>7. \A x \in Pids : role[x] = "second" /\ pc'[x] # "gone" => pc'[parent[x]] \in {"manage", "wait", "gone"}
    BY <1>3, <1>5, <2>1, <2>2, <2>4
  <2>8. \A x \in Pids : pc'[x] # "gone" => pc[x] # "gone"
    BY <1>3
  <2> QED  BY <2>1, <2>5, <2>6, <2>7, <2>8
<1> QED  BY <1>6, <1>7, <1>8, <1>9, <1>10, <1>11

\* Every reachable state satisfies the inductive invariant.
LEMMA Inductive == Spec => []IInv
<1>1. IInv /\ [Next]_vars => IInv'
  <2> SUFFICES ASSUME IInv, [Next]_vars PROVE IInv'
    OBVIOUS
  <2>1. CASE Next
    BY <2>1, LaunchInv, StepInv, HangupInv, ForkInv, DeathInv DEF Next, Step, Network
  <2>2. CASE UNCHANGED vars
    BY <2>2 DEF vars, counters, IInv, TypeOK, Family, Statements, Chain, Targets, Forks
  <2> QED  BY <2>1, <2>2
<1> QED  BY <1>1, InitInv, PTL DEF Spec

-----------------------------------------------------------------------------
\* Every variable keeps its type.
THEOREM TypeCorrect == Spec => []TypeOK
<1>1. IInv => TypeOK
  BY DEF IInv
<1> QED  BY <1>1, Inductive, PTL

\* Unless a link above the pollers crashes or a wait ends for a wvdial, no
\* instance ever has two pollers, not even one about to be killed.
THEOREM NeverTwoPollers == Spec => []OnePoller
<1>1. IInv => OnePoller
  BY DEF IInv, TypeOK, Chain, Forks, OnePoller, Alive
<1> QED  BY <1>1, Inductive, PTL
=============================================================================
