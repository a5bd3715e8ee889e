---------------------------- MODULE Install_proofs ----------------------------
(***************************************************************************)
(* Proofs about Install for any system keys, any number of commands, of    *)
(* starts of the daemon, of faults and of properties set at the prompt, in *)
(* the source folder or elsewhere.                                         *)
(*                                                                         *)
(* Types, tasks and roles (Steps) hold of every history.  What is said of  *)
(* the disk holds as long as no two processes have used the configuration  *)
(* at the same time and none has died inside a write (~mixed), as the      *)
(* properties themselves say.  Such statements speak of Doc, the           *)
(* configuration that the file has or that its only writer is about to     *)
(* write: the file itself is empty in between.                             *)
(***************************************************************************)
EXTENDS Install, TLAPS

\* What is left of the server's answer when one or two of its properties are
\* written.
SecondOn == << <<"autoInsertCameras", "set">>, <<"pollInterval", "set">> >>
Last     == << <<"pollInterval", "set">> >>

\* What a command may have to write before it goes on with step a, for the
\* system s.
Tasks(a, s) ==
    CASE a = "add"     -> {<< <<"system-id", s>> >>}
      [] a = "success" -> {Received, SecondOn, Last}
      [] a = "prompt"  -> {<< <<"debug", "set">> >>, << <<"bootup", "true">> >>,
                           << <<"bootup", "false">> >>}
      [] OTHER -> {}

\* The steps of a command and what its writers have to do.
Task ==
    /\ after \in {"idle", "add", "success", "prompt"}
    /\ pc = "write" => after # "idle"
    /\ pending["command"] # << >> => pc = "write" /\ pending["command"] \in Tasks(after, key)
    /\ pending["poller"] # << >> =>
            poller = "write" /\ \E p \in 1 .. MaxPid : pending["poller"] = << <<"pid", p>> >>
    /\ \A w \in Writers : phase[w] # "idle" => pending[w] # << >>
    /\ poller # "none" => daemon # NoPid
    /\ pc # "idle" => outcome = "none"

\* The commands that reach each step.
Roles ==
    /\ pc \in {"stop", "unlink"} => cmd \notin {"none", "c"}
    /\ pc = "read" => cmd \notin {"none", "u"}
    /\ pc \in {"sub", "uninstall", "reinstall", "register", "copy", "add"} =>
           cmd \notin {"none", "u", "c"}
    /\ pc = "prompt" => cmd = "c"
    /\ pc = "write" => IF after = "prompt" THEN cmd = "c" ELSE cmd \notin {"none", "u", "c"}

\* What holds of every history.
Steps == TypeOK /\ Task /\ Roles

-----------------------------------------------------------------------------
(* Documents and what is written to them                                   *)

\* Value v is one that property n may have.
Fits(n, v) ==
    \/ n = "pid" /\ v \in 0 .. MaxPid
    \/ n = "system-id" /\ v \in Keys \cup {NoKey}
    \/ n = "bootup" /\ v \in {"true", "false"}
    \/ n \in FromServer \cup {"debug"} /\ v \in {"template", "set"}

\* config.xml of the sources is a document.
LEMMA TemplateIsDoc == IsDoc(Template)
BY BoundAssumption DEF IsDoc, Template, Names, FromServer, NoPid, NoKey

\* A document in which a property has got another value is one.
LEMMA ChangedIsDoc ==
    ASSUME NEW d, IsDoc(d), NEW n, NEW v, Fits(n, v)
    PROVE  IsDoc([d EXCEPT ![n] = v])
<1> DEFINE e == [d EXCEPT ![n] = v]
<1>1. n \in Names
  BY DEF Fits, Names
<1>2. e = [m \in Names |-> IF m = n THEN v ELSE d[m]]
  BY <1>1 DEF IsDoc
<1>3. \A m \in Names : e[m] = IF m = n THEN v ELSE d[m]
  BY <1>2
<1> HIDE DEF e
<1>4. e = [m \in Names |-> e[m]]
  BY <1>2, <1>3
<1>5. e["pid"] \in 0 .. MaxPid
  BY <1>3 DEF Fits, IsDoc, Names, FromServer
<1>6. e["system-id"] \in Keys \cup {NoKey}
  BY <1>3 DEF Fits, IsDoc, Names, FromServer
<1>7. e["bootup"] \in {"true", "false"}
  BY <1>3 DEF Fits, IsDoc, Names, FromServer
<1>8. \A m \in FromServer \cup {"debug"} : e[m] \in {"template", "set"}
  BY <1>3 DEF Fits, IsDoc, Names, FromServer
<1>9. IsDoc(e)
  BY <1>4, <1>5, <1>6, <1>7, <1>8 DEF IsDoc
<1> QED  BY <1>9 DEF e

\* What is read from the disk or from the sources is a document.
LEMMA ParsedIsDoc ==
    ASSUME TypeOK, NEW p, NEW d \in Parsed(p)
    PROVE  IsDoc(d)
BY TemplateIsDoc DEF TypeOK, Parsed

\* A value that is read is one that the property may have.
LEMMA ConfigValueFits ==
    ASSUME TypeOK, NEW p
    PROVE  ConfigValue("pid", p) \in 0 .. MaxPid
           /\ ConfigValue("system-id", p) \in Keys \cup {NoKey}
<1>1. CASE Parsed(p) = {}
  BY <1>1, TemplateIsDoc DEF ConfigValue, IsDoc
<1>2. CASE Parsed(p) # {}
  <2> DEFINE d == CHOOSE x \in Parsed(p) : TRUE
  <2>1. d \in Parsed(p)
    BY <1>2
  <2> HIDE DEF d
  <2>2. IsDoc(d)
    BY <2>1, ParsedIsDoc
  <2>3. \A n : ConfigValue(n, p) = d[n]
    BY <1>2 DEF ConfigValue, d
  <2> QED  BY <2>2, <2>3 DEF IsDoc
<1> QED  BY <1>1, <1>2

\* The first of one, two or three properties, and what is then left.
LEMMA Pieces ==
    ASSUME NEW x, NEW y, NEW z
    PROVE  /\ << x >> # << >> /\ Head(<< x >>) = x /\ Tail(<< x >>) = << >>
           /\ << x, y >> # << >> /\ Head(<< x, y >>) = x /\ Tail(<< x, y >>) = << y >>
           /\ << x, y, z >> # << >> /\ Head(<< x, y, z >>) = x
           /\ Tail(<< x, y, z >>) = << y, z >>
OBVIOUS

\* A task has three properties at most.
LEMMA ShortTask ==
    ASSUME NEW a, NEW s, NEW t \in Tasks(a, s)
    PROVE  Len(t) <= 3
<1>1. \E x, y, z : t = << x >> \/ t = << x, y >> \/ t = << x, y, z >>
  <2>1. CASE a = "add"
    BY <2>1 DEF Tasks
  <2>2. CASE a = "success"
    BY <2>2 DEF Tasks, Received, SecondOn, Last
  <2>3. CASE a = "prompt"
    BY <2>3 DEF Tasks
  <2>4. CASE a # "add" /\ a # "success" /\ a # "prompt"
    BY <2>4 DEF Tasks
  <2> QED  BY <2>1, <2>2, <2>3, <2>4
<1>2. PICK x, y, z : t = << x >> \/ t = << x, y >> \/ t = << x, y, z >>
  BY <1>1
<1>3. CASE t = << x >>
  BY <1>3
<1>4. CASE t = << x, y >>
  BY <1>4
<1>5. CASE t = << x, y, z >>
  BY <1>5
<1> QED  BY <1>2, <1>3, <1>4, <1>5

\* The property that comes first is in the configuration, its value fits, and
\* the rest is a task again.
LEMMA CommandTask ==
    ASSUME NEW a, NEW s \in Keys \cup {NoKey}, NEW t \in Tasks(a, s)
    PROVE  /\ t # << >> /\ Fits(Head(t)[1], Head(t)[2])
           /\ Head(t)[1] # "pid"
           /\ Tail(t) = << >> \/ Tail(t) \in Tasks(a, s)
<1>1. CASE a = "add"
  <2>1. t = << <<"system-id", s>> >>
    BY <1>1 DEF Tasks
  <2> QED  BY <2>1, Pieces DEF Fits
<1>2. CASE a = "success"
  <2>1. CASE t = Received
    <3>1. Head(t) = <<"videoStreamingType", "set">> /\ Tail(t) = SecondOn /\ t # << >>
      BY <2>1, Pieces DEF Received, SecondOn
    <3> QED  BY <3>1, <1>2 DEF Fits, Tasks, FromServer
  <2>2. CASE t = SecondOn
    <3>1. Head(t) = <<"autoInsertCameras", "set">> /\ Tail(t) = Last /\ t # << >>
      BY <2>2, Pieces DEF Last, SecondOn
    <3> QED  BY <3>1, <1>2 DEF Fits, Tasks, FromServer
  <2>3. CASE t = Last
    <3>1. Head(t) = <<"pollInterval", "set">> /\ Tail(t) = << >> /\ t # << >>
      BY <2>3, Pieces DEF Last
    <3> QED  BY <3>1, <1>2 DEF Fits, Tasks, FromServer
  <2> QED  BY <1>2, <2>1, <2>2, <2>3 DEF Tasks
<1>3. CASE a = "prompt"
  <2>1. PICK n \in {"debug", "bootup"}, v \in {"set", "true", "false"} :
            /\ t = << <<n, v>> >>
            /\ n = "debug" <=> v = "set"
    BY <1>3 DEF Tasks
  <2>2. Head(t) = <<n, v>> /\ Tail(t) = << >> /\ t # << >>
    BY <2>1, Pieces
  <2> QED  BY <2>1, <2>2 DEF Fits
<1>4. CASE a # "add" /\ a # "success" /\ a # "prompt"
  BY <1>4 DEF Tasks
<1> QED  BY <1>1, <1>2, <1>3, <1>4

-----------------------------------------------------------------------------
(* The steps of a command, and types                                       *)

\* The length of the lists of files, and what stands where.
LEMMA Orders ==
    /\ Len(UnlinkOrder) = 9 /\ DOMAIN UnlinkOrder = 1 .. 9
    /\ UnlinkOrder[1] = "init" /\ UnlinkOrder[2] = "override" /\ UnlinkOrder[3] = "initd"
    /\ UnlinkOrder[4] = "rules" /\ UnlinkOrder[5] = "config" /\ UnlinkOrder[6] = "bin"
    /\ UnlinkOrder[7] = "log" /\ UnlinkOrder[8] = "certs" /\ UnlinkOrder[9] = "link"
    /\ Len(CopyOrder) = 8
    /\ CopyOrder[1] = "init" /\ CopyOrder[2] = "initd" /\ CopyOrder[3] = "config"
    /\ CopyOrder[4] = "rules" /\ CopyOrder[5] = "bin" /\ CopyOrder[6] = "certs"
    /\ CopyOrder[7] = "link" /\ CopyOrder[8] = "log"
BY DEF UnlinkOrder, CopyOrder

\* Every installed part, by its name.
LEMMA PartNames ==
    Parts = {"init", "override", "initd", "rules", "bin", "log", "certs", "link"}
<1>1. \A n \in 1 .. 9 : n \in {1, 2, 3, 4, 5, 6, 7, 8, 9}
  OBVIOUS
<1>2. {UnlinkOrder[n] : n \in 1 .. 9}
        = {"init", "override", "initd", "rules", "config", "bin", "log", "certs", "link"}
  BY <1>1, Orders
<1> QED  BY <1>2, Orders DEF Parts

\* Nothing runs at first and the disk is empty.
LEMMA InitSteps == Init => Steps
<1> SUFFICES ASSUME Init PROVE Steps
  OBVIOUS
<1>1. TypeOK
  <2>1. /\ files \subseteq Parts
        /\ conf.state \in {"none", "damaged", "whole"} /\ IsDoc(conf.doc)
        /\ runningProcess \in 0 .. MaxPid /\ k \in 1 .. Len(UnlinkOrder) + 1
        /\ lastPid \in 0 .. MaxPid /\ daemon \in 0 .. lastPid
    BY TemplateIsDoc, BoundAssumption, Orders DEF Init, NoPid
  <2>2. /\ phase \in [Writers -> {"idle", "parsed", "open", "orphan"}]
        /\ doc = [w \in Writers |-> doc[w]] /\ pending = [w \in Writers |-> pending[w]]
        /\ \A w \in Writers : IsDoc(doc[w]) /\ Len(pending[w]) <= 3
    <3>1. Len(<< >>) <= 3
      OBVIOUS
    <3> QED  BY <3>1, TemplateIsDoc DEF Init
  <2> QED  BY <2>1, <2>2 DEF Init, TypeOK
<1>2. Task
  BY DEF Init, Task, Writers
<1>3. Roles
  BY DEF Init, Roles
<1> QED  BY <1>1, <1>2, <1>3 DEF Steps

\* The commands, and the steps of a command.
Commands == {"none", "i", "k", "r", "d", "u", "c"}
Controls == {"idle", "stop", "sub", "uninstall", "unlink", "reinstall", "read", "register",
             "copy", "write", "add", "prompt"}

\* A step that writes nothing and starts no writer.
LEMMA ControlStep ==
    ASSUME Steps,
           UNCHANGED <<files, lost, conf, phase, doc, pending, daemon, poller, systemId, lastPid,
                       deleted, remade>>,
           doomed' \in BOOLEAN, mixed' \in BOOLEAN, overridden' \in BOOLEAN,
           after' \in {after, "idle"},
           pc # "write", pc' \in Controls, pc' # "write", cmd' \in Commands,
           place' \in {Source, Elsewhere}, key' \in Keys \cup {NoKey},
           runningProcess' \in 0 .. MaxPid, k' \in 1 .. 10,
           pc' # "idle" => outcome' = "none",
           Roles'
    PROVE  Steps'
<1>1. TypeOK'
  BY Orders DEF Steps, TypeOK, Controls, Commands
<1>2. Task'
  BY DEF Steps, Task
<1> QED  BY <1>1, <1>2 DEF Steps

\* A command that writes nothing.
LEMMA CommandSteps ==
    ASSUME Steps,
           \/ \E c \in DOMAIN FirstStep, p \in Places : Give(c, p)
           \/ StopRunningProcess \/ RunUninstall \/ Reinstall \/ ReadsConfig \/ Register
           \/ Unlinks \/ EndConfigure
    PROVE  Steps'
<1> USE DEF Goes, Ends, Untouched, ReadsOnly, ReadsFile, machine, command, writing, process,
            history, counters
<1>1. /\ doomed \in BOOLEAN /\ mixed \in BOOLEAN /\ overridden \in BOOLEAN
      /\ pc \in Controls /\ cmd \in Commands
      /\ place \in {Source, Elsewhere} /\ key \in Keys \cup {NoKey}
      /\ runningProcess \in 0 .. MaxPid /\ k \in 1 .. 10 /\ (pc # "idle" => outcome = "none")
  BY Orders DEF Steps, TypeOK, Task, Controls, Commands
<1>2. ASSUME NEW c \in DOMAIN FirstStep, NEW p \in Places, Give(c, p)
      PROVE  Steps'
  <2>1. /\ c \in {"i", "k", "r", "d", "u", "c"}
        /\ FirstStep[c] \in {"stop", "sub", "reinstall", "read"}
        /\ FirstStep[c] = "read" <=> c = "c"
        /\ c = "u" => FirstStep[c] = "stop"
    BY DEF FirstStep
  <2>2. /\ cmd' = c /\ place' = p /\ outcome' = "none" /\ pc' = FirstStep[c] /\ pc = "idle"
        /\ runningProcess' \in 0 .. MaxPid /\ mixed' \in BOOLEAN
        /\ k' = 1 /\ key' = NoKey /\ after' = "idle"
        /\ UNCHANGED <<files, lost, conf, phase, doc, pending, daemon, doomed, poller, systemId,
                       lastPid, overridden, deleted, remade>>
    BY <1>1, <1>2, <2>1, ConfigValueFits DEF Give, Steps
  <2>3. Roles'
    BY <2>1, <2>2 DEF Roles
  <2> QED  BY <1>1, <2>1, <2>2, <2>3, PlaceAssumption, ControlStep DEF Controls, Commands
<1>3. CASE StopRunningProcess
  <2>1. /\ pc \in {"stop", "uninstall"} /\ pc' \in {"sub", "unlink"} /\ k' \in 1 .. 10
        /\ doomed' \in BOOLEAN /\ (pc' = "sub" => cmd = "i")
        /\ runningProcess' = NoPid
        /\ UNCHANGED <<files, lost, conf, cmd, place, outcome, key, after, phase, doc, pending,
                       daemon, poller, systemId, lastPid, mixed, overridden, deleted, remade>>
    BY <1>1, <1>3 DEF StopRunningProcess
  <2>2. Roles'
    BY <2>1 DEF Steps, Roles
  <2> QED  BY <1>1, <2>1, <2>2, BoundAssumption, ControlStep DEF Controls, NoPid
<1>4. CASE RunUninstall
  <2>1. /\ pc = "sub" /\ pc' \in {"uninstall", "read"}
        /\ runningProcess' \in 0 .. MaxPid /\ mixed' \in BOOLEAN
        /\ UNCHANGED <<files, lost, conf, cmd, place, outcome, k, key, after, phase, doc, pending,
                       daemon, doomed, poller, systemId, lastPid, overridden, deleted, remade>>
    BY <1>1, <1>4, ConfigValueFits DEF RunUninstall, Steps
  <2>2. Roles'
    BY <2>1 DEF Steps, Roles
  <2> QED  BY <1>1, <2>1, <2>2, ControlStep DEF Controls
<1>5. CASE Unlinks
  <2>1. /\ pc = "unlink" /\ pc' \in {"idle", "read"} /\ (pc' # "idle" => outcome' = outcome)
        /\ pc' = "read" => cmd # "u"
        /\ UNCHANGED <<files, lost, conf, cmd, place, k, key, runningProcess, after, phase, doc,
                       pending, daemon, doomed, poller, systemId, lastPid, mixed, overridden,
                       deleted, remade>>
    BY <1>1, <1>5 DEF Unlinks
  <2>2. Roles'
    BY <2>1 DEF Steps, Roles
  <2> QED  BY <1>1, <2>1, <2>2, ControlStep DEF Controls
<1>6. CASE Reinstall
  <2>1. /\ pc = "reinstall" /\ pc' \in {"idle", "sub"} /\ (pc' # "idle" => outcome' = outcome)
        /\ key' \in Keys \cup {NoKey} /\ mixed' \in BOOLEAN
        /\ UNCHANGED <<files, lost, conf, cmd, place, k, runningProcess, after, phase, doc, pending,
                       daemon, doomed, poller, systemId, lastPid, overridden, deleted, remade>>
    BY <1>1, <1>6, ConfigValueFits DEF Reinstall, Steps
  <2>2. Roles'
    BY <2>1 DEF Steps, Roles
  <2> QED  BY <1>1, <2>1, <2>2, ControlStep DEF Controls
<1>7. CASE ReadsConfig
  <2>1. /\ pc = "read" /\ pc' \in {"idle", "prompt", "register", "sub"}
        /\ (pc' # "idle" => outcome' = outcome)
        /\ key' \in Keys \cup {NoKey} /\ mixed' \in BOOLEAN
        /\ UNCHANGED <<files, lost, conf, place, k, runningProcess, after, phase, doc, pending,
                       daemon, doomed, poller, systemId, lastPid, overridden, deleted, remade>>
    BY <1>1, <1>7 DEF ReadsConfig
  <2>2. /\ cmd' = cmd \/ cmd' = "k"
        /\ pc' = "prompt" => cmd' = "c"
        /\ pc' = "register" => cmd' \in {"i", "k", "r", "d"}
        /\ pc' = "sub" => cmd' = "k"
    BY <1>7 DEF ReadsConfig
  <2>3. Roles'
    BY <2>1, <2>2 DEF Steps, Roles
  <2> QED  BY <1>1, <2>1, <2>2, <2>3, ControlStep DEF Controls, Commands
<1>8. CASE Register
  <2>1. /\ pc = "register" /\ pc' \in {"idle", "copy"} /\ (pc' # "idle" => outcome' = outcome)
        /\ k' \in 1 .. 10
        /\ overridden' = overridden \/ overridden' = (overridden \/ "override" \in files)
        /\ UNCHANGED <<files, lost, conf, cmd, place, key, runningProcess, after, phase, doc,
                       pending, daemon, doomed, poller, systemId, lastPid, mixed, deleted, remade>>
    BY <1>1, <1>8 DEF Register
  <2>2. Roles'
    BY <2>1 DEF Steps, Roles
  <2>3. overridden' \in BOOLEAN
    BY <1>1, <2>1, Zenon
  <2> QED  BY <1>1, <2>1, <2>2, <2>3, ControlStep DEF Controls
<1>9. CASE EndConfigure
  <2>1. /\ pc = "prompt" /\ pc' = "idle"
        /\ UNCHANGED <<files, lost, conf, cmd, place, k, key, runningProcess, after, phase, doc,
                       pending, daemon, doomed, poller, systemId, lastPid, mixed, overridden,
                       deleted, remade>>
    BY <1>9 DEF EndConfigure
  <2>2. Roles'
    BY <2>1 DEF Steps, Roles
  <2> QED  BY <1>1, <2>1, <2>2, ControlStep DEF Controls
<1> QED  BY <1>2, <1>3, <1>4, <1>5, <1>6, <1>7, <1>8, <1>9

\* The part that is copied next.
LEMMA CopiedPart ==
    ASSUME Steps, pc = "copy", k <= Len(CopyOrder)
    PROVE  /\ k \in 1 .. 8 /\ CopyOrder[k] \in Parts \cup {"config"}
           /\ CopyOrder[k] = "config" <=> k = 3
           /\ CopyOrder[k] # "override"
<1>1. k \in {1, 2, 3, 4, 5, 6, 7, 8}
  BY Orders DEF Steps, TypeOK
<1> QED  BY <1>1, Orders, PartNames

\* What a copy changes, whatever becomes of it.
LEMMA CopyChanges ==
    ASSUME Steps, Copy
    PROVE  /\ pc = "copy" /\ pc' \in {"copy", "idle"} /\ k \in 1 .. 8 /\ k' = k + 1
           /\ pc' = "copy" => outcome' = outcome
           /\ outcome' \in {outcome, "killed"}
           /\ files \subseteq files' /\ files' \subseteq files \cup ({CopyOrder[k]} \ {"config"})
           /\ lost' \subseteq lost \cup ({CopyOrder[k]} \ {"config"})
           /\ CopyOrder[k] \in files' \cup lost' \cup {"config"}
           /\ files \cup lost \subseteq files' \cup lost'
           /\ \/ conf' = conf /\ remade' = remade
              \/ k = 3 /\ conf' = Damaged /\ remade' = remade
              \/ k = 3 /\ conf' = Whole(Template) /\ Remakes
           /\ mixed' = (mixed \/ (k = 3 /\ \E w \in Writers : phase[w] # "idle"))
           /\ UNCHANGED <<cmd, place, key, runningProcess, after, phase, doc, pending, daemon,
                          doomed, poller, systemId, lastPid, wanted, overridden, deleted>>
<1> DEFINE n == CopyOrder[k]
<1>1. /\ pc = "copy" /\ k \in 1 .. 8 /\ (n = "config" <=> k = 3)
  BY CopiedPart DEF Copy
<1>2. /\ pc' \in {"copy", "idle"} /\ k' = k + 1
      /\ pc' = "copy" => outcome' = outcome
      /\ outcome' \in {outcome, "killed"}
      /\ CopyWhole(n) \/ CopyFails(n) \/ CopyCut(n)
      /\ mixed' = (mixed \/ (n = "config" /\ \E w \in Writers : phase[w] # "idle"))
      /\ UNCHANGED <<cmd, place, key, runningProcess, after, phase, doc, pending, daemon, doomed,
                     poller, systemId, lastPid, wanted, overridden, deleted>>
  BY DEF Copy, Goes, Ends, writing, process
<1> HIDE DEF n
<1>3. CASE CopyWhole(n)
  <2>1. /\ files' = files \cup ({n} \ {"config"}) /\ lost' = lost \ {n}
        /\ n # "config" => conf' = conf /\ remade' = remade
        /\ n = "config" => conf' = Whole(Template) /\ Remakes
    BY <1>3 DEF CopyWhole
  <2>2. files \cup lost \subseteq files' \cup lost'
    <3>1. CASE n = "config"
      <4>1. "config" \notin lost
        BY PartNames DEF Steps, TypeOK
      <4> QED  BY <2>1, <3>1, <4>1
    <3>2. CASE n # "config"
      BY <2>1, <3>2
    <3> QED  BY <3>1, <3>2
  <2>3. /\ files \subseteq files' /\ files' \subseteq files \cup ({n} \ {"config"})
        /\ lost' \subseteq lost \cup ({n} \ {"config"})
        /\ n \in files' \cup lost' \cup {"config"}
    BY <2>1
  <2>4. \/ conf' = conf /\ remade' = remade
        \/ k = 3 /\ conf' = Whole(Template) /\ Remakes
    BY <1>1, <2>1
  <2> QED  BY <1>1, <1>2, <2>2, <2>3, <2>4 DEF n
<1>4. CASE CopyFails(n)
  BY <1>1, <1>2, <1>4 DEF CopyFails, n
<1>5. CASE CopyCut(n)
  BY <1>1, <1>2, <1>5 DEF CopyCut, n
<1> QED  BY <1>2, <1>3, <1>4, <1>5

\* A command that creates or removes a file.
LEMMA FileSteps ==
    ASSUME Steps, Unlink \/ Copy
    PROVE  Steps'
<1> USE DEF command, process, counters
<1>1. /\ mixed' \in BOOLEAN /\ overridden' \in BOOLEAN /\ pc \in {"unlink", "copy"}
      /\ pc' \in {pc, "idle"} /\ k' \in 1 .. 10
      /\ pc' # "idle" => outcome' = outcome
      /\ UNCHANGED <<cmd, place, key, runningProcess, after, doc, pending, daemon, doomed, poller,
                     systemId, lastPid, deleted>>
  <2>1. CASE Unlink
    <3>1. mixed' \in BOOLEAN /\ overridden' \in BOOLEAN
      BY <2>1, Zenon DEF Unlink, Unlinked
    <3>2. /\ pc = "unlink" /\ k' = k + 1 /\ k <= 9 /\ k \in Nat /\ k > 0
          /\ UNCHANGED <<pc, outcome, cmd, place, key, runningProcess, after, doc, pending, daemon,
                         doomed, poller, systemId, lastPid, deleted>>
      BY <2>1, Orders DEF Unlink, LastUnlinked, Steps, TypeOK
    <3> QED  BY <3>1, <3>2
  <2>2. CASE Copy
    <3>1. mixed' \in BOOLEAN
      BY <2>2, CopyChanges, Zenon
    <3>2. overridden' \in BOOLEAN
      BY <2>2, CopyChanges DEF Steps, TypeOK
    <3> QED  BY <2>2, <3>1, <3>2, CopyChanges
  <2> QED  BY <2>1, <2>2
<1>2. files' \subseteq Parts /\ lost' \subseteq Parts
  <2>1. CASE Unlink
    BY <2>1 DEF Unlink, Unlinked, Steps, TypeOK
  <2>2. CASE Copy
    <3>1. CopyOrder[k] \in Parts \cup {"config"}
      BY <2>2, CopiedPart DEF Copy
    <3> QED  BY <2>2, <3>1, CopyChanges DEF Steps, TypeOK
  <2> QED  BY <2>1, <2>2
<1>3. conf'.state \in {"none", "damaged", "whole"} /\ IsDoc(conf'.doc) /\ remade' \in BOOLEAN
  <2>1. CASE Unlink
    BY <2>1, TemplateIsDoc DEF Unlink, Unlinked, ConfLeft, NoFile, Steps, TypeOK
  <2>2. CASE Copy
    BY <2>2, TemplateIsDoc, CopyChanges DEF Whole, Damaged, Remakes, Steps, TypeOK
  <2> QED  BY <2>1, <2>2
<1>4. /\ phase' \in [Writers -> {"idle", "parsed", "open", "orphan"}]
      /\ \A w \in Writers : phase'[w] # "idle" => phase[w] # "idle"
  <2>1. CASE Unlink
    BY <2>1 DEF Unlink, Unlinked, Steps, TypeOK
  <2>2. CASE Copy
    BY <2>2, CopyChanges DEF Steps, TypeOK
  <2> QED  BY <2>1, <2>2
<1>5. TypeOK'
  BY <1>1, <1>2, <1>3, <1>4, Orders DEF Steps, TypeOK
<1>6. Task'
  BY <1>1, <1>4 DEF Steps, Task
<1>7. Roles'
  BY <1>1 DEF Steps, Roles
<1> QED  BY <1>5, <1>6, <1>7 DEF Steps

\* A command that is given something to write, or has written it.
LEMMA TaskSteps ==
    ASSUME Steps,
           \/ Copied \/ Written \/ AddSystem \/ SetProperty
           \/ \E v \in {"true", "false"} : SetBootup(v)
    PROVE  Steps'
<1> USE DEF Goes, Ends, Writes, machine, process, counters
<1>1. /\ mixed' \in BOOLEAN /\ overridden' \in BOOLEAN /\ deleted' \in BOOLEAN
      /\ remade' \in BOOLEAN
      /\ UNCHANGED <<lost, conf, phase, doc, cmd, place, k, key, runningProcess, daemon, doomed,
                     poller, systemId, lastPid>>
  BY DEF Copied, Written, ReadsFile, AddSystem, SetProperty, SetBootup, Steps, TypeOK, history
<1>2. files' \subseteq Parts
  BY PartNames DEF Copied, Written, AddSystem, SetProperty, SetBootup, BootupFiles, Steps, TypeOK
<1>3. pc \in {"copy", "write", "add", "prompt"} /\ pc' \in {"idle", "write", "add", "prompt"}
  BY DEF Copied, Written, AddSystem, SetProperty, SetBootup, Steps, Task
<1>4. PICK t :
          /\ pending' = [pending EXCEPT !["command"] = t] /\ Len(t) <= 3
          /\ t # << >> => pc' = "write" /\ t \in Tasks(after', key')
          /\ phase["command"] # "idle" => t # << >>
  <2>1. pc # "write" => phase["command"] = "idle"
    BY DEF Steps, Task, Writers
  <2>2. CASE Copied
    <3> DEFINE t == << <<"system-id", key>> >>
    <3>1. Len(t) <= 3 /\ t \in Tasks("add", key)
      BY DEF Tasks
    <3> QED  BY <1>1, <2>1, <2>2, <3>1 DEF Copied
  <2>3. CASE Written
    <3>1. CASE pending["command"] = << >>
      <4>1. pending' = [pending EXCEPT !["command"] = << >>] /\ phase["command"] = "idle"
        BY <2>3, <3>1 DEF Written, Steps, TypeOK, Task, Writers
      <4>2. Len(<< >>) <= 3
        OBVIOUS
      <4> QED  BY <4>1, <4>2
    <3>2. CASE pending["command"] # << >>
      <4>1. pending' = [pending EXCEPT !["command"] = << >>] /\ phase["command"] = "idle"
        BY <2>3, <3>2 DEF Written
      <4>2. Len(<< >>) <= 3
        OBVIOUS
      <4> QED  BY <4>1, <4>2
    <3> QED  BY <3>1, <3>2
  <2>4. CASE AddSystem
    <3>1. CASE pending' = pending
      <4>1. pending' = [pending EXCEPT !["command"] = << >>] /\ phase["command"] = "idle"
        BY <2>1, <2>4, <3>1 DEF AddSystem, Steps, TypeOK, Task, Writers
      <4>2. Len(<< >>) <= 3
        OBVIOUS
      <4> QED  BY <4>1, <4>2
    <3>2. CASE pending' # pending
      <4>1. Len(Received) <= 3 /\ Received \in Tasks("success", key)
        BY DEF Tasks, Received
      <4> QED  BY <1>1, <2>1, <2>4, <3>2, <4>1 DEF AddSystem
    <3> QED  BY <3>1, <3>2
  <2>5. CASE SetProperty
    <3> DEFINE t == << <<"debug", "set">> >>
    <3>1. Len(t) <= 3 /\ t \in Tasks("prompt", key)
      BY DEF Tasks
    <3> QED  BY <1>1, <2>1, <2>5, <3>1 DEF SetProperty
  <2>6. CASE \E v \in {"true", "false"} : SetBootup(v)
    <3>1. PICK v \in {"true", "false"} : SetBootup(v)
      BY <2>6
    <3> DEFINE t == << <<"bootup", v>> >>
    <3>2. Len(t) <= 3 /\ t \in Tasks("prompt", key)
      BY DEF Tasks
    <3> QED  BY <1>1, <2>1, <3>1, <3>2 DEF SetBootup
  <2> QED  BY <2>2, <2>3, <2>4, <2>5, <2>6
<1>5. /\ pc' = "write" => after' # "idle"
      /\ after' \in {"idle", "add", "success", "prompt"}
  BY DEF Copied, Written, AddSystem, SetProperty, SetBootup, Steps, Task
<1>6. Roles'
  BY DEF Copied, Written, AddSystem, SetProperty, SetBootup, Steps, Task, Roles
<1>7. pc' # "idle" => outcome' = "none"
  BY DEF Copied, Written, AddSystem, SetProperty, SetBootup, Steps, Task
<1>8. /\ pending'["command"] = t /\ pending'["poller"] = pending["poller"]
      /\ pending' = [w \in Writers |-> pending'[w]]
  <2>1. pending = [w \in Writers |-> pending[w]]
    BY DEF Steps, TypeOK
  <2>2. pending' = [w \in Writers |-> IF w = "command" THEN t ELSE pending[w]]
    BY <1>4, <2>1
  <2> QED  BY <2>2 DEF Writers
<1>9. TypeOK'
  BY <1>1, <1>2, <1>3, <1>4, <1>8, Orders DEF Steps, TypeOK, Writers
<1>10. Task'
  BY <1>1, <1>3, <1>4, <1>5, <1>7, <1>8 DEF Steps, Task, Writers
<1> QED  BY <1>6, <1>9, <1>10 DEF Steps

\* What a writer has to write next: a property and a value that fits, and then
\* a task again.
LEMMA NextProperty ==
    ASSUME Steps, NEW w \in Writers, pending[w] # << >>
    PROVE  /\ Fits(Head(pending[w])[1], Head(pending[w])[2])
           /\ w = "poller" => Head(pending[w])[1] = "pid" /\ Tail(pending[w]) = << >>
           /\ w = "command" => /\ Head(pending[w])[1] # "pid"
                               /\ Tail(pending[w]) # << >> => Tail(pending[w]) \in Tasks(after, key)
           /\ Len(Tail(pending[w])) <= 3
<1>1. CASE w = "command"
  <2>1. pending[w] \in Tasks(after, key)
    BY <1>1 DEF Steps, Task
  <2>2. /\ Fits(Head(pending[w])[1], Head(pending[w])[2]) /\ Head(pending[w])[1] # "pid"
        /\ Tail(pending[w]) = << >> \/ Tail(pending[w]) \in Tasks(after, key)
    BY <2>1, CommandTask DEF Steps, TypeOK
  <2>3. Len(<< >>) <= 3
    OBVIOUS
  <2>4. Len(Tail(pending[w])) <= 3
    BY <2>2, <2>3, ShortTask
  <2> QED  BY <1>1, <2>2, <2>4
<1>2. CASE w = "poller"
  <2>1. PICK p \in 1 .. MaxPid : pending[w] = << <<"pid", p>> >>
    BY <1>2 DEF Steps, Task
  <2>2. Head(pending[w]) = <<"pid", p>> /\ Tail(pending[w]) = << >>
    BY <2>1, Pieces
  <2>3. Len(<< >>) <= 3
    OBVIOUS
  <2>4. Fits("pid", p)
    BY BoundAssumption DEF Fits
  <2>5. Head(pending[w])[1] = "pid" /\ Head(pending[w])[2] = p
    BY <2>2
  <2>6. Len(Tail(pending[w])) <= 3
    BY <2>2, <2>3
  <2> QED  BY <1>2, <2>2, <2>4, <2>5, <2>6
<1> QED  BY <1>1, <1>2 DEF Writers

\* A writer parses, opens or writes the file.
LEMMA WriterSteps ==
    ASSUME Steps, NEW w \in Writers, Parse(w) \/ Truncate(w) \/ Write(w)
    PROVE  Steps'
<1> USE DEF machine, command, process, history, counters
<1>1. /\ mixed' \in BOOLEAN /\ remade' \in BOOLEAN
      /\ UNCHANGED <<files, lost, pc, cmd, place, k, key, runningProcess, after, outcome, daemon,
                     doomed, poller, systemId, overridden, deleted, lastPid>>
  BY DEF Parse, Truncate, Write, Remakes, Steps, TypeOK
<1>2. conf'.state \in {"none", "damaged", "whole"} /\ IsDoc(conf'.doc)
  <2>1. CASE Parse(w)
    BY <2>1 DEF Parse, Steps, TypeOK
  <2>2. CASE Truncate(w)
    BY <2>2, TemplateIsDoc DEF Truncate, Damaged
  <2>3. CASE Write(w)
    <3> DEFINE h == Head(pending[w])
               d == [doc[w] EXCEPT ![h[1]] = h[2]]
    <3>1. IsDoc(d)
      BY <2>3, NextProperty, ChangedIsDoc DEF Write, Steps, TypeOK, Task
    <3>2. conf' = conf \/ conf' = Damaged \/ conf' = Whole(d)
      BY <2>3 DEF Write
    <3> HIDE DEF d
    <3> QED  BY <3>1, <3>2, TemplateIsDoc DEF Damaged, Whole, Steps, TypeOK
  <2> QED  BY <2>1, <2>2, <2>3
<1>3. PICK f \in {"idle", "parsed", "open"} :
          /\ phase' = [phase EXCEPT ![w] = f]
          /\ f # "idle" => pending' = pending /\ pending[w] # << >>
          /\ f = "idle" => pending' = [pending EXCEPT ![w] = Tail(@)] /\ pending[w] # << >>
  BY DEF Parse, Truncate, Write, Steps, Task
<1>4. PICK d : doc' = [doc EXCEPT ![w] = d] /\ IsDoc(d)
  <2>1. CASE Parse(w)
    BY <2>1, ParsedIsDoc DEF Parse, Steps
  <2>2. CASE Truncate(w)
    <3>1. doc' = [doc EXCEPT ![w] = doc[w]]
      BY <2>2 DEF Truncate, Steps, TypeOK
    <3> QED  BY <3>1 DEF Steps, TypeOK
  <2>3. CASE Write(w)
    BY <2>3, TemplateIsDoc DEF Write
  <2> QED  BY <2>1, <2>2, <2>3
<1>5. doc' = [v \in Writers |-> doc'[v]] /\ \A v \in Writers : IsDoc(doc'[v])
  <2>1. doc = [v \in Writers |-> doc[v]] /\ \A v \in Writers : IsDoc(doc[v])
    BY DEF Steps, TypeOK
  <2>2. doc' = [v \in Writers |-> IF v = w THEN d ELSE doc[v]]
    BY <1>4, <2>1
  <2> QED  BY <1>4, <2>1, <2>2
<1>6. /\ pending' = [v \in Writers |-> pending'[v]]
      /\ \A v \in Writers \ {w} : pending'[v] = pending[v]
      /\ pending'[w] = IF f = "idle" THEN Tail(pending[w]) ELSE pending[w]
  <2>1. pending = [v \in Writers |-> pending[v]]
    BY DEF Steps, TypeOK
  <2>2. CASE f = "idle"
    <3>1. pending' = [v \in Writers |-> IF v = w THEN Tail(pending[w]) ELSE pending[v]]
      BY <1>3, <2>1, <2>2
    <3> QED  BY <2>2, <3>1
  <2>3. CASE f # "idle"
    BY <1>3, <2>1, <2>3
  <2> QED  BY <2>2, <2>3
<1>7. \A v \in Writers : Len(pending'[v]) <= 3
  BY <1>3, <1>6, NextProperty DEF Steps, TypeOK
<1>8. TypeOK'
  BY <1>1, <1>2, <1>3, <1>5, <1>6, <1>7 DEF Steps, TypeOK
<1>9. Task'
  <2>1. pending'["command"] # << >> => pc' = "write" /\ pending'["command"] \in Tasks(after', key')
    BY <1>1, <1>3, <1>6, NextProperty DEF Writers, Steps, Task
  <2>2. pending'["poller"] # << >> =>
            poller' = "write" /\ \E p \in 1 .. MaxPid : pending'["poller"] = << <<"pid", p>> >>
    BY <1>1, <1>3, <1>6, NextProperty DEF Writers, Steps, Task
  <2>3. \A v \in Writers : phase'[v] # "idle" => pending'[v] # << >>
    BY <1>3, <1>6 DEF Steps, TypeOK, Task
  <2> QED  BY <1>1, <2>1, <2>2, <2>3 DEF Steps, Task
<1>10. Roles'
  BY <1>1 DEF Steps, Roles
<1> QED  BY <1>8, <1>9, <1>10 DEF Steps

\* The daemon starts, is killed, crashes, is forked again; the machine restarts.
LEMMA DaemonSteps ==
    ASSUME Steps,
           \/ Start \/ PollerForked \/ PollerRuns \/ DaemonDies \/ FirstChildDies \/ PollerDies
           \/ DeleteSystem \/ Reboot
    PROVE  Steps'
<1> USE BoundAssumption DEF machine, command, writing, process, history, counters, Ends, PollerGone,
        FirstChildGone
<1>0. systemId' \in Keys \cup {NoKey}
  BY ConfigValueFits DEF Start, PollerForked, PollerRuns, DaemonDies, FirstChildDies, PollerDies,
         DeleteSystem, Reboot, Steps, TypeOK
<1>1. /\ mixed' \in BOOLEAN /\ doomed' \in BOOLEAN /\ overridden' \in BOOLEAN
      /\ deleted' \in BOOLEAN /\ remade' \in BOOLEAN
      /\ poller' \in {"none", "write", "run", "deleting"}
      /\ pc' \in {pc, "idle"}
      /\ pc' # "idle" => outcome' \in {outcome, "none"}
      /\ files' \subseteq Parts /\ lost' \subseteq Parts
      /\ UNCHANGED <<cmd, place, k, key, runningProcess, after>>
  BY DEF Start, PollerForked, PollerRuns, DaemonDies, FirstChildDies, PollerDies, DeleteSystem,
         Reboot, Steps, TypeOK
<1>2. lastPid' \in 0 .. MaxPid /\ daemon' \in 0 .. lastPid'
  BY DEF Start, PollerForked, PollerRuns, DaemonDies, FirstChildDies, PollerDies, DeleteSystem,
         Reboot, Steps, TypeOK, NoPid
<1>3. conf'.state \in {"none", "damaged", "whole"} /\ IsDoc(conf'.doc)
  BY TemplateIsDoc DEF Start, PollerForked, PollerRuns, DaemonDies, FirstChildDies, PollerDies,
         DeleteSystem, Reboot, Steps, TypeOK, ConfLeft, NoFile, Damaged
<1>4. poller' # "none" => daemon' # NoPid
  BY DEF Start, PollerForked, PollerRuns, DaemonDies, FirstChildDies, PollerDies, DeleteSystem,
         Reboot, Steps, Task
<1>5. doc' = [w \in Writers |-> doc'[w]] /\ \A w \in Writers : IsDoc(doc'[w])
  BY TemplateIsDoc DEF Start, PollerForked, PollerRuns, DaemonDies, FirstChildDies, PollerDies,
         DeleteSystem, Reboot, Steps, TypeOK
<1>6. /\ phase' \in [Writers -> {"idle", "parsed", "open", "orphan"}]
      /\ \A w \in Writers : phase'[w] # "idle" => pending'[w] # << >>
  BY DEF Start, PollerForked, PollerRuns, DaemonDies, FirstChildDies, PollerDies, DeleteSystem,
         Reboot, Steps, TypeOK, Task
<1>7. /\ pending' = [w \in Writers |-> pending'[w]]
      /\ \A w \in Writers : Len(pending'[w]) <= 3
      /\ pending'["command"] # << >> => pc' = pc /\ pending'["command"] = pending["command"]
      /\ pending'["poller"] # << >> =>
            poller' = "write" /\ \E p \in 1 .. MaxPid : pending'["poller"] = << <<"pid", p>> >>
  <2>1. pending = [w \in Writers |-> pending[w]] /\ Len(<< >>) <= 3
    BY DEF Steps, TypeOK
  <2>2. CASE PollerForked
    <3>1. /\ pending' = [w \in Writers |-> IF w = "poller" THEN << <<"pid", daemon>> >>
                                                           ELSE pending[w]]
          /\ pc' = pc /\ poller' = "write"
      BY <2>1, <2>2 DEF PollerForked
    <3>3. daemon \in 1 .. MaxPid
      BY <2>2 DEF PollerForked, Steps, TypeOK, NoPid
    <3>2. Len(<< <<"pid", daemon>> >>) <= 3
      OBVIOUS
    <3> QED  BY <3>1, <3>2, <3>3 DEF Steps, TypeOK, Writers
  <2>3. CASE DaemonDies \/ FirstChildDies \/ PollerDies
    <3>1. /\ pending' = [w \in Writers |-> IF w = "poller" THEN << >> ELSE pending[w]]
          /\ pc' = pc
      BY <2>1, <2>3 DEF DaemonDies, FirstChildDies, PollerDies
    <3> QED  BY <2>1, <3>1 DEF Steps, TypeOK, Writers
  <2>4. CASE Reboot
    <3>1. pending' = [w \in Writers |-> << >>]
      BY <2>4 DEF Reboot
    <3> QED  BY <2>1, <3>1 DEF Writers
  <2>5. CASE Start \/ PollerRuns \/ DeleteSystem
    <3>1. pending' = pending /\ pc' = pc
      BY <2>5 DEF Start, PollerRuns, DeleteSystem
    <3>2. pending["poller"] = << >>
      BY <2>5 DEF Start, PollerRuns, DeleteSystem, Steps, Task
    <3> QED  BY <2>1, <3>1, <3>2 DEF Steps, TypeOK
  <2> QED  BY <2>2, <2>3, <2>4, <2>5
<1>8. TypeOK'
  BY <1>0, <1>1, <1>2, <1>3, <1>5, <1>6, <1>7 DEF Steps, TypeOK
<1>9. Task'
  BY <1>1, <1>4, <1>6, <1>7 DEF Steps, Task
<1>10. Roles'
  BY <1>1 DEF Steps, Roles
<1> QED  BY <1>8, <1>9, <1>10 DEF Steps

\* Types, tasks and roles are kept by every step.
LEMMA StepsStep == Steps /\ [Next]_vars => Steps'
<1> SUFFICES ASSUME Steps, [Next]_vars PROVE Steps'
  OBVIOUS
<1>1. CASE UNCHANGED vars
  BY <1>1 DEF vars, machine, command, writing, process, history, Steps, TypeOK, Task, Roles,
         counters
<1>2. CASE Next
  BY <1>2, CommandSteps, FileSteps, TaskSteps, WriterSteps, DaemonSteps DEF Next
<1> QED  BY <1>1, <1>2

-----------------------------------------------------------------------------
(* The file while it is used by one process at a time                      *)

\* There is a configuration file, be it empty.
Present == conf.state # "none"

\* The configuration can be read, or will be when its writer has filled the file.
Readable == conf.state = "whole" \/ \E w \in Writers : phase[w] = "open"

\* The configuration, be it in the file or in the memory of the writer that has
\* emptied the file.
Doc == IF phase["command"] = "open" THEN doc["command"]
       ELSE IF phase["poller"] = "open" THEN doc["poller"]
       ELSE conf.doc

\* One writer at a time is between its first and its last step, it has parsed
\* what the file says, and it fills the file that it has emptied.
Alone ==
    /\ \A w \in Writers : phase[w] # "orphan"
    /\ phase["command"] = "idle" \/ phase["poller"] = "idle"
    /\ \A w \in Writers : phase[w] = "parsed" =>
           doc[w] = conf.doc /\ (Present \/ WorkingDir(w) = Source)
    /\ \A w \in Writers : phase[w] = "open" => conf.state = "damaged"
    /\ conf.state # "whole" => conf.doc = Template

\* The history of the file being used by two processes never shrinks.
LEMMA MixedStays ==
    ASSUME Steps, [Next]_vars, mixed
    PROVE  mixed'
<1> USE DEF Goes, Ends, Writes, Untouched, ReadsOnly, ReadsFile, PollerGone, machine, command,
        writing, process, history, counters, FirstChildGone
<1>1. CASE UNCHANGED vars
  BY <1>1 DEF vars
<1>2. CASE \E c \in DOMAIN FirstStep, p \in Places : Give(c, p)
  BY <1>2 DEF Give
<1>3. CASE StopRunningProcess \/ RunUninstall \/ Reinstall \/ ReadsConfig \/ Register
           \/ Unlinks \/ EndConfigure
  BY <1>3 DEF StopRunningProcess, RunUninstall, Reinstall, ReadsConfig, Register, Unlinks,
         EndConfigure
<1>4. CASE Unlink \/ Copy
  BY <1>4, CopyChanges DEF Unlink, Unlinked
<1>5. CASE Copied \/ Written \/ AddSystem \/ SetProperty
           \/ \E v \in {"true", "false"} : SetBootup(v)
  BY <1>5 DEF Copied, Written, AddSystem, SetProperty, SetBootup
<1>6. CASE \E w \in Writers : Parse(w) \/ Truncate(w) \/ Write(w)
  BY <1>6 DEF Parse, Truncate, Write
<1>7. CASE Start \/ PollerForked \/ PollerRuns \/ DaemonDies \/ FirstChildDies \/ PollerDies
           \/ DeleteSystem \/ Reboot
  BY <1>7 DEF Start, PollerForked, PollerRuns, DaemonDies, FirstChildDies, PollerDies, DeleteSystem,
         Reboot
<1> QED  BY <1>1, <1>2, <1>3, <1>4, <1>5, <1>6, <1>7 DEF Next

\* The command and the poller are the writers, each with its directory.
LEMMA TwoWriters ==
    /\ \A w \in Writers : w = "command" \/ w = "poller"
    /\ "command" \in Writers /\ "poller" \in Writers
    /\ Other("command") = "poller" /\ Other("poller") = "command"
    /\ WorkingDir("command") = place /\ WorkingDir("poller") = Elsewhere /\ Elsewhere # Source
BY DEF Writers, Other, WorkingDir, Elsewhere, Source

\* A writer that has begun is at work for its process.
LEMMA WriterAtWork ==
    ASSUME Steps
    PROVE  /\ phase["command"] # "idle" => pc = "write"
           /\ phase["poller"] # "idle" => poller = "write"
BY DEF Steps, Task, Writers

\* The steps of a writer, seen from outside.
WriterView(w) ==
    /\ UNCHANGED <<files, lost, pc, cmd, place, k, key, after, outcome, poller, systemId, wanted,
                   overridden, deleted>>
    /\ remade' = remade \/ Remakes
    /\ conf'.state = "whole" /\ systemId # NoKey /\ deleted => \/ remade'
                                                              \/ conf.state = "whole"
                                                              \/ poller = "write"
    /\ \/ /\ Doc' = Doc /\ pending' = pending /\ (Readable => Readable')
          /\ Present' => Present \/ (pc = "write" /\ place = Source /\ Readable')
       \/ /\ pending'["command"] = pending["command"] /\ Present /\ Readable' /\ poller = "write"
          /\ \E v : Doc' = [Doc EXCEPT !["pid"] = v]
       \/ /\ pc = "write" /\ Present /\ Readable' /\ pending["command"] \in Tasks(after, key)
          /\ Doc' = [Doc EXCEPT ![Head(pending["command"])[1]] = Head(pending["command"])[2]]
          /\ pending'["command"] = Tail(pending["command"])

\* A writer reads the configuration that it will write.
LEMMA ParseAlone ==
    ASSUME Steps, Alone, NEW w \in Writers, Parse(w), ~mixed'
    PROVE  Alone' /\ WriterView(w)
<1> USE TwoWriters
<1>1. /\ UNCHANGED <<files, lost, pc, cmd, place, k, key, after, outcome, poller, systemId, wanted,
                     overridden, deleted, remade, conf, pending>>
      /\ phase[w] = "idle" /\ phase[Other(w)] = "idle"
      /\ phase' = [phase EXCEPT ![w] = "parsed"]
  BY DEF Parse, machine, command, process
<1>2. PICK d \in Parsed(WorkingDir(w)) : doc' = [doc EXCEPT ![w] = d]
  BY DEF Parse
<1>3. d = conf.doc /\ (Present \/ WorkingDir(w) = Source)
  BY <1>2 DEF Parsed, Alone, Present
<1>4. doc'[w] = d /\ phase'[w] = "parsed" /\ phase'[Other(w)] = "idle"
  <2>1. doc = [v \in Writers |-> doc[v]] /\ phase = [v \in Writers |-> phase[v]]
    BY DEF Steps, TypeOK
  <2>2. w \in Writers /\ Other(w) \in Writers /\ Other(w) # w
    OBVIOUS
  <2>3. doc'[w] = d
    BY <1>2, <2>1, <2>2
  <2>4. phase'[w] = "parsed" /\ phase'[Other(w)] = "idle"
    BY <1>1, <2>1, <2>2
  <2> QED  BY <2>3, <2>4
<1>5. Alone'
  BY <1>1, <1>3, <1>4 DEF Alone, Present, WorkingDir
<1>6. Doc' = Doc
  BY <1>1, <1>4 DEF Doc
<1>7. Readable => Readable'
  BY <1>1, <1>4 DEF Readable
<1> QED  BY <1>1, <1>5, <1>6, <1>7 DEF WriterView, Present

\* A writer empties the file: from now on it holds the configuration alone.
LEMMA TruncateAlone ==
    ASSUME Steps, Alone, NEW w \in Writers, Truncate(w), ~mixed'
    PROVE  Alone' /\ WriterView(w)
<1> USE TwoWriters
<1>1. /\ UNCHANGED <<files, lost, pc, cmd, place, k, key, after, outcome, poller, systemId, wanted,
                     overridden, deleted, remade, doc, pending>>
      /\ phase[w] = "parsed" /\ phase[Other(w)] = "idle"
      /\ phase' = [phase EXCEPT ![w] = "open"] /\ conf' = Damaged
  BY DEF Truncate, command, process, history, Alone
<1>2. doc[w] = conf.doc /\ (Present \/ WorkingDir(w) = Source)
  BY <1>1 DEF Alone
<1>3. phase'[w] = "open" /\ phase'[Other(w)] = "idle"
  BY <1>1 DEF Steps, TypeOK
<1>4. conf'.state = "damaged" /\ conf'.doc = Template
  BY <1>1 DEF Damaged
<1>5. Alone'
  BY <1>1, <1>3, <1>4 DEF Alone
<1>6. Doc' = Doc
  BY <1>1, <1>2, <1>3 DEF Doc
<1>7. Readable'
  BY <1>3 DEF Readable
<1>8. Present \/ (pc = "write" /\ place = Source)
  BY <1>1, <1>2, WriterAtWork
<1> QED  BY <1>1, <1>4, <1>5, <1>6, <1>7, <1>8 DEF WriterView

\* A writer writes the configuration with one property changed.
LEMMA WriteAlone ==
    ASSUME Steps, Alone, NEW w \in Writers, Write(w), ~mixed'
    PROVE  Alone' /\ WriterView(w)
<1> USE TwoWriters
<1> DEFINE h == Head(pending[w])
           d == [doc[w] EXCEPT ![h[1]] = h[2]]
<1>1. /\ UNCHANGED <<files, lost, pc, cmd, place, k, key, after, outcome, poller, systemId, wanted,
                     overridden, deleted>>
      /\ IF w = "command" THEN Remakes ELSE UNCHANGED remade
      /\ phase[w] = "open" /\ phase[Other(w)] = "idle" /\ conf.state = "damaged"
      /\ phase' = [phase EXCEPT ![w] = "idle"]
      /\ pending' = [pending EXCEPT ![w] = Tail(@)]
  BY DEF Write, command, process, history, Alone
<1>2. conf' = Whole(d)
  BY <1>1 DEF Write
<1>3. phase'[w] = "idle" /\ phase'[Other(w)] = "idle"
  BY <1>1 DEF Steps, TypeOK
<1> HIDE DEF d
<1>4. conf'.state = "whole" /\ conf'.doc = d
  BY <1>2 DEF Whole
<1>5. Alone'
  BY <1>1, <1>3, <1>4 DEF Alone
<1>6. Doc = doc[w] /\ Doc' = d
  BY <1>1, <1>3, <1>4 DEF Doc
<1>7. Present /\ Readable'
  BY <1>1, <1>4 DEF Present, Readable
<1>8. Doc' = [Doc EXCEPT ![h[1]] = h[2]]
  BY <1>6 DEF d
<1>9. pending[w] # << >>
  BY <1>1 DEF Steps, Task
<1>10. CASE w = "poller"
  <2>1. h[1] = "pid" /\ poller = "write"
    BY <1>1, <1>9, <1>10, NextProperty, WriterAtWork
  <2>2. pending'["command"] = pending["command"]
    BY <1>1, <1>10 DEF Steps, TypeOK
  <2> QED  BY <1>1, <1>5, <1>7, <1>8, <2>1, <2>2 DEF WriterView
<1>11. CASE w = "command"
  <2>1. pending["command"] \in Tasks(after, key) /\ pc = "write"
    BY <1>9, <1>11 DEF Steps, Task
  <2>2. pending'["command"] = Tail(pending["command"])
    BY <1>1, <1>11 DEF Steps, TypeOK
  <2>3. systemId # NoKey /\ deleted => remade'
    BY <1>1, <1>11 DEF Remakes
  <2> QED  BY <1>1, <1>5, <1>7, <1>8, <1>11, <2>1, <2>2, <2>3 DEF WriterView
<1> QED  BY <1>10, <1>11

\* A step that leaves the file and the writers alone.
LEMMA ElseAlone ==
    ASSUME Steps, Alone, UNCHANGED <<conf, phase, doc>>,
           place' = place \/ phase["command"] = "idle"
    PROVE  Alone' /\ Doc' = Doc /\ (Present' <=> Present) /\ (Readable' <=> Readable)
<1>1. \A w \in Writers : phase[w] = "parsed" => WorkingDir(w)' = WorkingDir(w)
  BY TwoWriters DEF WorkingDir
<1> QED  BY <1>1 DEF Alone, Present, Readable, Doc

\* A command that does not write the file itself.
LEMMA CommandAlone ==
    ASSUME Steps, Alone,
           \/ \E c \in DOMAIN FirstStep, p \in Places : Give(c, p)
           \/ StopRunningProcess \/ RunUninstall \/ Reinstall \/ ReadsConfig \/ Register
           \/ Unlinks \/ EndConfigure \/ Copied \/ Written \/ AddSystem \/ SetProperty
           \/ \E v \in {"true", "false"} : SetBootup(v)
    PROVE  /\ Alone' /\ Doc' = Doc /\ (Present' <=> Present) /\ (Readable' <=> Readable)
           /\ UNCHANGED <<conf, lost>>
<1> USE DEF Goes, Ends, Writes, Untouched, ReadsOnly, machine, writing
<1>1. CASE \E c \in DOMAIN FirstStep, p \in Places : Give(c, p)
  <2>1. UNCHANGED <<lost, conf, phase, doc>> /\ pc = "idle"
    BY <1>1 DEF Give
  <2> QED  BY <2>1, ElseAlone, WriterAtWork
<1>2. CASE StopRunningProcess \/ RunUninstall \/ Reinstall \/ ReadsConfig \/ Register
           \/ Unlinks \/ EndConfigure
  <2>1. UNCHANGED <<lost, conf, phase, doc, place>>
    BY <1>2 DEF StopRunningProcess, RunUninstall, Reinstall, ReadsConfig, Register, Unlinks,
         EndConfigure
  <2> QED  BY <2>1, ElseAlone
<1>3. CASE Copied \/ Written \/ AddSystem \/ SetProperty
           \/ \E v \in {"true", "false"} : SetBootup(v)
  <2>1. UNCHANGED <<lost, conf, phase, doc, place>>
    BY <1>3 DEF Copied, Written, AddSystem, SetProperty, SetBootup
  <2> QED  BY <2>1, ElseAlone
<1> QED  BY <1>1, <1>2, <1>3

\* When nobody writes, the document is the file's.
LEMMA DocAtRest ==
    ASSUME phase["command"] = "idle", phase["poller"] = "idle"
    PROVE  Doc = conf.doc
BY DEF Doc

\* uninstall() unlinks a file.
LEMMA UnlinkAlone ==
    ASSUME Steps, Alone, Unlink, ~mixed'
    PROVE  /\ Alone' /\ files' = files \ {UnlinkOrder[k]}
           /\ conf' = conf \/ conf'.state = "none"
           /\ IF k = 5 THEN Doc' = Template /\ ~Present'
                       ELSE Doc' = Doc /\ (Present' <=> Present)
<1> DEFINE n == UnlinkOrder[k]
<1>1. n = "config" <=> k = 5
  <2>1. k \in {1, 2, 3, 4, 5, 6, 7, 8, 9}
    BY Orders DEF Unlink, LastUnlinked, Steps, TypeOK
  <2> QED  BY <2>1, Orders
<1>2. Unlinked(n) /\ UNCHANGED <<place, doc>>
  BY DEF Unlink
<1> HIDE DEF n
<1>3. files' = files \ {n} /\ (conf' = conf \/ conf'.state = "none")
  BY <1>2 DEF Unlinked, ConfLeft, NoFile
<1>4. CASE n = "config"
  <2>1. \A w \in Writers : phase[w] = "idle"
    BY <1>2, <1>4 DEF Unlinked
  <2>2. \A w \in Writers : phase'[w] = "idle"
    BY <1>2, <2>1 DEF Unlinked
  <2>3. conf'.state = "none" /\ conf'.doc = Template
    BY <1>2, <1>4 DEF Unlinked, ConfLeft, NoFile
  <2>4. Alone'
    BY <2>2, <2>3, TwoWriters DEF Alone
  <2>5. Doc' = Template /\ ~Present'
    BY <2>2, <2>3, TwoWriters DEF Doc, Present
  <2> QED  BY <1>1, <1>3, <1>4, <2>4, <2>5 DEF n
<1>5. CASE n # "config"
  <2>1. conf' = conf /\ phase' = phase
    BY <1>2, <1>5 DEF Unlinked, Steps, TypeOK
  <2>2. Alone' /\ Doc' = Doc /\ (Present' <=> Present)
    BY <1>2, <2>1, ElseAlone
  <2> QED  BY <1>1, <1>3, <1>5, <2>2 DEF n
<1> QED  BY <1>4, <1>5

\* instReInstComCode copies a file, or fails to.
LEMMA CopyAlone ==
    ASSUME Steps, Alone, Copy, ~mixed'
    PROVE  Alone' /\ (Doc' = Doc \/ (k = 3 /\ Doc' = Template))
<1>1. CASE conf' = conf
  BY <1>1, CopyChanges, ElseAlone
<1>2. CASE conf' # conf
  <2>1. /\ k = 3 /\ conf' \in {Damaged, Whole(Template)} /\ \A w \in Writers : phase[w] = "idle"
        /\ phase' = phase
    BY <1>2, CopyChanges
  <2>2. conf'.state # "none" /\ conf'.doc = Template
    BY <2>1 DEF Damaged, Whole
  <2>3. Alone'
    BY <2>1, <2>2, TwoWriters DEF Alone
  <2>4. Doc' = Template
    BY <2>1, <2>2, TwoWriters DEF Doc
  <2> QED  BY <2>1, <2>3, <2>4
<1> QED  BY <1>1, <1>2

\* The daemon, but for DeleteSystem, and the restart of the machine, seen from
\* the command: nothing happens, or it was idle and its outcome is forgotten.
DaemonView ==
    /\ UNCHANGED <<files, lost, conf, pc, cmd, place, k, key, after, wanted, overridden, deleted>>
    /\ pending'["command"] = pending["command"]
    /\ Doc' = Doc /\ (Present' <=> Present) /\ (Readable' <=> Readable)
    /\ outcome' = outcome \/ outcome' = "none"

LEMMA DaemonAlone ==
    ASSUME Steps, Alone,
           \/ Start \/ PollerForked \/ PollerRuns \/ DaemonDies \/ FirstChildDies \/ PollerDies
           \/ Reboot \/ UNCHANGED vars,
           ~mixed'
    PROVE  Alone' /\ DaemonView
<1>1. CASE Start \/ PollerRuns \/ UNCHANGED vars
  <2>1. UNCHANGED <<machine, command, writing, history>>
    BY <1>1 DEF Start, PollerRuns, vars
  <2>2. UNCHANGED <<files, lost, conf, pc, cmd, place, k, key, after, outcome, phase, doc,
                    pending, wanted, overridden, deleted>>
    BY <2>1 DEF machine, command, writing, history
  <2> QED  BY <2>2, ElseAlone DEF DaemonView
<1>2. CASE PollerForked
  <2>1. /\ UNCHANGED <<machine, command, phase, doc, history>>
        /\ pending' = [pending EXCEPT !["poller"] = << <<"pid", daemon>> >>]
    BY <1>2 DEF PollerForked
  <2>2. UNCHANGED <<files, lost, conf, pc, cmd, place, k, key, after, outcome, phase, doc,
                    wanted, overridden, deleted>>
    BY <2>1 DEF machine, command, history
  <2>3. pending'["command"] = pending["command"]
    BY <2>1, TwoWriters DEF Steps, TypeOK
  <2> QED  BY <2>2, <2>3, ElseAlone DEF DaemonView
<1>3. CASE DaemonDies \/ FirstChildDies \/ PollerDies
  <2>1. PollerGone
    BY <1>3 DEF DaemonDies, FirstChildDies, FirstChildGone, PollerDies
  <2>2. UNCHANGED <<files, lost, conf, pc, cmd, place, k, key, after, outcome, phase, doc,
                    wanted, overridden, deleted>>
    BY <2>1 DEF PollerGone, machine, command, Steps, TypeOK
  <2>3. pending'["command"] = pending["command"]
    BY <2>1, TwoWriters DEF PollerGone, Steps, TypeOK
  <2> QED  BY <2>2, <2>3, ElseAlone DEF DaemonView
<1>4. CASE Reboot
  <2>1. /\ pc = "idle" /\ pc' = "idle" /\ outcome' = "none"
        /\ \A w \in Writers : phase[w] = "idle" /\ phase'[w] = "idle"
        /\ UNCHANGED <<files, lost, conf, cmd, place, k, key, after, wanted, overridden, deleted>>
        /\ pending' = [w \in Writers |-> << >>]
    BY <1>4 DEF Reboot, Ends
  <2>2. pending'["command"] = pending["command"]
    BY <2>1, TwoWriters DEF Steps, Task
  <2>3. Alone'
    BY <2>1, TwoWriters DEF Alone
  <2>4. Doc' = Doc /\ (Present' <=> Present) /\ (Readable' <=> Readable)
    BY <2>1, TwoWriters DEF Doc, Present, Readable
  <2> QED  BY <2>1, <2>2, <2>3, <2>4 DEF DaemonView
<1> QED  BY <1>1, <1>2, <1>3, <1>4

\* DeleteSystem, when no command runs beside it.
LEMMA DeleteAlone ==
    ASSUME Steps, Alone, DeleteSystem, ~mixed'
    PROVE  /\ Alone' /\ files' = {} /\ Doc' = Template /\ ~Present'
           /\ pc = "idle" /\ outcome' = "none"
           /\ UNCHANGED <<pc, cmd, place, k, key, after, pending, wanted>>
<1>1. /\ poller = "run" /\ pc = "idle" /\ outcome' = "none" /\ files' = {} /\ conf' = NoFile
      /\ phase' = [w \in Writers |-> IF phase[w] = "open" THEN "orphan" ELSE phase[w]]
      /\ UNCHANGED <<pc, cmd, place, k, key, after, pending, wanted>>
  BY DEF DeleteSystem, ConfLeft
<1>2. \A w \in Writers : phase[w] = "idle"
  BY <1>1, WriterAtWork, TwoWriters
<1>3. \A w \in Writers : phase'[w] = "idle"
  BY <1>1, <1>2
<1>4. conf'.state = "none" /\ conf'.doc = Template
  BY <1>1 DEF NoFile
<1>5. Alone'
  BY <1>3, <1>4, TwoWriters DEF Alone
<1>6. Doc' = Template /\ ~Present'
  BY <1>3, <1>4, TwoWriters DEF Doc, Present
<1> QED  BY <1>1, <1>5, <1>6

\* A writer's step.
LEMMA WriterAlone ==
    ASSUME Steps, Alone, NEW w \in Writers, Parse(w) \/ Truncate(w) \/ Write(w), ~mixed'
    PROVE  Alone' /\ WriterView(w)
BY ParseAlone, TruncateAlone, WriteAlone

\* One writer at a time keeps the configuration whole, in the file or in memory.
LEMMA AloneStep ==
    ASSUME Steps, Alone, [Next]_vars, ~mixed'
    PROVE  Alone'
BY WriterAlone, CommandAlone, UnlinkAlone, CopyAlone, DaemonAlone, DeleteAlone DEF Next

\* The configuration is a document, and changing one property of it leaves the
\* others.
LEMMA DocChanges ==
    ASSUME Steps
    PROVE  /\ IsDoc(Doc)
           /\ \A n, v : \A m \in Names :
                  [Doc EXCEPT ![n] = v][m] = IF m = n THEN v ELSE Doc[m]
<1>1. IsDoc(Doc)
  BY DEF Steps, TypeOK, Doc, Writers
<1> QED  BY <1>1 DEF IsDoc

\* The properties that config.xml of the sources has.
LEMMA TemplateValues ==
    /\ \A n \in FromServer \cup {"debug"} : Template[n] = "template"
    /\ Template["bootup"] = "true" /\ Template["system-id"] = NoKey
BY DEF Template, FromServer, Names

\* The properties that each task begins with.
LEMMA FirstProperty ==
    ASSUME NEW a, NEW s, NEW t \in Tasks(a, s)
    PROVE  /\ a = "add" => Head(t) = <<"system-id", s>> /\ Tail(t) = << >>
           /\ a = "success" => \/ t = Received /\ Head(t) = <<"videoStreamingType", "set">>
                                  /\ Tail(t) = SecondOn
                               \/ t = SecondOn /\ Head(t) = <<"autoInsertCameras", "set">>
                                  /\ Tail(t) = Last
                               \/ t = Last /\ Head(t) = <<"pollInterval", "set">>
                                  /\ Tail(t) = << >>
           /\ a = "prompt" => /\ Head(t) \in {<<"debug", "set">>, <<"bootup", "true">>,
                                              <<"bootup", "false">>}
                              /\ t = << Head(t) >> /\ Tail(t) = << >>
           /\ a \in {"add", "success", "prompt"}
<1>1. CASE a = "add"
  <2>1. t = << <<"system-id", s>> >>
    BY <1>1 DEF Tasks
  <2> QED  BY <1>1, <2>1, Pieces
<1>2. CASE a = "success"
  <2>1. t = Received \/ t = SecondOn \/ t = Last
    BY <1>2 DEF Tasks
  <2>2. Head(Received) = <<"videoStreamingType", "set">> /\ Tail(Received) = SecondOn
    BY Pieces DEF Received, SecondOn
  <2>3. Head(SecondOn) = <<"autoInsertCameras", "set">> /\ Tail(SecondOn) = Last
    BY Pieces DEF SecondOn, Last
  <2>4. Head(Last) = <<"pollInterval", "set">> /\ Tail(Last) = << >>
    BY Pieces DEF Last
  <2> QED  BY <1>2, <2>1, <2>2, <2>3, <2>4
<1>3. CASE a = "prompt"
  <2>1. PICK p \in {<<"debug", "set">>, <<"bootup", "true">>, <<"bootup", "false">>} : t = << p >>
    BY <1>3 DEF Tasks
  <2>2. Head(t) = p /\ Tail(t) = << >>
    BY <2>1, Pieces
  <2> QED  BY <1>3, <2>1, <2>2
<1> QED  BY <1>1, <1>2, <1>3 DEF Tasks

-----------------------------------------------------------------------------
(* After DeleteSystem                                                      *)

\* After DeleteSystem no poller reaches the server, because no configuration
\* with a system-id is complete again before the server has answered AddSystem,
\* and without a configuration the first child forgets the system.
Silent ==
    deleted => /\ poller \in {"write", "run"} => remade
               /\ conf.state = "whole" /\ systemId # NoKey => remade
               /\ \A n \in FromServer : Doc[n] = "template"
               /\ pc = "write" => after # "success"

\* What a deleted system has is config.xml of the sources until AddSystem is
\* answered, and with a system-id in it readConfig brings the first child down.
LEMMA SilentStep ==
    ASSUME Steps, Alone, Silent, [Next]_vars, ~mixed'
    PROVE  Silent'
<1> SUFFICES ASSUME deleted'
             PROVE  /\ poller' \in {"write", "run"} => remade'
                    /\ conf'.state = "whole" /\ systemId' # NoKey => remade'
                    /\ \A n \in FromServer : Doc'[n] = "template"
                    /\ pc' = "write" => after' # "success"
  BY DEF Silent
<1> USE DEF Goes, Ends, Writes, Untouched, ReadsOnly, machine, process, history
<1>1. CASE \E w \in Writers : Parse(w) \/ Truncate(w) \/ Write(w)
  <2>1. PICK w \in Writers : WriterView(w)
    BY <1>1, WriterAlone
  <2>2. /\ deleted /\ UNCHANGED <<pc, after, poller>>
        /\ \/ Doc' = Doc
           \/ \E v : Doc' = [Doc EXCEPT !["pid"] = v]
           \/ /\ pc = "write" /\ pending["command"] \in Tasks(after, key)
              /\ Doc' = [Doc EXCEPT ![Head(pending["command"])[1]] = Head(pending["command"])[2]]
    BY <2>1 DEF WriterView
  <2>3. after # "success" /\ pending["command"] \in Tasks(after, key) =>
            Head(pending["command"])[1] \in {"system-id", "debug", "bootup"}
    BY FirstProperty
  <2>4. PICK n \in {"pid", "system-id", "debug", "bootup"} :
            \E v : Doc' = Doc \/ Doc' = [Doc EXCEPT ![n] = v]
    BY <2>2, <2>3 DEF Silent
  <2>5. PICK v : Doc' = Doc \/ Doc' = [Doc EXCEPT ![n] = v]
    BY <2>4
  <2>6. ASSUME NEW m \in FromServer
        PROVE  Doc'[m] = Doc[m]
    <3>1. m \in Names /\ m # n
      BY DEF FromServer, Names
    <3>2. [Doc EXCEPT ![n] = v][m] = Doc[m]
      BY <3>1, DocChanges
    <3> QED  BY <2>5, <3>2
  <2>7. remade' = remade \/ Remakes
    BY <2>1 DEF WriterView
  <2>8. remade => remade'
    BY <2>7, Zenon DEF Remakes
  <2>9. /\ UNCHANGED systemId
        /\ conf'.state = "whole" /\ systemId # NoKey =>
              remade' \/ conf.state = "whole" \/ poller = "write"
    BY <2>1, <2>2 DEF WriterView
  <2>10. poller' \in {"write", "run"} => remade'
    BY <2>2, <2>8 DEF Silent
  <2>11. conf'.state = "whole" /\ systemId' # NoKey => remade'
    BY <2>2, <2>8, <2>9 DEF Silent
  <2>12. \A m \in FromServer : Doc'[m] = "template"
    BY <2>2, <2>6 DEF Silent
  <2> QED  BY <2>2, <2>10, <2>11, <2>12 DEF Silent
<1>2. CASE \/ Start \/ PollerForked \/ PollerRuns \/ DaemonDies \/ FirstChildDies \/ PollerDies
           \/ Reboot \/ UNCHANGED vars
  <2>1. DaemonView
    BY <1>2, DaemonAlone
  <2>2. deleted /\ Doc' = Doc /\ UNCHANGED <<conf, pc, after>>
    BY <2>1 DEF DaemonView
  <2>3. CASE PollerForked
    <3>1. PICK d \in Parsed(Elsewhere) : Complete(d)
      BY <2>3 DEF PollerForked, ReadConfig
    <3>2. conf.state = "whole" /\ Parsed(Elsewhere) = {conf.doc}
      BY <3>1, TwoWriters DEF Parsed
    <3>3. d = conf.doc /\ ConfigValue("system-id", Elsewhere) = conf.doc["system-id"]
      BY <3>1, <3>2 DEF ConfigValue
    <3>4. Doc = conf.doc
      BY <3>2, TwoWriters DEF Alone, Doc
    <3>5. conf.doc["system-id"] = NoKey
      BY <2>2, <3>1, <3>3, <3>4 DEF Complete, Silent, FromServer
    <3>6. systemId' = systemId /\ systemId # NoKey /\ remade' = remade
      BY <2>3, <3>3, <3>5 DEF PollerForked
    <3> QED  BY <2>2, <3>2, <3>6 DEF Silent
  <2>4. CASE PollerRuns \/ UNCHANGED vars
    <3>1. /\ UNCHANGED <<systemId, remade>>
          /\ poller' \in {"write", "run"} => poller \in {"write", "run"}
      BY <2>4 DEF PollerRuns, vars
    <3> QED  BY <2>2, <3>1 DEF Silent
  <2>5. CASE Start \/ DaemonDies \/ FirstChildDies \/ Reboot
    <3>1. poller' = "none" /\ systemId' = NoKey
      BY <2>5 DEF Start, DaemonDies, FirstChildDies, FirstChildGone, PollerGone, Reboot
    <3> QED  BY <2>2, <3>1 DEF Silent
  <2>6. CASE PollerDies
    <3>1. poller' = "none" /\ UNCHANGED <<systemId, remade>>
      BY <2>6 DEF PollerDies, PollerGone
    <3> QED  BY <2>2, <3>1 DEF Silent
  <2> QED  BY <1>2, <2>3, <2>4, <2>5, <2>6
<1>3. CASE DeleteSystem
  <2>1. Doc' = Template /\ ~Present' /\ pc' = "idle" /\ poller' = "deleting"
    BY <1>3, DeleteAlone DEF DeleteSystem
  <2> QED  BY <2>1, TemplateValues DEF Present
<1>4. CASE Unlink
  <2>1. deleted /\ pc' # "write" /\ UNCHANGED <<poller, systemId, remade>>
    BY <1>4 DEF Unlink
  <2>2. Doc' = Doc \/ Doc' = Template
    BY <1>4, UnlinkAlone
  <2>3. conf' = conf \/ conf'.state = "none"
    BY <1>4, UnlinkAlone
  <2> QED  BY <2>1, <2>2, <2>3, TemplateValues DEF Silent
<1>5. CASE Copy
  <2>1. /\ deleted /\ UNCHANGED <<poller, systemId>> /\ pc' \in {"copy", "idle"}
        /\ remade' = remade \/ Remakes
    BY <1>5, CopyChanges
  <2>2. conf' = conf \/ conf'.state = "damaged" \/ Remakes
    BY <1>5, CopyChanges DEF Damaged
  <2>3. Doc' = Doc \/ Doc' = Template
    BY <1>5, CopyAlone
  <2>4. remade => remade'
    BY <2>1, Zenon DEF Remakes
  <2>5. conf' = conf \/ conf'.state = "damaged" \/ (systemId # NoKey => remade')
    <3>1. Remakes /\ systemId # NoKey => remade'
      BY <2>1, Zenon DEF Remakes
    <3> QED  BY <2>2, <3>1
  <2>6. poller' \in {"write", "run"} => remade'
    BY <2>1, <2>4 DEF Silent
  <2>7. conf'.state = "whole" /\ systemId' # NoKey => remade'
    BY <2>1, <2>4, <2>5 DEF Silent
  <2> QED  BY <2>1, <2>3, <2>6, <2>7, TemplateValues DEF Silent
<1>6. CASE Copied \/ Written \/ AddSystem \/ SetProperty
           \/ \E v \in {"true", "false"} : SetBootup(v)
  <2>1. /\ deleted /\ UNCHANGED <<poller, systemId, remade>>
        /\ pc' = "write" => after' # "success"
    BY <1>6 DEF Copied, Written, AddSystem, SetProperty, SetBootup, Silent, Steps, Task
  <2>2. conf' = conf /\ Doc' = Doc
    BY <1>6, CommandAlone
  <2> QED  BY <2>1, <2>2 DEF Silent
<1>7. CASE \E c \in DOMAIN FirstStep, p \in Places : Give(c, p)
  <2>1. deleted /\ UNCHANGED <<poller, systemId, remade>> /\ pc' # "write"
    BY <1>7 DEF Give, FirstStep
  <2>2. conf' = conf /\ Doc' = Doc
    BY <1>7, CommandAlone
  <2> QED  BY <2>1, <2>2 DEF Silent
<1>8. CASE StopRunningProcess \/ RunUninstall \/ Reinstall \/ ReadsConfig \/ Register
           \/ Unlinks \/ EndConfigure
  <2>1. deleted /\ UNCHANGED <<poller, systemId, remade>> /\ pc' # "write"
    BY <1>8 DEF StopRunningProcess, RunUninstall, Reinstall, ReadsConfig, Register, Unlinks,
         EndConfigure
  <2>2. conf' = conf /\ Doc' = Doc
    BY <1>8, CommandAlone
  <2> QED  BY <2>1, <2>2 DEF Silent
<1> QED  BY <1>1, <1>2, <1>3, <1>4, <1>5, <1>6, <1>7, <1>8 DEF Next

-----------------------------------------------------------------------------
(* uninstall()                                                             *)

\* The files that uninstall() has passed stay away while it goes on, and the
\* configuration with them; when it has ended nothing is left.
Gone ==
    /\ pc = "unlink" => /\ \A j \in 1 .. k - 1 : UnlinkOrder[j] \notin files
                        /\ k > 5 => ~Present
    /\ outcome = "uninstalled" => files = {} /\ ~Present

\* Every command but -c passes through uninstall(), which leaves no file that it
\* has passed.
LEMMA GoneStep ==
    ASSUME Steps, Alone, Gone, [Next]_vars, ~mixed'
    PROVE  Gone'
<1> USE DEF Goes, Ends, Writes, Untouched, ReadsOnly, machine, command, writing, process, history
<1>1. outcome = "uninstalled" => pc = "idle"
  BY DEF Steps, Task
<1>2. CASE \E w \in Writers : Parse(w) \/ Truncate(w) \/ Write(w)
  <2>1. PICK w \in Writers : WriterView(w)
    BY <1>2, WriterAlone
  <2>2. UNCHANGED <<files, pc, k, outcome>> /\ (Present' => Present \/ pc = "write")
    BY <2>1 DEF WriterView
  <2> QED  BY <1>1, <2>2 DEF Gone
<1>3. CASE \/ Start \/ PollerForked \/ PollerRuns \/ DaemonDies \/ FirstChildDies \/ PollerDies
           \/ Reboot \/ UNCHANGED vars
  <2>1. /\ UNCHANGED <<files, pc, k>> /\ (Present' <=> Present)
        /\ outcome' = outcome \/ outcome' = "none"
    BY <1>3, DaemonAlone DEF DaemonView
  <2> QED  BY <2>1 DEF Gone
<1>4. CASE DeleteSystem
  BY <1>4, DeleteAlone DEF Gone
<1>5. CASE Unlink
  <2>1. /\ pc = "unlink" /\ pc' = pc /\ outcome' = "none" /\ k' = k + 1 /\ k \in 1 .. 9
    BY <1>5, Orders DEF Unlink, LastUnlinked, Steps, TypeOK, Task
  <2>2. files' = files \ {UnlinkOrder[k]}
    BY <1>5, UnlinkAlone
  <2>3. ASSUME NEW j \in 1 .. k' - 1
        PROVE  UnlinkOrder[j] \notin files'
    <3>1. j \in 1 .. k - 1 \/ j = k
      BY <2>1
    <3> QED  BY <2>1, <2>2, <3>1 DEF Gone
  <2>4. k' > 5 => ~Present'
    <3>1. CASE k = 5
      BY <1>5, <3>1, UnlinkAlone
    <3>2. CASE k # 5
      <4>1. Present' <=> Present
        BY <1>5, <3>2, UnlinkAlone
      <4>2. k' > 5 => k > 5
        BY <2>1, <3>2
      <4> QED  BY <2>1, <4>1, <4>2 DEF Gone
    <3> QED  BY <3>1, <3>2
  <2> QED  BY <2>1, <2>3, <2>4 DEF Gone
<1>6. CASE Unlinks
  <2>1. /\ pc = "unlink" /\ k = 10 /\ UNCHANGED <<files>>
        /\ pc' # "unlink" /\ (Present' <=> Present)
    BY <1>6, Orders, CommandAlone DEF Unlinks, LastUnlinked, Steps, TypeOK
  <2>2. \A j \in 1 .. 9 : UnlinkOrder[j] \notin files
    BY <2>1 DEF Gone
  <2>3. /\ UnlinkOrder[1] \notin files /\ UnlinkOrder[2] \notin files /\ UnlinkOrder[3] \notin files
        /\ UnlinkOrder[4] \notin files /\ UnlinkOrder[6] \notin files /\ UnlinkOrder[7] \notin files
        /\ UnlinkOrder[8] \notin files /\ UnlinkOrder[9] \notin files
    BY <2>2
  <2>4. files = {}
    <3>1. files \subseteq {"init", "override", "initd", "rules", "bin", "log", "certs", "link"}
      BY PartNames DEF Steps, TypeOK
    <3>2. \A n \in {"init", "override", "initd", "rules", "bin", "log", "certs", "link"} :
              n \notin files
      BY <2>3, Orders
    <3> QED  BY <3>1, <3>2
  <2>5. ~Present
    BY <2>1 DEF Gone
  <2> QED  BY <2>1, <2>4, <2>5 DEF Gone
<1>7. CASE StopRunningProcess
  <2>1. /\ pc' = "unlink" => k' = 1
        /\ outcome' = "none"
    BY <1>7 DEF StopRunningProcess, Steps, Task
  <2>2. \A j \in 1 .. 1 - 1 : FALSE
    OBVIOUS
  <2> QED  BY <2>1, <2>2 DEF Gone
<1>8. CASE \E c \in DOMAIN FirstStep, p \in Places : Give(c, p)
  BY <1>8 DEF Give, FirstStep, Gone
<1>9. CASE RunUninstall \/ Reinstall \/ ReadsConfig \/ Register \/ EndConfigure \/ Copy
           \/ Copied \/ Written \/ AddSystem \/ SetProperty
           \/ \E v \in {"true", "false"} : SetBootup(v)
  <2>1. pc \notin {"idle", "unlink"} /\ pc' # "unlink" /\ outcome' # "uninstalled"
    BY <1>9 DEF RunUninstall, Reinstall, ReadsConfig, Register, EndConfigure, Copy, Copied, Written,
         AddSystem, SetProperty, SetBootup, Steps, Task
  <2> QED  BY <2>1 DEF Gone
<1> QED  BY <1>2, <1>3, <1>4, <1>5, <1>6, <1>7, <1>8, <1>9 DEF Next

-----------------------------------------------------------------------------
(* Where a command is given                                                *)

\* Only a program that is installed runs outside the source folder; once it has
\* uninstalled itself it finds no configuration there, so that all that comes
\* after readConfig runs in the source folder.  -c has a configuration that it can
\* read, or none where config.xml is.
Located ==
    /\ place = Elsewhere /\ pc \in {"stop", "sub", "reinstall", "uninstall"} => "bin" \in Usable
    /\ place = Elsewhere /\ pc = "read" /\ cmd # "c" => ~Present
    /\ pc \in {"register", "copy", "add"} \/ (pc = "write" /\ after # "prompt") => place = Source
    /\ pc = "prompt" \/ (pc = "write" /\ after = "prompt") =>
           Readable \/ (place = Source /\ ~Present)

\* Outside the source folder no command gets past readConfig.
LEMMA LocatedStep ==
    ASSUME Steps, Alone, Gone, Located, [Next]_vars, ~mixed'
    PROVE  Located'
<1> USE TwoWriters DEF Goes, Ends, Writes, Untouched, ReadsOnly, machine, command, writing,
                       process, history
<1>1. CASE \E w \in Writers : Parse(w) \/ Truncate(w) \/ Write(w)
  <2>1. PICK w \in Writers : WriterView(w)
    BY <1>1, WriterAlone
  <2>2. /\ UNCHANGED <<files, lost, pc, cmd, place, after>> /\ (Readable => Readable')
        /\ Present' => Present \/ (pc = "write" /\ Readable')
    BY <2>1 DEF WriterView
  <2> QED  BY <2>2 DEF Located, Usable
<1>2. CASE \/ Start \/ PollerForked \/ PollerRuns \/ DaemonDies \/ FirstChildDies \/ PollerDies
           \/ Reboot \/ UNCHANGED vars
  <2>1. /\ UNCHANGED <<files, lost, pc, cmd, place, after>> /\ (Present' <=> Present)
        /\ Readable' <=> Readable
    BY <1>2, DaemonAlone DEF DaemonView
  <2> QED  BY <2>1 DEF Located, Usable
<1>3. CASE DeleteSystem
  BY <1>3, DeleteAlone DEF Located
<1>4. CASE Unlink
  <2>1. pc' = "unlink"
    BY <1>4 DEF Unlink
  <2> QED  BY <2>1 DEF Located
<1>5. CASE Unlinks
  <2>1. pc = "unlink" /\ k > 5 /\ pc' \in {"idle", "read"} /\ (Present' <=> Present)
    BY <1>5, Orders, CommandAlone DEF Unlinks, LastUnlinked, Steps, TypeOK
  <2> QED  BY <2>1 DEF Located, Gone
<1>6. CASE Copy
  <2>1. pc = "copy" /\ pc' \in {"copy", "idle"} /\ place' = place
    BY <1>6, CopyChanges
  <2> QED  BY <2>1 DEF Located
<1>7. CASE \E c \in DOMAIN FirstStep, p \in Places : Give(c, p)
  <2>1. /\ pc' \in {"stop", "sub", "reinstall", "read"} /\ (pc' = "read" => cmd' = "c")
        /\ (place' = Source \/ "bin" \in Usable) /\ UNCHANGED <<files, lost>>
    BY <1>7 DEF Give, FirstStep
  <2> QED  BY <2>1 DEF Located, Usable
<1>8. CASE StopRunningProcess
  <2>1. pc \in {"stop", "uninstall"} /\ pc' \in {"sub", "unlink"} /\ UNCHANGED <<files, lost, place>>
    BY <1>8 DEF StopRunningProcess
  <2> QED  BY <2>1 DEF Located, Usable
<1>9. CASE RunUninstall
  <2>1. /\ pc = "sub" /\ pc' = IF "bin" \in Usable THEN "uninstall" ELSE "read"
        /\ UNCHANGED <<files, lost, place>>
    BY <1>9 DEF RunUninstall
  <2> QED  BY <2>1 DEF Located, Usable
<1>10. CASE Reinstall
  <2>1. pc = "reinstall" /\ pc' \in {"idle", "sub"} /\ UNCHANGED <<files, lost, place>>
    BY <1>10 DEF Reinstall
  <2> QED  BY <2>1 DEF Located, Usable
<1>11. CASE ReadsConfig
  <2>1. CASE ReadConfig(place) /\ cmd # "c"
    <3>1. place = Source
      BY <1>11, <2>1 DEF ReadsConfig, ReadConfig, Parsed, Located, Present, Steps, TypeOK
    <3>2. pc' \in {"idle", "sub", "register"} /\ place' = Source
      BY <1>11, <2>1, <3>1 DEF ReadsConfig
    <3> QED  BY <3>2 DEF Located
  <2>2. CASE ~ReadConfig(place)
    <3>1. pc' = "idle"
      BY <1>11, <2>2 DEF ReadsConfig
    <3> QED  BY <3>1 DEF Located
  <2>3. CASE ReadConfig(place) /\ cmd = "c"
    <3>1. pc' = "prompt" /\ place' = place
      BY <1>11, <2>3 DEF ReadsConfig
    <3>2. Readable \/ (place = Source /\ ~Present)
      BY <2>3 DEF ReadConfig, Parsed, Readable, Present
    <3>3. (Readable' <=> Readable) /\ (Present' <=> Present)
      BY <1>11, CommandAlone
    <3> QED  BY <3>1, <3>2, <3>3 DEF Located
  <2> QED  BY <2>1, <2>2, <2>3
<1>12. CASE Register \/ Copied \/ Written \/ AddSystem
  <2>1. /\ place' = place /\ pc' \in {"idle", "copy", "write", "add", "prompt"}
        /\ \/ pc' = "idle"
           \/ pc \in {"register", "copy", "add"} /\ pc' # "prompt" /\ (pc' = "write" => after' # "prompt")
           \/ pc = "write" /\ after # "prompt" /\ pc' \notin {"prompt", "write"}
           \/ pc = "write" /\ after = "prompt" /\ pc' = "prompt"
    BY <1>12 DEF Register, Copied, Written, AddSystem, Steps, Task
  <2>2. (Readable' <=> Readable) /\ (Present' <=> Present)
    BY <1>12, CommandAlone
  <2> QED  BY <2>1, <2>2 DEF Located
<1>13. CASE EndConfigure \/ SetProperty \/ \E v \in {"true", "false"} : SetBootup(v)
  <2>1. /\ pc = "prompt" /\ place' = place
        /\ pc' = "idle" \/ (pc' = "write" /\ after' = "prompt")
    BY <1>13 DEF EndConfigure, SetProperty, SetBootup
  <2>2. (Readable' <=> Readable) /\ (Present' <=> Present)
    BY <1>13, CommandAlone
  <2> QED  BY <2>1, <2>2 DEF Located
<1> QED  BY <1>1, <1>2, <1>3, <1>4, <1>5, <1>6, <1>7, <1>8, <1>9, <1>10, <1>11, <1>12, <1>13 DEF Next

-----------------------------------------------------------------------------
(* An installation that succeeds                                           *)

\* The files of an installation, the override file being none of them.
Program == Parts \ {"override"}

\* All copies are made, those that could be.
Filled == pc = "add" \/ (pc = "write" /\ after # "prompt") \/ outcome = "success"

\* The server's answer to AddSystem is being written, or is written.
Serving == (pc = "write" /\ after = "success") \/ outcome = "success"

\* How far an installation has come: the files that are copied or whose copy has
\* failed, the system-id, and of the server's answer what is no longer to be written.
Installing ==
    /\ pc = "copy" => \A j \in 1 .. k - 1 : CopyOrder[j] \in files \cup lost \cup {"config"}
    /\ Filled => /\ Program \subseteq files \cup lost
                 /\ \/ Readable /\ Doc["system-id"] = key
                    \/ pc = "write" /\ after = "add" /\ pending["command"] # << >>
    /\ Serving =>
           /\ pending["command"] \in {SecondOn, Last, << >>} => Doc["videoStreamingType"] = "set"
           /\ pending["command"] \in {Last, << >>} => Doc["autoInsertCameras"] = "set"
           /\ pending["command"] = << >> => Doc["pollInterval"] = "set"

\* What is left of the answer differs from step to step.
LEMMA Remainders ==
    /\ Received # SecondOn /\ Received # Last /\ Received # << >>
    /\ SecondOn # Last /\ SecondOn # << >> /\ Last # << >>
<1>1. Head(Received)[1] = "videoStreamingType" /\ Received # << >>
  BY Pieces DEF Received
<1>2. Head(SecondOn)[1] = "autoInsertCameras" /\ SecondOn # << >>
  BY Pieces DEF SecondOn
<1>3. Head(Last)[1] = "pollInterval" /\ Last # << >>
  BY Pieces DEF Last
<1> QED  BY <1>1, <1>2, <1>3

\* A writer's step keeps it.
LEMMA InstallingWriter ==
    ASSUME Steps, Installing, NEW w, WriterView(w)
    PROVE  Installing'
<1>1. UNCHANGED <<files, lost, pc, place, k, key, after, outcome>> /\ (Readable => Readable')
  BY DEF WriterView
<1>2. /\ Filled' <=> Filled
      /\ Serving' <=> Serving
      /\ outcome = "success" => pc = "idle"
  BY <1>1 DEF Filled, Serving, Steps, Task
<1>3. CASE Doc' = Doc /\ pending' = pending
  BY <1>1, <1>2, <1>3 DEF Installing
<1>4. CASE pending'["command"] = pending["command"] /\ \E v : Doc' = [Doc EXCEPT !["pid"] = v]
  <2>1. PICK v : Doc' = [Doc EXCEPT !["pid"] = v]
    BY <1>4
  <2>2. \A m \in FromServer \cup {"system-id"} : Doc'[m] = Doc[m]
    BY <2>1, DocChanges DEF FromServer, Names
  <2> QED  BY <1>1, <1>2, <1>4, <2>2 DEF Installing, FromServer
<1>5. CASE /\ pc = "write" /\ Readable' /\ pending["command"] \in Tasks(after, key)
           /\ Doc' = [Doc EXCEPT ![Head(pending["command"])[1]] = Head(pending["command"])[2]]
           /\ pending'["command"] = Tail(pending["command"])
  <2> DEFINE t == pending["command"]
  <2>1. PICK n, v : Head(t) = <<n, v>> /\ (after = "add" => <<n, v>> = <<"system-id", key>>)
    BY <1>5, FirstProperty
  <2>2. Doc' = [Doc EXCEPT ![n] = v]
    <3>1. Head(t)[1] = n /\ Head(t)[2] = v
      BY <2>1
    <3> QED  BY <1>5, <3>1
  <2>3. \A m \in FromServer \cup {"system-id"} : Doc'[m] = IF m = n THEN v ELSE Doc[m]
    BY <2>2, DocChanges DEF FromServer, Names
  <2>4. CASE after = "add"
    <3>1. Doc'["system-id"] = key
      BY <2>1, <2>3, <2>4
    <3>2. ~Serving
      BY <1>2, <1>5, <2>4 DEF Serving
    <3>3. Filled /\ Program \subseteq files \cup lost
      BY <1>5, <2>4 DEF Filled, Installing
    <3>4. Program \subseteq files' \cup lost' /\ Doc'["system-id"] = key'
      BY <1>1, <3>1, <3>3
    <3> QED  BY <1>1, <1>2, <1>5, <3>2, <3>4 DEF Installing
  <2>5. CASE after = "success"
    <3>1. /\ Filled /\ Serving /\ Doc["system-id"] = key
          /\ Program \subseteq files' \cup lost'
      BY <1>1, <1>5, <2>5 DEF Filled, Serving, Installing
    <3>2. CASE t = Received
      <4>1. n = "videoStreamingType" /\ v = "set" /\ pending'["command"] = SecondOn
        BY <1>5, <2>1, <2>5, <3>2, FirstProperty, Remainders
      <4>2. Doc'["videoStreamingType"] = "set" /\ Doc'["system-id"] = key
        BY <2>3, <3>1, <4>1 DEF FromServer
      <4> QED  BY <1>1, <1>2, <1>5, <3>1, <4>1, <4>2, Remainders DEF Installing
    <3>3. CASE t = SecondOn
      <4>1. n = "autoInsertCameras" /\ v = "set" /\ pending'["command"] = Last
        BY <1>5, <2>1, <2>5, <3>3, FirstProperty, Remainders
      <4>2. /\ Doc'["videoStreamingType"] = Doc["videoStreamingType"]
            /\ Doc'["autoInsertCameras"] = "set" /\ Doc'["system-id"] = key
        BY <2>3, <3>1, <4>1 DEF FromServer
      <4> QED  BY <1>1, <1>2, <1>5, <3>1, <3>3, <4>1, <4>2, Remainders DEF Installing
    <3>4. CASE t = Last
      <4>1. n = "pollInterval" /\ v = "set" /\ pending'["command"] = << >>
        BY <1>5, <2>1, <2>5, <3>4, FirstProperty, Remainders
      <4>2. /\ Doc'["videoStreamingType"] = Doc["videoStreamingType"]
            /\ Doc'["autoInsertCameras"] = Doc["autoInsertCameras"]
            /\ Doc'["pollInterval"] = "set" /\ Doc'["system-id"] = key
        BY <2>3, <3>1, <4>1 DEF FromServer
      <4>3. Doc["videoStreamingType"] = "set" /\ Doc["autoInsertCameras"] = "set"
        BY <3>1, <3>4 DEF Installing
      <4>4. Doc'["system-id"] = key' /\ pc' # "copy"
        BY <1>1, <1>5, <4>2
      <4> QED  BY <1>5, <3>1, <4>1, <4>2, <4>3, <4>4 DEF Installing
    <3> QED  BY <1>5, <2>5, <3>2, <3>3, <3>4, FirstProperty
  <2>6. CASE after = "prompt"
    <3>1. ~Filled /\ ~Serving
      BY <1>2, <1>5, <2>6 DEF Filled, Serving
    <3> QED  BY <1>1, <1>2, <1>5, <3>1 DEF Installing
  <2> QED  BY <1>5, <2>4, <2>5, <2>6, FirstProperty
<1> QED  BY <1>3, <1>4, <1>5 DEF WriterView

\* An installation copies file by file and then writes property by property.
LEMMA InstallingStep ==
    ASSUME Steps, Alone, Located, Installing, [Next]_vars, ~mixed'
    PROVE  Installing'
<1> USE DEF Goes, Ends, Writes, Untouched, ReadsOnly, machine, command, writing, process, history
<1>1. CASE \E w \in Writers : Parse(w) \/ Truncate(w) \/ Write(w)
  BY <1>1, WriterAlone, InstallingWriter
<1>2. CASE \/ Start \/ PollerForked \/ PollerRuns \/ DaemonDies \/ FirstChildDies \/ PollerDies
           \/ Reboot \/ UNCHANGED vars
  <2>1. /\ UNCHANGED <<files, lost, pc, k, key, after>> /\ (Readable' <=> Readable) /\ Doc' = Doc
        /\ pending'["command"] = pending["command"]
        /\ outcome' = outcome \/ outcome' = "none"
    BY <1>2, DaemonAlone DEF DaemonView
  <2> QED  BY <2>1 DEF Installing, Filled, Serving
<1>3. CASE DeleteSystem
  <2>1. pc' = "idle" /\ outcome' = "none"
    BY <1>3, DeleteAlone
  <2> QED  BY <2>1 DEF Installing, Filled, Serving
<1>4. CASE Copy
  <2>1. /\ pc = "copy" /\ k' = k + 1 /\ k \in 1 .. 8 /\ pc' \in {"copy", "idle"}
        /\ outcome' # "success"
    BY <1>4, CopyChanges DEF Steps, Task
  <2>2. ASSUME NEW j \in 1 .. k' - 1
        PROVE  CopyOrder[j] \in files' \cup lost' \cup {"config"}
    <3>1. j \in 1 .. k - 1 \/ j = k
      BY <2>1
    <3> QED  BY <1>4, <2>1, <3>1, CopyChanges DEF Installing
  <2> QED  BY <2>1, <2>2 DEF Installing, Filled, Serving
<1>5. CASE Copied
  <2>1. /\ pc = "copy" /\ k > 8 /\ pc' = "write" /\ after' = "add"
        /\ UNCHANGED <<files, lost, outcome>>
        /\ pending'["command"] # << >>
    BY <1>5, Orders, Pieces DEF Copied, Steps, TypeOK, Writers
  <2>2. \A j \in 1 .. 8 : CopyOrder[j] \in files \cup lost \cup {"config"}
    <3>1. k \in 1 .. 10
      BY Orders DEF Steps, TypeOK
    <3> QED  BY <2>1, <3>1 DEF Installing
  <2>3. ASSUME NEW j \in {1, 2, 4, 5, 6, 7, 8}
        PROVE  CopyOrder[j] \in files \cup lost
    <3>1. CopyOrder[j] \in files \cup lost \cup {"config"}
      BY <2>2
    <3> QED  BY <3>1, Orders
  <2>4. Program \subseteq files \cup lost
    BY <2>3, Orders, PartNames DEF Program
  <2>5. outcome = "none"
    BY <2>1 DEF Steps, Task
  <2> QED  BY <2>1, <2>4, <2>5 DEF Installing, Filled, Serving
<1>6. CASE Written
  <2>1. /\ pc = "write" /\ (Readable' <=> Readable) /\ Doc' = Doc
        /\ UNCHANGED <<files, lost, key, after>> /\ outcome = "none"
    BY <1>6, CommandAlone DEF Written, Steps, Task
  <2>2. CASE pending["command"] = << >>
    <3>1. /\ pending' = pending /\ after \in {"add", "success", "prompt"}
          /\ IF after = "success" THEN pc' = "idle" ELSE pc' = after /\ outcome' = outcome
      BY <1>6, <2>1, <2>2 DEF Written, Steps, Task
    <3>2. CASE after = "prompt"
      BY <2>1, <3>1, <3>2 DEF Installing, Filled, Serving
    <3>3. CASE after = "add"
      <4>1. Program \subseteq files \cup lost /\ Readable /\ Doc["system-id"] = key
        BY <2>1, <2>2, <3>3 DEF Installing, Filled
      <4>2. Program \subseteq files' \cup lost' /\ Readable' /\ Doc'["system-id"] = key'
        BY <2>1, <4>1
      <4>3. pc' = "add" /\ outcome' = "none"
        BY <2>1, <3>1, <3>3
      <4> QED  BY <4>2, <4>3 DEF Installing, Serving
    <3>4. CASE after = "success"
      BY <2>1, <2>2, <3>1, <3>4 DEF Installing, Filled, Serving
    <3> QED  BY <3>1, <3>2, <3>3, <3>4
  <2>3. CASE pending["command"] # << >>
    <3>1. pc' = "idle" /\ outcome' = "crashed"
      BY <1>6, <2>3 DEF Written
    <3> QED  BY <3>1 DEF Installing, Filled, Serving
  <2> QED  BY <2>2, <2>3
<1>7. CASE AddSystem
  <2>1. /\ pc = "add" /\ (Readable' <=> Readable) /\ Doc' = Doc /\ UNCHANGED <<files, lost, key>>
        /\ outcome = "none"
    BY <1>7, CommandAlone DEF AddSystem, Steps, Task
  <2>2. CASE pc' = "idle"
    BY <1>7, <2>1, <2>2 DEF AddSystem, Installing, Filled, Serving
  <2>3. CASE pc' # "idle"
    <3>1. pc' = "write" /\ after' = "success" /\ pending'["command"] = Received /\ outcome' = "none"
      BY <1>7, <2>1, <2>3 DEF AddSystem, Steps, TypeOK, Writers
    <3>2. Program \subseteq files \cup lost /\ Readable /\ Doc["system-id"] = key
      BY <2>1 DEF Installing, Filled
    <3>3. Program \subseteq files' \cup lost' /\ Readable' /\ Doc'["system-id"] = key'
      BY <2>1, <3>2
    <3> QED  BY <3>1, <3>3, Remainders DEF Installing
  <2> QED  BY <2>2, <2>3
<1>8. CASE SetProperty \/ \E v \in {"true", "false"} : SetBootup(v)
  <2>1. pc' = "write" /\ after' = "prompt" /\ outcome' = "none"
    BY <1>8 DEF SetProperty, SetBootup, Steps, Task
  <2> QED  BY <2>1 DEF Installing, Filled, Serving
<1>9. CASE Register
  <2>1. pc' \in {"idle", "copy"} /\ outcome' # "success" /\ (pc' = "copy" => k' = 1)
    BY <1>9 DEF Register, Steps, Task
  <2>2. \A j \in 1 .. 1 - 1 : FALSE
    OBVIOUS
  <2> QED  BY <2>1, <2>2 DEF Installing, Filled, Serving
<1>10. CASE Unlink
  <2>1. pc' = "unlink" /\ outcome' = "none"
    BY <1>10 DEF Unlink, Steps, Task
  <2> QED  BY <2>1 DEF Installing, Filled, Serving
<1>11. CASE \E c \in DOMAIN FirstStep, p \in Places : Give(c, p)
  <2>1. pc' \in {"stop", "sub", "reinstall", "read"} /\ outcome' = "none"
    BY <1>11 DEF Give, FirstStep
  <2> QED  BY <2>1 DEF Installing, Filled, Serving
<1>12. CASE StopRunningProcess \/ RunUninstall \/ Reinstall \/ ReadsConfig \/ Unlinks
            \/ EndConfigure
  <2>1. pc' \notin {"copy", "add", "write"} /\ outcome' # "success"
    BY <1>12 DEF StopRunningProcess, RunUninstall, Reinstall, ReadsConfig, Unlinks, EndConfigure,
                Steps, Task
  <2> QED  BY <2>1 DEF Installing, Filled, Serving
<1> QED  BY <1>1, <1>2, <1>3, <1>4, <1>5, <1>6, <1>7, <1>8, <1>9, <1>10, <1>11, <1>12 DEF Next

-----------------------------------------------------------------------------
(* The override file                                                       *)

\* What -c has to write when bootup is set.
SetTo(v) == << <<"bootup", v>> >>

\* While files are copied there is no override file; outside uninstall(), which
\* unlinks the one long before the other, it says what the configuration says of
\* bootup, or what -c is about to write there.
Overriding ==
    ~overridden =>
        /\ pc = "copy" => "override" \notin files
        /\ \A v \in {"true", "false"} :
               pending["command"] = SetTo(v) => ("override" \in files <=> v = "false")
        /\ pc # "unlink" =>
               /\ Doc["bootup"] = "true" /\ "override" \in files => pending["command"] = SetTo("false")
               /\ Doc["bootup"] = "false" /\ "override" \notin files => pending["command"] = SetTo("true")

\* Which tasks set bootup.
LEMMA BootupTasks ==
    /\ \A v : SetTo(v) # << >> /\ Head(SetTo(v)) = <<"bootup", v>>
    /\ SetTo("true") # SetTo("false")
    /\ \A v : SetTo(v) \notin {Received, SecondOn, Last, << <<"debug", "set">> >>}
    /\ \A v, s : SetTo(v) # << <<"system-id", s>> >>
<1>1. ASSUME NEW v
      PROVE  SetTo(v) # << >> /\ Head(SetTo(v)) = <<"bootup", v>>
  BY Pieces DEF SetTo
<1>2. Head(SetTo("true")) # Head(SetTo("false"))
  BY <1>1
<1>3. /\ Head(Received)[1] = "videoStreamingType" /\ Head(SecondOn)[1] = "autoInsertCameras"
      /\ Head(Last)[1] = "pollInterval" /\ Head(<< <<"debug", "set">> >>)[1] = "debug"
  BY Pieces DEF Received, SecondOn, Last
<1>4. ASSUME NEW v
      PROVE  SetTo(v) \notin {Received, SecondOn, Last, << <<"debug", "set">> >>}
  <2>1. Head(SetTo(v))[1] = "bootup"
    BY <1>1
  <2> QED  BY <2>1, <1>3
<1>5. ASSUME NEW v, NEW s
      PROVE  SetTo(v) # << <<"system-id", s>> >>
  <2>1. Head(SetTo(v))[1] = "bootup"
    BY <1>1
  <2>2. Head(<< <<"system-id", s>> >>)[1] = "system-id"
    OBVIOUS
  <2> QED  BY <2>1, <2>2
<1> QED  BY <1>1, <1>2, <1>4, <1>5

\* A step that touches neither a file nor the configuration, nor sets bootup.
LEMMA OverridingControl ==
    ASSUME Overriding, UNCHANGED <<files, overridden>>, Doc' = Doc,
           \/ pending'["command"] = pending["command"]
           \/ \A v : pending["command"] # SetTo(v) /\ pending'["command"] # SetTo(v),
           pc' # "copy" \/ pc = "copy", pc # "unlink"
    PROVE  Overriding'
BY DEF Overriding

\* A writer's step.
LEMMA OverridingWriter ==
    ASSUME Steps, Overriding, NEW w, WriterView(w)
    PROVE  Overriding'
<1>1. UNCHANGED <<files, pc, overridden>>
  BY DEF WriterView
<1>2. CASE Doc' = Doc /\ pending' = pending
  BY <1>1, <1>2 DEF Overriding
<1>3. CASE pending'["command"] = pending["command"] /\ \E v : Doc' = [Doc EXCEPT !["pid"] = v]
  <2>1. PICK v : Doc' = [Doc EXCEPT !["pid"] = v]
    BY <1>3
  <2>2. [Doc EXCEPT !["pid"] = v]["bootup"] = Doc["bootup"]
    BY DocChanges DEF Names
  <2>3. Doc'["bootup"] = Doc["bootup"]
    BY <2>1, <2>2
  <2> QED  BY <1>1, <1>3, <2>3 DEF Overriding
<1>4. CASE /\ pc = "write" /\ pending["command"] \in Tasks(after, key)
           /\ Doc' = [Doc EXCEPT ![Head(pending["command"])[1]] = Head(pending["command"])[2]]
           /\ pending'["command"] = Tail(pending["command"])
  <2> DEFINE t == pending["command"]
  <2>1. CASE \E v \in {"true", "false"} : t = SetTo(v)
    <3>1. PICK v \in {"true", "false"} : t = SetTo(v)
      BY <2>1
    <3>2. Head(t)[1] = "bootup" /\ Head(t)[2] = v
      BY <3>1, BootupTasks
    <3>3. Tail(t) = << >>
      BY <3>1, Pieces DEF SetTo
    <3>4. Doc' = [Doc EXCEPT !["bootup"] = v]
      BY <1>4, <3>2
    <3>5. Doc'["bootup"] = v
      <4>1. [Doc EXCEPT !["bootup"] = v]["bootup"] = v
        BY DocChanges DEF Names
      <4> QED  BY <3>4, <4>1
    <3>6. \A u : pending'["command"] # SetTo(u)
      BY <1>4, <3>3, BootupTasks
    <3>7. ~overridden => ("override" \in files <=> v = "false")
      BY <3>1 DEF Overriding
    <3> QED  BY <1>1, <1>4, <3>5, <3>6, <3>7 DEF Overriding
  <2>2. CASE \A v \in {"true", "false"} : t # SetTo(v)
    <3>1. PICK n, v : n \in FromServer \cup {"debug", "system-id"} /\ Head(t) = <<n, v>>
      <4>1. CASE after = "add"
        BY <1>4, <4>1, FirstProperty
      <4>2. CASE after = "success"
        BY <1>4, <4>2, FirstProperty DEF FromServer
      <4>3. CASE after = "prompt"
        <5>1. /\ t = << Head(t) >>
              /\ Head(t) \in {<<"debug", "set">>, <<"bootup", "true">>, <<"bootup", "false">>}
          BY <1>4, <4>3, FirstProperty
        <5>2. ASSUME NEW u, Head(t) = <<"bootup", u>>
              PROVE  t = SetTo(u)
          BY <5>1, <5>2 DEF SetTo
        <5>3. Head(t) = <<"debug", "set">>
          BY <2>2, <5>1, <5>2
        <5> QED  BY <5>3
      <4> QED  BY <1>4, <4>1, <4>2, <4>3, FirstProperty
    <3>2. Head(t)[1] = n /\ Head(t)[2] = v
      BY <3>1
    <3>3. Doc' = [Doc EXCEPT ![n] = v]
      BY <1>4, <3>2
    <3>4. Doc'["bootup"] = Doc["bootup"]
      <4>1. n \in Names /\ n # "bootup"
        BY <3>1 DEF Names, FromServer
      <4>2. [Doc EXCEPT ![n] = v]["bootup"] = Doc["bootup"]
        BY <4>1, DocChanges DEF Names
      <4> QED  BY <3>3, <4>2
    <3>5. \A u \in {"true", "false"} : pending'["command"] # SetTo(u)
      <4>1. pending'["command"] \in {SecondOn, Last, << >>}
        BY <1>4, FirstProperty
      <4> QED  BY <4>1, BootupTasks
    <3> QED  BY <1>1, <2>2, <3>4, <3>5 DEF Overriding
  <2> QED  BY <2>1, <2>2
<1> QED  BY <1>2, <1>3, <1>4 DEF WriterView

\* instReInstComCode copies a file, or fails to.
LEMMA OverridingCopy ==
    ASSUME Steps, Alone, Overriding, Copy, ~mixed'
    PROVE  Overriding'
<1>1. /\ pc = "copy" /\ pc' \in {"copy", "idle"} /\ UNCHANGED <<overridden, pending>>
      /\ files' \subseteq files \cup {CopyOrder[k]} /\ CopyOrder[k] # "override"
      /\ Doc' = Doc \/ Doc' = Template
  BY CopyChanges, CopyAlone, CopiedPart DEF Copy
<1>2. pending["command"] = << >>
  BY <1>1 DEF Steps, Task
<1>3. CASE ~overridden
  <2>1. "override" \notin files'
    BY <1>1, <1>3 DEF Overriding
  <2>2. Doc["bootup"] # "false"
    BY <1>1, <1>2, <1>3, BootupTasks DEF Overriding
  <2>3. Doc'["bootup"] # "false"
    BY <1>1, <2>2, TemplateValues
  <2> QED  BY <1>1, <1>2, <2>1, <2>3, BootupTasks DEF Overriding
<1>4. CASE overridden
  BY <1>1, <1>4 DEF Overriding
<1> QED  BY <1>3, <1>4

\* -c sets bootup: the file first, then the configuration.
LEMMA OverridingSet ==
    ASSUME Steps, Alone, Overriding, NEW v \in {"true", "false"}, SetBootup(v)
    PROVE  Overriding'
<1>1. /\ pc = "prompt" /\ pc' = "write" /\ files' = BootupFiles(v) /\ overridden' = overridden
      /\ pending'["command"] = SetTo(v) /\ Doc' = Doc
  BY CommandAlone DEF SetBootup, Writes, Goes, SetTo, Steps, TypeOK, Writers
<1>2. pending["command"] = << >>
  BY <1>1 DEF Steps, Task
<1>3. "override" \in files' <=> v = "false"
  BY <1>1 DEF BootupFiles
<1>4. \A u : pending'["command"] = SetTo(u) => u = v
  <2>1. \A u : Head(SetTo(u)) = <<"bootup", u>>
    BY BootupTasks
  <2>2. Head(SetTo(v)) = <<"bootup", v>>
    BY <2>1
  <2>3. ASSUME NEW u, SetTo(v) = SetTo(u)
        PROVE  u = v
    BY <2>1, <2>2, <2>3
  <2> QED  BY <1>1, <2>3
<1> QED  BY <1>1, <1>2, <1>3, <1>4 DEF Overriding

\* The override file and bootup are changed together, by -c.
LEMMA OverridingStep ==
    ASSUME Steps, Alone, Gone, Located, Overriding, [Next]_vars, ~mixed'
    PROVE  Overriding'
<1> USE DEF Goes, Ends, Writes, Untouched, ReadsOnly, machine, command, writing, process, history
<1>1. CASE \E w \in Writers : Parse(w) \/ Truncate(w) \/ Write(w)
  BY <1>1, WriterAlone, OverridingWriter
<1>2. CASE \/ Start \/ PollerForked \/ PollerRuns \/ DaemonDies \/ FirstChildDies \/ PollerDies
           \/ Reboot \/ UNCHANGED vars
  <2>1. DaemonView
    BY <1>2, DaemonAlone
  <2> QED  BY <2>1 DEF DaemonView, Overriding
<1>3. CASE DeleteSystem
  <2>1. files' = {} /\ pending'["command"] = << >> /\ pc' = "idle" /\ Doc' = Template
    BY <1>3, DeleteAlone DEF Steps, Task
  <2> QED  BY <2>1, BootupTasks, TemplateValues DEF Overriding
<1>4. CASE Unlink
  <2>1. pc' = "unlink" /\ pending'["command"] = << >>
    BY <1>4 DEF Unlink, Steps, Task
  <2> QED  BY <2>1, BootupTasks DEF Overriding
<1>5. CASE Copy
  BY <1>5, OverridingCopy
<1>6. CASE \E v \in {"true", "false"} : SetBootup(v)
  BY <1>6, OverridingSet
<1>7. CASE \/ \E c \in DOMAIN FirstStep, p \in Places : Give(c, p)
           \/ StopRunningProcess \/ Reinstall \/ EndConfigure \/ RunUninstall \/ ReadsConfig
  <2>1. /\ pc \in {"idle", "stop", "uninstall", "reinstall", "prompt", "sub", "read"} /\ pc' # "copy"
        /\ UNCHANGED <<files, overridden, pending>>
    <3>1. CASE \E c \in DOMAIN FirstStep, p \in Places : Give(c, p)
      BY <3>1 DEF Give, FirstStep
    <3>2. CASE StopRunningProcess \/ Reinstall \/ EndConfigure
      BY <3>2 DEF StopRunningProcess, Reinstall, EndConfigure
    <3>3. CASE RunUninstall
      BY <3>3 DEF RunUninstall
    <3>4. CASE ReadsConfig
      <4>1. pc = "read" /\ pc' \in {"idle", "prompt", "register", "sub"} /\ UNCHANGED files
        BY <3>4 DEF ReadsConfig
      <4>2. UNCHANGED <<overridden, pending>>
        BY <3>4 DEF ReadsConfig
      <4> QED  BY <4>1, <4>2
    <3> QED  BY <1>7, <3>1, <3>2, <3>3, <3>4
  <2>2. Doc' = Doc
    BY <1>7, CommandAlone
  <2> QED  BY <2>1, <2>2, OverridingControl
<1>8. CASE Unlinks
  <2>1. /\ pc = "unlink" /\ k > 5 /\ k = 10 /\ UNCHANGED <<files, pending, overridden, phase, conf>>
        /\ Doc' = Doc /\ pc' # "copy"
    BY <1>8, Orders, CommandAlone DEF Unlinks, LastUnlinked, Steps, TypeOK
  <2>2. "override" \notin files
    <3>1. 2 \in 1 .. k - 1
      BY <2>1
    <3> QED  BY <2>1, <3>1, Orders DEF Gone
  <2>3. Doc = Template
    <3>1. conf.state = "none"
      BY <2>1 DEF Gone, Present
    <3> QED  BY <3>1, TwoWriters DEF Alone, Doc
  <2>4. pending["command"] = << >>
    BY <2>1 DEF Steps, Task
  <2> QED  BY <2>1, <2>2, <2>3, <2>4, TemplateValues, BootupTasks DEF Overriding
<1>9. CASE Register
  <2>1. /\ pc = "register" /\ UNCHANGED <<files, pending>> /\ Doc' = Doc
        /\ \/ pc' = "idle" /\ overridden' = overridden
           \/ pc' = "copy" /\ overridden' = (overridden \/ "override" \in files)
    BY <1>9, CommandAlone DEF Register
  <2> QED  BY <2>1 DEF Overriding
<1>10. CASE Copied
  <2>1. /\ pc = "copy" /\ pc' = "write" /\ UNCHANGED <<files, overridden>> /\ Doc' = Doc
        /\ pending'["command"] = << <<"system-id", key>> >>
    BY <1>10, CommandAlone DEF Copied, Steps, TypeOK, Writers
  <2>2. pending["command"] = << >>
    BY <2>1 DEF Steps, Task
  <2> QED  BY <2>1, <2>2, OverridingControl, BootupTasks
<1>11. CASE AddSystem
  <2>1. /\ pc = "add" /\ pc' # "copy" /\ UNCHANGED <<files, overridden>> /\ Doc' = Doc
        /\ pending'["command"] \in {pending["command"], Received}
    BY <1>11, CommandAlone DEF AddSystem, Steps, TypeOK, Writers
  <2>2. pending["command"] = << >>
    BY <2>1 DEF Steps, Task
  <2> QED  BY <2>1, <2>2, OverridingControl, BootupTasks
<1>12. CASE SetProperty
  <2>1. /\ pc = "prompt" /\ pc' = "write" /\ UNCHANGED <<files, overridden>> /\ Doc' = Doc
        /\ pending'["command"] = << <<"debug", "set">> >>
    BY <1>12, CommandAlone DEF SetProperty, Steps, TypeOK, Writers
  <2>2. pending["command"] = << >>
    BY <2>1 DEF Steps, Task
  <2> QED  BY <2>1, <2>2, OverridingControl, BootupTasks
<1>13. CASE Written
  <2>1. /\ pc = "write" /\ UNCHANGED <<files, overridden>> /\ Doc' = Doc
        /\ pc' \in {"idle", "add", "prompt"}
    BY <1>13, CommandAlone DEF Written, Steps, Task
  <2>2. CASE pending["command"] = << >>
    <3>1. pending' = pending
      BY <1>13, <2>2 DEF Written
    <3> QED  BY <2>1, <3>1, OverridingControl
  <2>3. CASE pending["command"] # << >>
    <3>1. /\ phase["command"] = "idle" /\ Parsed(place) = {} /\ pending'["command"] = << >>
          /\ phase["poller"] # "open"
      BY <1>13, <2>3 DEF Written, ReadsFile, Steps, TypeOK, Writers
    <3>2. after # "prompt"
      <4>1. ~Readable /\ ~(place = Source /\ ~Present)
        BY <3>1, TwoWriters DEF Parsed, Present, Readable
      <4> QED  BY <2>1, <4>1 DEF Located
    <3>3. \A v : pending["command"] # SetTo(v)
      <4>1. pending["command"] \in Tasks(after, key) /\ after \in {"idle", "add", "success"}
        BY <2>3, <3>2 DEF Steps, Task
      <4> QED  BY <4>1, BootupTasks DEF Tasks
    <3> QED  BY <2>1, <3>1, <3>3, OverridingControl, BootupTasks
  <2> QED  BY <2>2, <2>3
<1> QED  BY <1>1, <1>2, <1>3, <1>4, <1>5, <1>6, <1>7, <1>8, <1>9, <1>10, <1>11, <1>12, <1>13 DEF Next

-----------------------------------------------------------------------------
(* What -c sets                                                            *)

\* A -c is at its prompt or writes, or it has just ended.
Configuring == (cmd = "c" /\ pc \in {"prompt", "write"}) \/ outcome = "configured"

\* What the present -c has set is in the configuration, or is just being written.
Kept ==
    /\ DOMAIN wanted \subseteq {"debug", "bootup"}
    /\ pc = "read" /\ cmd = "c" => DOMAIN wanted = {}
    /\ Configuring =>
           /\ \A n \in DOMAIN wanted :
                  Doc[n] = wanted[n] \/ pending["command"] = << <<n, wanted[n]>> >>
           /\ pending["command"] # << >> =>
                  \E n \in DOMAIN wanted : pending["command"] = << <<n, wanted[n]>> >>

\* A writer's step.
LEMMA KeptWriter ==
    ASSUME Steps, Kept, NEW w, WriterView(w)
    PROVE  Kept'
<1>1. /\ UNCHANGED <<pc, cmd, after, outcome, wanted>>
      /\ Configuring' <=> Configuring
  BY DEF WriterView, Configuring
<1>2. CASE Doc' = Doc /\ pending' = pending
  BY <1>1, <1>2 DEF Kept
<1>3. CASE pending'["command"] = pending["command"] /\ \E v : Doc' = [Doc EXCEPT !["pid"] = v]
  <2>1. Doc'["bootup"] = Doc["bootup"] /\ Doc'["debug"] = Doc["debug"]
    BY <1>3, DocChanges DEF Names
  <2>2. \A n \in DOMAIN wanted : Doc'[n] = Doc[n]
    BY <2>1 DEF Kept
  <2> QED  BY <1>1, <1>3, <2>2 DEF Kept
<1>4. CASE /\ pc = "write" /\ pending["command"] \in Tasks(after, key)
           /\ Doc' = [Doc EXCEPT ![Head(pending["command"])[1]] = Head(pending["command"])[2]]
           /\ pending'["command"] = Tail(pending["command"])
  <2>1. CASE ~Configuring
    BY <1>1, <1>4, <2>1 DEF Kept
  <2>2. CASE Configuring
    <3>1. pending["command"] # << >>
      BY <1>4, CommandTask DEF Steps, TypeOK
    <3>2. PICK n \in DOMAIN wanted : pending["command"] = << <<n, wanted[n]>> >>
      BY <2>2, <3>1 DEF Kept
    <3>3. Head(pending["command"]) = <<n, wanted[n]>> /\ Tail(pending["command"]) = << >>
      BY <3>2, Pieces
    <3>4. Head(pending["command"])[1] = n /\ Head(pending["command"])[2] = wanted[n]
      BY <3>3
    <3>5. Doc' = [Doc EXCEPT ![n] = wanted[n]]
      BY <1>4, <3>4
    <3>6. ASSUME NEW m \in DOMAIN wanted
          PROVE  Doc'[m] = wanted[m]
      <4>1. m \in Names
        BY DEF Kept, Names
      <4>2. Doc'[m] = IF m = n THEN wanted[n] ELSE Doc[m]
        <5>1. [Doc EXCEPT ![n] = wanted[n]][m] = IF m = n THEN wanted[n] ELSE Doc[m]
          BY <4>1, DocChanges
        <5> QED  BY <3>5, <5>1
      <4>3. m # n => Doc[m] = wanted[m]
        <5>1. Head(<< <<m, wanted[m]>> >>)[1] = m
          OBVIOUS
        <5> QED  BY <2>2, <3>2, <3>4, <5>1 DEF Kept
      <4> QED  BY <4>2, <4>3
    <3> QED  BY <1>1, <1>4, <3>3, <3>6 DEF Kept
  <2> QED  BY <2>1, <2>2
<1> QED  BY <1>2, <1>3, <1>4 DEF WriterView

\* A property is set at the prompt.
LEMMA KeptSet ==
    ASSUME Steps, Kept, NEW n \in {"debug", "bootup"}, NEW v,
           pc = "prompt", pc' = "write", outcome' = outcome, Doc' = Doc,
           wanted' = Wanting(n, v), pending'["command"] = << <<n, v>> >>
    PROVE  Kept'
<1>1. pending["command"] = << >> /\ Configuring
  BY DEF Steps, Task, Roles, Configuring
<1>2. DOMAIN wanted' = DOMAIN wanted \cup {n} /\ wanted'[n] = v
  BY DEF Wanting
<1>3. \A m \in DOMAIN wanted : m # n => wanted'[m] = wanted[m]
  BY DEF Wanting
<1>4. \A m \in DOMAIN wanted : Doc[m] = wanted[m]
  <2>1. ASSUME NEW m \in DOMAIN wanted
        PROVE  << <<m, wanted[m]>> >> # << >>
    BY Pieces
  <2> QED  BY <1>1, <2>1 DEF Kept
<1>5. \A m \in DOMAIN wanted' : Doc'[m] = wanted'[m] \/ pending'["command"] = << <<m, wanted'[m]>> >>
  BY <1>2, <1>3, <1>4
<1>6. \E m \in DOMAIN wanted' : pending'["command"] = << <<m, wanted'[m]>> >>
  BY <1>2
<1>7. DOMAIN wanted' \subseteq {"debug", "bootup"}
  BY <1>2 DEF Kept
<1> QED  BY <1>5, <1>6, <1>7 DEF Kept

\* Nobody changes what the present -c has set.
LEMMA KeptStep ==
    ASSUME Steps, Alone, Kept, [Next]_vars, ~mixed'
    PROVE  Kept'
<1> USE DEF Goes, Ends, Writes, Untouched, ReadsOnly, machine, command, writing, process, history
<1>1. CASE \E w \in Writers : Parse(w) \/ Truncate(w) \/ Write(w)
  BY <1>1, WriterAlone, KeptWriter
<1>2. CASE \/ Start \/ PollerForked \/ PollerRuns \/ DaemonDies \/ FirstChildDies \/ PollerDies
           \/ Reboot \/ UNCHANGED vars
  <2>1. DaemonView
    BY <1>2, DaemonAlone
  <2> QED  BY <2>1 DEF DaemonView, Kept, Configuring
<1>3. CASE DeleteSystem
  <2>1. pc' = "idle" /\ outcome' = "none" /\ wanted' = wanted
    BY <1>3, DeleteAlone
  <2> QED  BY <2>1 DEF Kept, Configuring
<1>4. CASE \E c \in DOMAIN FirstStep, p \in Places : Give(c, p)
  <2>1. wanted' = << >> /\ outcome' = "none" /\ pc' \in {"stop", "sub", "reinstall", "read"}
    BY <1>4 DEF Give, FirstStep
  <2>2. DOMAIN wanted' = {}
    BY <2>1
  <2> QED  BY <2>1, <2>2 DEF Kept, Configuring
<1>5. CASE SetProperty
  <2>1. /\ pc = "prompt" /\ pc' = "write" /\ outcome' = outcome /\ Doc' = Doc
        /\ wanted' = Wanting("debug", "set") /\ pending'["command"] = << <<"debug", "set">> >>
    BY <1>5, CommandAlone DEF SetProperty, Steps, TypeOK, Writers
  <2> QED  BY <2>1, KeptSet
<1>6. CASE \E v \in {"true", "false"} : SetBootup(v)
  <2>1. PICK v \in {"true", "false"} : SetBootup(v)
    BY <1>6
  <2>2. /\ pc = "prompt" /\ pc' = "write" /\ outcome' = outcome /\ Doc' = Doc
        /\ wanted' = Wanting("bootup", v) /\ pending'["command"] = << <<"bootup", v>> >>
    BY <1>6, <2>1, CommandAlone DEF SetBootup, Steps, TypeOK, Writers
  <2> QED  BY <2>2, KeptSet
<1>7. CASE Written
  <2>1. /\ pc = "write" /\ wanted' = wanted /\ cmd' = cmd /\ Doc' = Doc /\ outcome = "none"
    BY <1>7, CommandAlone DEF Written, Steps, Task
  <2>2. CASE pending["command"] = << >>
    <3>1. /\ pending' = pending /\ outcome' # "configured"
          /\ pc' \in {"idle", "add", "prompt"}
      BY <1>7, <2>1, <2>2 DEF Written, Steps, Task
    <3> QED  BY <2>1, <3>1 DEF Kept, Configuring
  <2>3. CASE pending["command"] # << >>
    <3>1. pc' = "idle" /\ outcome' = "crashed"
      BY <1>7, <2>3 DEF Written
    <3> QED  BY <2>1, <3>1 DEF Kept, Configuring
  <2> QED  BY <2>2, <2>3
<1>8. CASE EndConfigure
  <2>1. pc = "prompt" /\ pc' = "idle" /\ UNCHANGED <<wanted, pending>> /\ Doc' = Doc
    BY <1>8, CommandAlone DEF EndConfigure
  <2>2. Configuring
    BY <2>1 DEF Configuring, Steps, Roles
  <2> QED  BY <2>1, <2>2 DEF Kept
<1>9. CASE ReadsConfig
  <2>1. /\ pc = "read" /\ UNCHANGED <<wanted, pending>> /\ outcome' # "configured" /\ pc' # "read"
        /\ pc' \in {"prompt", "write"} => cmd = "c"
    BY <1>9 DEF ReadsConfig, Steps, Task
  <2>2. pending["command"] = << >>
    BY <2>1 DEF Steps, Task
  <2> QED  BY <2>1, <2>2 DEF Kept, Configuring
<1>10. CASE StopRunningProcess \/ RunUninstall \/ Reinstall \/ Register \/ Unlinks \/ Unlink \/ Copy
            \/ Copied \/ AddSystem
  <2>1. wanted' = wanted /\ outcome' # "configured" /\ cmd' = cmd /\ cmd # "c"
    BY <1>10, CopyChanges DEF StopRunningProcess, RunUninstall, Reinstall, Register, Unlinks, Unlink,
                 Copied, AddSystem, Steps, Task, Roles
  <2> QED  BY <2>1 DEF Kept, Configuring
<1> QED  BY <1>1, <1>2, <1>3, <1>4, <1>5, <1>6, <1>7, <1>8, <1>9, <1>10 DEF Next

-----------------------------------------------------------------------------
(* The theorems                                                            *)

\* All that is known of the disk as long as the file was used by one process at
\* a time.
Clean == Alone /\ Silent /\ Gone /\ Located /\ Installing /\ Overriding /\ Kept

\* The inductive invariant.
IInv == Steps /\ (~mixed => Clean)

\* At first there is nothing on the disk.
LEMMA InitClean == Init => Clean
<1> SUFFICES ASSUME Init PROVE Clean
  OBVIOUS
<1> USE DEF Init
<1>1. Alone
  BY DEF Alone, Writers
<1>2. Silent
  BY DEF Silent
<1>3. Gone
  BY DEF Gone
<1>4. Located
  BY DEF Located
<1>5. Installing
  BY DEF Installing, Filled, Serving
<1>6. Overriding
  BY BootupTasks, TwoWriters, TemplateValues DEF Overriding, Doc
<1>7. DOMAIN << >> = {}
  OBVIOUS
<1>8. Kept
  BY <1>7 DEF Kept, Configuring
<1> QED  BY <1>1, <1>2, <1>3, <1>4, <1>5, <1>6, <1>8 DEF Clean

\* The inductive invariant holds of every history.
LEMMA Inductive == Spec => []IInv
<1>1. Init => IInv
  BY InitSteps, InitClean DEF IInv
<1>2. IInv /\ [Next]_vars => IInv'
  <2> SUFFICES ASSUME IInv, [Next]_vars PROVE IInv'
    OBVIOUS
  <2>1. Steps /\ Steps'
    BY StepsStep DEF IInv
  <2>2. ASSUME ~mixed'
        PROVE  Clean'
    <3>1. Clean
      BY <2>1, <2>2, MixedStays DEF IInv
    <3> QED  BY <2>1, <2>2, <3>1, AloneStep, SilentStep, GoneStep, LocatedStep, InstallingStep,
                OverridingStep, KeptStep DEF Clean
  <2> QED  BY <2>1, <2>2 DEF IInv
<1> QED  BY <1>1, <1>2, PTL DEF Spec

\* When the command is idle and nobody writes, nothing is left to be written and
\* the document is the file's.
LEMMA AtRest ==
    ASSUME Steps, Quiet
    PROVE  pending["command"] = << >> /\ Doc = conf.doc
BY DocAtRest, TwoWriters DEF Quiet, Steps, Task

\* Every variable keeps its type.
THEOREM TypeCorrect == Spec => []TypeOK
<1>1. IInv => TypeOK
  BY DEF IInv, Steps
<1> QED  BY <1>1, Inductive, PTL

\* An installation that is reported as successful has left every file but those
\* whose copy failed, a configuration that readConfig can read even if it was the
\* one whose copy failed, and the system that was asked for.
THEOREM InstallationsRun == Spec => []SuccessRuns
<1>1. IInv => SuccessRuns
  <2> SUFFICES ASSUME IInv, Quiet, outcome = "success"
               PROVE  /\ Parts \ {"override"} \subseteq files \cup lost
                      /\ conf.state = "whole" /\ Complete(conf.doc)
                      /\ conf.doc["system-id"] = key
    BY DEF SuccessRuns
  <2>1. Steps /\ Alone /\ Installing
    BY DEF IInv, Clean, Quiet
  <2>2. pending["command"] = << >> /\ Doc = conf.doc
    BY <2>1, AtRest DEF Quiet
  <2>3. Filled /\ Serving
    BY DEF Filled, Serving
  <2>4. Program \subseteq files \cup lost /\ Readable /\ conf.doc["system-id"] = key
    BY <2>1, <2>2, <2>3 DEF Installing
  <2>5. \A n \in FromServer : conf.doc[n] = "set"
    BY <2>1, <2>2, <2>3 DEF Installing, FromServer
  <2>6. conf.state = "whole"
    BY <2>4, TwoWriters DEF Readable, Quiet
  <2> QED  BY <2>4, <2>5, <2>6 DEF Program, Complete
<1> QED  BY <1>1, Inductive, PTL

\* -u leaves nothing behind, whatever the daemon did meanwhile.
THEOREM NothingIsLeft == Spec => []UninstallLeavesNothing
<1>1. IInv => UninstallLeavesNothing
  BY DEF IInv, Clean, Gone, Quiet, UninstallLeavesNothing, Present
<1> QED  BY <1>1, Inductive, PTL

\* Upstart does what the configuration says of bootup, unless the installation was
\* made over an override file.
THEOREM BootsAsSaid == Spec => []BootupAgrees
<1>1. IInv => BootupAgrees
  <2> SUFFICES ASSUME IInv, Quiet, ~overridden
               PROVE  "override" \in files <=> conf.doc["bootup"] = "false"
    BY DEF BootupAgrees, BootsAsConfigured
  <2>1. Steps /\ Overriding
    BY DEF IInv, Clean, Quiet
  <2>2. pending["command"] = << >> /\ Doc = conf.doc /\ pc # "unlink"
    BY <2>1, AtRest DEF Quiet
  <2>3. conf.doc["bootup"] \in {"true", "false"}
    BY <2>1 DEF Steps, TypeOK, IsDoc
  <2> QED  BY <2>1, <2>2, <2>3, BootupTasks DEF Overriding
<1> QED  BY <1>1, Inductive, PTL

\* What a -c has set is in the configuration and stays there.
THEOREM ConfigurationStays == Spec => []SetStays
<1>1. IInv => SetStays
  <2> SUFFICES ASSUME IInv, Quiet, outcome = "configured", NEW n \in DOMAIN wanted
               PROVE  conf.doc[n] = wanted[n]
    BY DEF SetStays
  <2>1. Steps /\ Kept /\ Configuring
    BY DEF IInv, Clean, Quiet, Configuring
  <2>2. pending["command"] = << >> /\ Doc = conf.doc
    BY <2>1, AtRest
  <2>3. << <<n, wanted[n]>> >> # << >>
    BY Pieces
  <2> QED  BY <2>1, <2>2, <2>3 DEF Kept
<1> QED  BY <1>1, Inductive, PTL

\* After DeleteSystem no poller gets as far as the server until the system is
\* installed again, or its configuration is made again under the first child that
\* remembers it.
THEOREM DeletedStaysSilent == Spec => []DeletedIsSilent
<1>1. IInv => DeletedIsSilent
  BY DEF IInv, Clean, Silent, DeletedIsSilent
<1> QED  BY <1>1, Inductive, PTL
=============================================================================
