------------------------------ MODULE Install -------------------------------
(***************************************************************************)
(* The commands that change the installation and the configuration file:   *)
(* -i, -k, -r, -u, -c, -d of src/main.cpp, readConfig, writeConfigValue    *)
(* and readConfigValue, copyfile (src/mystdlib.cpp), and the daemon that   *)
(* uses the same file: its poller writes the pid of the root process there *)
(* each time it is forked, and uninstalls everything when the server sends *)
(* DeleteSystem.  Supervisor.tla has the processes of the daemon.          *)
(*                                                                         *)
(* writeConfigValue is three steps: the document is parsed, fopen("w")     *)
(* truncates the file, fwrite fills it; a crash or another process may     *)
(* come between.  The file is the document it holds, or Damaged.  copyfile *)
(* may fail, and its callers do not look at what it returns.               *)
(*                                                                         *)
(* Left out: the folder of the records, the log in of a vendor (it yields  *)
(* a key or ends the command), what is printed, -c by a user who is not    *)
(* root, a second command beside the first one, -s given by hand, a disk   *)
(* that is full when a property is written.  DeleteSystem removes the      *)
(* files in one step.                                                      *)
(*                                                                         *)
(* Bounds: MaxCommands commands, MaxSets properties set by them, MaxPid    *)
(* starts of the daemon, MaxFaults crashes and failing copies.             *)
(***************************************************************************)
EXTENDS Naturals, Sequences

CONSTANTS
    Keys,            \* the systems registered at the server
    Places,          \* where a command may be given
    MaxCommands, MaxSets, MaxPid, MaxFaults

NoKey == "no key"
Source == "source"                    \* the folder with the sources and config.xml
Elsewhere == "elsewhere"

ASSUME KeyAssumption == NoKey \notin Keys
ASSUME PlaceAssumption == Places \subseteq {Source, Elsewhere}
ASSUME BoundAssumption ==
    MaxCommands \in Nat /\ MaxSets \in Nat /\ MaxPid \in Nat /\ MaxFaults \in Nat

\* What uninstall() unlinks and instReInstComCode creates, each in its order.
UnlinkOrder == <<"init", "override", "initd", "rules", "config", "bin", "log", "certs", "link">>
CopyOrder   == <<"init", "initd", "config", "rules", "bin", "certs", "link", "log">>
Parts == {UnlinkOrder[n] : n \in DOMAIN UnlinkOrder} \ {"config"}

\* The properties of the configuration; `debug` stands for all that only a
\* user sets.
FromServer == {"videoStreamingType", "autoInsertCameras", "pollInterval"}
Names == {"pid", "system-id", "bootup", "debug"} \cup FromServer
NoPid == 0
Template == [n \in Names |-> CASE n = "pid" -> NoPid
                               [] n = "system-id" -> NoKey
                               [] n = "bootup" -> "true"
                               [] OTHER -> "template"]

Writers == {"command", "poller"}

VARIABLES
    files,           \* the installed parts, besides the configuration
    lost,            \* those whose last copy failed: missing, or cut short
    conf,            \* conf.state: "none", "damaged" or "whole"; conf.doc
    pc, cmd, place,  \* the command being carried out, and where it was given
    k,               \* position in UnlinkOrder or CopyOrder
    key,             \* sk: the system that is being installed
    runningProcess,  \* the pid the present program has read
    after,           \* where the command goes on when its properties are written
    phase, doc,      \* writeConfigValue of each writer: its phase, what it has parsed
    pending,         \* what each writer has still to write
    daemon, doomed,  \* the root process; it was sent SIGTERM
    poller,          \* "none", "write", "run", or "deleting" for ever
    systemId,        \* the system-id that the first child remembers
    outcome,         \* how the last command ended
    wanted,          \* history: the properties set by the present -c
    mixed,           \* history: the file was used by two processes at a time, or
                     \* a process has died while it wrote
    overridden,      \* history: an installation was made over an override file
    deleted,         \* history: DeleteSystem has come, no installation since
    remade,          \* history: a command has made the configuration again since
                     \* then, while the first child remembered the system
    commands, sets, lastPid, faults

machine == <<files, lost, conf>>
command == <<pc, cmd, place, k, key, runningProcess, after, outcome>>
writing == <<phase, doc, pending>>
process == <<daemon, doomed, poller, systemId>>
history == <<wanted, mixed, overridden, deleted, remade>>
counters == <<commands, sets, lastPid, faults>>
vars == <<machine, command, writing, process, history, counters>>

IsDoc(d) ==
    /\ d = [n \in Names |-> d[n]]
    /\ d["pid"] \in 0 .. MaxPid
    /\ d["system-id"] \in Keys \cup {NoKey}
    /\ d["bootup"] \in {"true", "false"}
    /\ \A n \in FromServer \cup {"debug"} : d[n] \in {"template", "set"}

TypeOK ==
    /\ files \subseteq Parts /\ lost \subseteq Parts
    /\ conf.state \in {"none", "damaged", "whole"} /\ IsDoc(conf.doc)
    /\ pc \in {"idle", "stop", "sub", "uninstall", "unlink", "reinstall", "read", "register",
               "copy", "write", "add", "prompt"}
    /\ cmd \in {"none", "i", "k", "r", "d", "u", "c"} /\ place \in {Source, Elsewhere}
    /\ k \in 1 .. Len(UnlinkOrder) + 1 /\ key \in Keys \cup {NoKey}
    /\ runningProcess \in 0 .. MaxPid
    /\ phase \in [Writers -> {"idle", "parsed", "open", "orphan"}]
    /\ doc = [w \in Writers |-> doc[w]] /\ pending = [w \in Writers |-> pending[w]]
    /\ \A w \in Writers : IsDoc(doc[w]) /\ Len(pending[w]) <= 3
    /\ lastPid \in 0 .. MaxPid /\ daemon \in 0 .. lastPid /\ doomed \in BOOLEAN
    /\ poller \in {"none", "write", "run", "deleting"} /\ systemId \in Keys \cup {NoKey}
    /\ mixed \in BOOLEAN /\ overridden \in BOOLEAN /\ deleted \in BOOLEAN /\ remade \in BOOLEAN

Init ==
    /\ files = {} /\ lost = {}
    /\ conf = [state |-> "none", doc |-> Template]
    /\ pc = "idle" /\ cmd = "none" /\ place = Source /\ after = "idle"
    /\ k = 1 /\ key = NoKey /\ runningProcess = NoPid
    /\ phase = [w \in Writers |-> "idle"]
    /\ doc = [w \in Writers |-> Template]
    /\ pending = [w \in Writers |-> << >>]
    /\ daemon = NoPid /\ doomed = FALSE /\ poller = "none" /\ systemId = NoKey
    /\ outcome = "none"
    /\ wanted = << >>
    /\ mixed = FALSE /\ overridden = FALSE /\ deleted = FALSE /\ remade = FALSE
    /\ commands = 0 /\ sets = 0 /\ lastPid = 0 /\ faults = 0

-----------------------------------------------------------------------------
(* The configuration file                                                  *)

NoFile   == [state |-> "none", doc |-> Template]
Damaged  == [state |-> "damaged", doc |-> Template]
Whole(d) == [state |-> "whole", doc |-> d]

\* Mutant of Parsed: the test for the file is inverted.
ParsedSource(p) ==
    CASE p = Source -> {Template}
      [] conf.state = "whole" -> {conf.doc}
      [] OTHER -> {}

\* The document that xmlParseFile returns to a program that runs at p, if any:
\* where the file is missing, config.xml of the working directory is taken.
Parsed(p) ==
    CASE conf.state = "whole" -> {conf.doc}
      [] conf.state = "none" /\ p = Source -> {Template}
      [] OTHER -> {}

\* readConfig dereferences each property it looks for; those of the server only
\* where there is a system-id.
Complete(d) == d["system-id"] # NoKey => \A n \in FromServer : d[n] # "template"
ReadConfig(p) == \E d \in Parsed(p) : Complete(d)

\* readConfigValue(n), which takes a missing document for a missing value
ConfigValue(n, p) == IF Parsed(p) = {} THEN Template[n] ELSE (CHOOSE d \in Parsed(p) : TRUE)[n]

\* A command makes or rewrites the configuration.
Remakes == remade' = (remade \/ (deleted /\ systemId # NoKey))

Other(w) == IF w = "command" THEN "poller" ELSE "command"
WorkingDir(w) == IF w = "command" THEN place ELSE Elsewhere

\* writeConfigValue: the document is parsed and changed.
Parse(w) ==
    /\ phase[w] = "idle" /\ pending[w] # << >>
    /\ \E d \in Parsed(WorkingDir(w)) : doc' = [doc EXCEPT ![w] = d]
    /\ phase' = [phase EXCEPT ![w] = "parsed"]
    /\ mixed' = (mixed \/ phase[Other(w)] # "idle")
    /\ UNCHANGED <<machine, command, pending, process, wanted, overridden, deleted, remade,
                   counters>>

\* fopen(.., "w")
Truncate(w) ==
    /\ phase[w] = "parsed"
    /\ conf' = Damaged
    /\ phase' = [phase EXCEPT ![w] = "open"]
    /\ UNCHANGED <<files, lost, command, doc, pending, process, history, counters>>

\* fwrite, fclose: into the void if the file was unlinked; over the text of the
\* other writer if that has come first.
Write(w) ==
    /\ phase[w] \in {"open", "orphan"}
    /\ LET d == [doc[w] EXCEPT ![Head(pending[w])[1]] = Head(pending[w])[2]] IN
       CASE phase[w] = "orphan" -> conf' = conf
         [] conf.state = "whole" -> conf' \in {Whole(d), Damaged}
         [] OTHER -> conf' = Whole(d)
    /\ phase' = [phase EXCEPT ![w] = "idle"]
    /\ doc' = [doc EXCEPT ![w] = Template]
    /\ pending' = [pending EXCEPT ![w] = Tail(@)]
    /\ IF w = "command" THEN Remakes ELSE UNCHANGED remade
    /\ UNCHANGED <<files, lost, command, process, wanted, mixed, overridden, deleted, counters>>

-----------------------------------------------------------------------------
(* Commands: what they have in common                                      *)

\* Mutant of ConfLeft: the daemon, which has read the configuration, keeps it.
ConfLeftKept == conf

\* The configuration when uninstall() has unlinked it
ConfLeft == NoFile

\* What uninstall() leaves when part n has been unlinked.
Unlinked(n) ==
    /\ files' = files \ {n} /\ lost' = lost \ {n}
    /\ overridden' = (overridden /\ n # "override")
    /\ conf' = IF n = "config" THEN ConfLeft ELSE conf
    /\ phase' = [w \in Writers |-> IF n = "config" /\ phase[w] = "open" THEN "orphan" ELSE phase[w]]
    /\ mixed' = (mixed \/ (n = "config" /\ \E w \in Writers : phase[w] # "idle"))

Goes(to) == pc' = to /\ UNCHANGED <<cmd, place, outcome>>
Ends(how) == pc' = "idle" /\ outcome' = how /\ UNCHANGED <<cmd, place>>
Untouched == UNCHANGED <<writing, process, history, counters>>

\* The command reads the configuration: not between the two steps of a write,
\* or what it reads is damaged.
ReadsFile == mixed' = (mixed \/ phase["poller"] = "open")
ReadsOnly ==
    ReadsFile /\ UNCHANGED <<writing, process, wanted, overridden, deleted, remade, counters>>

\* The parts that are there and whole
Usable == files \ lost

FirstStep == [i |-> "stop", k |-> "sub", r |-> "reinstall", d |-> "reinstall", u |-> "stop",
              c |-> "read"]

\* A command is given; main() reads the pid of the running process.  -d makes
\* the program again and runs its -r, with nobody at its terminal.
Give(c, p) ==
    /\ pc = "idle" /\ commands < MaxCommands
    /\ commands' = commands + 1
    /\ cmd' = c /\ place' = p /\ outcome' = "none"
    /\ wanted' = << >>
    /\ c = "d" => p = Source
    /\ p = Source \/ "bin" \in Usable
    /\ pc' = FirstStep[c]
    /\ runningProcess' = ConfigValue("pid", p)
    /\ k' = 1 /\ key' = NoKey /\ after' = "idle"
    /\ ReadsFile
    /\ UNCHANGED <<machine, writing, process, overridden, deleted, remade, sets,
                   lastPid, faults>>

\* stopRunningProcess, in -i and in uninstall(); what it has read is not used again.
StopRunningProcess ==
    /\ pc \in {"stop", "uninstall"}
    /\ doomed' = (doomed \/ (daemon # NoPid /\ runningProcess = daemon))
    /\ runningProcess' = NoPid
    /\ IF cmd = "i" /\ pc = "stop" THEN Goes("sub") /\ UNCHANGED k
                                   ELSE Goes("unlink") /\ k' = 1
    /\ UNCHANGED <<machine, key, after, writing, daemon, poller, systemId, history,
                   counters>>

\* system("remotedevicecontroller -u"), of which nothing comes if the program is
\* not installed, or not whole
RunUninstall ==
    /\ pc = "sub"
    /\ IF "bin" \in Usable
       THEN Goes("uninstall") /\ runningProcess' = ConfigValue("pid", place)
       ELSE Goes("read") /\ UNCHANGED runningProcess
    /\ UNCHANGED <<machine, k, key, after>> /\ ReadsOnly

\* Mutant of LastUnlinked: the link and the certificates are forgotten.
LastUnlinkedEarly == Len(UnlinkOrder) - 2

LastUnlinked == Len(UnlinkOrder)

\* One unlink of uninstall()
Unlink ==
    /\ pc = "unlink" /\ k <= LastUnlinked
    /\ Unlinked(UnlinkOrder[k])
    /\ k' = k + 1
    /\ UNCHANGED <<pc, cmd, place, key, runningProcess, after, outcome, doc, pending, process,
                   wanted, deleted, remade, counters>>

\* The question about the records is answered; without a terminal the program
\* dies of it, which the command that waits for it does not notice.
Unlinks ==
    /\ pc = "unlink" /\ k > LastUnlinked
    /\ IF cmd = "u" THEN Ends("uninstalled") ELSE Goes("read")
    /\ UNCHANGED <<machine, k, key, runningProcess, after>> /\ Untouched

-----------------------------------------------------------------------------
(* -i -k -r                                                                *)

\* reinstall(): the system-id is kept in memory while everything is unlinked.
Reinstall ==
    /\ pc = "reinstall"
    /\ IF conf.state = "none" THEN Ends("not installed") /\ UNCHANGED key
       ELSE Goes("sub") /\ key' = ConfigValue("system-id", place)
    /\ UNCHANGED <<machine, k, runningProcess, after>> /\ ReadsOnly

\* readConfig(), then the question for a key: the user gives one that exists,
\* or not, or has none.
ReadsConfig ==
    /\ pc = "read"
    /\ \/ ~ReadConfig(place) /\ Ends("crashed") /\ UNCHANGED key
       \/ ReadConfig(place) /\ cmd = "c" /\ Goes("prompt") /\ UNCHANGED key
       \/ ReadConfig(place) /\ cmd \in {"r", "d"} /\ Goes("register") /\ UNCHANGED key
       \/ ReadConfig(place) /\ cmd = "k" /\ Goes("register") /\ key' \in Keys \cup {NoKey}
       \/ /\ ReadConfig(place) /\ cmd = "i"
          /\ \/ Ends("no system") /\ UNCHANGED key
             \/ Goes("register") /\ key' \in Keys
             \/ /\ pc' = "sub" /\ cmd' = "k"      \* reinstallKey()
                /\ UNCHANGED <<place, outcome, key>>
    /\ UNCHANGED <<machine, k, runningProcess, after>> /\ ReadsOnly

\* UpdateSystemInstallStatus; then the files are copied, over what is there if
\* nothing came of the -u before.
Register ==
    /\ pc = "register"
    /\ \/ Ends("refused") /\ UNCHANGED <<k, overridden>>
       \/ /\ key # NoKey /\ Goes("copy") /\ k' = 1
          /\ overridden' = (overridden \/ "override" \in files)
    /\ UNCHANGED <<machine, key, runningProcess, after, writing, process, wanted, mixed, deleted,
                   remade, counters>>

\* copyfile copies the whole of n; ln -s needs no source.
CopyWhole(n) ==
    /\ place = Source \/ n = "link"
    /\ files' = files \cup ({n} \ {"config"})
    /\ lost' = lost \ {n}
    /\ conf' = IF n = "config" THEN Whole(Template) ELSE conf
    /\ IF n = "config" THEN Remakes ELSE UNCHANGED remade
    /\ UNCHANGED faults

\* There is no source, as for every file elsewhere, or the copy cannot be opened:
\* what is there stays.
CopyFails(n) ==
    /\ n # "link"
    /\ \/ place = Elsewhere /\ UNCHANGED faults
       \/ place = Source /\ faults < MaxFaults /\ faults' = faults + 1
    /\ lost' = lost \cup ({n} \ (files \cup {"config"}))
    /\ UNCHANGED <<files, conf, remade>>

\* The disk is full: the copy is cut short.
CopyCut(n) ==
    /\ n # "link" /\ place = Source
    /\ faults < MaxFaults /\ faults' = faults + 1
    /\ files' = files \cup ({n} \ {"config"})
    /\ lost' = lost \cup ({n} \ {"config"})
    /\ conf' = IF n = "config" THEN Damaged ELSE conf
    /\ UNCHANGED remade

\* One copy of instReInstComCode, which goes on whatever has become of it.
\* Without a terminal nobody reads what -d prints: the first SIGCHLD after a line
\* of output, that of chmod or, if there was no chmod, of ln, flushes it into a
\* broken pipe.
Copy ==
    /\ pc = "copy" /\ k <= Len(CopyOrder)
    /\ LET n == CopyOrder[k] IN
       /\ \/ CopyWhole(n) /\ IF cmd = "d" /\ n \in {"bin", "link"} THEN Ends("killed")
                                                                 ELSE Goes("copy")
          \/ (CopyFails(n) \/ CopyCut(n)) /\ Goes("copy")
       /\ mixed' = (mixed \/ (n = "config" /\ \E w \in Writers : phase[w] # "idle"))
    /\ k' = k + 1
    /\ UNCHANGED <<key, runningProcess, after, writing, process, wanted, overridden, deleted,
                   commands, sets, lastPid>>

\* The command goes on to write a sequence of properties, and then to next.
Writes(props, next) ==
    /\ pending' = [pending EXCEPT !["command"] = props]
    /\ Goes("write")
    /\ after' = next

Copied ==
    /\ pc = "copy" /\ k > Len(CopyOrder)
    /\ Writes(<< <<"system-id", key>> >>, "add")
    /\ UNCHANGED <<machine, k, key, runningProcess, phase, doc, process, history, counters>>

\* writeConfigValue has returned, or has found no document to change.
Written ==
    /\ pc = "write"
    /\ \/ /\ pending["command"] = << >>
          /\ IF after = "success" THEN Ends("success") ELSE Goes(after)
          /\ UNCHANGED pending
       \/ /\ pending["command"] # << >> /\ phase["command"] = "idle" /\ Parsed(place) = {}
          /\ Ends("crashed")
          /\ pending' = [pending EXCEPT !["command"] = << >>]
    /\ ReadsFile
    /\ UNCHANGED <<machine, k, key, runningProcess, after, phase, doc, process, wanted, overridden,
                   deleted, remade, counters>>

\* Mutant of Received: the answer to AddSystem is taken for complete too early.
ReceivedFirst == << <<"videoStreamingType", "set">> >>

\* Mutant of Received: off by one, the message of the answer is written too.
ReceivedMessage == << <<"debug", "set">>, <<"videoStreamingType", "set">>,
                      <<"autoInsertCameras", "set">>, <<"pollInterval", "set">> >>

\* What the server's answer to AddSystem sets, one property after the other
Received == << <<"videoStreamingType", "set">>, <<"autoInsertCameras", "set">>,
               <<"pollInterval", "set">> >>

\* AddSystem
AddSystem ==
    /\ pc = "add"
    /\ \/ Ends("try again") /\ UNCHANGED <<after, pending, deleted, remade>>
       \/ Writes(Received, "success") /\ deleted' = FALSE /\ remade' = FALSE
    /\ UNCHANGED <<machine, k, key, runningProcess, phase, doc, process, wanted, mixed, overridden,
                   counters>>

-----------------------------------------------------------------------------
(* -c                                                                      *)

Wanting(n, v) == [m \in DOMAIN wanted \cup {n} |-> IF m = n THEN v ELSE wanted[m]]

\* A property other than bootup
SetProperty ==
    /\ pc = "prompt" /\ sets < MaxSets
    /\ sets' = sets + 1
    /\ Writes(<< <<"debug", "set">> >>, "prompt")
    /\ wanted' = Wanting("debug", "set")
    /\ UNCHANGED <<machine, k, key, runningProcess, phase, doc, process, mixed, overridden,
                   deleted, remade, commands, lastPid, faults>>

\* Mutant of BootupFiles: the override file is only ever created.
BootupFilesOnce(v) == IF v = "true" THEN files ELSE files \cup {"override"}

\* The override file keeps upstart from starting the daemon.
BootupFiles(v) == IF v = "true" THEN files \ {"override"} ELSE files \cup {"override"}

\* bootup: true is refused where nothing is installed; the test for false
\* compares stat() with 1 and refuses nothing.
SetBootup(v) ==
    /\ pc = "prompt" /\ sets < MaxSets
    /\ v = "true" => "init" \in files
    /\ sets' = sets + 1
    /\ files' = BootupFiles(v)
    /\ Writes(<< <<"bootup", v>> >>, "prompt")
    /\ wanted' = Wanting("bootup", v)
    /\ UNCHANGED <<lost, conf, k, key, runningProcess, phase, doc, process, mixed, overridden,
                   deleted, remade, commands, lastPid, faults>>

EndConfigure ==
    /\ pc = "prompt"
    /\ Ends("configured")
    /\ UNCHANGED <<machine, k, key, runningProcess, after>> /\ Untouched

-----------------------------------------------------------------------------
(* The daemon                                                              *)

Installed == {"init", "bin"} \subseteq Usable

\* start remotedevicecontroller
Start ==
    /\ Installed /\ daemon = NoPid /\ lastPid < MaxPid
    /\ lastPid' = lastPid + 1
    /\ daemon' = lastPid + 1 /\ doomed' = FALSE /\ poller' = "none" /\ systemId' = NoKey
    /\ UNCHANGED <<machine, command, writing, history, commands, sets, faults>>

\* secondFork and run(): the first child reads the configuration, where a missing
\* system-id leaves the one it remembers, and forks the poller, which ends at once
\* if there is none.
PollerForked ==
    /\ daemon # NoPid /\ poller = "none"
    /\ ReadConfig(Elsewhere)
    /\ LET id == ConfigValue("system-id", Elsewhere)
       IN systemId' = IF id = NoKey THEN systemId ELSE id
    /\ systemId' # NoKey
    /\ poller' = "write"
    /\ pending' = [pending EXCEPT !["poller"] = << <<"pid", daemon>> >>]
    /\ UNCHANGED <<machine, command, phase, doc, daemon, doomed, history, counters>>

\* The pid is written and the poller goes on.
PollerRuns ==
    /\ poller = "write" /\ pending["poller"] = << >>
    /\ poller' = "run"
    /\ UNCHANGED <<machine, command, writing, daemon, doomed, systemId, history, counters>>

\* The poller is gone, and what it was writing with it.
PollerGone ==
    /\ poller' = "none"
    /\ phase' = [phase EXCEPT !["poller"] = "idle"]
    /\ pending' = [pending EXCEPT !["poller"] = << >>]
    /\ UNCHANGED doc
    /\ mixed' = (mixed \/ phase["poller"] # "idle")
    /\ UNCHANGED <<machine, command, wanted, overridden, deleted>>

\* The first child is gone, and what it remembers.
FirstChildGone == PollerGone /\ systemId' = NoKey /\ remade' = FALSE

\* SIGTERM and the death signals take effect.
DaemonDies ==
    /\ doomed
    /\ daemon' = NoPid /\ doomed' = FALSE
    /\ FirstChildGone
    /\ UNCHANGED counters

\* The first child crashes, or finds no configuration that readConfig can read
\* before it forks the next poller; the root process forks another first child.
FirstChildDies ==
    /\ daemon # NoPid
    /\ \/ faults < MaxFaults /\ faults' = faults + 1
       \/ poller = "none" /\ ~ReadConfig(Elsewhere) /\ UNCHANGED faults
    /\ FirstChildGone
    /\ UNCHANGED <<daemon, doomed, commands, sets, lastPid>>

\* The poller crashes, or finds no document to write its pid to, or the
\* question of uninstall() has used up its memory.
PollerDies ==
    /\ poller # "none"
    /\ \/ faults < MaxFaults /\ faults' = faults + 1
       \/ poller = "write" /\ phase["poller"] = "idle" /\ Parsed(Elsewhere) = {} /\ UNCHANGED faults
       \/ poller = "deleting" /\ UNCHANGED faults
    /\ PollerGone
    /\ UNCHANGED <<daemon, doomed, systemId, remade, commands, sets, lastPid>>

\* DeleteSystem: uninstall() in the poller.  The pid it would kill is that of
\* the instance before, and nobody answers its question.
DeleteSystem ==
    /\ poller = "run"
    /\ poller' = "deleting"
    /\ files' = {} /\ lost' = {} /\ conf' = ConfLeft
    /\ phase' = [w \in Writers |-> IF phase[w] = "open" THEN "orphan" ELSE phase[w]]
    /\ mixed' = (mixed \/ pc # "idle")
    /\ deleted' = TRUE /\ remade' = FALSE /\ overridden' = FALSE
    /\ outcome' = "none"
    /\ UNCHANGED <<pc, cmd, place, k, key, runningProcess, after, doc, pending, daemon, doomed,
                   systemId, wanted, counters>>

\* The machine is restarted, whatever it is doing: a copy of the configuration
\* may be cut short.
Reboot ==
    /\ faults < MaxFaults /\ faults' = faults + 1
    /\ conf' \in IF pc = "copy" /\ k <= Len(CopyOrder) /\ CopyOrder[k] = "config"
                 THEN {conf, Damaged} ELSE {conf}
    /\ Ends("none")
    /\ phase' = [w \in Writers |-> "idle"]
    /\ pending' = [w \in Writers |-> << >>]
    /\ doc' = [w \in Writers |-> Template]
    /\ mixed' = (mixed \/ pc # "idle" \/ \E w \in Writers : phase[w] # "idle")
    /\ IF Installed /\ "override" \notin files /\ lastPid < MaxPid
       THEN daemon' = lastPid + 1 /\ lastPid' = lastPid + 1
       ELSE daemon' = NoPid /\ UNCHANGED lastPid
    /\ doomed' = FALSE /\ poller' = "none" /\ systemId' = NoKey /\ remade' = FALSE
    /\ UNCHANGED <<files, lost, k, key, runningProcess, after, wanted, overridden, deleted,
                   commands, sets>>

Next ==
    \/ \E c \in DOMAIN FirstStep, p \in Places : Give(c, p)
    \/ StopRunningProcess \/ RunUninstall \/ Unlink \/ Unlinks
    \/ Reinstall \/ ReadsConfig \/ Register \/ Copy \/ Copied \/ Written \/ AddSystem
    \/ SetProperty \/ (\E v \in {"true", "false"} : SetBootup(v)) \/ EndConfigure
    \/ \E w \in Writers : Parse(w) \/ Truncate(w) \/ Write(w)
    \/ Start \/ PollerForked \/ PollerRuns \/ DaemonDies \/ FirstChildDies \/ PollerDies
    \/ DeleteSystem \/ Reboot

Spec == Init /\ [][Next]_vars

-----------------------------------------------------------------------------
(* Properties, while no two processes have used the configuration at a time *)
(* and none has died in a write.                                            *)

Quiet == pc = "idle" /\ ~mixed /\ \A w \in Writers : phase[w] = "idle"

\* "installed successfully" means that a file is missing or cut short only if its
\* own copy failed, and that the daemon, if its program is there, can run for the
\* system that was asked for: readConfig finds all that it dereferences, even if
\* the copy of the configuration was the one that failed.
SuccessRuns ==
    (Quiet /\ outcome = "success") =>
        /\ Parts \ {"override"} \subseteq files \cup lost
        /\ conf.state = "whole" /\ Complete(conf.doc)
        /\ conf.doc["system-id"] = key

\* -u leaves none of the files, whatever state the installation was in and
\* whatever the daemon did meanwhile.
UninstallLeavesNothing ==
    (Quiet /\ outcome = "uninstalled") => files = {} /\ conf.state = "none"

\* The configuration says of bootup what upstart will do, which looks at the
\* override file.
BootsAsConfigured ==
    (Quiet /\ conf.state = "whole" /\ "init" \in files) =>
        ("override" \in files <=> conf.doc["bootup"] = "false")

\* It does unless the present installation was made over an override file: bootup
\* was set to false with nothing installed, or the -u before it could not be run.
BootupAgrees == overridden \/ BootsAsConfigured

\* All that a -c has set is in the configuration when the command has ended, and
\* stays there, though the poller rewrites the file.
SetStays ==
    (Quiet /\ outcome = "configured" /\ conf.state = "whole") =>
        \A n \in DOMAIN wanted : conf.doc[n] = wanted[n]

\* After DeleteSystem the server hears no more from this system until it is
\* installed again, though the daemon's processes are forked again for ever;
\* unless a command has made the configuration again before the first child, which
\* remembers the system, has looked for it.
DeletedIsSilent == (deleted /\ ~mixed /\ poller \in {"write", "run"}) => remade
=============================================================================
