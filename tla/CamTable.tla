------------------------------ MODULE CamTable -------------------------------
(***************************************************************************)
(* The polling loop of ferryport and its camera table: run(), record(),    *)
(* getCameras(), systemStateChange() and class csList of src/main.cpp.     *)
(* Each action is one pass of a loop of the source, or the stretch of a    *)
(* function between two points where the outside can change what the next  *)
(* stretch reads: /dev, /proc, the network, the server's answer.           *)
(*                                                                         *)
(* Starting and killing an ffmpeg is one step here; Reaper.tla takes that  *)
(* step apart.  Left out: the file and stream paths (record() derives them *)
(* from the clock, the name and SId just before it uses them), field       *)
(* disable (never set), the CAM_STREAM and CAM_OFF branches of setCamState *)
(* (no statement stores these as a newState), the throttling of contiguous *)
(* polls (it only skips passes), gps data, and the commands about files    *)
(* (Records.tla, Transport.tla) and about the whole system (Install.tla).  *)
(*                                                                         *)
(* Bounds: MaxEvents events of the outside in one behaviour, MaxNodes      *)
(* commands in one answer of the server, MaxPlugged cameras at a time.  A  *)
(* pid is reused only when no entry holds it any more.                     *)
(***************************************************************************)
EXTENDS Integers, FiniteSets, Sequences

CONSTANTS
    Cams,            \* device names that start with "video"
    Prefix,          \* the pairs <<a, b>> of names where a is a proper prefix of b
    MaxCams,         \* MAX_CAMS, the length of csl
    MaxPid,          \* number of pids
    Sessions,        \* stream identifiers chosen by the server
    IPs,             \* the addresses this machine may get
    MaxEvents, MaxNodes, MaxPlugged,
    AtBoot           \* the sets of cameras that may be plugged when it starts

NoName == "no name"
NoSession == "no session"
NoIP == "no address"

ASSUME CamAssumption == NoName \notin Cams /\ IsFiniteSet(Cams)
ASSUME SizeAssumption ==
    /\ MaxCams \in Nat \ {0} /\ MaxPid \in Nat \ {0}
    /\ MaxEvents \in Nat /\ MaxNodes \in Nat /\ MaxPlugged \in Nat
ASSUME BootAssumption == AtBoot \subseteq SUBSET Cams
ASSUME PrefixAssumption == Prefix \subseteq Cams \X Cams
ASSUME OutsideAssumption == NoSession \notin Sessions /\ NoIP \notin IPs

Slots == 0 .. MaxCams - 1
Pids  == 1 .. MaxPid
NoPid == 0
NoJob == [cam |-> NoName, mode |-> "none", SId |-> NoSession]

Modes  == {"RECORD", "STREAM_N_RECORD"}
States == Modes \cup {"PREVIOUS", "OFF"}

VARIABLES
    csl, camCount,   \* csList: the table and the number of entries it claims
    cs,              \* what the pass will do: NEW, OFF, RECORD or PREVIOUS
    ps,              \* run's ps: the last of NEW and OFF that was carried out
    newlyMarried, currentIP,
    pc, i, camFound, \* the position in the loops
    cams,            \* the names getCameras has read, or getCams has copied
    back,            \* where record() returns to
    nodes,           \* commands read from the present answer
    ffmpeg,          \* ffmpeg[p]: what process p does, NoJob if there is none
    failed,          \* history: the connection failed in the present pass
    plugged, ip,     \* the cameras in /dev, and the address of the machine
    unplugged,       \* history: a camera was unplugged
    events           \* events of the outside so far

table   == <<csl, camCount>>
program == <<cs, ps, newlyMarried, currentIP>>
control == <<pc, i, camFound, cams, back, nodes, failed>>
outside == <<plugged, ip, unplugged, events>>
vars    == <<table, program, control, ffmpeg, outside>>

Entry == [cam : Cams \cup {NoName}, pid : Pids \cup {NoPid},
          SId : Sessions \cup {NoSession}, state : States,
          newState : Modes \cup {"PREVIOUS"}]

EmptyEntry == [cam |-> NoName, pid |-> NoPid, SId |-> NoSession,
               state |-> "PREVIOUS", newState |-> "PREVIOUS"]

Steps == {"top", "prune", "add", "change", "record", "request", "reply", "switch"}

TypeOK ==
    /\ csl \in [Slots -> Entry]
    /\ camCount \in 0 .. MaxCams
    /\ cs \in {"NEW", "OFF", "RECORD", "PREVIOUS"}
    /\ ps \in {"NEW", "OFF"}
    /\ newlyMarried \in BOOLEAN
    /\ currentIP \in IPs \cup {NoIP}
    /\ pc \in Steps
    /\ i \in 0 .. MaxCams + 1
    /\ camFound \in BOOLEAN
    /\ cams \in Seq(Cams \cup {NoName})
    /\ back \in {"top", "request"}
    /\ nodes \in 0 .. MaxNodes
    /\ ffmpeg \in [Pids -> {NoJob} \cup [cam : Cams, mode : Modes,
                                        SId : Sessions \cup {NoSession}]]
    /\ failed \in BOOLEAN
    /\ plugged \subseteq Cams
    /\ ip \in IPs \cup {NoIP}
    /\ unplugged \in BOOLEAN
    /\ events \in 0 .. MaxEvents

Init ==
    /\ csl = [x \in Slots |-> EmptyEntry]
    /\ camCount = 0
    /\ cs = "OFF"
    /\ ps = "NEW"                     \* not read before the first pass sets it
    /\ newlyMarried = TRUE
    /\ currentIP = NoIP
    /\ pc = "top"
    /\ i = 0
    /\ camFound = FALSE
    /\ cams = << >>
    /\ back = "top"
    /\ nodes = 0
    /\ ffmpeg = [p \in Pids |-> NoJob]
    /\ failed = FALSE
    /\ plugged \in AtBoot
    /\ ip \in IPs \cup {NoIP}
    /\ unplugged = FALSE
    /\ events = 0

-----------------------------------------------------------------------------
(* csList                                                                  *)

Alive(p) == p \in Pids /\ ffmpeg[p] # NoJob     \* stat("/proc/<p>") succeeds

\* The entries that a loop `while (csl[i].cam.length() != 0)` visits.
Scanned == {x \in Slots : \A y \in 0 .. x : csl[y].cam # NoName}

\* The entries that a loop `while (i < camCount)` visits.
Counted == {x \in Slots : x < camCount}

\* getCamService: the first entry of that name, or -1.
Find(c) ==
    IF \E x \in Scanned : csl[x].cam = c
    THEN CHOOSE x \in Scanned : csl[x].cam = c /\ \A y \in 0 .. x - 1 : csl[y].cam # c
    ELSE -1

\* Mutant of Moved: the source entry is not cleaned.
MovedCopy(src, dst) == [csl EXCEPT ![dst] = csl[src]]

\* moveCamService
Moved(src, dst) ==
    IF csl[src].cam = NoName THEN csl
    ELSE [csl EXCEPT ![dst] = csl[src], ![src] = EmptyEntry]

\* removeCamService
RemoveCamService(c) ==
    LET x == Find(c) IN
    /\ csl' = IF x = -1 THEN csl
              ELSE IF camCount > 1 THEN Moved(camCount - 1, x)
              ELSE [csl EXCEPT ![x].cam = NoName]
    /\ camCount' = camCount - 1

\* Mutants of Listed: no entry is looked at; an entry whose name c starts with
\* counts as c.
ListedNever(c) == FALSE
ListedByPrefix(c) == \E x \in Scanned : csl[x].cam = c \/ <<csl[x].cam, c>> \in Prefix

\* find(cam, 0) == 0: an entry whose name starts with c counts as c.
Listed(c) == \E x \in Scanned : csl[x].cam = c \/ <<c, csl[x].cam>> \in Prefix

\* addCamService
AddCamService(c) ==
    IF Listed(c)
    THEN UNCHANGED table
    ELSE LET x == Cardinality(Scanned) IN
         /\ csl' = [csl EXCEPT ![x].cam = c, ![x].state = "OFF", ![x].newState = "RECORD"]
         /\ camCount' = camCount + 1

\* camReattached: some entry has no ffmpeg.
CamReattached == \E x \in Counted : ~Alive(csl[x].pid)

\* Mutant of WithStateAllCams: the pending state is set for every camera but
\* the present state is not looked at.
WithStateAllCamsBlind(st) ==
    [x \in Slots |-> IF x \in Counted THEN [csl[x] EXCEPT !.newState = st] ELSE csl[x]]

\* setStateAllCams
WithStateAllCams(st) ==
    [x \in Slots |-> IF x \in Counted /\ csl[x].state # st
                     THEN [csl[x] EXCEPT !.newState = st]
                     ELSE csl[x]]

\* setSId, for a set of names at once
WithSId(C, s) ==
    [x \in Slots |-> IF \E c \in C : Find(c) = x
                     THEN [csl[x] EXCEPT !.SId = s]
                     ELSE csl[x]]

\* setNewCamState returns 1
Changes(c, st) == Find(c) # -1 /\ csl[Find(c)].state # st

\* A pid that neither runs nor is remembered.
FreshPids == {p \in Pids : ~Alive(p) /\ \A x \in Slots : csl[x].pid # p}
FreshPid == CHOOSE p \in FreshPids : TRUE

\* Mutant of Stopped: the old ffmpeg is not stopped.
StoppedNot(p) == ffmpeg

\* stopCam: SIGKILL to the process of the entry, if /proc knows it.
Stopped(p) == IF Alive(p) THEN [ffmpeg EXCEPT ![p] = NoJob] ELSE ffmpeg

\* setCamState writes pid p and the new state into entry x.
CarriedOut(x, p) ==
    [csl EXCEPT ![x] = [@ EXCEPT !.pid = p, !.state = csl[x].newState, !.newState = "PREVIOUS"]]

\* setCamState: stop the old ffmpeg, start the new one, write the entry.
SetCamState(x) ==
    LET e == csl[x] IN
    /\ FreshPids # {}
    /\ ffmpeg' = [Stopped(e.pid) EXCEPT ![FreshPid] =
                     [cam |-> e.cam, mode |-> e.newState, SId |->
                        IF e.newState = "STREAM_N_RECORD" THEN e.SId ELSE NoSession]]
    /\ csl' = CarriedOut(x, FreshPid)

\* The same when fork() fails: the pid -1 of the entry is that of no process.
SetCamStateUnforked(x) ==
    /\ ffmpeg' = Stopped(csl[x].pid)
    /\ csl' = CarriedOut(x, NoPid)

-----------------------------------------------------------------------------
(* run() and getCameras()                                                  *)

\* The orders in which readdir may list a set of names.
Listings(C) == {s \in [1 .. Cardinality(C) -> C] : \A m, n \in DOMAIN s : s[m] = s[n] => m = n}

\* A pass that begins with getCameras: it reads /dev.
GetCameras ==
    /\ pc = "top"
    /\ cams' \in Listings(plugged)
    /\ pc' = "prune"
    /\ i' = 0
    /\ camFound' = FALSE
    /\ failed' = FALSE
    /\ UNCHANGED <<table, program, back, nodes, ffmpeg, outside>>

\* More than 900 seconds have passed: the last command is carried out again.
Rollover ==
    /\ pc = "top"
    /\ ~newlyMarried
    /\ events < MaxEvents
    /\ events' = events + 1
    /\ cs' = ps
    /\ csl' = WithStateAllCams("RECORD")
    /\ pc' = "switch"
    /\ UNCHANGED <<camCount, ps, newlyMarried, currentIP, i, camFound, cams, back,
                   nodes, failed, ffmpeg, plugged, ip, unplugged>>

\* One pass of the first loop of setCams.  camFound keeps its value from one
\* entry to the next; an entry that is not found "removes" the empty name.
Prune ==
    /\ pc = "prune"
    /\ i < camCount
    /\ LET listed == \E n \in DOMAIN cams : cams[n] = csl[i].cam
           found  == camFound \/ listed
       IN IF found /\ Alive(csl[i].pid)
          THEN /\ i' = i + 1
               /\ camFound' = TRUE
               /\ UNCHANGED table
          ELSE /\ RemoveCamService(IF listed THEN csl[i].cam ELSE NoName)
               /\ camFound' = FALSE
               /\ UNCHANGED i
    /\ UNCHANGED <<program, pc, cams, back, nodes, failed, ffmpeg, outside>>

\* The first loop of setCams ends.
PruneEnds ==
    /\ pc = "prune"
    /\ i >= camCount
    /\ pc' = "add"
    /\ i' = 1
    /\ UNCHANGED <<table, program, camFound, cams, back, nodes, failed, ffmpeg, outside>>

\* One pass of the second loop of setCams.
Add ==
    /\ pc = "add"
    /\ i <= Len(cams)
    /\ AddCamService(cams[i])
    /\ i' = i + 1
    /\ UNCHANGED <<program, pc, camFound, cams, back, nodes, failed, ffmpeg, outside>>

\* getCameras returns: to run() the first time, to systemStateChange later.
AddEnds ==
    /\ pc = "add"
    /\ i > Len(cams)
    /\ i' = 0
    /\ cams' = << >>
    /\ newlyMarried' = FALSE
    /\ IF newlyMarried
       THEN /\ csl' = WithStateAllCams("RECORD")
            /\ cs' = "NEW"
            /\ pc' = "switch"
       ELSE /\ pc' = "change"
            /\ UNCHANGED <<csl, cs>>
    /\ UNCHANGED <<camCount, ps, currentIP, camFound, back, nodes, failed, ffmpeg, outside>>

\* Name n of an array of strings: beyond the names written it is empty.
NameAt(n) == IF n <= Len(cams) THEN cams[n] ELSE NoName

\* record() begins: the names are copied from the table.
BeginRecord(ret) ==
    /\ cams' = [n \in 1 .. camCount |-> csl'[n - 1].cam]
    /\ i' = 1
    /\ back' = ret
    /\ pc' = "record"

\* switch (csc) in run()
Switch ==
    /\ pc = "switch"
    /\ CASE cs = "NEW" ->
              /\ ps' = "NEW"
              /\ UNCHANGED <<csl, ffmpeg>>
              /\ BeginRecord("top")
         [] cs = "OFF" ->              \* pkill -9 ffmpeg
              /\ ps' = "OFF"
              /\ ffmpeg' = [p \in Pids |-> NoJob]
              /\ pc' = "top"
              /\ UNCHANGED <<csl, i, cams, back>>
         [] OTHER ->
              /\ pc' = "top"
              /\ UNCHANGED <<csl, ps, ffmpeg, i, cams, back>>
    /\ UNCHANGED <<camCount, cs, newlyMarried, currentIP, camFound, nodes, failed, outside>>

\* One pass of the loop of record().
Record ==
    /\ pc = "record"
    /\ NameAt(i) # NoName
    /\ LET x == Find(cams[i]) IN
       IF x # -1 /\ csl[x].newState # "PREVIOUS"
       THEN \/ SetCamState(x) /\ UNCHANGED events
            \/ SetCamStateUnforked(x) /\ events < MaxEvents /\ events' = events + 1
       ELSE UNCHANGED <<csl, ffmpeg, events>>
    /\ i' = i + 1
    /\ UNCHANGED <<camCount, program, pc, camFound, cams, back, nodes, failed, plugged, ip, unplugged>>

\* record() returns.
RecordEnds ==
    /\ pc = "record"
    /\ NameAt(i) = NoName
    /\ pc' = back
    /\ i' = 0
    /\ cams' = << >>
    /\ UNCHANGED <<table, program, camFound, back, nodes, failed, ffmpeg, outside>>

-----------------------------------------------------------------------------
(* systemStateChange()                                                     *)

\* Mutant of FallBack: cs = CAM_NEW_STATE is forgotten.
FallBackForgets ==
    /\ csl' = WithStateAllCams("RECORD")
    /\ cs' = "PREVIOUS"
    /\ pc' = "switch"
    /\ failed' = TRUE

\* The connection is lost: every camera falls back to recording.
FallBack ==
    /\ csl' = WithStateAllCams("RECORD")
    /\ cs' = "NEW"
    /\ pc' = "switch"
    /\ failed' = TRUE

\* From camReattached to the request.
Change ==
    /\ pc = "change"
    /\ nodes' = 0
    /\ currentIP' = ip
    /\ \/ /\ ip # currentIP
          /\ cs' = IF CamReattached THEN "NEW" ELSE "PREVIOUS"
          /\ csl' = WithStateAllCams("RECORD")
          /\ BeginRecord("request")
          /\ UNCHANGED failed
       \/ /\ ip = currentIP
          /\ ip = NoIP
          /\ FallBack
          /\ UNCHANGED <<i, cams, back>>
       \/ /\ ip = currentIP
          /\ ip # NoIP
          /\ cs' = IF CamReattached THEN "NEW" ELSE "PREVIOUS"
          /\ pc' = "request"
          /\ UNCHANGED <<csl, i, cams, back, failed>>
    /\ UNCHANGED <<camCount, ps, newlyMarried, camFound, ffmpeg, outside>>

\* reqSOAPService returns "CONNECTION ERROR".
RequestFails ==
    /\ pc = "request"
    /\ events < MaxEvents
    /\ events' = events + 1
    /\ FallBack
    /\ UNCHANGED <<camCount, ps, newlyMarried, currentIP, i, camFound, cams, back,
                   nodes, ffmpeg, plugged, ip, unplugged>>

\* reqSOAPService returns an answer.
RequestSucceeds ==
    /\ pc = "request"
    /\ pc' = "reply"
    /\ UNCHANGED <<table, program, i, camFound, cams, back, nodes, failed, ffmpeg, outside>>

\* The next node of the answer carries a command that sets cs and the table.
Command(newCs, newCsl) ==
    /\ pc = "reply"
    /\ nodes < MaxNodes /\ events < MaxEvents
    /\ nodes' = nodes + 1 /\ events' = events + 1
    /\ cs' = newCs
    /\ csl' = newCsl
    /\ UNCHANGED <<camCount, ps, newlyMarried, currentIP, pc, i, camFound, cams,
                   back, failed, ffmpeg, plugged, ip, unplugged>>

\* setNewCamState on a table in which the session may have been set before.
WithNewState(tab, c, st) ==
    IF Changes(c, st) THEN [tab EXCEPT ![Find(c)].newState = st] ELSE tab

\* Mutant of Viewing: the camera streams and no longer records.
ViewingOnly == "STREAM"

\* What a viewed camera is switched to.
Viewing == "STREAM_N_RECORD"

StartVideoRecord   == Command("RECORD", csl)
StopVideoRecord    == Command("OFF", csl)        \* and StartVideoStream
StopVideoStream(c) ==
    Command(IF Changes(c, "RECORD") THEN "NEW" ELSE cs, WithNewState(csl, c, "RECORD"))
ViewAll(C, s)      ==
    Command("NEW", [x \in Slots |-> [WithStateAllCams(Viewing)[x]
                                        EXCEPT !.SId = WithSId(C, s)[x].SId]])
View(c, s)         ==
    Command(IF Changes(c, Viewing) THEN "NEW" ELSE cs,
            WithNewState(WithSId({c}, s), c, Viewing))

\* The last node has been read.
ReplyEnds ==
    /\ pc = "reply"
    /\ pc' = "switch"
    /\ UNCHANGED <<table, program, i, camFound, cams, back, nodes, failed, ffmpeg, outside>>

-----------------------------------------------------------------------------
(* The outside                                                             *)

Event ==
    /\ events < MaxEvents
    /\ events' = events + 1
    /\ UNCHANGED <<table, program, control>>

\* An ffmpeg ends.
Die(p) == Event /\ Alive(p) /\ ffmpeg' = [ffmpeg EXCEPT ![p] = NoJob] /\ UNCHANGED <<plugged, ip, unplugged>>

\* An ffmpeg whose camera is gone ends, in its own time.
Starve(p) ==
    /\ Alive(p) /\ ffmpeg[p].cam \notin plugged
    /\ ffmpeg' = [ffmpeg EXCEPT ![p] = NoJob]
    /\ UNCHANGED <<table, program, control, outside>>

NewAddress(a) == Event /\ a # ip /\ ip' = a /\ UNCHANGED <<ffmpeg, plugged, unplugged>>

Plug(c) ==
    /\ Event
    /\ c \notin plugged /\ Cardinality(plugged) < MaxPlugged
    /\ plugged' = plugged \cup {c}
    /\ UNCHANGED <<ffmpeg, ip, unplugged>>

Unplug(c) ==
    /\ Event
    /\ c \in plugged /\ plugged' = plugged \ {c}
    /\ unplugged' = TRUE
    /\ UNCHANGED <<ffmpeg, ip>>

Outside ==
    \/ \E p \in Pids : Die(p)
    \/ \E a \in IPs \cup {NoIP} : NewAddress(a)
    \/ \E c \in Cams : Plug(c) \/ Unplug(c)

Commands ==
    \/ StartVideoRecord \/ StopVideoRecord
    \/ \E c \in Cams : StopVideoStream(c)
    \/ \E s \in Sessions : (\E c \in Cams : View(c, s))
                           \/ (\E C \in SUBSET Cams : ViewAll(C, s))

\* The steps of the program that need no event.
Poll ==
    \/ GetCameras \/ Prune \/ PruneEnds \/ Add \/ AddEnds
    \/ Change \/ RequestSucceeds \/ ReplyEnds \/ Switch \/ Record \/ RecordEnds

Next == Poll \/ Rollover \/ RequestFails \/ Commands \/ Outside \/ \E p \in Pids : Starve(p)

\* The loop keeps running and requests are answered; an ffmpeg without a
\* camera ends.
Spec == Init /\ [][Next]_vars /\ WF_vars(Poll) /\ \A p \in Pids : WF_vars(Starve(p))

-----------------------------------------------------------------------------
(* Safety                                                                  *)

\* The running ffmpegs of a camera.
JobsOf(c) == {p \in Pids : ffmpeg[p].cam = c}

\* Every ffmpeg that runs is the one an entry of the table counts, and does
\* what that entry says: the state sent to the server by
\* getCamsWithStateString is what the camera does, and stopCam can reach every
\* ffmpeg.  (Once a camera has been unplugged the table loses entries.)
TableGovernsFfmpeg ==
    \A p \in Pids : Alive(p) /\ ~unplugged =>
        \E x \in Counted : /\ csl[x].pid = p
                           /\ csl[x].cam = ffmpeg[p].cam
                           /\ csl[x].state = ffmpeg[p].mode

\* When getCameras returns, the table lists each camera it has read in /dev once
\* and nothing else, in its first camCount entries.  (Unless a camera was ever
\* unplugged, or one name begins another.)
TableListsDev ==
    LET read == {cams[n] : n \in DOMAIN cams} IN
    (pc = "add" /\ i > Len(cams) /\ ~unplugged /\ Prefix \cap (read \X read) = {}) =>
        /\ {csl[x].cam : x \in Counted} = read
        /\ camCount = Cardinality(read)
        /\ Scanned = Counted

\* After a pass in which the connection failed, no camera is left streaming:
\* record() has put each one back to recording.  (Holds as long as an answer
\* of the server carries one command and no camera was unplugged.)
FallBackRecords ==
    (pc = "top" /\ failed /\ ~unplugged) =>
        \A p \in Pids : Alive(p) => ffmpeg[p].mode = "RECORD"

\* An ffmpeg is replaced only by one that does something else: a pass of the
\* loop does not cut the recording of a camera whose mode stays the same.
NoIdleRestart ==
    [][\A p \in Pids : \A o \in Pids :
          (ffmpeg[p] # NoJob /\ ffmpeg'[p] = NoJob /\ ffmpeg[o] = NoJob /\ ffmpeg'[o] # NoJob)
             => ffmpeg'[o].mode # ffmpeg[p].mode]_vars

\* No two entries hold the pid of the same running ffmpeg: stopping one camera
\* never stops another.
NoSharedPid ==
    \A x, y \in Slots : (csl[x].pid = csl[y].pid /\ Alive(csl[x].pid)) => x = y

\* camCount claims no more entries than the table has, and the scans of csl,
\* which stop at an empty name only, stay inside the array, however often
\* entries are removed and added.  (Unless a camera was ever unplugged: its
\* entry stays behind the others, its name may be added once more, and in a
\* long run such entries fill the array.)
NoOverrun ==
    ~unplugged =>
        /\ camCount <= Cardinality({x \in Slots : csl[x].cam # NoName})
        /\ Cardinality(Scanned) < MaxCams

-----------------------------------------------------------------------------
(* Liveness                                                                *)

\* Once the outside is quiet, every plugged camera is being captured, and stays
\* so, whenever it was plugged and though a fork has failed, unless its name
\* begins the name of another plugged camera or a camera was ever unplugged.
EveryCameraCaptured ==
    \A c \in Cams :
        <>[]((c \in plugged /\ ~unplugged /\ \A d \in plugged : <<c, d>> \notin Prefix)
                => JobsOf(c) # {})
=============================================================================
