------------------------------- MODULE Records -------------------------------
(***************************************************************************)
(* Streaming of recorded files on request: class RecordsManager of         *)
(* src/main.cpp and the ViewSingleRecordedFile branch of                   *)
(* systemStateChange, one action per requested file.                       *)
(*                                                                         *)
(* The wait of stopRecord for the end of an ffmpeg is the one of stopCam,  *)
(* which Reaper.tla takes apart; here it is part of the step.  The vector  *)
(* of records is numbered from 1; in the source it is numbered from 0.     *)
(* Left out: the two session setters' return values, the unused lookups by *)
(* pid, and the exception branches for an index out of range, which        *)
(* vector::operator[] never takes.                                         *)
(*                                                                         *)
(* Bounds: MaxRequests requests.  A pid is never handed out twice.         *)
(***************************************************************************)
EXTENDS Naturals, Sequences, FiniteSets

CONSTANTS
    Files,           \* the recorded files that requests name
    Sessions,        \* the stream identifiers that requests carry
    MaxRequests

ASSUME RequestAssumption == MaxRequests \in Nat
\* "none" stands for no file.
ASSUME FileAssumption == "none" \notin Files

NoPid == 0
Pids == 1 .. MaxRequests
NoStream == [file |-> "none", sId |-> "none"]

VARIABLES
    records,         \* RecordsManager::records
    ffmpeg,          \* ffmpeg[p]: what process p streams, or NoStream
    onDisk,          \* the files that exist
    requests,        \* requests so far; pid n is handed out at request n
    asked            \* history: the files requested so far

vars == <<records, ffmpeg, onDisk, requests, asked>>

Record == [recordName : Files, state : {"STOP", "STREAM"},
           newState : {"PREVIOUS", "STOP", "STREAM"}, sId : Sessions \cup {"none"},
           spid : Pids \cup {NoPid}]

\* Between two requests no state is pending.
TypeOK ==
    /\ records \in Seq(Record)
    /\ \A n \in DOMAIN records : records[n].newState = "PREVIOUS"
    /\ ffmpeg \in [Pids -> {NoStream} \cup [file : Files, sId : Sessions]]
    /\ onDisk \subseteq Files
    /\ requests \in 0 .. MaxRequests
    /\ asked \subseteq Files

Init ==
    /\ records = << >>
    /\ ffmpeg = [p \in Pids |-> NoStream]
    /\ onDisk \in SUBSET Files
    /\ requests = 0
    /\ asked = {}

Alive(p) == p \in Pids /\ ffmpeg[p] # NoStream

-----------------------------------------------------------------------------
(* RecordsManager                                                          *)

\* getRecordIndex: the position of the record of file f, or 0 for none.
Index(rs, f) ==
    IF \E n \in DOMAIN rs : rs[n].recordName = f
    THEN CHOOSE n \in DOMAIN rs : rs[n].recordName = f
    ELSE 0

\* The constructor of Record.
NewRecord(f) == [recordName |-> f, state |-> "STOP", newState |-> "PREVIOUS",
                 sId |-> "none", spid |-> NoPid]

\* Mutant of AddedIndex: a new record is taken for the first one as well.
AddedIndexFirst(f) == IF Index(records, f) = 0 /\ f \notin onDisk THEN 0 ELSE 1

\* addRecord's result: the new record's position, nothing for a file that does
\* not exist, and the first record for a file that has a record already.
AddedIndex(f) ==
    IF Index(records, f) # 0 THEN 1
    ELSE IF f \in onDisk THEN Len(records) + 1 ELSE 0

\* addRecord's effect
Added(f) ==
    IF Index(records, f) = 0 /\ f \in onDisk THEN Append(records, NewRecord(f)) ELSE records

\* Mutant of WithNewState: a request to stop is not noted.
WithNewStateStreamOnly(r, st) ==
    [r EXCEPT !.newState = IF st = "STREAM" /\ r.state # st THEN st ELSE "PREVIOUS"]

\* setNewState
WithNewState(r, st) == [r EXCEPT !.newState = IF r.state # st THEN st ELSE "PREVIOUS"]

\* Mutant of StopRecord: the state changes but the process is not killed.
StopRecordForgets(p) == ffmpeg

\* stopRecord: SIGTERM to the process, if /proc knows it, and its end.
StopRecord(p) == IF Alive(p) THEN [ffmpeg EXCEPT ![p] = NoStream] ELSE ffmpeg

\* Mutant of CarriedOut: the pending state stays.
CarriedOutPending(r, st) == [r EXCEPT !.state = st]

\* The record when its pending state has been carried out.
CarriedOut(r, st) == [r EXCEPT !.newState = "PREVIOUS", !.state = st]

\* setRecordState for record n of rs: a pending state is carried out; the
\* process started now gets pid p.
SetRecordState(rs, n, p) ==
    LET r == rs[n] IN
    CASE r.newState = "STREAM" ->
           /\ ffmpeg' = [StopRecord(r.spid) EXCEPT ![p] = [file |-> r.recordName, sId |-> r.sId]]
           /\ records' = [rs EXCEPT ![n] = [CarriedOut(r, "STREAM") EXCEPT !.spid = p]]
      [] r.newState = "STOP" ->
           /\ ffmpeg' = StopRecord(r.spid)
           /\ records' = [rs EXCEPT ![n] = CarriedOut(r, "STOP")]
      [] OTHER ->
           /\ records' = rs
           /\ UNCHANGED ffmpeg

-----------------------------------------------------------------------------
Request(f) ==
    /\ requests < MaxRequests
    /\ requests' = requests + 1
    /\ asked' = asked \cup {f}
    /\ UNCHANGED onDisk

\* ViewSingleRecordedFile^..%True: file f is to be streamed to session s.
View(f, s) ==
    /\ Request(f)
    /\ LET n == AddedIndex(f)
           rs == Added(f)
       IN IF n = 0
          THEN UNCHANGED <<records, ffmpeg>>
          ELSE SetRecordState([rs EXCEPT ![n] = [WithNewState(rs[n], "STREAM") EXCEPT !.sId = s]],
                              n, requests + 1)

\* ViewSingleRecordedFile^..%False: the streaming of file f is to end.
Stop(f) ==
    /\ Request(f)
    /\ LET n == Index(records, f) IN
       IF n = 0
       THEN UNCHANGED <<records, ffmpeg>>
       ELSE SetRecordState([records EXCEPT ![n] = WithNewState(records[n], "STOP")],
                           n, requests + 1)

\* The file has been streamed to its end, or ffmpeg fails.
Ends(p) ==
    /\ Alive(p)
    /\ ffmpeg' = [ffmpeg EXCEPT ![p] = NoStream]
    /\ UNCHANGED <<records, onDisk, requests, asked>>

\* A file is recorded, or removed.
Change(f) ==
    /\ requests < MaxRequests
    /\ requests' = requests + 1
    /\ onDisk' = IF f \in onDisk THEN onDisk \ {f} ELSE onDisk \cup {f}
    /\ UNCHANGED <<records, ffmpeg, asked>>

Next ==
    \/ \E f \in Files : Stop(f) \/ Change(f) \/ \E s \in Sessions : View(f, s)
    \/ \E p \in Pids : Ends(p)

Spec == Init /\ [][Next]_vars

-----------------------------------------------------------------------------
\* Every ffmpeg that streams a file is the one that the record of this file
\* remembers as streaming: stopRecord can reach it, and no file is streamed
\* twice at a time.
NoStrayStream ==
    \A p \in Pids : Alive(p) =>
        \E n \in DOMAIN records :
            /\ records[n].spid = p /\ records[n].state = "STREAM"
            /\ records[n].recordName = ffmpeg[p].file

\* After a request to stop a file nothing streams it any more, whatever
\* requests came before.
StopStops ==
    [][\A f \in Files : Stop(f) => \A p \in Pids : ffmpeg'[p].file # f]_vars

\* After the first request that names an existing file, the file is streamed
\* to the session of the request, whatever other files were requested before.
\* (A later request may act on another record: addRecord then returns 0.)
ViewShows ==
    [][\A f \in Files, s \in Sessions :
          (View(f, s) /\ f \in onDisk /\ f \notin asked) =>
              \E p \in Pids : ffmpeg'[p] = [file |-> f, sId |-> s]]_vars
=============================================================================
