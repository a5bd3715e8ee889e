---------------------------- MODULE Records_proofs ---------------------------
(***************************************************************************)
(* Proofs about Records for any files, any sessions and any number of      *)
(* requests.                                                               *)
(***************************************************************************)
EXTENDS Records, SequenceTheorems, TLAPS

\* No file has two records, and every record is of a file that was requested.
OneRecordPerFile ==
    /\ \A m, n \in DOMAIN records :
           records[m].recordName = records[n].recordName => m = n
    /\ \A n \in DOMAIN records : records[n].recordName \in asked

\* The pid of the next ffmpeg is new: no process has it.
FreshPid == \A p \in Pids : p > requests => ffmpeg[p] = NoStream

IInv == TypeOK /\ OneRecordPerFile /\ FreshPid /\ NoStrayStream

-----------------------------------------------------------------------------
(* The operators of the model                                              *)

\* What getRecordIndex finds: the record of the file, or none.
LEMMA IndexFinds ==
    ASSUME NEW f
    PROVE  \/ Index(records, f) = 0 /\ \A n \in DOMAIN records : records[n].recordName # f
           \/ Index(records, f) \in DOMAIN records /\ records[Index(records, f)].recordName = f
BY DEF Index

\* stopRecord leaves the other processes alone and ends the one it names.
LEMMA StopRecordEnds ==
    ASSUME TypeOK, NEW p \in Pids \cup {NoPid}
    PROVE  /\ StopRecord(p) \in [Pids -> {NoStream} \cup [file : Files, sId : Sessions]]
           /\ p \in Pids => StopRecord(p)[p] = NoStream
           /\ \A x \in Pids : x # p => StopRecord(p)[x] = ffmpeg[x]
BY DEF TypeOK, StopRecord, Alive

\* addRecord leaves the records that are there alone, and the position that it
\* answers is the one of a record.
LEMMA AddedRecords ==
    ASSUME TypeOK, OneRecordPerFile, NEW f \in Files, AddedIndex(f) # 0
    PROVE  /\ Added(f) \in Seq(Record)
           /\ AddedIndex(f) \in DOMAIN Added(f)
           /\ DOMAIN records \subseteq DOMAIN Added(f)
           /\ \A n \in DOMAIN records : Added(f)[n] = records[n]
           /\ \A n \in DOMAIN Added(f) \ DOMAIN records :
                 n = Len(records) + 1 /\ Added(f)[n] = NewRecord(f) /\ Index(records, f) = 0
<1>1. NewRecord(f) \in Record
  BY DEF NewRecord, Record
<1>2. records \in Seq(Record) /\ DOMAIN records = 1 .. Len(records) /\ Len(records) \in Nat
  BY LenProperties DEF TypeOK
<1>3. CASE Index(records, f) # 0
  <2>1. 1 \in DOMAIN records
    BY <1>2, <1>3, IndexFinds
  <2>2. Added(f) = records /\ AddedIndex(f) = 1
    BY <1>3 DEF Added, AddedIndex
  <2> QED  BY <1>2, <2>1, <2>2
<1>4. CASE Index(records, f) = 0
  <2>1. Added(f) = Append(records, NewRecord(f)) /\ AddedIndex(f) = Len(records) + 1
    BY <1>4 DEF Added, AddedIndex
  <2>2. /\ Added(f) \in Seq(Record)
        /\ DOMAIN Added(f) = 1 .. Len(records) + 1
        /\ \A n \in 1 .. Len(records) : Added(f)[n] = records[n]
        /\ Added(f)[Len(records) + 1] = NewRecord(f)
    BY <1>1, <1>2, <2>1, AppendProperties
  <2> QED  BY <1>2, <1>4, <2>1, <2>2
<1> QED  BY <1>3, <1>4

-----------------------------------------------------------------------------
\* setRecordState for record n of the vector rs, which holds r there and is
\* elsewhere the vector of the state or a new record: the old process of r is
\* the only one that ends, and the one that is started is remembered by r.
LEMMA SetRecordStateInv ==
    ASSUME IInv, requests < MaxRequests, requests' = requests + 1,
           asked \subseteq asked', asked' \subseteq Files, UNCHANGED onDisk,
           NEW rs \in Seq(Record), NEW n \in DOMAIN rs, NEW r \in Record,
           \A m \in DOMAIN records : m \in DOMAIN rs /\ (m # n => rs[m] = records[m]),
           \A m \in DOMAIN rs : m # n => rs[m].newState = "PREVIOUS",
           \A m \in DOMAIN rs : rs[m].recordName \in asked',
           \A m1, m2 \in DOMAIN rs : rs[m1].recordName = rs[m2].recordName => m1 = m2,
           rs[n] = r, r.newState = "STREAM" => r.sId \in Sessions,
           n \in DOMAIN records => /\ r.spid = records[n].spid /\ r.state = records[n].state
                                   /\ r.recordName = records[n].recordName,
           SetRecordState(rs, n, requests + 1)
    PROVE  IInv'
<1> DEFINE p == requests + 1
<1>1. requests \in Nat /\ p \in Pids /\ p <= MaxRequests /\ NoPid \notin Pids
  BY RequestAssumption DEF IInv, TypeOK, Pids, NoPid
<1>2. r.spid \in Pids \cup {NoPid} /\ r.recordName \in Files
  BY DEF Record
<1>3. /\ StopRecord(r.spid) \in [Pids -> {NoStream} \cup [file : Files, sId : Sessions]]
      /\ r.spid \in Pids => StopRecord(r.spid)[r.spid] = NoStream
      /\ \A x \in Pids : x # r.spid => StopRecord(r.spid)[x] = ffmpeg[x]
  BY <1>2, StopRecordEnds DEF IInv
<1>4. \A r1 \in Record : /\ [rs EXCEPT ![n] = r1] \in Seq(Record)
                         /\ DOMAIN [rs EXCEPT ![n] = r1] = DOMAIN rs
                         /\ [rs EXCEPT ![n] = r1][n] = r1
                         /\ \A m \in DOMAIN rs : m # n => [rs EXCEPT ![n] = r1][m] = rs[m]
  BY ExceptSeq, LenProperties
<1>5. CASE r.newState = "STREAM"
  <2> DEFINE r1 == [CarriedOut(r, "STREAM") EXCEPT !.spid = p]
  <2>1. r1 \in Record /\ r1.newState = "PREVIOUS" /\ r1.recordName = r.recordName
        /\ r1.spid = p /\ r1.state = "STREAM"
    BY <1>1 DEF CarriedOut, Record
  <2>2. /\ ffmpeg' = [StopRecord(r.spid) EXCEPT ![p] = [file |-> r.recordName, sId |-> r.sId]]
        /\ records' = [rs EXCEPT ![n] = r1]
    BY <1>5 DEF SetRecordState
  <2> HIDE DEF r1
  <2>3. TypeOK'
    BY <1>1, <1>2, <1>3, <1>4, <1>5, <2>1, <2>2 DEF IInv, TypeOK
  <2>4. OneRecordPerFile'
    BY <1>4, <2>1, <2>2 DEF OneRecordPerFile
  <2>5. \A x \in Pids : x # p => ffmpeg'[x] = NoStream \/ (x # r.spid /\ ffmpeg'[x] = ffmpeg[x])
    BY <1>1, <1>3, <2>2
  <2>6. FreshPid'
    BY <1>1, <2>5 DEF IInv, FreshPid, Pids
  <2>7. NoStrayStream'
    <3> SUFFICES ASSUME NEW x \in Pids, ffmpeg'[x] # NoStream
                 PROVE  \E m \in DOMAIN records' : /\ records'[m].spid = x
                                                   /\ records'[m].state = "STREAM"
                                                   /\ records'[m].recordName = ffmpeg'[x].file
      BY DEF NoStrayStream, Alive
    <3>1. CASE x = p
      <4>1. ffmpeg'[p].file = r.recordName
        BY <1>1, <1>3, <2>2
      <4> QED  BY <1>4, <2>1, <2>2, <3>1, <4>1
    <3>2. CASE x # p
      <4>1. x # r.spid /\ ffmpeg'[x] = ffmpeg[x]
        BY <2>5, <3>2
      <4>2. PICK m \in DOMAIN records : /\ records[m].spid = x /\ records[m].state = "STREAM"
                                        /\ records[m].recordName = ffmpeg[x].file
        BY <4>1 DEF IInv, NoStrayStream, Alive
      <4>3. m # n
        BY <4>1, <4>2
      <4> QED  BY <1>4, <2>1, <2>2, <4>1, <4>2, <4>3
    <3> QED  BY <3>1, <3>2
  <2> QED  BY <2>3, <2>4, <2>6, <2>7 DEF IInv
<1>6. CASE r.newState = "STOP"
  <2> DEFINE r1 == CarriedOut(r, "STOP")
  <2>1. r1 \in Record /\ r1.newState = "PREVIOUS" /\ r1.recordName = r.recordName
    BY DEF CarriedOut, Record
  <2>2. ffmpeg' = StopRecord(r.spid) /\ records' = [rs EXCEPT ![n] = r1]
    BY <1>6 DEF SetRecordState
  <2> HIDE DEF r1
  <2>3. TypeOK'
    BY <1>1, <1>3, <1>4, <2>1, <2>2 DEF IInv, TypeOK
  <2>4. OneRecordPerFile'
    BY <1>4, <2>1, <2>2 DEF OneRecordPerFile
  <2>5. \A x \in Pids : ffmpeg'[x] = NoStream \/ (x # r.spid /\ ffmpeg'[x] = ffmpeg[x])
    BY <1>3, <2>2
  <2>6. FreshPid'
    BY <1>1, <2>5 DEF IInv, FreshPid, Pids
  <2>7. NoStrayStream'
    BY <1>4, <2>1, <2>2, <2>5 DEF IInv, NoStrayStream, Alive
  <2> QED  BY <2>3, <2>4, <2>6, <2>7 DEF IInv
<1>7. CASE r.newState = "PREVIOUS"
  <2>1. records' = rs /\ ffmpeg' = ffmpeg
    BY <1>7 DEF SetRecordState
  <2>2. TypeOK'
    BY <1>1, <1>7, <2>1 DEF IInv, TypeOK
  <2>3. OneRecordPerFile'
    BY <2>1 DEF OneRecordPerFile
  <2>4. FreshPid'
    BY <1>1, <2>1 DEF IInv, FreshPid, Pids
  <2>5. NoStrayStream'
    BY <2>1 DEF IInv, NoStrayStream, Alive
  <2> QED  BY <2>2, <2>3, <2>4, <2>5 DEF IInv
<1> QED  BY <1>5, <1>6, <1>7 DEF Record

-----------------------------------------------------------------------------
\* A request to see a file keeps the invariant.
LEMMA ViewInv ==
    ASSUME IInv, NEW f \in Files, NEW s \in Sessions, View(f, s)
    PROVE  IInv'
<1>1. PICK n : n = AddedIndex(f)
  OBVIOUS
<1>2. PICK rs : rs = Added(f)
  OBVIOUS
<1>3. CASE n = 0
  BY <1>1, <1>3, RequestAssumption DEF View, Request, IInv, TypeOK, OneRecordPerFile, FreshPid,
      NoStrayStream, Alive, Pids
<1>4. CASE n # 0
  <2> DEFINE r == [WithNewState(rs[n], "STREAM") EXCEPT !.sId = s]
             rs1 == [rs EXCEPT ![n] = r]
  <2>1. /\ rs \in Seq(Record) /\ n \in DOMAIN rs
        /\ DOMAIN records \subseteq DOMAIN rs
        /\ \A m \in DOMAIN records : rs[m] = records[m]
        /\ \A m \in DOMAIN rs \ DOMAIN records : 
              m = Len(records) + 1 /\ rs[m] = NewRecord(f) /\ Index(records, f) = 0
    BY <1>1, <1>2, <1>4, AddedRecords DEF IInv
  <2>2. rs[n] \in Record
    BY <2>1, ElementOfSeq, LenProperties
  <2>3. r \in Record /\ r.sId = s /\ r.recordName = rs[n].recordName
        /\ r.state = rs[n].state /\ r.spid = rs[n].spid
    BY <2>2 DEF WithNewState, Record
  <2> HIDE DEF r
  <2>4. /\ rs1 \in Seq(Record) /\ DOMAIN rs1 = DOMAIN rs /\ rs1[n] = r
        /\ \A m \in DOMAIN rs : m # n => rs1[m] = rs[m]
    BY <2>1, <2>3, ExceptSeq, LenProperties
  <2>5. \A m \in DOMAIN rs : rs[m].newState = "PREVIOUS" /\ rs[m].recordName \in asked'
    BY <2>1 DEF View, Request, IInv, TypeOK, OneRecordPerFile, NewRecord
  <2>6. \A m1, m2 \in DOMAIN rs : rs[m1].recordName = rs[m2].recordName => m1 = m2
    BY <2>1, IndexFinds DEF IInv, OneRecordPerFile, NewRecord
  <2>7. SetRecordState(rs1, n, requests + 1)
    BY <1>1, <1>2, <1>4 DEF View, r
  <2>8. PICK rs2 : rs2 = rs1
    OBVIOUS
  <2>9. PICK r2 : r2 = r
    OBVIOUS
  <2>10. /\ requests < MaxRequests /\ requests' = requests + 1
         /\ asked \subseteq asked' /\ asked' \subseteq Files /\ UNCHANGED onDisk
    BY DEF View, Request, IInv, TypeOK
  <2> HIDE DEF rs1
  <2>11. /\ rs2 \in Seq(Record) /\ n \in DOMAIN rs2 /\ r2 \in Record
         /\ \A m \in DOMAIN records : m \in DOMAIN rs2 /\ (m # n => rs2[m] = records[m])
         /\ \A m \in DOMAIN rs2 : m # n => rs2[m].newState = "PREVIOUS"
         /\ \A m \in DOMAIN rs2 : rs2[m].recordName \in asked'
         /\ rs2[n] = r2 /\ (r2.newState = "STREAM" => r2.sId \in Sessions)
    BY <2>1, <2>3, <2>4, <2>5, <2>8, <2>9
  <2>12. \A m1, m2 \in DOMAIN rs2 : rs2[m1].recordName = rs2[m2].recordName => m1 = m2
    BY <2>3, <2>4, <2>6, <2>8
  <2>13. n \in DOMAIN records => /\ r2.spid = records[n].spid /\ r2.state = records[n].state
                                 /\ r2.recordName = records[n].recordName
    BY <2>1, <2>3, <2>9
  <2> QED  BY <2>7, <2>8, <2>10, <2>11, <2>12, <2>13, SetRecordStateInv
<1> QED  BY <1>3, <1>4

\* A request to stop a file keeps the invariant.
LEMMA StopInv ==
    ASSUME IInv, NEW f \in Files, Stop(f)
    PROVE  IInv'
<1>1. PICK n : n = Index(records, f)
  OBVIOUS
<1>2. CASE n = 0
  BY <1>1, <1>2, RequestAssumption DEF Stop, Request, IInv, TypeOK, OneRecordPerFile, FreshPid,
      NoStrayStream, Alive, Pids
<1>3. CASE n # 0
  <2>1. n \in DOMAIN records /\ records[n] \in Record
    BY <1>1, <1>3, IndexFinds, ElementOfSeq, LenProperties DEF IInv, TypeOK
  <2>2. PICK r : r = WithNewState(records[n], "STOP")
    OBVIOUS
  <2>3. /\ r \in Record /\ r.recordName = records[n].recordName /\ r.newState # "STREAM"
        /\ r.state = records[n].state /\ r.spid = records[n].spid
    BY <2>1, <2>2 DEF WithNewState, Record
  <2>4. PICK rs : rs = [records EXCEPT ![n] = r]
    OBVIOUS
  <2>5. /\ rs \in Seq(Record) /\ DOMAIN rs = DOMAIN records /\ rs[n] = r
        /\ \A m \in DOMAIN rs : m # n => rs[m] = records[m]
    BY <2>1, <2>3, <2>4, ExceptSeq, LenProperties DEF IInv, TypeOK
  <2>6. SetRecordState(rs, n, requests + 1)
    BY <1>1, <1>3, <2>2, <2>4 DEF Stop
  <2>7. /\ requests < MaxRequests /\ requests' = requests + 1
        /\ asked \subseteq asked' /\ asked' \subseteq Files /\ UNCHANGED onDisk
    BY DEF Stop, Request, IInv, TypeOK
  <2>8. /\ \A m \in DOMAIN rs : m # n => rs[m].newState = "PREVIOUS"
        /\ \A m \in DOMAIN rs : rs[m].recordName \in asked'
        /\ \A m1, m2 \in DOMAIN rs : rs[m1].recordName = rs[m2].recordName => m1 = m2
    BY <2>3, <2>5, <2>7 DEF IInv, TypeOK, OneRecordPerFile
  <2> QED  BY <2>1, <2>3, <2>5, <2>6, <2>7, <2>8, SetRecordStateInv
<1> QED  BY <1>2, <1>3

\* The invariant holds initially and every step keeps it.
LEMMA Inductive == Spec => []IInv
<1>1. Init => IInv
  BY RequestAssumption DEF Init, IInv, TypeOK, OneRecordPerFile, FreshPid, NoStrayStream, Alive
<1>2. IInv /\ [Next]_vars => IInv'
  <2> SUFFICES ASSUME IInv, [Next]_vars PROVE IInv'
    OBVIOUS
  <2>1. CASE \E f \in Files : Stop(f)
    BY <2>1, StopInv
  <2>2. CASE \E f \in Files : Change(f)
    BY <2>2, RequestAssumption DEF Change, IInv, TypeOK, OneRecordPerFile, FreshPid,
        NoStrayStream, Alive, Pids
  <2>3. CASE \E f \in Files, s \in Sessions : View(f, s)
    BY <2>3, ViewInv
  <2>4. CASE \E p \in Pids : Ends(p)
    BY <2>4 DEF Ends, IInv, TypeOK, OneRecordPerFile, FreshPid, NoStrayStream, Alive
  <2>5. CASE UNCHANGED vars
    BY <2>5 DEF vars, IInv, TypeOK, OneRecordPerFile, FreshPid, NoStrayStream, Alive
  <2> QED  BY <2>1, <2>2, <2>3, <2>4, <2>5 DEF Next
<1> QED  BY <1>1, <1>2, PTL DEF Spec

-----------------------------------------------------------------------------
\* Every variable keeps its type, and between two requests nothing is pending.
THEOREM TypeCorrect == Spec => []TypeOK
<1>1. IInv => TypeOK
  BY DEF IInv
<1> QED  BY <1>1, Inductive, PTL

\* Every ffmpeg that streams a file is the one its record remembers.
THEOREM NoStray == Spec => []NoStrayStream
<1>1. IInv => NoStrayStream
  BY DEF IInv
<1> QED  BY <1>1, Inductive, PTL

\* A request to stop a file leaves no process that streams it: the record of
\* the file is the only one that can remember such a process.
THEOREM StopEndsStreams == Spec => StopStops
<1>1. IInv => [\A f \in Files : Stop(f) => \A p \in Pids : ffmpeg'[p].file # f]_vars
  <2> SUFFICES ASSUME IInv, NEW f \in Files, Stop(f), NEW p \in Pids
               PROVE  ffmpeg'[p].file # f
    OBVIOUS
  <2>1. PICK n : n = Index(records, f)
    OBVIOUS
  <2>2. NoStream.file # f
    BY FileAssumption DEF NoStream
  <2>3. CASE n = 0
    <3>1. \A m \in DOMAIN records : records[m].recordName # f
      <4>1. 0 \notin DOMAIN records
        BY LenProperties DEF IInv, TypeOK
      <4> QED  BY <2>1, <2>3, <4>1, IndexFinds
    <3>2. ffmpeg[p].file # f
      BY <2>2, <3>1 DEF IInv, NoStrayStream, Alive
    <3>3. ffmpeg' = ffmpeg
      BY <2>1, <2>3 DEF Stop
    <3> QED  BY <3>2, <3>3
  <2>4. CASE n # 0
    <3>1. /\ n \in DOMAIN records /\ records[n] \in Record /\ records[n].recordName = f
          /\ records[n].newState = "PREVIOUS"
      BY <2>1, <2>4, IndexFinds, ElementOfSeq, LenProperties DEF IInv, TypeOK
    <3>2. \A x \in Pids : ffmpeg[x].file = f => 
              records[n].spid = x /\ records[n].state = "STREAM"
      BY <2>2, <3>1 DEF IInv, OneRecordPerFile, NoStrayStream, Alive
    <3>3. PICK r : r = WithNewState(records[n], "STOP")
      OBVIOUS
    <3>4. r.spid = records[n].spid /\ r.spid \in Pids \cup {NoPid}
      BY <3>1, <3>3 DEF WithNewState, Record
    <3>5. SetRecordState([records EXCEPT ![n] = r], n, requests + 1)
      BY <2>1, <2>4, <3>3 DEF Stop
    <3>6. [records EXCEPT ![n] = r][n] = r
      BY <3>1
    <3>7. CASE records[n].state = "STREAM"
      <4>1. r.newState = "STOP"
        BY <3>1, <3>3, <3>7 DEF WithNewState, Record
      <4>2. ffmpeg' = StopRecord(r.spid)
        BY <3>5, <3>6, <4>1 DEF SetRecordState
      <4> QED  BY <2>2, <3>2, <3>4, <4>2, StopRecordEnds DEF IInv
    <3>8. CASE records[n].state # "STREAM"
      <4>1. r.newState = "PREVIOUS"
        BY <3>1, <3>3, <3>8 DEF WithNewState, Record
      <4>2. ffmpeg' = ffmpeg
        BY <3>5, <3>6, <4>1 DEF SetRecordState
      <4> QED  BY <3>2, <3>8, <4>2
    <3> QED  BY <3>7, <3>8
  <2> QED  BY <2>3, <2>4
<1> QED  BY <1>1, Inductive, PTL DEF StopStops

\* The first request for an existing file is carried out at once and under the
\* session it names: the record is new, so no other state stands in its way.
THEOREM ViewStartsStream == Spec => ViewShows
<1>1. IInv => [\A f \in Files, s \in Sessions :
                  (View(f, s) /\ f \in onDisk /\ f \notin asked) =>
                      \E p \in Pids : ffmpeg'[p] = [file |-> f, sId |-> s]]_vars
  <2> SUFFICES ASSUME IInv, NEW f \in Files, NEW s \in Sessions, View(f, s),
                      f \in onDisk, f \notin asked
               PROVE  \E p \in Pids : ffmpeg'[p] = [file |-> f, sId |-> s]
    OBVIOUS
  <2>1. Index(records, f) = 0
    BY IndexFinds DEF IInv, OneRecordPerFile
  <2>2. /\ AddedIndex(f) = Len(records) + 1 /\ AddedIndex(f) # 0
        /\ Added(f) = Append(records, NewRecord(f))
    BY <2>1, LenProperties DEF AddedIndex, Added, IInv, TypeOK
  <2>3. PICK n : n = AddedIndex(f)
    OBVIOUS
  <2>4. PICK rs : rs = Added(f)
    OBVIOUS
  <2>5. rs \in Seq(Record) /\ n \in DOMAIN rs /\ rs[n] = NewRecord(f)
    BY <2>2, <2>3, <2>4, AddedRecords, LenProperties DEF IInv, TypeOK
  <2>6. PICK r : r = [WithNewState(rs[n], "STREAM") EXCEPT !.sId = s]
    OBVIOUS
  <2>7. r.newState = "STREAM" /\ r.recordName = f /\ r.sId = s /\ r.spid = NoPid
    BY <2>5, <2>6 DEF WithNewState, NewRecord
  <2>8. SetRecordState([rs EXCEPT ![n] = r], n, requests + 1)
    BY <2>2, <2>3, <2>4, <2>6 DEF View
  <2>9. [rs EXCEPT ![n] = r][n] = r
    BY <2>5
  <2>10. ffmpeg' = [StopRecord(NoPid) EXCEPT ![requests + 1] = [file |-> f, sId |-> s]]
    BY <2>7, <2>8, <2>9 DEF SetRecordState
  <2>11. requests + 1 \in Pids
    BY RequestAssumption DEF View, Request, IInv, TypeOK, Pids
  <2> QED  BY <2>10, <2>11, StopRecordEnds DEF IInv
<1> QED  BY <1>1, Inductive, PTL DEF ViewShows
=============================================================================
