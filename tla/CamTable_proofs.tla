-------------------------- MODULE CamTable_proofs ----------------------------
(***************************************************************************)
(* Proofs about CamTable for any set of cameras that fits into the array   *)
(* with a place to spare, any number of processes, events and commands, as *)
(* long as no camera is unplugged: from then on the table loses entries    *)
(* and fills with others (see TableGovernsFfmpeg and NoOverrun).           *)
(***************************************************************************)
EXTENDS CamTable, FiniteSetTheorems, SequenceTheorems, TLAPS

\* The array has a place more than there are device names.
Room == Cardinality(Cams) < MaxCams

\* Entry x is in use.
Used(x) == csl[x].cam # NoName

\* The names of the entries in use.
Names == {csl[x].cam : x \in {y \in Slots : Used(y)}}

\* The entries in use come first, and no camera has two of them.
Shape ==
    /\ \A x \in Slots : Used(x) <=> x < camCount
    /\ \A x, y \in Slots : Used(x) /\ csl[x].cam = csl[y].cam => x = y

\* What getCameras has read in /dev, and record has copied from the table.
Copies ==
    /\ \A x \in Slots : Used(x) => csl[x].cam \in plugged
    /\ pc \in {"prune", "add"} =>
           /\ \A n \in 1 .. Len(cams) : cams[n] \in plugged
           /\ \A x \in Slots : Used(x) => \E n \in 1 .. Len(cams) : cams[n] = csl[x].cam
           /\ Len(cams) <= Cardinality(Cams)
    /\ pc = "prune" => i <= camCount
    /\ pc = "add" =>
           /\ i \in 1 .. Len(cams) + 1
           /\ \A n \in 1 .. i - 1 : \E x \in Slots :
                  /\ Used(x)
                  /\ csl[x].cam = cams[n] \/ <<cams[n], csl[x].cam>> \in Prefix
    /\ pc = "record" =>
           /\ i \in 1 .. camCount + 1
           /\ Len(cams) = camCount
           /\ \A n \in 1 .. camCount : cams[n] = csl[n - 1].cam

\* Every ffmpeg is the one of the entry that holds its pid, and a state that
\* entry is to take is not the one it has.
Governed ==
    /\ \A p \in Pids : Alive(p) => \E x \in Slots : csl[x].pid = p
    /\ \A x \in Slots : Alive(csl[x].pid) =>
           /\ Used(x)
           /\ csl[x].cam = ffmpeg[csl[x].pid].cam
           /\ csl[x].state = ffmpeg[csl[x].pid].mode
           /\ csl[x].newState # csl[x].state

IInv == TypeOK /\ Shape /\ Copies /\ Governed

\* Entry x waits to be switched to streaming.
ToStream(x) == Used(x) /\ csl[x].newState = "STREAM_N_RECORD"

\* A command to stream is carried out before the next pass begins, and a pass
\* in which the connection failed leaves every entry in state RECORD.
Falling ==
    /\ (\E x \in Slots : ToStream(x)) =>
           \/ pc = "reply" /\ cs = "NEW" /\ nodes = 1
           \/ pc = "switch" /\ cs = "NEW"
           \/ pc = "record"
    /\ pc = "record" => \A x \in Slots : ToStream(x) => x >= i - 1
    /\ failed =>
           /\ pc \in {"switch", "record", "top"}
           /\ \A x \in Slots : ~ToStream(x)
           /\ pc = "switch" => cs = "NEW"
           /\ pc = "record" => back = "top"
           /\ pc # "switch" => ps = "NEW"
           /\ \A x \in Slots : Used(x) =>
                  \/ csl[x].state = "RECORD"
                  \/ /\ csl[x].newState = "RECORD"
                     /\ pc = "switch" \/ (pc = "record" /\ x >= i - 1)

-----------------------------------------------------------------------------
(* Lemmas about the operators of the table                                 *)

\* The number of cameras is a number.
LEMMA CamsFinite == IsFiniteSet(Cams) /\ Cardinality(Cams) \in Nat
BY CamAssumption, FS_CardinalityType

\* A set of cameras has no more members than there are cameras.
LEMMA SomeCams ==
    ASSUME NEW C \in SUBSET Cams
    PROVE  IsFiniteSet(C) /\ Cardinality(C) \in Nat /\ Cardinality(C) <= Cardinality(Cams)
BY CamsFinite, FS_Subset, FS_CardinalityType

\* The scans visit exactly the entries in use, which camCount counts.
LEMMA ScannedUsed ==
    ASSUME TypeOK, Shape
    PROVE  /\ Scanned = {x \in Slots : Used(x)}
           /\ Scanned = Counted
           /\ Scanned = 0 .. camCount - 1
           /\ Cardinality(Scanned) = camCount
<1> USE SizeAssumption DEF TypeOK, Slots
<1>1. \A x \in Slots : x \in Scanned <=> x < camCount
  <2> TAKE x \in Slots
  <2>1. x \in Int /\ camCount \in Int /\ x \in 0 .. x /\ 0 .. x \subseteq Slots
    OBVIOUS
  <2>2. \A y \in 0 .. x : x < camCount => y < camCount
    BY <2>1
  <2>3. \A y \in 0 .. x : csl[y].cam # NoName <=> y < camCount
    BY <2>1 DEF Shape, Used
  <2> QED  BY <2>1, <2>2, <2>3 DEF Scanned
<1>2. Scanned = Counted /\ Scanned = {x \in Slots : Used(x)}
  BY <1>1 DEF Scanned, Counted, Shape
<1>3. Scanned = 0 .. camCount - 1
  BY <1>2 DEF Counted
<1>4. Cardinality(0 .. camCount - 1) = camCount
  BY FS_Interval
<1> QED  BY <1>2, <1>3, <1>4

\* A table without doubles has no more entries than there are cameras.
LEMMA FewEntries ==
    ASSUME TypeOK, Shape
    PROVE  camCount <= Cardinality(Cams)
<1> DEFINE f == [x \in Scanned |-> csl[x].cam]
<1>1. \A x \in Scanned : x \in Slots /\ Used(x) /\ csl[x].cam \in Cams
  BY ScannedUsed DEF TypeOK, Entry, Used
<1>2. f \in Injection(Scanned, Cams)
  <2>1. f \in [Scanned -> Cams]
    BY <1>1
  <2>2. \A x, y \in Scanned : f[x] = f[y] => x = y
    BY <1>1 DEF Shape
  <2> HIDE DEF f
  <2> QED  BY <2>1, <2>2 DEF Injection, IsInjective
<1>3. Cardinality(Scanned) <= Cardinality(Cams)
  BY <1>2, CamsFinite, FS_Injection
<1> QED  BY <1>3, ScannedUsed

\* getCamService finds the entry of a camera that has one,
LEMMA FindUsed ==
    ASSUME TypeOK, Shape, NEW x \in Slots, Used(x)
    PROVE  Find(csl[x].cam) = x
<1>1. x \in Scanned
  BY ScannedUsed
<1>2. \A y \in Scanned : csl[y].cam = csl[x].cam => y = x
  BY ScannedUsed DEF Shape
<1>3. \A y \in 0 .. x - 1 : csl[y].cam # csl[x].cam
  BY SizeAssumption DEF Shape, Slots
<1> QED  BY <1>1, <1>2, <1>3 DEF Find

\* and nothing else.
LEMMA FindNone ==
    ASSUME TypeOK, Shape, NEW c, \A x \in Slots : Used(x) => csl[x].cam # c
    PROVE  Find(c) = -1
BY ScannedUsed DEF Find

\* What getCamService returns.
LEMMA FindRange ==
    ASSUME TypeOK, Shape, NEW c, Find(c) # -1
    PROVE  Find(c) \in Slots /\ Used(Find(c)) /\ csl[Find(c)].cam = c
<1>1. PICK x \in Slots : Used(x) /\ csl[x].cam = c
  BY FindNone
<1> QED  BY <1>1, FindUsed

\* The empty name is the name of no entry in use.
LEMMA FindNoName ==
    ASSUME TypeOK, Shape
    PROVE  Find(NoName) = -1
BY FindNone DEF Used

\* The kernel hands out a pid that neither runs nor is remembered.
LEMMA FreshPidIsFresh ==
    ASSUME FreshPids # {}
    PROVE  FreshPid \in Pids /\ ~Alive(FreshPid) /\ \A x \in Slots : csl[x].pid # FreshPid
BY DEF FreshPid, FreshPids

\* setStateAllCams writes pending states only, and none that is the present one.
LEMMA AllCamsTyped ==
    ASSUME TypeOK, NEW st \in Modes
    PROVE  /\ WithStateAllCams(st) \in [Slots -> Entry]
           /\ \A x \in Slots :
                 /\ WithStateAllCams(st)[x].cam = csl[x].cam
                 /\ WithStateAllCams(st)[x].pid = csl[x].pid
                 /\ WithStateAllCams(st)[x].state = csl[x].state
                 /\ WithStateAllCams(st)[x].SId = csl[x].SId
                 /\ WithStateAllCams(st)[x].newState =
                       IF x \in Counted /\ csl[x].state # st THEN st ELSE csl[x].newState
BY DEF TypeOK, WithStateAllCams, Entry, Counted

\* A function on 1 .. n is a sequence of that length.
LEMMA FunctionSeq ==
    ASSUME NEW S, NEW n \in Nat, NEW s \in [1 .. n -> S]
    PROVE  s \in Seq(S) /\ Len(s) = n
<1>1. s \in Seq(S)
  BY SeqDef
<1>2. Len(s) \in Nat /\ DOMAIN s = 1 .. Len(s)
  BY <1>1, LenProperties
<1>3. 1 .. Len(s) = 1 .. n
  BY <1>2
<1> QED  BY <1>1, <1>2, <1>3

\* readdir lists every device, and nothing else.
LEMMA ListingAll ==
    ASSUME NEW C \in SUBSET Cams, NEW s \in Listings(C)
    PROVE  /\ s \in Seq(C) /\ Len(s) = Cardinality(C)
           /\ \A n \in 1 .. Len(s) : s[n] \in C
           /\ \A c \in C : \E n \in 1 .. Len(s) : s[n] = c
<1>1. IsFiniteSet(C) /\ Cardinality(C) \in Nat
  BY SomeCams
<1>2. /\ s \in [1 .. Cardinality(C) -> C]
      /\ \A m, n \in 1 .. Cardinality(C) : s[m] = s[n] => m = n
  BY DEF Listings
<1>3. s \in Seq(C) /\ Len(s) = Cardinality(C)
  BY <1>1, <1>2, FunctionSeq
<1>4. s \in Injection(1 .. Cardinality(C), C)
  BY <1>2 DEF Injection, IsInjective
<1>5. Cardinality(1 .. Cardinality(C)) = Cardinality(C)
  BY <1>1, FS_Interval
<1>6. s \in Surjection(1 .. Cardinality(C), C)
  BY <1>1, <1>4, <1>5, FS_Injection
<1> QED  BY <1>2, <1>3, <1>6 DEF Surjection

-----------------------------------------------------------------------------
(* What the steps that rewrite no name, pid or state of the table keep     *)

\* The rows of a table have camera, pid and state of those of csl, and no
\* pending state that is the present one, unless csl has.
Rows(tab) ==
    \A x \in Slots :
        /\ tab[x].cam = csl[x].cam
        /\ tab[x].pid = csl[x].pid
        /\ tab[x].state = csl[x].state
        /\ tab[x].newState = csl[x].newState \/ tab[x].newState # csl[x].state

\* A step that keeps the rows of the table.
SameRows == camCount' = camCount /\ Rows(csl')

\* The shape of the table depends on the names alone.
LEMMA KeepShape ==
    ASSUME Shape, SameRows
    PROVE  Shape'
BY DEF Shape, SameRows, Rows, Used

\* Ending a process frees an entry, and starts nothing.
LEMMA KeepGoverned ==
    ASSUME TypeOK, Governed, SameRows, \A p \in Pids : ffmpeg'[p] \in {ffmpeg[p], NoJob}
    PROVE  Governed'
<1>1. \A p \in Pids : Alive(p)' => Alive(p) /\ ffmpeg'[p] = ffmpeg[p]
  BY DEF Alive
<1>2. \A p \in Pids : Alive(p)' => \E x \in Slots : csl'[x].pid = p
  BY <1>1 DEF Governed, SameRows, Rows
<1>3. ASSUME NEW x \in Slots, Alive(csl[x].pid)'
      PROVE  /\ Used(x)'
             /\ csl'[x].cam = ffmpeg'[csl'[x].pid].cam
             /\ csl'[x].state = ffmpeg'[csl'[x].pid].mode
             /\ csl'[x].newState # csl'[x].state
  <2>1. csl'[x].pid = csl[x].pid /\ csl[x].pid \in Pids
    BY <1>3 DEF SameRows, Rows, Alive
  <2>2. Alive(csl[x].pid) /\ ffmpeg'[csl[x].pid] = ffmpeg[csl[x].pid]
    BY <1>1, <1>3, <2>1 DEF Alive
  <2> QED  BY <2>1, <2>2 DEF Governed, SameRows, Rows, Used
<1> QED  BY <1>2, <1>3 DEF Governed

\* A step that stays where it is, or goes to no loop over names, keeps what
\* the names are copies of.
LEMMA KeepCopies ==
    ASSUME TypeOK, Copies, SameRows, plugged \subseteq plugged', UNCHANGED <<i, cams>>,
           pc' = pc \/ pc' \notin {"prune", "add", "record"}
    PROVE  Copies'
<1>1. \A x \in Slots : Used(x)' <=> Used(x)
  BY DEF SameRows, Rows, Used
<1>2. CASE pc' \notin {"prune", "add", "record"}
  BY <1>1, <1>2 DEF Copies, SameRows, Rows
<1>3. CASE pc' = pc
  <2>1. \A x \in Slots : Used(x)' => csl'[x].cam \in plugged'
    BY <1>1 DEF Copies, SameRows, Rows
  <2>2. pc' \in {"prune", "add"} =>
           /\ \A n \in 1 .. Len(cams') : cams'[n] \in plugged'
           /\ \A x \in Slots : Used(x)' => \E n \in 1 .. Len(cams') : cams'[n] = csl'[x].cam
           /\ Len(cams') <= Cardinality(Cams)
    BY <1>1, <1>3 DEF Copies, SameRows, Rows
  <2>3. pc' = "prune" => i' <= camCount'
    BY <1>3 DEF Copies, SameRows, Rows
  <2>4. pc' = "add" =>
           /\ i' \in 1 .. Len(cams') + 1
           /\ \A n \in 1 .. i' - 1 : \E x \in Slots :
                  /\ Used(x)'
                  /\ csl'[x].cam = cams'[n] \/ <<cams'[n], csl'[x].cam>> \in Prefix
    <3> SUFFICES ASSUME pc = "add"
                 PROVE  /\ i \in 1 .. Len(cams) + 1
                        /\ \A n \in 1 .. i - 1 : \E x \in Slots :
                              /\ Used(x)'
                              /\ csl'[x].cam = cams[n] \/ <<cams[n], csl'[x].cam>> \in Prefix
      BY <1>3
    <3>1. i \in 1 .. Len(cams) + 1
      BY DEF Copies
    <3>2. ASSUME NEW n \in 1 .. i - 1
          PROVE  \E x \in Slots :
                     /\ Used(x)'
                     /\ csl'[x].cam = cams[n] \/ <<cams[n], csl'[x].cam>> \in Prefix
      <4>1. PICK x \in Slots : Used(x) /\ (csl[x].cam = cams[n] \/ <<cams[n], csl[x].cam>> \in Prefix)
        BY <3>2 DEF Copies
      <4> QED  BY <4>1, <1>1 DEF SameRows, Rows
    <3> QED  BY <3>1, <3>2
  <2>5. pc' = "record" =>
           /\ i' \in 1 .. camCount' + 1
           /\ Len(cams') = camCount'
           /\ \A n \in 1 .. camCount' : cams'[n] = csl'[n - 1].cam
    <3> SUFFICES ASSUME pc = "record"
                 PROVE  /\ i \in 1 .. camCount + 1
                        /\ Len(cams) = camCount
                        /\ \A n \in 1 .. camCount : cams[n] = csl'[n - 1].cam
      BY <1>3 DEF SameRows, Rows
    <3>1. \A n \in 1 .. camCount : n - 1 \in Slots
      BY SizeAssumption DEF TypeOK, Slots
    <3> QED  BY <3>1 DEF Copies, SameRows, Rows
  <2> QED  BY <2>1, <2>2, <2>3, <2>4, <2>5 DEF Copies
<1> QED  BY <1>2, <1>3

\* record() begins with a copy of the names of the table.
LEMMA BeginCopies ==
    ASSUME TypeOK, Copies, SameRows, csl' \in [Slots -> Entry], plugged \subseteq plugged',
           NEW ret \in {"top", "request"}, BeginRecord(ret)
    PROVE  /\ Copies'
           /\ cams' \in Seq(Cams \cup {NoName}) /\ i' \in 0 .. MaxCams + 1 /\ back' = ret
<1> USE SizeAssumption
<1>1. camCount \in Nat /\ camCount <= MaxCams
  BY DEF TypeOK
<1>2. cams' \in [1 .. camCount -> Cams \cup {NoName}]
  <2>1. \A n \in 1 .. camCount : csl'[n - 1].cam \in Cams \cup {NoName}
    BY <1>1 DEF Slots, Entry
  <2> QED  BY <2>1 DEF BeginRecord
<1>3. cams' \in Seq(Cams \cup {NoName}) /\ Len(cams') = camCount
  BY <1>1, <1>2, FunctionSeq
<1>4. \A n \in 1 .. camCount : cams'[n] = csl'[n - 1].cam
  BY DEF BeginRecord
<1>5. i' = 1 /\ pc' = "record" /\ back' = ret /\ camCount' = camCount
  BY DEF BeginRecord, SameRows, Rows
<1>6. \A x \in Slots : Used(x)' => csl'[x].cam \in plugged'
  BY DEF Copies, SameRows, Rows, Used
<1>7. Copies'
  BY <1>1, <1>3, <1>4, <1>5, <1>6 DEF Copies
<1> QED  BY <1>1, <1>3, <1>5, <1>7

-----------------------------------------------------------------------------
(* The commands of the server                                              *)

\* setNewCamState writes one pending state, and none that is the present one.
LEMMA NewStateRows ==
    ASSUME TypeOK, Shape, NEW c, NEW st \in Modes, NEW tab \in [Slots -> Entry], Rows(tab)
    PROVE  WithNewState(tab, c, st) \in [Slots -> Entry] /\ Rows(WithNewState(tab, c, st))
<1>1. CASE ~Changes(c, st)
  BY <1>1 DEF WithNewState
<1>2. CASE Changes(c, st)
  <2>1. PICK f \in Slots : f = Find(c) /\ csl[f].state # st
    BY <1>2, FindRange DEF Changes
  <2>2. PICK new : new = [tab EXCEPT ![f].newState = st]
    OBVIOUS
  <2>3. WithNewState(tab, c, st) = new
    BY <1>2, <2>1, <2>2 DEF WithNewState
  <2>4. \A x \in Slots : x # f => new[x] = tab[x]
    BY <2>2
  <2>5. new[f] = [tab[f] EXCEPT !.newState = st]
    BY <2>2
  <2>6. new[f] \in Entry
    BY <2>5 DEF Entry
  <2>7. new \in [Slots -> Entry]
    BY <2>2, <2>4, <2>6
  <2>8. /\ new[f].cam = tab[f].cam /\ new[f].pid = tab[f].pid
        /\ new[f].state = tab[f].state /\ new[f].newState = st
    BY <2>5 DEF Entry
  <2>9. Rows(new)
    BY <2>1, <2>4, <2>8 DEF Rows
  <2> QED  BY <2>3, <2>7, <2>9
<1> QED  BY <1>1, <1>2

\* setSId writes the session of some entries, and nothing else.
LEMMA SIdRows ==
    ASSUME TypeOK, NEW C, NEW s \in Sessions
    PROVE  WithSId(C, s) \in [Slots -> Entry] /\ Rows(WithSId(C, s))
BY DEF TypeOK, WithSId, Entry, Rows

\* setStateAllCams keeps the rows.
LEMMA AllCamsRows ==
    ASSUME TypeOK, NEW st \in Modes
    PROVE  WithStateAllCams(st) \in [Slots -> Entry] /\ Rows(WithStateAllCams(st))
BY AllCamsTyped DEF Rows

\* A command for every camera writes pending states and sessions.
LEMMA ViewAllRows ==
    ASSUME TypeOK, NEW C, NEW s \in Sessions, NEW tab,
           tab = [x \in Slots |-> [WithStateAllCams(Viewing)[x]
                                      EXCEPT !.SId = WithSId(C, s)[x].SId]]
    PROVE  tab \in [Slots -> Entry] /\ Rows(tab)
<1>1. PICK one \in [Slots -> Entry] : one = WithStateAllCams(Viewing) /\ Rows(one)
  BY AllCamsRows DEF Viewing, Modes
<1>2. PICK two \in [Slots -> Entry] : two = WithSId(C, s)
  BY SIdRows
<1>3. \A x \in Slots : tab[x] = [one[x] EXCEPT !.SId = two[x].SId]
  BY <1>1, <1>2
<1>4. ASSUME NEW x \in Slots
      PROVE  /\ tab[x] \in Entry
             /\ tab[x].cam = one[x].cam /\ tab[x].pid = one[x].pid
             /\ tab[x].state = one[x].state /\ tab[x].newState = one[x].newState
  <2>1. PICK e \in Entry, o \in Entry : e = one[x] /\ o = two[x]
    OBVIOUS
  <2>2. tab[x] = [e EXCEPT !.SId = o.SId]
    BY <1>3, <2>1
  <2> QED  BY <2>1, <2>2 DEF Entry
<1> QED  BY <1>1, <1>4 DEF Rows

\* One node of the answer.
LEMMA CommandStep ==
    ASSUME IInv, NEW newCs \in {"NEW", "OFF", "RECORD", "PREVIOUS"},
           NEW newCsl \in [Slots -> Entry], Rows(newCsl), Command(newCs, newCsl)
    PROVE  IInv' /\ SameRows
<1> USE DEF IInv
<1>1. SameRows
  BY DEF Command, SameRows
<1>2. TypeOK'
  BY SizeAssumption DEF TypeOK, Command
<1>3. Copies'
  BY <1>1, KeepCopies DEF Command
<1>4. \A p \in Pids : ffmpeg'[p] = ffmpeg[p]
  BY DEF Command
<1> QED  BY <1>1, <1>2, <1>3, <1>4, KeepShape, KeepGoverned

\* Every command.
LEMMA CommandsInv ==
    ASSUME IInv, Commands
    PROVE  IInv' /\ SameRows
<1> USE DEF IInv
<1>1. csl \in [Slots -> Entry] /\ Rows(csl) /\ cs \in {"NEW", "OFF", "RECORD", "PREVIOUS"}
  BY DEF TypeOK, Rows
<1>2. "RECORD" \in Modes /\ Viewing \in Modes
  BY DEF Modes, Viewing
<1>3. CASE StartVideoRecord \/ StopVideoRecord
  BY <1>1, <1>3, CommandStep DEF StartVideoRecord, StopVideoRecord
<1>4. CASE \E c \in Cams : StopVideoStream(c)
  <2>1. PICK c \in Cams : StopVideoStream(c)
    BY <1>4
  <2>2. PICK tab \in [Slots -> Entry] : tab = WithNewState(csl, c, "RECORD") /\ Rows(tab)
    BY <1>1, <1>2, NewStateRows
  <2>3. PICK new \in {"NEW", "OFF", "RECORD", "PREVIOUS"} : new = IF Changes(c, "RECORD") THEN "NEW" ELSE cs
    BY <1>1
  <2> QED  BY <2>1, <2>2, <2>3, CommandStep DEF StopVideoStream
<1>5. CASE \E s \in Sessions : \E c \in Cams : View(c, s)
  <2>1. PICK s \in Sessions, c \in Cams : View(c, s)
    BY <1>5
  <2>2. PICK set \in [Slots -> Entry] : set = WithSId({c}, s) /\ Rows(set)
    BY SIdRows
  <2>3. PICK tab \in [Slots -> Entry] : tab = WithNewState(set, c, Viewing) /\ Rows(tab)
    BY <1>2, <2>2, NewStateRows
  <2>4. PICK new \in {"NEW", "OFF", "RECORD", "PREVIOUS"} : new = IF Changes(c, Viewing) THEN "NEW" ELSE cs
    BY <1>1
  <2> QED  BY <2>1, <2>2, <2>3, <2>4, CommandStep DEF View
<1>6. CASE \E s \in Sessions : \E C \in SUBSET Cams : ViewAll(C, s)
  <2>1. PICK s \in Sessions, C \in SUBSET Cams : ViewAll(C, s)
    BY <1>6
  <2>2. PICK tab : tab = [x \in Slots |-> [WithStateAllCams(Viewing)[x]
                                              EXCEPT !.SId = WithSId(C, s)[x].SId]]
    OBVIOUS
  <2>3. tab \in [Slots -> Entry] /\ Rows(tab)
    BY <2>2, ViewAllRows
  <2>4. Command("NEW", tab)
    BY <2>1, <2>2 DEF ViewAll
  <2> QED  BY <2>3, <2>4, CommandStep
<1> QED  BY <1>3, <1>4, <1>5, <1>6 DEF Commands

-----------------------------------------------------------------------------
(* The steps of run() and systemStateChange() between the loops            *)

\* A step that keeps the rows keeps the invariant with the types and copies.
LEMMA KeepInv ==
    ASSUME IInv, SameRows, TypeOK', Copies',
           \A p \in Pids : ffmpeg'[p] \in {ffmpeg[p], NoJob}
    PROVE  IInv'
BY KeepShape, KeepGoverned DEF IInv

\* getCameras reads /dev.
LEMMA GetCamerasInv ==
    ASSUME IInv, GetCameras
    PROVE  IInv' /\ SameRows
<1> USE DEF IInv
<1>1. SameRows /\ UNCHANGED <<csl, camCount, ffmpeg, plugged>>
  BY DEF GetCameras, SameRows, Rows, table, outside
<1>2. PICK s \in Listings(plugged) : s = cams'
  BY DEF GetCameras
<1>3. plugged \in SUBSET Cams
  BY DEF TypeOK
<1>4. /\ s \in Seq(plugged) /\ Len(s) = Cardinality(plugged)
      /\ \A n \in 1 .. Len(s) : s[n] \in plugged
      /\ \A c \in plugged : \E n \in 1 .. Len(s) : s[n] = c
  BY <1>2, <1>3, ListingAll
<1>5. s \in Seq(Cams \cup {NoName})
  BY <1>3, <1>4, SeqMonotonic
<1>6. pc' = "prune" /\ i' = 0
  BY DEF GetCameras
<1>7. TypeOK'
  <2>1. cams' \in Seq(Cams \cup {NoName})
    BY <1>2, <1>5
  <2>2. camFound' \in BOOLEAN /\ failed' \in BOOLEAN
    BY DEF GetCameras
  <2>3. pc' \in Steps /\ i' \in 0 .. MaxCams + 1
    BY <1>6, SizeAssumption DEF Steps
  <2>4. UNCHANGED <<table, program, back, nodes, ffmpeg, outside>>
    BY DEF GetCameras
  <2> QED  BY <2>1, <2>2, <2>3, <2>4 DEF TypeOK, table, program, outside
<1>8. Copies'
  <2>1. Len(s) <= Cardinality(Cams)
    BY <1>3, <1>4, SomeCams
  <2>2. camCount' \in Nat
    BY <1>1 DEF TypeOK
  <2>3. \A x \in Slots : Used(x)' => csl'[x].cam \in plugged
    BY <1>1 DEF Copies, Used
  <2> QED  BY <1>1, <1>2, <1>4, <1>6, <2>1, <2>2, <2>3 DEF Copies
<1> QED  BY <1>1, <1>7, <1>8, KeepInv

\* The ends of the loops of setCams, of record() and of the answer.
LEMMA LoopEndInv ==
    ASSUME IInv, AddEnds \/ RecordEnds \/ RequestSucceeds \/ ReplyEnds
    PROVE  IInv' /\ SameRows
<1> USE DEF IInv
<1>1. csl' \in [Slots -> Entry] /\ Rows(csl')
  BY AllCamsRows DEF TypeOK, Rows, Modes, AddEnds, RecordEnds, RequestSucceeds, ReplyEnds, table
<1>2. SameRows
  BY <1>1 DEF SameRows, AddEnds, RecordEnds, RequestSucceeds, ReplyEnds, table
<1>3. TypeOK'
  <2>1. cams' \in Seq(Cams \cup {NoName})
    BY EmptySeq DEF TypeOK, AddEnds, RecordEnds, RequestSucceeds, ReplyEnds
  <2>2. pc' \in Steps /\ i' \in 0 .. MaxCams + 1 /\ cs' \in {"NEW", "OFF", "RECORD", "PREVIOUS"}
    BY SizeAssumption DEF TypeOK, Steps, AddEnds, RecordEnds, RequestSucceeds, ReplyEnds, program
  <2>3. UNCHANGED <<camCount, ps, currentIP, camFound, back, nodes, failed, ffmpeg, outside>>
    BY DEF AddEnds, RecordEnds, RequestSucceeds, ReplyEnds, table, program
  <2>4. newlyMarried' \in BOOLEAN
    BY DEF TypeOK, AddEnds, RecordEnds, RequestSucceeds, ReplyEnds, program
  <2> QED  BY <1>1, <2>1, <2>2, <2>3, <2>4 DEF TypeOK, outside
<1>4. UNCHANGED <<plugged, ffmpeg>> /\ pc' \notin {"prune", "add", "record"}
  BY DEF TypeOK, AddEnds, RecordEnds, RequestSucceeds, ReplyEnds, outside
<1>5. Copies'
  BY <1>2, <1>4 DEF Copies, SameRows, Rows, Used
<1> QED  BY <1>2, <1>3, <1>4, <1>5, KeepInv

\* The first loop of setCams is over: the second one begins at the first name.
LEMMA PruneEndsInv ==
    ASSUME IInv, PruneEnds
    PROVE  IInv' /\ SameRows
<1> USE DEF IInv
<1>1. SameRows /\ UNCHANGED <<csl, camCount, cams, ffmpeg, plugged>> /\ pc' = "add" /\ i' = 1
  BY DEF PruneEnds, SameRows, Rows, table, outside
<1>2. TypeOK'
  BY <1>1, SizeAssumption DEF TypeOK, Steps, PruneEnds, table, program, outside
<1>3. Len(cams) \in Nat
  BY LenProperties DEF TypeOK
<1>4. Copies'
  BY <1>1, <1>3 DEF Copies, Used, PruneEnds
<1> QED  BY <1>1, <1>2, <1>4, KeepInv

\* The last command is carried out again.
LEMMA RolloverInv ==
    ASSUME IInv, Rollover
    PROVE  IInv' /\ SameRows
<1> USE DEF IInv
<1>1. csl' \in [Slots -> Entry] /\ Rows(csl')
  BY AllCamsRows DEF Modes, Rollover
<1>2. SameRows
  BY <1>1 DEF SameRows, Rollover
<1>3. TypeOK'
  BY <1>1, SizeAssumption DEF TypeOK, Steps, Rollover
<1>4. Copies'
  BY <1>2, KeepCopies DEF Rollover
<1>5. UNCHANGED ffmpeg
  BY DEF Rollover
<1> QED  BY <1>2, <1>3, <1>4, <1>5, KeepInv

\* The command of the pass is carried out.
LEMMA SwitchInv ==
    ASSUME IInv, Switch
    PROVE  IInv' /\ SameRows
<1> USE DEF IInv
<1>1. SameRows /\ UNCHANGED <<csl, camCount, plugged>>
  BY DEF Switch, SameRows, Rows, outside
<1>2. UNCHANGED <<csl, camCount, cs, newlyMarried, currentIP, camFound, nodes, failed, outside>>
  BY DEF Switch
<1>3. CASE cs = "NEW"
  <2>1. ps' = "NEW" /\ UNCHANGED ffmpeg /\ BeginRecord("top")
    BY <1>3 DEF Switch
  <2>2. /\ Copies'
        /\ cams' \in Seq(Cams \cup {NoName}) /\ i' \in 0 .. MaxCams + 1 /\ back' = "top"
    BY <1>1, <2>1, BeginCopies DEF TypeOK
  <2>3. TypeOK'
    BY <1>2, <2>1, <2>2 DEF TypeOK, Steps, BeginRecord, outside
  <2> QED  BY <1>1, <2>1, <2>2, <2>3, KeepInv
<1>4. CASE cs # "NEW"
  <2>1. /\ ps' \in {ps, "OFF"} /\ pc' = "top" /\ UNCHANGED <<i, cams, back>>
        /\ ffmpeg' = ffmpeg \/ ffmpeg' = [p \in Pids |-> NoJob]
    BY <1>4 DEF Switch
  <2>2. TypeOK'
    BY <1>2, <2>1 DEF TypeOK, Steps, outside
  <2>3. Copies'
    BY <1>1, <2>1, KeepCopies
  <2> QED  BY <1>1, <2>1, <2>2, <2>3, KeepInv
<1> QED  BY <1>3, <1>4

\* The connection is lost.
LEMMA FallBackRows ==
    ASSUME IInv, FallBack
    PROVE  csl' \in [Slots -> Entry] /\ Rows(csl')
BY AllCamsRows DEF IInv, Modes, FallBack

\* The request fails.
LEMMA RequestFailsInv ==
    ASSUME IInv, RequestFails
    PROVE  IInv' /\ SameRows
<1> USE DEF IInv
<1>1. csl' \in [Slots -> Entry] /\ Rows(csl')
  BY FallBackRows DEF RequestFails
<1>2. SameRows
  BY <1>1 DEF SameRows, RequestFails
<1>3. TypeOK'
  BY <1>1, SizeAssumption DEF TypeOK, Steps, RequestFails, FallBack
<1>4. Copies'
  BY <1>2, KeepCopies DEF RequestFails, FallBack
<1>5. UNCHANGED ffmpeg
  BY DEF RequestFails
<1> QED  BY <1>2, <1>3, <1>4, <1>5, KeepInv

\* systemStateChange begins.
LEMMA ChangeInv ==
    ASSUME IInv, Change
    PROVE  IInv' /\ SameRows
<1> USE DEF IInv
<1>1. /\ nodes' = 0 /\ currentIP' = ip
      /\ UNCHANGED <<camCount, ps, newlyMarried, camFound, ffmpeg, outside>>
  BY DEF Change
<1>2. 0 \in 0 .. MaxNodes
  BY SizeAssumption
<1>3. CASE ip # currentIP
  <2>1. /\ cs' \in {"NEW", "PREVIOUS"} /\ csl' = WithStateAllCams("RECORD")
        /\ BeginRecord("request") /\ UNCHANGED failed
    BY <1>3 DEF Change
  <2>2. csl' \in [Slots -> Entry] /\ Rows(csl')
    BY <2>1, AllCamsRows DEF Modes
  <2>3. SameRows
    BY <1>1, <2>2 DEF SameRows
  <2>4. /\ Copies'
        /\ cams' \in Seq(Cams \cup {NoName}) /\ i' \in 0 .. MaxCams + 1 /\ back' = "request"
    BY <1>1, <2>1, <2>2, <2>3, BeginCopies DEF outside
  <2>5. TypeOK'
    BY <1>1, <1>2, <2>1, <2>2, <2>4 DEF TypeOK, Steps, BeginRecord, outside
  <2> QED  BY <1>1, <2>3, <2>4, <2>5, KeepInv
<1>4. CASE ip = currentIP /\ ip = NoIP
  <2>1. FallBack /\ UNCHANGED <<i, cams, back>>
    BY <1>4 DEF Change
  <2>2. csl' \in [Slots -> Entry] /\ Rows(csl')
    BY <2>1, FallBackRows
  <2>3. SameRows
    BY <1>1, <2>2 DEF SameRows
  <2>4. TypeOK'
    BY <1>1, <1>2, <2>1, <2>2 DEF TypeOK, Steps, FallBack, outside
  <2>5. Copies'
    BY <1>1, <2>1, <2>3, KeepCopies DEF FallBack, outside
  <2> QED  BY <1>1, <2>3, <2>4, <2>5, KeepInv
<1>5. CASE ip = currentIP /\ ip # NoIP
  <2>1. cs' \in {"NEW", "PREVIOUS"} /\ pc' = "request" /\ UNCHANGED <<csl, i, cams, back, failed>>
    BY <1>5 DEF Change
  <2>2. SameRows
    BY <1>1, <2>1 DEF SameRows, Rows
  <2>3. TypeOK'
    BY <1>1, <1>2, <2>1 DEF TypeOK, Steps, outside
  <2>4. Copies'
    BY <1>1, <2>1, <2>2, KeepCopies DEF outside
  <2> QED  BY <1>1, <2>2, <2>3, <2>4, KeepInv
<1> QED  BY <1>3, <1>4, <1>5

\* Processes end, cameras appear and the address changes.
LEMMA OutsideInv ==
    ASSUME IInv, ~unplugged', Outside \/ \E p \in Pids : Starve(p)
    PROVE  IInv' /\ SameRows
<1> USE DEF IInv
<1>1. UNCHANGED <<csl, camCount, program, control>>
  BY DEF Outside, Die, NewAddress, Plug, Unplug, Starve, Event, table
<1>2. SameRows
  BY <1>1 DEF SameRows, Rows
<1>3. \A p \in Pids : ffmpeg'[p] \in {ffmpeg[p], NoJob}
  BY DEF TypeOK, Outside, Die, NewAddress, Plug, Unplug, Starve, Event
<1>4. plugged \subseteq plugged' /\ plugged' \subseteq Cams
  BY DEF TypeOK, Outside, Die, NewAddress, Plug, Unplug, Starve, outside
<1>5. ffmpeg' = ffmpeg \/ \E p \in Pids : ffmpeg' = [ffmpeg EXCEPT ![p] = NoJob]
  BY DEF Outside, Die, NewAddress, Plug, Unplug, Starve
<1>6. ip' \in IPs \cup {NoIP} /\ unplugged' \in BOOLEAN /\ events' \in 0 .. MaxEvents
  BY SizeAssumption DEF TypeOK, Outside, Die, NewAddress, Plug, Unplug, Starve, Event, outside
<1>7. TypeOK'
  BY <1>1, <1>4, <1>5, <1>6 DEF TypeOK, program, control
<1>8. Copies'
  BY <1>1, <1>2, <1>4, KeepCopies DEF control
<1> QED  BY <1>2, <1>3, <1>7, <1>8, KeepInv

-----------------------------------------------------------------------------
(* The loops over the table                                                *)

\* The first loop of setCams finds every camera of the table in /dev, so it
\* removes the entry it looks at exactly when the ffmpeg of that has ended.
LEMMA PruneRemoves ==
    ASSUME IInv, Prune
    PROVE  /\ i \in Slots /\ Used(i) /\ i < camCount
           /\ IF Alive(csl[i].pid)
              THEN i' = i + 1 /\ UNCHANGED table
              ELSE UNCHANGED i /\ RemoveCamService(csl[i].cam)
<1> USE SizeAssumption DEF IInv
<1>1. i \in Nat /\ camCount \in Nat /\ i < camCount /\ camCount <= MaxCams
  BY DEF TypeOK, Prune
<1>2. i \in Slots /\ Used(i)
  BY <1>1 DEF Slots, Shape
<1>3. \E n \in 1 .. Len(cams) : cams[n] = csl[i].cam
  BY <1>2 DEF Copies, Prune
<1>4. DOMAIN cams = 1 .. Len(cams)
  BY LenProperties DEF TypeOK
<1>5. \E n \in DOMAIN cams : cams[n] = csl[i].cam
  BY <1>3, <1>4
<1> QED  BY <1>1, <1>2, <1>5 DEF Prune

\* What removing the entry x of an ended ffmpeg does to the rows: the last
\* entry takes its place.
LEMMA Removed ==
    ASSUME IInv, NEW x \in Slots, Used(x), ~Alive(csl[x].pid), RemoveCamService(csl[x].cam),
           NEW m, m = camCount - 1
    PROVE  /\ camCount' = m /\ m \in Slots /\ x <= m
           /\ csl' \in [Slots -> Entry]
           /\ csl'[m].cam = NoName
           /\ csl'[m].pid = NoPid \/ (m = x /\ csl'[m].pid = csl[x].pid)
           /\ x # m => csl'[x] = csl[m]
           /\ \A y \in Slots : y # x /\ y # m => csl'[y] = csl[y]
<1> USE SizeAssumption DEF IInv
<1>1. camCount \in Nat /\ camCount <= MaxCams /\ x < camCount /\ x \in Nat
  BY DEF TypeOK, Shape, Slots
<1>2. m \in Slots /\ x <= m /\ m < camCount /\ m \in Nat
  BY <1>1 DEF Slots
<1>3. Find(csl[x].cam) = x /\ x # -1
  BY <1>1, FindUsed
<1>4. camCount' = m
  BY DEF RemoveCamService
<1>5. csl \in [Slots -> Entry] /\ EmptyEntry \in Entry
  BY DEF TypeOK, EmptyEntry, Entry, States, Modes
<1>6. CASE camCount > 1
  <2>1. csl' = Moved(m, x)
    BY <1>3, <1>6 DEF RemoveCamService
  <2>2. csl[m].cam # NoName
    BY <1>2 DEF Shape, Used
  <2>3. csl' = [csl EXCEPT ![x] = csl[m], ![m] = EmptyEntry]
    BY <2>1, <2>2 DEF Moved
  <2>4. csl'[m] = EmptyEntry
    BY <1>2, <1>5, <2>3
  <2>5. csl' \in [Slots -> Entry]
    BY <1>2, <1>5, <2>3
  <2> QED  BY <1>2, <1>4, <1>5, <2>3, <2>4, <2>5 DEF EmptyEntry
<1>7. CASE ~(camCount > 1)
  <2>1. x = m
    BY <1>1, <1>7
  <2>2. csl' = [csl EXCEPT ![x].cam = NoName]
    BY <1>3, <1>7 DEF RemoveCamService
  <2>3. PICK e \in Entry : e = csl[x]
    BY <1>5
  <2>4. csl'[x] = [e EXCEPT !.cam = NoName]
    BY <1>5, <2>2, <2>3
  <2>5. csl'[x] \in Entry /\ csl'[x].cam = NoName /\ csl'[x].pid = csl[x].pid
    BY <2>3, <2>4 DEF Entry
  <2> QED  BY <1>2, <1>4, <1>5, <2>1, <2>2, <2>5
<1> QED  BY <1>6, <1>7

\* One pass of the first loop of setCams.
LEMMA PruneInv ==
    ASSUME IInv, Prune
    PROVE  IInv' /\ UNCHANGED ffmpeg
<1> USE SizeAssumption DEF IInv
<1>1. UNCHANGED <<program, pc, cams, back, nodes, failed, ffmpeg, outside>> /\ pc = "prune"
  BY DEF Prune
<1>2. camFound' \in BOOLEAN
  BY DEF Prune
<1>3. i \in Slots /\ Used(i) /\ i < camCount /\ camCount \in Nat /\ i \in Nat /\ camCount <= MaxCams
  BY PruneRemoves DEF TypeOK, Slots
<1>4. CASE Alive(csl[i].pid)
  <2>1. i' = i + 1 /\ UNCHANGED table
    BY <1>4, PruneRemoves
  <2>2. SameRows
    BY <2>1 DEF SameRows, Rows, table
  <2>3. TypeOK'
    BY <1>1, <1>2, <1>3, <2>1 DEF TypeOK, table, program, outside
  <2>4. Copies'
    BY <1>1, <1>3, <2>1 DEF Copies, Used, table, outside
  <2> QED  BY <1>1, <2>2, <2>3, <2>4, KeepInv
<1>5. CASE ~Alive(csl[i].pid)
  <2>1. i' = i /\ RemoveCamService(csl[i].cam)
    BY <1>5, PruneRemoves
  <2>2. PICK x \in Slots : x = i
    BY <1>3
  <2>3. PICK m : m = camCount - 1
    OBVIOUS
  <2>4. /\ camCount' = m /\ m \in Slots /\ x <= m
        /\ csl' \in [Slots -> Entry]
        /\ csl'[m].cam = NoName
        /\ csl'[m].pid = NoPid \/ (m = x /\ csl'[m].pid = csl[x].pid)
        /\ x # m => csl'[x] = csl[m]
        /\ \A y \in Slots : y # x /\ y # m => csl'[y] = csl[y]
    BY <1>3, <1>5, <2>1, <2>2, <2>3, Removed
  <2>5. TypeOK'
    <3>1. m \in 0 .. MaxCams
      BY <2>4 DEF Slots
    <3> QED  BY <1>1, <1>2, <2>1, <2>4, <3>1 DEF TypeOK, program, outside
  <2>6. \A y \in Slots : ~Used(m)' /\ (y # x /\ y # m => Used(y)' = Used(y))
                         /\ (x # m => Used(x)')
    BY <1>3, <2>3, <2>4 DEF Used, Shape, Slots
  <2>7. Shape'
    <3>1. \A y \in Slots : Used(y)' <=> y < camCount'
      BY <1>3, <2>2, <2>3, <2>4, <2>6 DEF Shape, Slots
    <3>2. ASSUME NEW y \in Slots, NEW z \in Slots, Used(y)', csl'[y].cam = csl'[z].cam
          PROVE  y = z
      <4>1. Used(z)' /\ y # m /\ z # m
        BY <2>4, <3>2 DEF Used
      <4>2. Used(m) /\ \A w \in Slots : Used(w) /\ csl[w].cam = csl[m].cam => w = m
        BY <1>3, <2>3, <2>4 DEF Shape
      <4> QED  BY <2>4, <2>6, <3>2, <4>1, <4>2 DEF Shape
    <3> QED  BY <3>1, <3>2 DEF Shape
  <2>8. \A y \in Slots : Used(y)' => \E w \in Slots : Used(w) /\ csl[w].cam = csl'[y].cam
    BY <1>3, <2>3, <2>4, <2>6 DEF Shape
  <2>9. Copies'
    <3>1. UNCHANGED <<cams, plugged>> /\ i <= m
      BY <1>1, <2>2, <2>4 DEF outside
    <3>2. \A y \in Slots : Used(y)' => csl'[y].cam \in plugged
      BY <2>8 DEF Copies
    <3>3. \A y \in Slots : Used(y)' => \E n \in 1 .. Len(cams) : cams[n] = csl'[y].cam
      BY <1>1, <2>8 DEF Copies
    <3>4. /\ \A n \in 1 .. Len(cams) : cams[n] \in plugged
          /\ Len(cams) <= Cardinality(Cams)
      BY <1>1 DEF Copies
    <3> QED  BY <1>1, <2>1, <2>4, <3>1, <3>2, <3>3, <3>4 DEF Copies
  <2>10. Governed'
    <3>1. \A p : Alive(p)' <=> Alive(p)
      BY <1>1 DEF Alive
    <3>2. ~Alive(csl'[m].pid)
      BY <1>5, <2>2, <2>4, SizeAssumption DEF Alive, NoPid, Pids
    <3>3. \A p \in Pids : Alive(p) => \E y \in Slots : csl'[y].pid = p
      BY <1>5, <2>2, <2>4 DEF Governed
    <3>4. \A y \in Slots : y # m => \E w \in Slots : csl'[y] = csl[w]
      BY <2>4
    <3>5. ASSUME NEW y \in Slots, Alive(csl'[y].pid)
          PROVE  /\ Used(y)' /\ csl'[y].cam = ffmpeg[csl'[y].pid].cam
                 /\ csl'[y].state = ffmpeg[csl'[y].pid].mode
                 /\ csl'[y].newState # csl'[y].state
      <4>1. PICK w \in Slots : csl'[y] = csl[w]
        BY <3>2, <3>4, <3>5
      <4> QED  BY <3>5, <4>1 DEF Governed, Used
    <3> QED  BY <1>1, <3>1, <3>3, <3>5 DEF Governed
  <2> QED  BY <1>1, <2>5, <2>7, <2>9, <2>10
<1> QED  BY <1>4, <1>5

\* The second loop of setCams enters a camera behind the others, unless one of
\* that name, or whose name begins so, is there.
LEMMA AddInv ==
    ASSUME Room, IInv, Add
    PROVE  IInv' /\ UNCHANGED ffmpeg
<1> USE SizeAssumption DEF IInv
<1>1. /\ UNCHANGED <<program, pc, camFound, cams, back, nodes, failed, ffmpeg, outside>>
      /\ pc = "add" /\ i <= Len(cams) /\ i' = i + 1
  BY DEF Add
<1>2. i \in 1 .. Len(cams) /\ Len(cams) \in Nat
  BY <1>1, LenProperties DEF Copies, TypeOK
<1>3. PICK c \in plugged : c = cams[i]
  BY <1>1, <1>2 DEF Copies
<1>4. c \in Cams /\ c # NoName
  BY CamAssumption DEF TypeOK
<1>5. i' \in 1 .. Len(cams) + 1 /\ i' \in 0 .. MaxCams + 1
  BY <1>1, <1>2, CamsFinite DEF Room, Copies
<1>6. CASE Listed(c)
  <2>1. UNCHANGED table
    BY <1>3, <1>6 DEF Add, AddCamService
  <2>2. SameRows
    BY <2>1 DEF SameRows, Rows, table
  <2>3. TypeOK'
    BY <1>1, <1>5, <2>1 DEF TypeOK, table, program, outside
  <2>4. PICK y \in Slots : Used(y) /\ (csl[y].cam = c \/ <<c, csl[y].cam>> \in Prefix)
    BY <1>6, ScannedUsed DEF Listed
  <2>5. \A n \in 1 .. i : \E x \in Slots :
            Used(x) /\ (csl[x].cam = cams[n] \/ <<cams[n], csl[x].cam>> \in Prefix)
    <3>1. \A n \in 1 .. i : n \in 1 .. i - 1 \/ n = i
      BY <1>2
    <3> QED  BY <1>1, <1>3, <2>4, <3>1 DEF Copies
  <2>6. \A n \in 1 .. i' - 1 : n \in 1 .. i
    BY <1>1, <1>2
  <2>7. Copies'
    BY <1>1, <1>5, <2>1, <2>5, <2>6 DEF Copies, Used, table, outside
  <2> QED  BY <1>1, <2>2, <2>3, <2>7, KeepInv
<1>7. CASE ~Listed(c)
  <2>1. PICK x : x = camCount
    OBVIOUS
  <2>2. x \in Slots /\ x \in Nat /\ x + 1 \in 0 .. MaxCams
    BY <2>1, FewEntries, CamsFinite DEF Room, TypeOK, Slots
  <2>3. /\ csl' = [csl EXCEPT ![x].cam = c, ![x].state = "OFF", ![x].newState = "RECORD"]
        /\ camCount' = x + 1
    BY <1>3, <1>7, <2>1, ScannedUsed DEF Add, AddCamService
  <2>4. PICK e \in Entry : e = csl[x]
    BY <2>2 DEF TypeOK
  <2>5. csl'[x] = [e EXCEPT !.cam = c, !.state = "OFF", !.newState = "RECORD"]
    BY <2>2, <2>3, <2>4 DEF TypeOK
  <2>6. /\ csl'[x] \in Entry /\ csl'[x].cam = c /\ csl'[x].pid = csl[x].pid
        /\ csl'[x].state = "OFF" /\ csl'[x].newState = "RECORD"
    BY <1>4, <2>4, <2>5 DEF Entry, States, Modes
  <2>7. \A y \in Slots : y # x => csl'[y] = csl[y]
    BY <2>3 DEF TypeOK
  <2>8. csl' \in [Slots -> Entry]
    BY <2>3, <2>6, <2>7 DEF TypeOK
  <2>9. ~Used(x) /\ ~Alive(csl[x].pid)
    BY <2>1, <2>2 DEF Shape, Governed, Slots
  <2>10. Used(x)' /\ \A y \in Slots : y # x => Used(y)' = Used(y)
    BY <1>4, <2>6, <2>7 DEF Used
  <2>11. \A y \in Slots : Used(y) => csl[y].cam # c
    BY <1>7, ScannedUsed DEF Listed
  <2>12. TypeOK'
    BY <1>1, <1>5, <2>2, <2>3, <2>8 DEF TypeOK, program, outside
  <2>13. Shape'
    <3>1. \A y \in Slots : Used(y)' <=> y < camCount'
      BY <2>1, <2>2, <2>3, <2>10 DEF Shape, Slots
    <3>2. \A y, z \in Slots : Used(y)' /\ csl'[y].cam = csl'[z].cam => y = z
      BY <2>6, <2>7, <2>9, <2>10, <2>11 DEF Shape, Used
    <3> QED  BY <3>1, <3>2 DEF Shape
  <2>14. Copies'
    <3>1. UNCHANGED <<cams, plugged, pc>>
      BY <1>1 DEF outside
    <3>2. \A y \in Slots : Used(y)' => csl'[y].cam \in plugged
      BY <2>6, <2>7, <2>10 DEF Copies
    <3>3. \A y \in Slots : Used(y)' => \E n \in 1 .. Len(cams) : cams[n] = csl'[y].cam
      BY <1>1, <1>2, <1>3, <2>6, <2>7, <2>10 DEF Copies
    <3>4. \A n \in 1 .. Len(cams) : cams[n] \in plugged
      BY <1>1 DEF Copies
    <3>5. \A n \in 1 .. i' - 1 : n \in 1 .. i - 1 \/ n = i
      BY <1>1, <1>2
    <3>6. \A n \in 1 .. i - 1 : \E y \in Slots : y # x /\ Used(y)
              /\ (csl[y].cam = cams[n] \/ <<cams[n], csl[y].cam>> \in Prefix)
      BY <1>1, <2>9 DEF Copies
    <3>7. \A n \in 1 .. i' - 1 : \E y \in Slots :
              Used(y)' /\ (csl'[y].cam = cams[n] \/ <<cams[n], csl'[y].cam>> \in Prefix)
      BY <1>3, <2>2, <2>6, <2>7, <2>10, <3>5, <3>6
    <3>8. Len(cams) <= Cardinality(Cams)
      BY <1>1 DEF Copies
    <3> QED  BY <1>1, <1>5, <3>1, <3>2, <3>3, <3>4, <3>7, <3>8 DEF Copies
  <2>15. Governed'
    <3>1. \A p : Alive(p)' <=> Alive(p)
      BY <1>1 DEF Alive
    <3>2. \A y \in Slots : csl'[y].pid = csl[y].pid
      BY <2>6, <2>7
    <3>3. ASSUME NEW y \in Slots, Alive(csl'[y].pid)
          PROVE  /\ Used(y)' /\ csl'[y].cam = ffmpeg[csl'[y].pid].cam
                 /\ csl'[y].state = ffmpeg[csl'[y].pid].mode
                 /\ csl'[y].newState # csl'[y].state
      <4>1. y # x
        BY <2>6, <2>9, <3>3
      <4> QED  BY <2>7, <2>10, <3>3, <4>1 DEF Governed
    <3> QED  BY <1>1, <3>1, <3>2, <3>3 DEF Governed
  <2> QED  BY <1>1, <2>12, <2>13, <2>14, <2>15
<1> QED  BY <1>6, <1>7

\* A pass of the loop of record() works for the entry whose turn it is.
LEMMA RecordTurn ==
    ASSUME IInv, Record
    PROVE  /\ i - 1 \in Slots /\ Used(i - 1) /\ i \in 1 .. camCount
           /\ cams[i] = csl[i - 1].cam /\ Find(cams[i]) = i - 1
<1> USE SizeAssumption DEF IInv
<1>1. i \in 1 .. camCount + 1 /\ Len(cams) = camCount /\ camCount \in Nat /\ camCount <= MaxCams
  BY DEF Copies, Record, TypeOK
<1>2. i <= camCount
  BY <1>1 DEF Record, NameAt
<1>3. i - 1 \in Slots /\ i \in 1 .. camCount
  BY <1>1, <1>2 DEF Slots
<1>4. Used(i - 1)
  BY <1>1, <1>3 DEF Shape
<1>5. cams[i] = csl[i - 1].cam
  BY <1>3 DEF Copies, Record
<1> QED  BY <1>3, <1>4, <1>5, FindUsed

\* setCamState writes one entry.
LEMMA CarriedOutRow ==
    ASSUME TypeOK, NEW x \in Slots, csl[x].newState # "PREVIOUS", NEW p \in Pids \cup {NoPid}
    PROVE  /\ CarriedOut(x, p) \in [Slots -> Entry]
           /\ \A y \in Slots : y # x => CarriedOut(x, p)[y] = csl[y]
           /\ CarriedOut(x, p)[x].cam = csl[x].cam
           /\ CarriedOut(x, p)[x].pid = p
           /\ CarriedOut(x, p)[x].state = csl[x].newState
           /\ CarriedOut(x, p)[x].newState = "PREVIOUS"
<1>1. PICK e \in Entry : e = csl[x]
  BY DEF TypeOK
<1>2. PICK new : new = CarriedOut(x, p)
  OBVIOUS
<1>3. new = [csl EXCEPT ![x] = [@ EXCEPT !.pid = p, !.state = csl[x].newState, !.newState = "PREVIOUS"]]
  BY <1>2 DEF CarriedOut
<1>4. new[x] = [e EXCEPT !.pid = p, !.state = e.newState, !.newState = "PREVIOUS"]
  BY <1>1, <1>3 DEF TypeOK
<1>5. e.newState \in Modes
  BY <1>1 DEF Entry
<1>6. /\ new[x] \in Entry /\ new[x].cam = e.cam /\ new[x].pid = p
      /\ new[x].state = e.newState /\ new[x].newState = "PREVIOUS"
  BY <1>4, <1>5 DEF Entry, States
<1>7. \A y \in Slots : y # x => new[y] = csl[y]
  BY <1>3 DEF TypeOK
<1>8. new \in [Slots -> Entry]
  BY <1>3, <1>6, <1>7 DEF TypeOK
<1> QED  BY <1>1, <1>2, <1>6, <1>7, <1>8

\* setCamState with a successful fork: one process ends, one begins, which does
\* something else.
LEMMA SetCamStateInv ==
    ASSUME IInv, NEW x \in Slots, Used(x), csl[x].newState # "PREVIOUS", SetCamState(x)
    PROVE  /\ csl' \in [Slots -> Entry]
           /\ \A y \in Slots : csl'[y].cam = csl[y].cam /\ (y # x => csl'[y] = csl[y])
           /\ csl'[x].state = csl[x].newState /\ csl'[x].newState = "PREVIOUS"
           /\ ffmpeg' \in [Pids -> {NoJob} \cup [cam : Cams, mode : Modes,
                                                 SId : Sessions \cup {NoSession}]]
           /\ Governed'
           /\ \A p, o \in Pids :
                 (ffmpeg[p] # NoJob /\ ffmpeg'[p] = NoJob /\ ffmpeg[o] = NoJob /\ ffmpeg'[o] # NoJob)
                     => ffmpeg'[o].mode # ffmpeg[p].mode
<1> USE DEF IInv
<1>1. PICK f \in Pids : f = FreshPid /\ ~Alive(f) /\ \A y \in Slots : csl[y].pid # f
  BY FreshPidIsFresh DEF SetCamState
<1>2. csl' = CarriedOut(x, f)
  BY <1>1 DEF SetCamState
<1>3. /\ csl' \in [Slots -> Entry]
      /\ \A y \in Slots : y # x => csl'[y] = csl[y]
      /\ csl'[x].cam = csl[x].cam /\ csl'[x].pid = f
      /\ csl'[x].state = csl[x].newState /\ csl'[x].newState = "PREVIOUS"
  BY <1>2, CarriedOutRow
<1>4. PICK e \in Entry : e = csl[x]
  BY DEF TypeOK
<1>5. PICK job : job = [cam |-> e.cam, mode |-> e.newState,
                        SId |-> IF e.newState = "STREAM_N_RECORD" THEN e.SId ELSE NoSession]
  OBVIOUS
<1>6. job \in [cam : Cams, mode : Modes, SId : Sessions \cup {NoSession}]
      /\ job.cam = e.cam /\ job.mode = e.newState
  BY <1>4, <1>5 DEF Entry, Used
<1>7. job # NoJob
  BY <1>6, CamAssumption DEF NoJob
<1>8. PICK rest : rest = Stopped(e.pid)
  OBVIOUS
<1>9. ffmpeg' = [rest EXCEPT ![f] = job]
  BY <1>1, <1>4, <1>5, <1>8 DEF SetCamState
<1>10. rest \in [Pids -> {NoJob} \cup [cam : Cams, mode : Modes, SId : Sessions \cup {NoSession}]]
       /\ \A p \in Pids : rest[p] = IF p = e.pid THEN NoJob ELSE ffmpeg[p]
  BY <1>8 DEF Stopped, Alive, TypeOK
<1>11. ffmpeg' \in [Pids -> {NoJob} \cup [cam : Cams, mode : Modes, SId : Sessions \cup {NoSession}]]
  BY <1>6, <1>9, <1>10
<1>12. ffmpeg'[f] = job /\ \A p \in Pids : p # f => ffmpeg'[p] = IF p = e.pid THEN NoJob ELSE ffmpeg[p]
  BY <1>9, <1>10
<1>13. \A p \in Pids : Alive(p)' => p = f \/ (Alive(p) /\ p # e.pid /\ ffmpeg'[p] = ffmpeg[p])
  BY <1>12 DEF Alive
<1>14. Governed'
  <2>1. \A p \in Pids : Alive(p)' => \E y \in Slots : csl'[y].pid = p
    BY <1>3, <1>4, <1>13 DEF Governed
  <2>2. ASSUME NEW y \in Slots, Alive(csl[y].pid)'
        PROVE  /\ Used(y)' /\ csl'[y].cam = ffmpeg'[csl'[y].pid].cam
               /\ csl'[y].state = ffmpeg'[csl'[y].pid].mode
               /\ csl'[y].newState # csl'[y].state
    <3>1. CASE y = x
      BY <1>3, <1>4, <1>6, <1>12, <3>1 DEF Used
    <3>2. CASE y # x
      <4>1. csl'[y] = csl[y] /\ csl[y].pid # f /\ csl[y].pid \in Pids
        BY <1>1, <1>3, <2>2, <3>2 DEF Alive
      <4>2. Alive(csl[y].pid) /\ ffmpeg'[csl[y].pid] = ffmpeg[csl[y].pid]
        BY <1>13, <2>2, <4>1
      <4> QED  BY <4>1, <4>2 DEF Governed, Used
    <3> QED  BY <3>1, <3>2
  <2> QED  BY <2>1, <2>2 DEF Governed
<1>15. ASSUME NEW p \in Pids, NEW o \in Pids, ffmpeg[p] # NoJob, ffmpeg'[p] = NoJob,
              ffmpeg[o] = NoJob, ffmpeg'[o] # NoJob
       PROVE  ffmpeg'[o].mode # ffmpeg[p].mode
  <2>1. o = f /\ p = csl[x].pid /\ ffmpeg'[o].mode = csl[x].newState
    BY <1>4, <1>6, <1>7, <1>12, <1>15
  <2>2. Alive(csl[x].pid) /\ ffmpeg[p].mode = csl[x].state
    BY <1>15, <2>1 DEF Alive, Governed
  <2>3. csl[x].newState # csl[x].state
    BY <2>2 DEF Governed
  <2> QED  BY <2>1, <2>2, <2>3
<1> QED  BY <1>3, <1>11, <1>14, <1>15

\* setCamState when fork fails: one process ends.
LEMMA UnforkedInv ==
    ASSUME IInv, NEW x \in Slots, csl[x].newState # "PREVIOUS", SetCamStateUnforked(x)
    PROVE  /\ csl' \in [Slots -> Entry]
           /\ \A y \in Slots : csl'[y].cam = csl[y].cam /\ (y # x => csl'[y] = csl[y])
           /\ csl'[x].state = csl[x].newState /\ csl'[x].newState = "PREVIOUS"
           /\ ffmpeg' \in [Pids -> {NoJob} \cup [cam : Cams, mode : Modes,
                                                 SId : Sessions \cup {NoSession}]]
           /\ Governed'
           /\ \A p \in Pids : ffmpeg'[p] \in {ffmpeg[p], NoJob}
<1> USE DEF IInv
<1>1. /\ csl' \in [Slots -> Entry]
      /\ \A y \in Slots : y # x => csl'[y] = csl[y]
      /\ csl'[x].cam = csl[x].cam /\ csl'[x].pid = NoPid
      /\ csl'[x].state = csl[x].newState /\ csl'[x].newState = "PREVIOUS"
  BY CarriedOutRow DEF SetCamStateUnforked
<1>2. /\ ffmpeg' \in [Pids -> {NoJob} \cup [cam : Cams, mode : Modes, SId : Sessions \cup {NoSession}]]
      /\ \A p \in Pids : ffmpeg'[p] = IF p = csl[x].pid THEN NoJob ELSE ffmpeg[p]
  BY DEF SetCamStateUnforked, Stopped, Alive, TypeOK
<1>3. \A p \in Pids : Alive(p)' => Alive(p) /\ p # csl[x].pid /\ ffmpeg'[p] = ffmpeg[p]
  BY <1>2 DEF Alive
<1>4. ~Alive(NoPid)'
  BY SizeAssumption DEF Alive, Pids, NoPid
<1>5. \A p \in Pids : Alive(p)' => \E y \in Slots : csl'[y].pid = p
  BY <1>1, <1>3 DEF Governed
<1>6. ASSUME NEW y \in Slots, Alive(csl[y].pid)'
      PROVE  /\ Used(y)' /\ csl'[y].cam = ffmpeg'[csl'[y].pid].cam
             /\ csl'[y].state = ffmpeg'[csl'[y].pid].mode
             /\ csl'[y].newState # csl'[y].state
  <2>1. csl'[y] = csl[y] /\ csl[y].pid \in Pids
    BY <1>1, <1>4, <1>6 DEF Alive
  <2>2. Alive(csl[y].pid) /\ ffmpeg'[csl[y].pid] = ffmpeg[csl[y].pid]
    BY <1>3, <1>6, <2>1
  <2> QED  BY <2>1, <2>2 DEF Governed, Used
<1>7. Governed'
  BY <1>5, <1>6 DEF Governed
<1> QED  BY <1>1, <1>2, <1>7

\* The entries that a pass of record() leaves as they are, and what it makes of
\* the one whose turn it is.
Turn ==
    /\ \A y \in Slots : csl'[y].cam = csl[y].cam /\ (y # i - 1 => csl'[y] = csl[y])
    /\ csl'[i - 1].newState = "PREVIOUS"
    /\ csl'[i - 1].state = IF csl[i - 1].newState = "PREVIOUS" THEN csl[i - 1].state
                           ELSE csl[i - 1].newState

\* What a step may never do: cut a camera to start it in the mode it had.
NoIdleStep ==
    \A p \in Pids : \A o \in Pids :
       (ffmpeg[p] # NoJob /\ ffmpeg'[p] = NoJob /\ ffmpeg[o] = NoJob /\ ffmpeg'[o] # NoJob)
          => ffmpeg'[o].mode # ffmpeg[p].mode

\* One pass of the loop of record().
LEMMA RecordInv ==
    ASSUME IInv, Record
    PROVE  IInv' /\ NoIdleStep /\ Turn
<1> USE DEF IInv
<1>1. /\ UNCHANGED <<camCount, program, pc, camFound, cams, back, nodes, failed, plugged, ip, unplugged>>
      /\ i' = i + 1 /\ pc = "record"
  BY DEF Record
<1>2. PICK x \in Slots : x = i - 1 /\ Used(x) /\ Find(cams[i]) = x
  BY RecordTurn
<1>3. i \in 1 .. camCount /\ camCount \in Nat /\ camCount <= MaxCams /\ MaxCams \in Nat
  BY RecordTurn, SizeAssumption DEF TypeOK
<1>4. x # -1
  BY <1>2, SizeAssumption DEF Slots
<1>5. /\ csl' \in [Slots -> Entry]
      /\ \A y \in Slots : csl'[y].cam = csl[y].cam
      /\ ffmpeg' \in [Pids -> {NoJob} \cup [cam : Cams, mode : Modes,
                                            SId : Sessions \cup {NoSession}]]
      /\ Governed' /\ NoIdleStep /\ Turn /\ events' \in 0 .. MaxEvents
  <2>1. CASE csl[x].newState = "PREVIOUS"
    <3>1. UNCHANGED <<csl, ffmpeg, events>>
      BY <1>2, <2>1 DEF Record
    <3>2. SameRows
      BY <1>1, <3>1 DEF SameRows, Rows
    <3>3. Governed'
      BY <3>1, <3>2, KeepGoverned
    <3> QED  BY <1>2, <2>1, <3>1, <3>3 DEF TypeOK, NoIdleStep, Turn
  <2>2. CASE csl[x].newState # "PREVIOUS"
    <3>1. \/ SetCamState(x) /\ UNCHANGED events
          \/ SetCamStateUnforked(x) /\ events < MaxEvents /\ events' = events + 1
      BY <1>2, <1>4, <2>2 DEF Record
    <3>2. events' \in 0 .. MaxEvents
      BY <3>1, SizeAssumption DEF TypeOK
    <3>3. CASE SetCamState(x)
      BY <1>2, <2>2, <3>2, <3>3, SetCamStateInv DEF NoIdleStep, Turn
    <3>4. CASE SetCamStateUnforked(x)
      BY <1>2, <2>2, <3>2, <3>4, UnforkedInv DEF NoIdleStep, Turn
    <3> QED  BY <3>1, <3>3, <3>4
  <2> QED  BY <2>1, <2>2
<1>6. TypeOK'
  <2>1. i' \in 0 .. MaxCams + 1
    BY <1>1, <1>3
  <2> QED  BY <1>1, <1>5, <2>1 DEF TypeOK, program
<1>7. Shape'
  BY <1>1, <1>5 DEF Shape, Used
<1>8. Copies'
  <2>1. \A y \in Slots : Used(y)' => csl'[y].cam \in plugged'
    BY <1>1, <1>5 DEF Copies, Used
  <2>2. i' \in 1 .. camCount' + 1 /\ Len(cams') = camCount'
    BY <1>1, <1>3 DEF Copies
  <2>3. \A n \in 1 .. camCount : n - 1 \in Slots
    BY <1>3 DEF Slots
  <2>4. \A n \in 1 .. camCount' : cams'[n] = csl'[n - 1].cam
    BY <1>1, <1>5, <2>3 DEF Copies
  <2> QED  BY <1>1, <2>1, <2>2, <2>4 DEF Copies
<1> QED  BY <1>5, <1>6, <1>7, <1>8

\* The initial state.
LEMMA InitInv ==
    ASSUME Init
    PROVE  IInv
<1> USE SizeAssumption DEF Init
<1>1. \A x \in Slots : csl[x] = EmptyEntry
  OBVIOUS
<1>2. EmptyEntry \in Entry /\ EmptyEntry.cam = NoName
  BY DEF EmptyEntry, Entry, States, Modes
<1>3. TypeOK
  <2>1. csl \in [Slots -> Entry]
    BY <1>2
  <2>2. plugged \subseteq Cams /\ ip \in IPs \cup {NoIP}
    BY BootAssumption
  <2>3. ffmpeg \in [Pids -> {NoJob} \cup [cam : Cams, mode : Modes,
                                          SId : Sessions \cup {NoSession}]]
    OBVIOUS
  <2>4. camCount \in 0 .. MaxCams /\ i \in 0 .. MaxCams + 1 /\ nodes \in 0 .. MaxNodes
        /\ events \in 0 .. MaxEvents
    OBVIOUS
  <2>5. cams \in Seq(Cams \cup {NoName})
    BY EmptySeq
  <2> QED  BY <2>1, <2>2, <2>3, <2>4, <2>5 DEF TypeOK, Steps
<1>4. Shape /\ Copies
  BY <1>1, <1>2 DEF Shape, Copies, Used, Slots
<1>5. Governed
  <2>1. \A p : ~Alive(p)
    BY DEF Alive
  <2> QED  BY <2>1 DEF Governed
<1> QED  BY <1>3, <1>4, <1>5 DEF IInv

\* Every step that leaves the cameras plugged keeps the invariant, and none
\* restarts an ffmpeg for nothing.
LEMMA StepInv ==
    ASSUME Room, IInv, [Next]_vars, ~unplugged'
    PROVE  IInv' /\ NoIdleStep
<1>1. CASE Prune \/ Add \/ Record
  <2>1. CASE Record
    BY <2>1, RecordInv
  <2>2. CASE Prune \/ Add
    BY <2>2, PruneInv, AddInv DEF NoIdleStep
  <2> QED  BY <1>1, <2>1, <2>2
<1>2. CASE GetCameras \/ PruneEnds \/ AddEnds \/ RequestSucceeds \/ ReplyEnds \/ RecordEnds
           \/ Change \/ RequestFails \/ Rollover \/ Commands
  <2>1. IInv'
    BY <1>2, GetCamerasInv, PruneEndsInv, LoopEndInv, ChangeInv, RequestFailsInv, RolloverInv,
        CommandsInv
  <2>2. UNCHANGED ffmpeg
    BY <1>2 DEF GetCameras, PruneEnds, AddEnds, RequestSucceeds, ReplyEnds, RecordEnds, Change,
        RequestFails, Rollover, Commands, Command, StartVideoRecord, StopVideoRecord,
        StopVideoStream, View, ViewAll
  <2> QED  BY <2>1, <2>2 DEF NoIdleStep
<1>3. CASE Switch \/ Outside \/ \E p \in Pids : Starve(p)
  <2>1. IInv'
    BY <1>3, SwitchInv, OutsideInv
  <2>2. \A p \in Pids : ffmpeg[p] = NoJob => ffmpeg'[p] = NoJob
    BY <1>3 DEF IInv, TypeOK, Switch, Outside, Die, NewAddress, Plug, Unplug, Starve
  <2> QED  BY <2>1, <2>2 DEF NoIdleStep
<1>4. CASE UNCHANGED vars
  <2>1. TypeOK'
    BY <1>4 DEF vars, table, program, control, outside, IInv, TypeOK
  <2>2. SameRows /\ Copies' /\ UNCHANGED ffmpeg
    BY <1>4 DEF vars, table, program, control, outside, SameRows, Rows, IInv, Copies, Used
  <2> QED  BY <2>1, <2>2, KeepInv DEF NoIdleStep
<1> QED  BY <1>1, <1>2, <1>3, <1>4 DEF Next, Poll

-----------------------------------------------------------------------------
(* What is left of a failed connection                                     *)

\* No entry waits to be switched to streaming.
NoneToStream == \A x \in Slots : ~ToStream(x)

\* setStateAllCams(CAM_RECORD) leaves no entry that waits to stream, if there
\* was none, and none that neither records nor is about to.
LEMMA AllCamsRecord ==
    ASSUME TypeOK, Shape, NoneToStream, csl' = WithStateAllCams("RECORD"), camCount' = camCount
    PROVE  /\ NoneToStream'
           /\ \A x \in Slots : Used(x)' =>
                  csl'[x].state = "RECORD" \/ csl'[x].newState = "RECORD"
<1>1. PICK tab : tab = WithStateAllCams("RECORD")
  OBVIOUS
<1>2. \A x \in Slots :
          /\ tab[x].cam = csl[x].cam /\ tab[x].state = csl[x].state
          /\ tab[x].newState = IF x \in Counted /\ csl[x].state # "RECORD"
                               THEN "RECORD" ELSE csl[x].newState
  BY <1>1, AllCamsTyped DEF Modes
<1>3. \A x \in Slots : Used(x) => x \in Counted
  BY ScannedUsed
<1> QED  BY <1>1, <1>2, <1>3 DEF NoneToStream, ToStream, Used

\* The loops of setCams make no entry wait to stream.
LEMMA LoopsNotToStream ==
    ASSUME IInv, NoneToStream, Prune \/ Add
    PROVE  NoneToStream'
<1> USE DEF IInv
<1>1. CASE UNCHANGED csl
  BY <1>1 DEF NoneToStream, ToStream, Used
<1>2. CASE Prune /\ csl' # csl
  <2>1. PICK x \in Slots : x = i /\ Used(x) /\ ~Alive(csl[x].pid) /\ RemoveCamService(csl[x].cam)
    BY <1>2, PruneRemoves DEF table
  <2>2. PICK m : m = camCount - 1
    OBVIOUS
  <2>3. /\ m \in Slots /\ csl'[m].cam = NoName
        /\ x # m => csl'[x] = csl[m]
        /\ \A y \in Slots : y # x /\ y # m => csl'[y] = csl[y]
    BY <2>1, <2>2, Removed
  <2> QED  BY <2>3 DEF NoneToStream, ToStream, Used
<1>3. CASE Add /\ csl' # csl
  <2>1. PICK x : csl' = [csl EXCEPT ![x].cam = cams[i], ![x].state = "OFF", ![x].newState = "RECORD"]
    BY <1>3 DEF Add, AddCamService, table
  <2>2. \A y \in Slots : y # x => csl'[y] = csl[y]
    BY <2>1 DEF TypeOK
  <2>3. x \in Slots => csl'[x].newState = "RECORD"
    BY <2>1 DEF TypeOK, Entry
  <2> QED  BY <2>2, <2>3 DEF NoneToStream, ToStream, Used
<1> QED  BY <1>1, <1>2, <1>3

\* A command to stream is one that asks for record() to run.
LEMMA CommandToStream ==
    ASSUME IInv, NoneToStream, Commands
    PROVE  NoneToStream' \/ cs' = "NEW"
<1> USE DEF IInv
<1>1. CASE StartVideoRecord \/ StopVideoRecord
  BY <1>1 DEF StartVideoRecord, StopVideoRecord, Command, NoneToStream, ToStream, Used
<1>2. CASE \E c \in Cams : StopVideoStream(c)
  <2>1. PICK c \in Cams : StopVideoStream(c)
    BY <1>2
  <2>2. csl' = WithNewState(csl, c, "RECORD") /\ (Changes(c, "RECORD") => cs' = "NEW")
    BY <2>1 DEF StopVideoStream, Command
  <2> QED  BY <2>2 DEF WithNewState, NoneToStream, ToStream, Used
<1>3. CASE \E s \in Sessions : \E c \in Cams : View(c, s)
  <2>1. PICK s \in Sessions, c \in Cams : View(c, s)
    BY <1>3
  <2>2. csl' = WithNewState(WithSId({c}, s), c, Viewing) /\ (Changes(c, Viewing) => cs' = "NEW")
    BY <2>1 DEF View, Command
  <2>3. CASE ~Changes(c, Viewing)
    <3>1. csl' = WithSId({c}, s)
      BY <2>2, <2>3 DEF WithNewState
    <3>2. \A x \in Slots : csl'[x].cam = csl[x].cam /\ csl'[x].newState = csl[x].newState
      BY <3>1 DEF WithSId, TypeOK, Entry
    <3> QED  BY <3>2 DEF NoneToStream, ToStream, Used
  <2> QED  BY <2>2, <2>3
<1>4. CASE \E s \in Sessions : \E C \in SUBSET Cams : ViewAll(C, s)
  BY <1>4 DEF ViewAll, Command
<1> QED  BY <1>1, <1>2, <1>3, <1>4 DEF Commands

\* Every step keeps Falling, when an answer carries at most one command.
LEMMA FallingStep ==
    ASSUME Room, MaxNodes <= 1, IInv, Falling, [Next]_vars, ~unplugged'
    PROVE  Falling'
<1> USE SizeAssumption DEF IInv
<1>1. ~(pc \in {"reply", "switch", "record"}) => NoneToStream
  BY DEF Falling, NoneToStream
<1>2. NoneToStream' /\ ~failed' => Falling'
  BY DEF Falling, NoneToStream
<1>3. CASE GetCameras \/ PruneEnds \/ RequestSucceeds
  <2>1. NoneToStream' /\ ~failed'
    BY <1>1, <1>3 DEF GetCameras, PruneEnds, RequestSucceeds, table, Falling, NoneToStream,
        ToStream, Used
  <2> QED  BY <1>2, <2>1
<1>4. CASE AddEnds
  <2>1. ~failed' /\ NoneToStream /\ camCount' = camCount
    BY <1>1, <1>4 DEF AddEnds, Falling
  <2>2. csl' = csl \/ csl' = WithStateAllCams("RECORD")
    BY <1>4 DEF AddEnds
  <2>3. NoneToStream'
    BY <2>1, <2>2, AllCamsRecord DEF NoneToStream, ToStream, Used
  <2> QED  BY <1>2, <2>1, <2>3
<1>5. CASE Prune \/ Add
  <2>1. ~failed' /\ NoneToStream
    BY <1>1, <1>5 DEF Prune, Add, Falling
  <2> QED  BY <1>2, <1>5, <2>1, LoopsNotToStream
<1>6. CASE ReplyEnds
  BY <1>6 DEF ReplyEnds, Falling, ToStream, Used, table, program
<1>7. CASE RecordEnds
  <2>1. UNCHANGED <<table, program, failed>> /\ pc' = back /\ pc = "record"
    BY <1>7 DEF RecordEnds
  <2>2. i = camCount + 1 /\ camCount \in Nat
    <3>1. i \in 1 .. camCount + 1 /\ Len(cams) = camCount /\ camCount \in Nat /\ camCount <= MaxCams
      BY <2>1 DEF Copies, TypeOK
    <3>2. ASSUME i # camCount + 1 PROVE FALSE
      <4>1. i \in 1 .. camCount /\ i - 1 \in Slots
        BY <3>1, <3>2 DEF Slots
      <4>2. cams[i] = csl[i - 1].cam /\ Used(i - 1)
        BY <2>1, <3>1, <4>1 DEF Copies, Shape
      <4> QED  BY <1>7, <3>1, <4>1, <4>2 DEF RecordEnds, NameAt, Used
    <3> QED  BY <3>1, <3>2
  <2>3. \A x \in Slots : Used(x) => ~(x >= i - 1)
    BY <2>2 DEF Shape, Slots
  <2>4. NoneToStream
    BY <2>1, <2>3 DEF Falling, NoneToStream, ToStream
  <2>5. NoneToStream'
    BY <2>1, <2>4 DEF NoneToStream, ToStream, Used, table
  <2>6. failed => /\ pc' = "top" /\ ps = "NEW"
                  /\ \A x \in Slots : Used(x) => csl[x].state = "RECORD"
    BY <2>1, <2>3 DEF Falling
  <2> QED  BY <2>1, <2>5, <2>6 DEF Falling, NoneToStream, Used, table, program
<1>8. CASE Rollover
  <2>1. /\ pc = "top" /\ cs' = ps /\ csl' = WithStateAllCams("RECORD") /\ pc' = "switch"
        /\ UNCHANGED <<camCount, failed>>
    BY <1>8 DEF Rollover
  <2>2. NoneToStream' /\ \A x \in Slots : Used(x)' =>
            csl'[x].state = "RECORD" \/ csl'[x].newState = "RECORD"
    BY <1>1, <2>1, AllCamsRecord
  <2>3. failed => cs' = "NEW"
    BY <2>1 DEF Falling
  <2> QED  BY <2>1, <2>2, <2>3 DEF Falling, NoneToStream
<1>9. CASE Switch
  <2>1. pc = "switch" /\ UNCHANGED <<csl, camCount, failed>>
    BY <1>9 DEF Switch
  <2>2. CASE cs = "NEW"
    <3>1. i' = 1 /\ back' = "top" /\ pc' = "record" /\ ps' = "NEW"
      BY <1>9, <2>2 DEF Switch, BeginRecord
    <3>2. \A x \in Slots : x >= i' - 1
      BY <3>1 DEF Slots
    <3> QED  BY <2>1, <3>1, <3>2 DEF Falling, ToStream, Used
  <2>3. CASE cs # "NEW"
    <3>1. NoneToStream /\ ~failed
      BY <2>1, <2>3 DEF Falling, NoneToStream
    <3> QED  BY <1>2, <2>1, <3>1 DEF NoneToStream, ToStream, Used
  <2> QED  BY <2>2, <2>3
<1>10. CASE Change \/ RequestFails
  <2>1. NoneToStream /\ ~failed /\ camCount' = camCount
    BY <1>1, <1>10 DEF Change, RequestFails, Falling
  <2>2. CASE ~failed' /\ csl' \in {csl, WithStateAllCams("RECORD")}
    BY <1>2, <2>1, <2>2, AllCamsRecord DEF NoneToStream, ToStream, Used
  <2>3. CASE FallBack
    <3>1. /\ csl' = WithStateAllCams("RECORD") /\ cs' = "NEW" /\ pc' = "switch"
      BY <2>3 DEF FallBack
    <3>2. NoneToStream' /\ \A x \in Slots : Used(x)' =>
              csl'[x].state = "RECORD" \/ csl'[x].newState = "RECORD"
      BY <2>1, <3>1, AllCamsRecord
    <3> QED  BY <3>1, <3>2 DEF Falling, NoneToStream
  <2> QED  BY <1>10, <2>1, <2>2, <2>3 DEF Change, RequestFails
<1>11. CASE Commands
  <2>1. /\ pc = "reply" /\ pc' = "reply" /\ nodes < MaxNodes /\ nodes' = nodes + 1
        /\ UNCHANGED failed
    BY <1>11 DEF Commands, Command, StartVideoRecord, StopVideoRecord, StopVideoStream, View,
        ViewAll
  <2>2. nodes = 0 /\ nodes' = 1
    BY <2>1 DEF TypeOK
  <2>3. NoneToStream /\ ~failed
    BY <2>1, <2>2 DEF Falling, NoneToStream
  <2>4. NoneToStream' \/ cs' = "NEW"
    BY <1>11, <2>3, CommandToStream
  <2> QED  BY <2>1, <2>2, <2>3, <2>4 DEF Falling, NoneToStream
<1>12. CASE Record
  <2>1. /\ UNCHANGED <<camCount, program, pc, back, nodes, failed>> /\ i' = i + 1 /\ pc = "record"
    BY <1>12 DEF Record
  <2>2. Turn /\ i \in 1 .. camCount /\ i - 1 \in Slots /\ Used(i - 1) /\ i \in Int
    BY <1>12, RecordInv, RecordTurn DEF TypeOK
  <2>3. PICK x \in Slots : x = i - 1
    BY <2>2
  <2>4. /\ \A y \in Slots : y # x => csl'[y] = csl[y] /\ (y >= i - 1 => y >= i' - 1)
        /\ csl'[x].newState = "PREVIOUS"
        /\ csl'[x].state = IF csl[x].newState = "PREVIOUS" THEN csl[x].state ELSE csl[x].newState
    BY <2>1, <2>2, <2>3 DEF Turn, Slots
  <2>5. \A y \in Slots : ToStream(y)' => ToStream(y) /\ y >= i' - 1
    BY <2>1, <2>4 DEF Falling, ToStream, Used
  <2>6. CASE ~failed
    BY <2>1, <2>5, <2>6 DEF Falling
  <2>7. CASE failed
    <3>1. csl[x].state = "RECORD" \/ csl[x].newState = "RECORD"
      BY <2>2, <2>3, <2>7 DEF Falling
    <3>2. csl[x].newState \in {"PREVIOUS", "RECORD"}
      BY <2>2, <2>3, <2>7 DEF Falling, ToStream, TypeOK, Entry, Modes
    <3>3. csl'[x].state = "RECORD"
      BY <2>4, <3>1, <3>2
    <3>4. \A y \in Slots : Used(y)' => csl'[y].state = "RECORD"
                                       \/ (csl'[y].newState = "RECORD" /\ y >= i' - 1)
      BY <2>1, <2>4, <2>7, <3>3 DEF Falling, Used
    <3>5. NoneToStream'
      BY <2>5, <2>7 DEF Falling, NoneToStream
    <3> QED  BY <2>1, <2>7, <3>4, <3>5 DEF Falling, NoneToStream, program
  <2> QED  BY <2>6, <2>7
<1>13. CASE Outside \/ (\E p \in Pids : Starve(p)) \/ UNCHANGED vars
  <2>1. UNCHANGED <<table, program, control>>
    BY <1>13 DEF vars, Outside, Die, NewAddress, Plug, Unplug, Starve, Event
  <2> QED  BY <2>1 DEF table, program, control, Falling, ToStream, Used
<1> QED  BY <1>3, <1>4, <1>5, <1>6, <1>7, <1>8, <1>9, <1>10, <1>11, <1>12, <1>13 DEF Next, Poll

-----------------------------------------------------------------------------
(* The theorems                                                            *)

\* The history of unplugged cameras never shrinks.
LEMMA UnpluggedStays ==
    ASSUME [Next]_vars, unplugged
    PROVE  unplugged'
BY DEF Next, vars, Poll, GetCameras, Prune, PruneEnds, Add, AddEnds, Change, RequestSucceeds,
    ReplyEnds, Switch, Record, RecordEnds, Rollover, RequestFails, Commands, Command,
    StartVideoRecord, StopVideoRecord, StopVideoStream, View, ViewAll, Outside, Die, NewAddress,
    Plug, Unplug, Starve, Event, outside

\* The inductive invariant holds until a camera is unplugged.
LEMMA Inductive ==
    ASSUME Room
    PROVE  Spec => [](~unplugged => IInv)
<1> DEFINE Safe == ~unplugged => IInv
<1>1. Init => Safe
  BY InitInv
<1>2. Safe /\ [Next]_vars => Safe'
  BY StepInv, UnpluggedStays
<1> HIDE DEF Safe
<1>3. Spec => []Safe
  BY <1>1, <1>2, PTL DEF Spec
<1> QED  BY <1>3 DEF Safe

\* Every variable keeps its type, the counters of the table their bounds.
THEOREM TypeCorrect ==
    ASSUME Room
    PROVE  Spec /\ []~unplugged => []TypeOK
<1>1. IInv => TypeOK
  BY DEF IInv
<1> QED  BY <1>1, Inductive, PTL

\* Every ffmpeg is in the table, under its camera, and does what the entry
\* says.
THEOREM NoUngovernedFfmpeg ==
    ASSUME Room
    PROVE  Spec => []TableGovernsFfmpeg
<1>1. ASSUME IInv PROVE TableGovernsFfmpeg
  <2> SUFFICES ASSUME NEW p \in Pids, Alive(p)
               PROVE  \E x \in Counted : /\ csl[x].pid = p
                                         /\ csl[x].cam = ffmpeg[p].cam
                                         /\ csl[x].state = ffmpeg[p].mode
    BY DEF TableGovernsFfmpeg
  <2>1. PICK x \in Slots : csl[x].pid = p
    BY <1>1 DEF IInv, Governed
  <2>2. Used(x) /\ csl[x].cam = ffmpeg[p].cam /\ csl[x].state = ffmpeg[p].mode
    BY <1>1, <2>1 DEF IInv, Governed
  <2>3. x \in Counted
    BY <1>1, <2>2, ScannedUsed DEF IInv
  <2> QED  BY <2>1, <2>2, <2>3
<1>2. (~unplugged => IInv) => TableGovernsFfmpeg
  BY <1>1 DEF TableGovernsFfmpeg
<1> QED  BY <1>2, Inductive, PTL

\* Two entries never hold the pid of the same ffmpeg: stopping one camera never
\* stops another.
THEOREM PidsAreOwn ==
    ASSUME Room
    PROVE  Spec /\ []~unplugged => []NoSharedPid
<1>1. IInv => NoSharedPid
  BY DEF IInv, Governed, Shape, NoSharedPid
<1> QED  BY <1>1, Inductive, PTL

\* The table never outgrows the array, and the scans end inside it.
THEOREM ScansEnd ==
    ASSUME Room
    PROVE  Spec => []NoOverrun
<1>1. ASSUME IInv PROVE NoOverrun
  <2>1. Scanned = {x \in Slots : csl[x].cam # NoName} /\ Cardinality(Scanned) = camCount
        /\ camCount <= Cardinality(Cams) /\ camCount \in Nat
    BY <1>1, ScannedUsed, FewEntries DEF IInv, Used, TypeOK
  <2> QED  BY <2>1, CamsFinite, SizeAssumption DEF NoOverrun, Room
<1>2. (~unplugged => IInv) => NoOverrun
  BY <1>1 DEF NoOverrun
<1> QED  BY <1>2, Inductive, PTL

\* When getCameras returns, the table lists what it has read in /dev, each
\* camera once.
THEOREM TableIsDev ==
    ASSUME Room
    PROVE  Spec => []TableListsDev
<1>1. ASSUME IInv PROVE TableListsDev
  <2> DEFINE read == {cams[n] : n \in DOMAIN cams}
             f == [x \in Counted |-> csl[x].cam]
  <2> SUFFICES ASSUME pc = "add", i > Len(cams), Prefix \cap (read \X read) = {}
               PROVE  /\ {csl[x].cam : x \in Counted} = read
                      /\ camCount = Cardinality(read)
                      /\ Scanned = Counted
    BY DEF TableListsDev
  <2>1. /\ Scanned = Counted /\ Counted = {x \in Slots : Used(x)}
        /\ Cardinality(Counted) = camCount /\ Counted = 0 .. camCount - 1 /\ camCount \in Nat
    BY <1>1, ScannedUsed DEF IInv, TypeOK
  <2>2. DOMAIN cams = 1 .. Len(cams) /\ Len(cams) \in Nat
    BY <1>1, LenProperties DEF IInv, TypeOK
  <2>3. \A x \in Counted : csl[x].cam \in read
    BY <1>1, <2>1, <2>2 DEF IInv, Copies
  <2>4. \A n \in 1 .. Len(cams) : \E x \in Counted : csl[x].cam = cams[n]
    <3> TAKE n \in 1 .. Len(cams)
    <3>1. n \in 1 .. i - 1
      BY <1>1, <2>2 DEF IInv, Copies
    <3>2. PICK x \in Slots : /\ Used(x)
                             /\ csl[x].cam = cams[n] \/ <<cams[n], csl[x].cam>> \in Prefix
      BY <1>1, <3>1 DEF IInv, Copies
    <3>3. csl[x].cam \in read /\ cams[n] \in read /\ x \in Counted
      BY <2>1, <2>2, <2>3, <3>2
    <3> QED  BY <3>2, <3>3
  <2>5. {csl[x].cam : x \in Counted} = read
    BY <2>2, <2>3, <2>4
  <2>6. f \in [Counted -> read]
    BY <2>3
  <2>7. \A x, y \in Counted : f[x] = f[y] => x = y
    BY <1>1, <2>1 DEF IInv, Shape
  <2>8. \A c \in read : \E x \in Counted : f[x] = c
    BY <2>2, <2>4
  <2>9. IsFiniteSet(Counted)
    <3>1. IsFiniteSet(0 .. camCount - 1)
      BY <2>1, FS_Interval
    <3> QED  BY <2>1, <3>1
  <2>10. Cardinality(read) = Cardinality(Counted)
    <3> HIDE DEF f, read
    <3>1. f \in Surjection(Counted, read) /\ f \in Injection(Counted, read)
      BY <2>6, <2>7, <2>8 DEF Surjection, Injection, IsInjective
    <3> QED  BY <2>9, <3>1, FS_Surjection
  <2> QED  BY <2>1, <2>5, <2>10
<1>2. (~unplugged => IInv) => TableListsDev
  BY <1>1 DEF TableListsDev
<1> QED  BY <1>2, Inductive, PTL

\* A pass in which the connection failed leaves no camera streaming, when an
\* answer carries at most one command.
THEOREM FailureStopsStreams ==
    ASSUME Room, MaxNodes <= 1
    PROVE  Spec => []FallBackRecords
<1> DEFINE Safe == ~unplugged => Falling
           Holds == ~unplugged => IInv
<1>1. Init => Safe
  BY DEF Init, Falling, ToStream, Used, EmptyEntry
<1>2. Holds /\ Safe /\ [Next]_vars => Safe'
  BY FallingStep, UnpluggedStays
<1>3. Holds /\ Safe => FallBackRecords
  <2> SUFFICES ASSUME ~unplugged, IInv, Falling, pc = "top", failed, NEW p \in Pids, Alive(p)
               PROVE  ffmpeg[p].mode = "RECORD"
    BY DEF FallBackRecords
  <2>1. PICK x \in Slots : csl[x].pid = p /\ Used(x) /\ csl[x].state = ffmpeg[p].mode
    BY DEF IInv, Governed
  <2> QED  BY <2>1 DEF Falling
<1>4. Spec => []Holds
  BY Inductive
<1> HIDE DEF Safe, Holds
<1> QED  BY <1>1, <1>2, <1>3, <1>4, PTL DEF Spec

\* A pass of the loop never cuts the recording of a camera to start it again
\* in the same mode.
THEOREM RestartsChangeMode ==
    ASSUME Room
    PROVE  Spec /\ []~unplugged => NoIdleRestart
<1>1. IInv /\ [Next]_vars /\ ~unplugged' => NoIdleStep
  BY StepInv
<1>2. Spec /\ []~unplugged => [][NoIdleStep]_vars
  BY <1>1, Inductive, PTL DEF Spec
<1> QED  BY <1>2 DEF NoIdleRestart, NoIdleStep
=============================================================================
