--------------------------- MODULE Transport_proofs --------------------------
(***************************************************************************)
(* Proofs about Transport for any answers of the server, however they are  *)
(* cut, and any number of descriptors.                                     *)
(***************************************************************************)
EXTENDS Transport, TLAPS

Requesting == {"expect", "first", "receive"}

\* While a request is under way the poller has the one descriptor of its
\* connection more than before.
Connected ==
    pc \in Requesting => answer \in Answers /\ fds["poller"] = before + 1

\* The header of the answer stands whole in `response`, and nothing before it.
HeaderRead == start = answer.interim /\ Found(answer.blank, BlankLength, at)

\* What SOAPReq has counted when it asks for more: nothing, or, if the header
\* was in the first piece, all that the server still sends.
Counted ==
    /\ pc = "expect" => start = 0 /\ at = 0
    /\ pc = "first" => at = start
    /\ pc = "receive" /\ entire => HeaderRead /\ l = End(answer) - at
    /\ entire => pc \in {"receive", "answered", "connect"}

IInv == TypeOK /\ Connected /\ Counted /\ WholeOrError

-----------------------------------------------------------------------------
(* The operators of the model                                              *)

\* The fields of an answer are numbers, and they stand in their order.
LEMMA AnswerType ==
    ASSUME TypeOK
    PROVE  /\ answer.interim \in Nat /\ answer.field \in Nat /\ answer.width \in Nat
           /\ answer.blank \in Nat /\ answer.value \in Nat /\ End(answer) \in Nat
           /\ answer.interim <= End(answer)
           /\ answer \in Answers => /\ answer.interim <= answer.field
                                    /\ answer.field + 16 + answer.width <= answer.blank
<1>1. CASE answer \in Answers
  BY <1>1, AnswerAssumption DEF End, BlankLength
<1>2. CASE answer = NoAnswer /\ answer \notin Answers
  BY <1>2 DEF End, BlankLength, NoAnswer
<1> QED  BY <1>1, <1>2 DEF TypeOK

\* Before a request there is no answer, and position 0 is in its stream.
LEMMA NoAnswerEnd == End(NoAnswer) = 4
BY DEF End, NoAnswer, BlankLength

\* Descriptors are taken up to the limit and no further.
LEMMA DescriptorBound ==
    ASSUME NEW f \in [Processes -> 0 .. MaxFds], NEW p \in Processes, NEW n \in Nat
    PROVE  /\ WithMore(f, p, n) \in [Processes -> 0 .. MaxFds]
           /\ WithSpawn(f, p) \in [Processes -> 0 .. MaxFds]
           /\ \A x \in Processes : x # p => WithMore(f, p, n)[x] = f[x] /\ WithSpawn(f, p)[x] = f[x]
           /\ WithMore(f, p, n)[p] = IF f[p] + n > MaxFds THEN MaxFds ELSE f[p] + n
<1>1. \A k \in Nat : /\ WithMore(f, p, k) \in [Processes -> 0 .. MaxFds]
                     /\ \A x \in Processes : x # p => WithMore(f, p, k)[x] = f[x]
                     /\ WithMore(f, p, k)[p] = IF f[p] + k > MaxFds THEN MaxFds ELSE f[p] + k
  BY BoundAssumption DEF WithMore
<1>2. Kept(f, p) \in Nat
  BY BoundAssumption DEF Kept
<1> QED  BY <1>1, <1>2 DEF WithSpawn

\* atoi reads a natural number.
LEMMA AnnouncedNat ==
    ASSUME TypeOK, NEW n
    PROVE  Announced(n) \subseteq Nat
<1> DEFINE Read(v) == v = IF n - (answer.field + FieldLength) >= answer.width THEN answer.value
                          ELSE answer.value \div 10 ^ (answer.width - (n - (answer.field + FieldLength)))
<1>1. Announced(n) = IF Found(answer.field, FieldLength, n) THEN {v \in 0 .. answer.value : Read(v)}
                     ELSE Garbage
  BY DEF Announced
<1> HIDE DEF Read
<1>2. 0 .. answer.value \subseteq Nat
  BY AnswerType
<1> QED  BY <1>1, <1>2, CutAssumption

\* The offset that find() answers is a number.
LEMMA HeaderEndInt ==
    ASSUME TypeOK, NEW n \in Nat
    PROVE  HeaderEnd(n) \in Int
<1>1. Blanks(n) \subseteq Int /\ start \in Int
  BY AnswerType DEF Blanks, BlankLength, TypeOK
<1>2. CASE \E x \in Blanks(n) : \A y \in Blanks(n) : x <= y
  BY <1>1, <1>2 DEF HeaderEnd, BlankLength
<1>3. CASE Blanks(n) = {}
  BY <1>3 DEF HeaderEnd
<1>4. CASE Blanks(n) # {}
  <2>1. PICK x \in Blanks(n) : TRUE
    BY <1>4
  <2>2. Blanks(n) \subseteq {answer.interim - BlankLength, answer.blank}
    BY DEF Blanks
  <2>3. answer.interim - BlankLength \in Int /\ answer.blank \in Int
    BY AnswerType DEF BlankLength
  <2> QED  BY <1>2, <2>1, <2>2, <2>3
<1> QED  BY <1>3, <1>4

\* When the response begins with the answer and its header is there, the
\* length is the announced one and the body begins where the header ends.
LEMMA HeaderFound ==
    ASSUME TypeOK, answer \in Answers, start = answer.interim,
           NEW n \in Nat, Found(answer.blank, BlankLength, n), NEW a \in Announced(n)
    PROVE  a = answer.value /\ start + HeaderEnd(n) = answer.blank + BlankLength
<1>1. /\ answer.interim \in Nat /\ answer.field \in Nat /\ answer.width \in Nat
      /\ answer.blank \in Nat /\ answer.value \in Nat
      /\ answer.interim <= answer.field /\ answer.field + 16 + answer.width <= answer.blank
      /\ answer.blank + 4 <= n
  BY AnswerType DEF Found, BlankLength
<1>2. /\ Found(answer.field, FieldLength, n)
      /\ n - (answer.field + FieldLength) >= answer.width
  BY <1>1 DEF Found, FieldLength
<1>3. a = answer.value
  BY <1>2, Zenon DEF Announced
<1>4. Blanks(n) = {answer.blank}
  BY <1>1 DEF Blanks, Found, BlankLength
<1>5. HeaderEnd(n) = answer.blank - start + BlankLength
  BY <1>1, <1>4 DEF HeaderEnd
<1> QED  BY <1>1, <1>3, <1>5 DEF BlankLength

-----------------------------------------------------------------------------
\* What the poller loses when it goes down.
LEMMA CrashInv ==
    ASSUME IInv, Crash
    PROVE  IInv'
<1>1. TypeOK'
  <2>1. UNCHANGED <<fds, network, named>> /\ pc' = "dead" /\ before' = 0 /\ 0 \in 0 .. MaxFds
    BY BoundAssumption DEF Crash
  <2>2. answer' = NoAnswer /\ start' = 0 /\ at' = 0 /\ 0 \in 0 .. End(NoAnswer)
    BY NoAnswerEnd DEF Crash
  <2>3. start' \in 0 .. End(answer') /\ at' \in start' .. End(answer')
    BY <2>2
  <2>4. /\ currentIP' \in BOOLEAN /\ newlyMarried' \in BOOLEAN /\ listing' \in BOOLEAN
        /\ entire' \in BOOLEAN /\ result' = "error"
    BY Zenon DEF Crash
  <2>5. l' \in Int
    BY DEF Crash
  <2> QED  BY <2>1, <2>2, <2>3, <2>4, <2>5 DEF IInv, TypeOK
<1>2. Connected' /\ Counted' /\ WholeOrError'
  BY <1>1 DEF Crash, Connected, Counted, WholeOrError, Requesting
<1> QED  BY <1>1, <1>2 DEF IInv

\* What the steps keep that ask for no answer: those of the forks, of the pass
\* before the request and of the first child.
LEMMA PassInv ==
    ASSUME IInv,
           \/ SecondFork \/ GetCameras \/ PrimaryIp \/ Poke \/ SpawnDialer
           \/ \E n \in Networks : NetworkChanges(n)
    PROVE  IInv'
<1> USE BoundAssumption DEF IInv, pass, stream, Processes
<1>1. fds \in [Processes -> 0 .. MaxFds]
  BY DEF TypeOK
<1>2. CASE SecondFork
  <2>1. TypeOK'
    BY <1>2 DEF SecondFork, TypeOK, End
  <2>2. Connected' /\ Counted' /\ WholeOrError'
    BY <1>2 DEF SecondFork, Connected, Counted, WholeOrError, Requesting
  <2> QED  BY <2>1, <2>2
<1>3. CASE GetCameras
  <2>1. CASE Full("poller")
    BY <1>3, <2>1, CrashInv DEF GetCameras
  <2>2. CASE ~Full("poller")
    <3>1. TypeOK'
      BY <1>3, <2>2 DEF GetCameras, TypeOK, End
    <3>2. Connected' /\ Counted' /\ WholeOrError'
      BY <1>3, <2>2 DEF GetCameras, Connected, Counted, WholeOrError, Requesting
    <3> QED  BY <3>1, <3>2
  <2> QED  BY <2>1, <2>2
<1>4. CASE PrimaryIp
  <2>1. PICK f : f = AfterGetPrimaryIp("poller")
    OBVIOUS
  <2>2. f \in [Processes -> 0 .. MaxFds]
    BY <1>1, <2>1, DescriptorBound DEF AfterGetPrimaryIp
  <2>3. fds' \in [Processes -> 0 .. MaxFds]
    BY <1>4, <2>1, <2>2, DescriptorBound DEF PrimaryIp
  <2>4. /\ currentIP' \in BOOLEAN /\ pc' \in {"connect", "answered"} /\ result' = "error"
        /\ pc = "ip" /\ UNCHANGED <<network, named, newlyMarried, listing, before, stream>>
    BY <1>4 DEF PrimaryIp, HasIp
  <2>5. TypeOK'
    BY <2>3, <2>4 DEF TypeOK, End
  <2>6. Connected' /\ Counted' /\ WholeOrError'
    BY <2>4 DEF Connected, Counted, WholeOrError, Requesting
  <2> QED  BY <2>5, <2>6
<1>5. CASE Poke \/ SpawnDialer
  <2>1. fds' \in [Processes -> 0 .. MaxFds] /\ fds'["poller"] = fds["poller"]
    <3>1. fds' = WithMore(fds, "first", 1) \/ fds' = WithSpawn(fds, "first")
      BY <1>5 DEF Poke, SpawnDialer, AfterGetPrimaryIp
    <3>2. "first" \in Processes /\ "poller" \in Processes /\ "first" # "poller" /\ 1 \in Nat
      OBVIOUS
    <3> HIDE DEF Processes
    <3>3. /\ WithMore(fds, "first", 1) \in [Processes -> 0 .. MaxFds]
          /\ WithMore(fds, "first", 1)["poller"] = fds["poller"]
      <4>1. PICK one \in Nat : one = 1
        BY <3>2
      <4>2. WithMore(fds, "first", one) \in [Processes -> 0 .. MaxFds]
        BY <1>1, <3>2, DescriptorBound
      <4>3. \A x \in Processes : x # "first" => WithMore(fds, "first", one)[x] = fds[x]
        BY <1>1, <3>2, DescriptorBound
      <4> QED  BY <3>2, <4>1, <4>2, <4>3
    <3>4. /\ WithSpawn(fds, "first") \in [Processes -> 0 .. MaxFds]
          /\ WithSpawn(fds, "first")["poller"] = fds["poller"]
      BY <1>1, <3>2, DescriptorBound
    <3> QED  BY <3>1, <3>3, <3>4
  <2>2. UNCHANGED <<pc, network, named, pass, stream, result>>
    BY <1>5 DEF Poke, SpawnDialer
  <2>3. TypeOK'
    BY <2>1, <2>2 DEF TypeOK, End
  <2>4. Connected' /\ Counted' /\ WholeOrError'
    BY <2>1, <2>2 DEF Connected, Counted, WholeOrError, Requesting, HeaderRead, Found, End
  <2> QED  BY <2>3, <2>4
<1>6. CASE \E n \in Networks : NetworkChanges(n)
  <2>1. TypeOK'
    BY <1>6 DEF NetworkChanges, TypeOK, End
  <2>2. Connected' /\ Counted' /\ WholeOrError'
    BY <1>6 DEF NetworkChanges, Connected, Counted, WholeOrError, Requesting, HeaderRead, Found,
        End
  <2> QED  BY <2>1, <2>2
<1> QED  BY <1>2, <1>3, <1>4, <1>5, <1>6

\* The connection and the interim answer.
LEMMA ConnectInv ==
    ASSUME IInv, Connect \/ Expect \/ RequestFails
    PROVE  IInv'
<1> USE BoundAssumption DEF IInv, pass, stream, Processes
<1>1. fds \in [Processes -> 0 .. MaxFds]
  BY DEF TypeOK
<1>2. CASE Connect
  <2>1. CASE Crash
    BY <2>1, CrashInv
  <2>2. CASE /\ ~Full("poller") /\ fds' = WithMore(fds, "poller", 1) /\ before' = fds["poller"]
             /\ answer' \in Answers
             /\ start' = 0 /\ at' = 0 /\ l' = 0 /\ entire' = FALSE /\ pc' = "expect"
             /\ UNCHANGED <<network, named, currentIP, newlyMarried, listing, result>>
    <3>1. fds' \in [Processes -> 0 .. MaxFds] /\ fds'["poller"] = fds["poller"] + 1
      <4>1. /\ WithMore(fds, "poller", 1) \in [Processes -> 0 .. MaxFds]
            /\ WithMore(fds, "poller", 1)["poller"] = IF fds["poller"] + 1 > MaxFds THEN MaxFds
                                                      ELSE fds["poller"] + 1
        BY <1>1, DescriptorBound
      <4>2. fds["poller"] \in 0 .. MaxFds /\ fds["poller"] # MaxFds
        BY <1>1, <2>2 DEF Full
      <4> QED  BY <2>2, <4>1, <4>2
    <3>2. TypeOK'
      <4>1. End(answer') \in Nat
        BY <2>2, AnswerAssumption DEF End, BlankLength
      <4>2. before' \in 0 .. MaxFds
        BY <1>1, <2>2
      <4>3. start' \in 0 .. End(answer') /\ at' \in start' .. End(answer') /\ l' \in Int
        BY <2>2, <4>1
      <4> QED  BY <2>2, <3>1, <4>2, <4>3 DEF TypeOK
    <3>3. Connected' /\ Counted' /\ WholeOrError'
      BY <2>2, <3>1 DEF Connected, Counted, WholeOrError, Requesting
    <3> QED  BY <3>2, <3>3
  <2>3. CASE /\ fds' = WithMore(fds, "poller", 1) /\ result' = "error" /\ pc' = "answered"
             /\ UNCHANGED <<network, named, pass, stream>>
    <3>1. fds' \in [Processes -> 0 .. MaxFds]
      BY <1>1, <2>3, DescriptorBound
    <3>2. TypeOK'
      BY <2>3, <3>1 DEF TypeOK, End
    <3>3. Connected' /\ Counted' /\ WholeOrError'
      BY <2>3 DEF Connected, Counted, WholeOrError, Requesting
    <3> QED  BY <3>2, <3>3
  <2> QED  BY <1>2, <2>1, <2>2, <2>3 DEF Connect
<1>3. CASE Expect
  <2>1. PICK n \in Cuts : /\ Piece(n, IF answer.interim > 0 THEN answer.interim ELSE End(answer))
                          /\ start' = n /\ at' = n /\ pc' = "first" /\ pc = "expect"
                          /\ UNCHANGED <<fds, network, named, pass, answer, l, entire, result>>
    BY <1>3 DEF Expect
  <2>2. n \in Nat /\ n <= End(answer)
    BY <2>1, AnswerType, CutAssumption DEF Piece
  <2>3. TypeOK'
    BY <2>1, <2>2, AnswerType DEF TypeOK, End
  <2>4. Connected' /\ Counted' /\ WholeOrError'
    BY <2>1 DEF Connected, Counted, WholeOrError, Requesting
  <2> QED  BY <2>3, <2>4
<1>4. CASE RequestFails
  <2>1. /\ pc \in Requesting /\ pc' = "answered" /\ result' = "error"
        /\ fds' = [fds EXCEPT !["poller"] = @ - 1]
        /\ UNCHANGED <<network, named, pass, stream>>
    BY <1>4 DEF RequestFails, Return, Requesting
  <2>2. fds["poller"] = before + 1 /\ before \in Nat
    BY <2>1 DEF Connected, TypeOK
  <2>3. TypeOK'
    BY <2>1, <2>2 DEF TypeOK, End
  <2>4. Connected' /\ Counted' /\ WholeOrError'
    BY <2>1 DEF Connected, Counted, WholeOrError, Requesting
  <2> QED  BY <2>3, <2>4
<1> QED  BY <1>2, <1>3, <1>4

\* The loop that receives the response, given that it counts rightly when the
\* header was in the first piece.
LEMMA ReceivedInv ==
    ASSUME IInv, pc \in {"first", "receive"}, NEW n \in Cuts, Piece(n, End(answer)),
           NEW left \in Int, Received(n, left), entire' \in BOOLEAN,
           entire' => start = answer.interim /\ Found(answer.blank, BlankLength, n)
                         /\ left = End(answer) - n
    PROVE  IInv'
<1> USE BoundAssumption DEF IInv, pass, stream, Processes
<1>1. /\ fds \in [Processes -> 0 .. MaxFds] /\ fds["poller"] = before + 1 /\ before \in Nat
      /\ answer \in Answers
  BY DEF TypeOK, Connected, Requesting
<1>2. /\ n \in Nat /\ start \in Nat /\ End(answer) \in Nat /\ start <= n /\ n <= End(answer)
      /\ at' = n /\ l' = left /\ UNCHANGED <<network, named, pass, answer, start>>
  BY AnswerType, CutAssumption DEF Received, Piece, TypeOK
<1>3. UNCHANGED End(answer)
  BY <1>2 DEF End
<1>4. CASE left > 0
  <2>1. pc' = "receive" /\ UNCHANGED <<fds, result>>
    BY <1>4 DEF Received
  <2>2. TypeOK'
    BY <1>2, <1>3, <2>1 DEF TypeOK
  <2>3. Connected'
    BY <1>1, <1>2, <2>1 DEF Connected
  <2>4. Counted' /\ WholeOrError'
    BY <1>2, <1>3, <2>1 DEF Counted, WholeOrError, HeaderRead, Found
  <2> QED  BY <2>2, <2>3, <2>4
<1>5. CASE ~(left > 0)
  <2>1. PICK a \in Announced(n) : result' = Body(n, a)
    BY <1>5 DEF Received
  <2>2. pc' = "answered" /\ fds' = [fds EXCEPT !["poller"] = @ - 1]
    BY <1>5 DEF Received
  <2>3. result' \in {"whole", "other"}
    BY <2>1 DEF Body
  <2>4. TypeOK'
    BY <1>1, <1>2, <1>3, <2>2, <2>3 DEF TypeOK
  <2>5. entire' => result' = "whole"
    <3>1. SUFFICES ASSUME entire' PROVE result' = "whole"
      OBVIOUS
    <3>2. n = End(answer)
      BY <1>2, <1>5, <3>1
    <3>3. a = answer.value /\ start + HeaderEnd(n) = answer.blank + BlankLength
      BY <1>1, <1>2, <3>1, HeaderFound
    <3> QED  BY <2>1, <3>2, <3>3 DEF Body
  <2>6. Connected' /\ Counted' /\ WholeOrError'
    BY <2>2, <2>5 DEF Connected, Counted, WholeOrError, Requesting
  <2> QED  BY <2>4, <2>6
<1> QED  BY <1>4, <1>5

\* The pieces of the response.
LEMMA ReceiveInv ==
    ASSUME IInv, ReceiveFirst \/ ReceiveMore
    PROVE  IInv'
<1>1. CASE ReceiveFirst
  <2>1. PICK n \in Cuts : /\ Piece(n, End(answer))
                          /\ IF Throws(n)
                             THEN Crash
                             ELSE /\ \E a \in Announced(n) : Received(n, Expected(n, a) - (n - at))
                                  /\ entire' = (start = answer.interim 
                                                  /\ Found(answer.blank, BlankLength, n))
    BY <1>1 DEF ReceiveFirst
  <2>2. CASE Throws(n)
    BY <2>1, <2>2, CrashInv
  <2>3. CASE ~Throws(n)
    <3>1. PICK a \in Announced(n) : Received(n, Expected(n, a) - (n - at))
      BY <2>1, <2>3
    <3>2. /\ n \in Nat /\ a \in Nat /\ at \in Nat /\ HeaderEnd(n) \in Int /\ End(answer) \in Nat
          /\ start \in Nat
      BY AnnouncedNat, CutAssumption, HeaderEndInt, AnswerType DEF IInv, TypeOK
    <3>3. PICK left : left = Expected(n, a) - (n - at)
      OBVIOUS
    <3>4. left \in Int
      BY <3>2, <3>3 DEF Expected
    <3>5. at = start /\ answer \in Answers /\ pc = "first"
      BY <1>1 DEF ReceiveFirst, IInv, Counted, Connected, Requesting
    <3>6. entire' => left = End(answer) - n
      <4>1. SUFFICES ASSUME start = answer.interim, Found(answer.blank, BlankLength, n)
                     PROVE  left = End(answer) - n
        BY <2>1, <2>3
      <4>2. a = answer.value /\ start + HeaderEnd(n) = answer.blank + BlankLength
        BY <3>2, <3>5, <4>1, HeaderFound DEF IInv
      <4> QED  BY <3>2, <3>3, <3>5, <4>2, AnswerType DEF IInv, Expected, End, BlankLength
    <3>7. entire' \in BOOLEAN
      BY <2>1, <2>3
    <3> QED  BY <2>1, <2>3, <3>1, <3>3, <3>4, <3>5, <3>6, <3>7, ReceivedInv
  <2> QED  BY <2>2, <2>3
<1>2. CASE ReceiveMore
  <2>1. PICK n \in Cuts : Piece(n, End(answer)) /\ Received(n, l - (n - at))
    BY <1>2 DEF ReceiveMore
  <2>2. PICK left : left = l - (n - at)
    OBVIOUS
  <2>3. n \in Nat /\ at \in Nat /\ l \in Int /\ End(answer) \in Nat /\ n > at
    BY <2>1, CutAssumption, AnswerType DEF IInv, TypeOK, Piece
  <2>4. pc = "receive" /\ entire' = entire
    BY <1>2 DEF ReceiveMore
  <2>5. entire => /\ start = answer.interim /\ Found(answer.blank, BlankLength, n)
                  /\ left = End(answer) - n
    BY <2>2, <2>3, <2>4, AnswerType DEF IInv, TypeOK, Counted, HeaderRead, Found, BlankLength
  <2>6. left \in Int /\ entire' \in BOOLEAN
    BY <2>2, <2>3, <2>4 DEF IInv, TypeOK
  <2> QED  BY <2>1, <2>2, <2>4, <2>5, <2>6, ReceivedInv
<1> QED  BY <1>1, <1>2

\* What the pass does with the answer.
LEMMA AnsweredInv ==
    ASSUME IInv, EndPass \/ CannotParse \/ ViewAllRecordedFiles
    PROVE  IInv'
<1> USE BoundAssumption DEF IInv, pass, stream, Processes
<1>1. fds \in [Processes -> 0 .. MaxFds]
  BY DEF TypeOK
<1>2. CASE EndPass
  <2>1. fds' \in [Processes -> 0 .. MaxFds]
    BY <1>1, <1>2, DescriptorBound DEF EndPass
  <2>2. TypeOK'
    <3>1. answer' = NoAnswer /\ start' = 0 /\ at' = 0 /\ 0 \in 0 .. End(NoAnswer)
      BY <1>2, NoAnswerEnd DEF EndPass
    <3>2. start' \in 0 .. End(answer') /\ at' \in start' .. End(answer')
      BY <3>1
    <3>3. before' = 0 /\ 0 \in 0 .. MaxFds /\ 0 \in Int
      BY <1>2 DEF EndPass
    <3> QED  BY <1>2, <2>1, <3>1, <3>2, <3>3 DEF EndPass, TypeOK
  <2>3. Connected' /\ Counted' /\ WholeOrError'
    BY <1>2 DEF EndPass, Connected, Counted, WholeOrError, Requesting
  <2> QED  BY <2>2, <2>3
<1>3. CASE CannotParse
  BY <1>3, CrashInv DEF CannotParse
<1>4. CASE ViewAllRecordedFiles
  <2>1. CASE Full("poller")
    BY <1>4, <2>1, CrashInv DEF ViewAllRecordedFiles
  <2>2. CASE ~Full("poller")
    <3>1. fds' \in [Processes -> 0 .. MaxFds]
      BY <1>1, <1>4, <2>2, DescriptorBound DEF ViewAllRecordedFiles
    <3>2. TypeOK'
      BY <1>4, <2>2, <3>1 DEF ViewAllRecordedFiles, TypeOK, End
    <3>3. Connected' /\ Counted' /\ WholeOrError'
      BY <1>4, <2>2 DEF ViewAllRecordedFiles, Connected, Counted, WholeOrError, Requesting
    <3> QED  BY <3>2, <3>3
  <2> QED  BY <2>1, <2>2
<1> QED  BY <1>2, <1>3, <1>4

\* Every reachable state satisfies the inductive invariant.
LEMMA Inductive == Spec => []IInv
<1>1. Init => IInv
  <2> SUFFICES ASSUME Init PROVE IInv
    OBVIOUS
  <2>1. start \in 0 .. End(answer) /\ at \in start .. End(answer)
    BY NoAnswerEnd DEF Init
  <2>2. 0 \in 0 .. MaxFds /\ fds \in [Processes -> 0 .. MaxFds]
    BY BoundAssumption DEF Init
  <2>3. /\ pc = "dead" /\ network \in Networks /\ named \in BOOLEAN
        /\ currentIP \in BOOLEAN /\ newlyMarried \in BOOLEAN /\ listing \in BOOLEAN
        /\ entire \in BOOLEAN /\ before = 0 /\ answer = NoAnswer /\ result = "error"
    BY Zenon DEF Init
  <2>4. l \in Int
    BY DEF Init
  <2>5. TypeOK
    BY <2>1, <2>2, <2>3, <2>4 DEF TypeOK
  <2> QED  BY <2>5 DEF Init, IInv, Connected, Counted, WholeOrError, Requesting
<1>2. IInv /\ [Next]_vars => IInv'
  <2> SUFFICES ASSUME IInv, [Next]_vars PROVE IInv'
    OBVIOUS
  <2>1. CASE Next
    BY <2>1, PassInv, ConnectInv, ReceiveInv, AnsweredInv DEF Next, Poller
  <2>2. CASE UNCHANGED vars
    BY <2>2 DEF vars, pass, stream, IInv, TypeOK, Connected, Counted, WholeOrError, HeaderRead,
        Found, End
  <2> QED  BY <2>1, <2>2
<1> QED  BY <1>1, <1>2, PTL DEF Spec

-----------------------------------------------------------------------------
\* Every variable keeps its type: no descriptor is given back that is not held.
THEOREM TypeCorrect == Spec => []TypeOK
<1>1. IInv => TypeOK
  BY DEF IInv
<1> QED  BY <1>1, Inductive, PTL

\* When the header of the answer stands in the first piece, SOAPReq returns the
\* body as it was sent or reports an error, wherever the rest is cut.
THEOREM NeverHalfABody == Spec => []WholeOrError
<1>1. IInv => WholeOrError
  BY DEF IInv
<1> QED  BY <1>1, Inductive, PTL

\* However a request ends, the poller then has the descriptors it had before.
THEOREM NoDescriptorLost == Spec => ClosesConnection
<1>1. IInv /\ [Next]_vars => [(pc \in {"expect", "first", "receive"} /\ pc' = "answered")
                                 => fds'["poller"] = before]_vars
  <2> SUFFICES ASSUME IInv, Next, pc \in Requesting, pc' = "answered"
               PROVE  fds'["poller"] = before
    BY DEF Requesting
  <2>1. fds["poller"] = before + 1 /\ before \in Nat /\ fds \in [Processes -> 0 .. MaxFds]
    BY DEF IInv, Connected, TypeOK
  <2>2. fds' = [fds EXCEPT !["poller"] = @ - 1]
    <3>1. CASE ReceiveFirst
      BY <3>1 DEF ReceiveFirst, Received, Crash
    <3>2. CASE ReceiveMore
      BY <3>2 DEF ReceiveMore, Received
    <3>3. CASE RequestFails
      BY <3>3 DEF RequestFails, Return
    <3> QED  BY <3>1, <3>2, <3>3 DEF Next, Poller, Requesting, SecondFork, GetCameras, PrimaryIp,
                Connect, Expect, EndPass, CannotParse, ViewAllRecordedFiles, Poke, SpawnDialer,
                NetworkChanges
  <2> QED  BY <2>1, <2>2 DEF Processes
<1> QED  BY <1>1, Inductive, PTL DEF Spec, ClosesConnection
=============================================================================
