----------------------------- MODULE Transport -----------------------------
(***************************************************************************)
(* A pass of the poller seen from its connections: opendir in getCameras,  *)
(* GetPrimaryIp, reqSOAPService, SOAPReq with the classes ClientSocket and *)
(* Socket, getStrRecordedFiles, and the file descriptors all of them use   *)
(* up.  What runs out of descriptors goes down, and the chain of forks     *)
(* starts it again with the table of its parent.                           *)
(*                                                                         *)
(* The server's answer is a stream of bytes with a reading position `at`.  *)
(* Positions are real byte offsets; only the offsets that the code looks   *)
(* for are kept (Answers).  Left out: TLS (SOAPReq opens plain sockets),   *)
(* bytes that are zero, what a pipe() that fails leaves in its array, the  *)
(* gps device, the commands of the answer except ViewAllRecordedFiles, the *)
(* passes every 900 seconds that only call record(), a change from one     *)
(* address to another.                                                     *)
(*                                                                         *)
(* Bounds: MaxFds descriptors beside the lasting ones of the process; one  *)
(* camera; a piece of the stream ends at a position of Cuts.               *)
(***************************************************************************)
EXTENDS Integers

CONSTANTS
    MaxFds,          \* RLIMIT_NOFILE less the descriptors that stay open
    MaxRecv,         \* MAXRECV
    Answers,         \* what the server may send, see AnswerAssumption
    Cuts,            \* where a piece of the stream may end
    Folders,         \* directories below the one of the recorded files
    Garbage          \* what atoi may read where no length stands

\* interim: length of "100 Continue" with its blank line, 0 if it is not sent;
\* then, as offsets, the length field of `width` digits and the blank line.
ASSUME AnswerAssumption ==
    /\ Answers \subseteq [interim : Nat, field : Nat, width : 1 .. 9, blank : Nat, value : Nat]
    /\ \A a \in Answers : a.interim <= a.field /\ a.field + 16 + a.width <= a.blank
ASSUME BoundAssumption == MaxFds \in Nat \ {0} /\ MaxRecv \in Nat \ {0} /\ Folders \in Nat
ASSUME CutAssumption == Cuts \subseteq Nat /\ Garbage \subseteq Nat

FieldLength == 16                     \* "Content-Length: "
BlankLength == 4                      \* "\r\n\r\n"
Processes == {"first", "poller"}

VARIABLES
    pc,
    fds,             \* fds[p]: descriptors that process p has open for good or now
    network,         \* "down", "nameless", "serverless" or "up"
    named,           \* server-addr is a name, not an address; it does not change
    currentIP,       \* the machine had an address in the last pass
    newlyMarried,    \* the first pass only looks for cameras
    listing,         \* the request is InsertRecordedFiles
    before,          \* history: the poller's descriptors before the request
    answer,          \* what the server sends in this request
    start,           \* where `response` begins in the stream
    at,              \* bytes of the stream received
    l,               \* what is still to come, as SOAPReq counts it
    entire,          \* history: `response` began with the answer, and its first
                     \* piece reached the end of the header
    result           \* "whole", "error", or "other"

pass   == <<currentIP, newlyMarried, listing, before>>
stream == <<answer, start, at, l, entire>>
vars   == <<pc, fds, network, named, pass, stream, result>>

NoAnswer == [interim |-> 0, field |-> 0, width |-> 1, blank |-> 0, value |-> 0]
End(a) == a.blank + BlankLength + a.value
Networks == {"down", "nameless", "serverless", "up"}

TypeOK ==
    /\ pc \in {"dead", "cameras", "ip", "connect", "expect", "first", "receive", "answered"}
    /\ fds \in [Processes -> 0 .. MaxFds]
    /\ network \in Networks /\ named \in BOOLEAN
    /\ currentIP \in BOOLEAN /\ newlyMarried \in BOOLEAN /\ listing \in BOOLEAN /\ entire \in BOOLEAN
    /\ before \in 0 .. MaxFds
    /\ answer \in Answers \cup {NoAnswer}
    /\ start \in 0 .. End(answer) /\ at \in start .. End(answer)
    /\ l \in Int
    /\ result \in {"whole", "error", "other"}

Init ==
    /\ pc = "dead"
    /\ fds = [p \in Processes |-> 0]
    /\ network \in Networks /\ named \in BOOLEAN
    /\ currentIP = FALSE /\ newlyMarried = TRUE /\ listing = FALSE /\ entire = FALSE
    /\ before = 0
    /\ answer = NoAnswer
    /\ start = 0 /\ at = 0 /\ l = 0
    /\ result = "error"

-----------------------------------------------------------------------------
(* Descriptors                                                             *)

Full(p) == fds[p] = MaxFds
WithMore(f, p, n) == [f EXCEPT ![p] = IF @ + n > MaxFds THEN MaxFds ELSE @ + n]

\* Three pipes, of each of which one end stays; pipe() fails when two more
\* descriptors are not to be had.
Kept(f, p) == LET pipes == (MaxFds - f[p]) \div 2 IN IF pipes > 3 THEN 3 ELSE pipes
WithSpawn(f, p) == WithMore(f, p, Kept(f, p))

\* The poller goes down: nothing of its pass is left.
Crash ==
    /\ pc' = "dead"
    /\ currentIP' = FALSE
    /\ listing' = FALSE /\ entire' = FALSE
    /\ answer' = NoAnswer /\ start' = 0 /\ at' = 0 /\ l' = 0 /\ result' = "error"
    /\ before' = 0
    /\ newlyMarried' = TRUE
    /\ UNCHANGED <<fds, network, named>>

\* secondFork: readConfig opens the configuration and dereferences a document
\* that could not be opened; firstFork then makes a new first child.  Otherwise
\* the new poller has the descriptors of the first child.
SecondFork ==
    /\ pc = "dead"
    /\ IF Full("first")
       THEN fds' = [fds EXCEPT !["first"] = 0] /\ UNCHANGED pc
       ELSE fds' = [fds EXCEPT !["poller"] = fds["first"]] /\ pc' = "cameras"
    /\ UNCHANGED <<network, named, pass, stream, result>>

\* Mutant of GetCameras: a directory that cannot be opened has no entries.
GetCamerasSurvives ==
    /\ pc = "cameras"
    /\ pc' = IF newlyMarried THEN "answered" ELSE "ip"
    /\ newlyMarried' = FALSE
    /\ UNCHANGED <<fds, network, named, currentIP, listing, before, stream, result>>

\* opendir("/dev/"), which readdir takes for granted; closedir
GetCameras ==
    /\ pc = "cameras"
    /\ IF Full("poller")
       THEN Crash
       ELSE /\ pc' = IF newlyMarried THEN "answered" ELSE "ip"
            /\ newlyMarried' = FALSE
            /\ UNCHANGED <<fds, network, named, currentIP, listing, before, stream, result>>

\* GetPrimaryIp closes its socket only where it has found an address.
AfterGetPrimaryIp(p) == IF network = "down" THEN WithMore(fds, p, 1) ELSE fds
HasIp(p) == network # "down" /\ ~Full(p)

\* systemStateChange from GetPrimaryIp on: when there is an address at last, or
\* none any more, record() may start an ffmpeg; without an address the pass asks
\* the service once more, then it gives up.
PrimaryIp ==
    /\ pc = "ip"
    /\ LET f == AfterGetPrimaryIp("poller") IN
       fds' \in {f} \cup IF HasIp("poller") # currentIP THEN {WithSpawn(f, "poller")} ELSE {}
    /\ currentIP' = HasIp("poller")
    /\ pc' = IF HasIp("poller") \/ currentIP THEN "connect" ELSE "answered"
    /\ result' = "error"
    /\ UNCHANGED <<network, named, newlyMarried, listing, before, stream>>

\* networkManager in the first child asks in the same way.
Poke ==
    /\ network = "down"
    /\ fds' = AfterGetPrimaryIp("first")
    /\ UNCHANGED <<pc, network, named, pass, stream, result>>

\* networkManager spawns wvdial or nmcli.
SpawnDialer ==
    /\ network = "down"
    /\ fds' = WithSpawn(fds, "first")
    /\ UNCHANGED <<pc, network, named, pass, stream, result>>

-----------------------------------------------------------------------------
(* ClientSocket and SOAPReq                                                *)

\* gethostbyname finds the server, which for an address it always does; for a
\* name it needs one more descriptor than the socket.
Resolves ==
    named => network \notin {"down", "nameless"} /\ fds["poller"] + 1 < MaxFds

\* ClientSocket(host, port): create() and connect().  gethostbyname returns
\* NULL for a name it cannot resolve, and connect() dereferences it.  When the
\* constructor throws, the Socket it has allocated is not deleted.
Connect ==
    /\ pc = "connect"
    /\ \/ /\ ~Full("poller")
          /\ ~Resolves
          /\ Crash
       \/ /\ ~Full("poller")
          /\ network = "up"
          /\ fds' = WithMore(fds, "poller", 1)
          /\ before' = fds["poller"]
          /\ answer' \in Answers
          /\ start' = 0 /\ at' = 0 /\ l' = 0 /\ entire' = FALSE
          /\ pc' = "expect"
          /\ UNCHANGED <<network, named, currentIP, newlyMarried, listing, result>>
       \/ /\ Full("poller") \/ (network # "up" /\ Resolves)
          /\ fds' = WithMore(fds, "poller", 1)
          /\ result' = "error"
          /\ pc' = "answered"
          /\ UNCHANGED <<network, named, pass, stream>>

\* Mutant of Return: both the ClientSocket and its Socket close it.
ReturnTwice(res) ==
    /\ result' = res
    /\ fds' = [fds EXCEPT !["poller"] = @ - 2]
    /\ pc' = "answered"
    /\ UNCHANGED <<network, named, pass, stream>>

\* SOAPReq returns res; the socket is closed.
Return(res) ==
    /\ result' = res
    /\ fds' = [fds EXCEPT !["poller"] = @ - 1]
    /\ pc' = "answered"
    /\ UNCHANGED <<network, named, pass, stream>>

\* Mutant of RequestFails: the descriptor is not given back.
RequestFailsLeaks ==
    /\ pc \in {"expect", "first", "receive"}
    /\ result' = "error"
    /\ pc' = "answered"
    /\ UNCHANGED <<fds, network, named, pass, stream>>

\* send() or recv() fails, times out after 10 seconds, is interrupted by a
\* signal, or finds the connection closed.
RequestFails == pc \in {"expect", "first", "receive"} /\ Return("error")

\* A piece of the stream arrives, of MAXRECV bytes at most.
Piece(n, last) == n \in Cuts /\ n > at /\ n <= at + MaxRecv /\ n <= last

\* req1 is sent and something comes back; find("100 Continue", 0) > 0 holds for
\* anything, so the content is sent.  A server that speaks of 100 Continue sends
\* no more before it has the content.
Expect ==
    /\ pc = "expect"
    /\ \E n \in Cuts :
          /\ Piece(n, IF answer.interim > 0 THEN answer.interim ELSE End(answer))
          /\ start' = n /\ at' = n
          /\ pc' = "first"
    /\ UNCHANGED <<fds, network, named, pass, answer, l, entire, result>>

\* response.find() of len bytes that stand at offset x, when n bytes are there
Found(x, len, n) == start <= x /\ x + len <= n

\* atoi of response.substr(..) after the length field: the number, or as many
\* of its leading digits as are there
Announced(n) ==
    IF Found(answer.field, FieldLength, n)
    THEN LET seen == n - (answer.field + FieldLength)
         IN {v \in 0 .. answer.value :
                v = IF seen >= answer.width THEN answer.value
                    ELSE answer.value \div 10 ^ (answer.width - seen)}
    ELSE Garbage

\* Offsets of the blank lines found, that of the interim answer first, and
\* (int) response.find("\r\n\r\n") + 4, where npos is -1.
Blanks(n) == {x \in {answer.interim - BlankLength, answer.blank} : Found(x, BlankLength, n)}
HeaderEnd(n) ==
    IF Blanks(n) = {} THEN 3
    ELSE (CHOOSE x \in Blanks(n) : \A y \in Blanks(n) : x <= y) - start + BlankLength

\* substr throws out_of_range, which nothing catches, when the field was not
\* found and the response is shorter than the offset that makes of npos.
Throws(n) == ~Found(answer.field, FieldLength, n) /\ n - start < FieldLength - 1

\* Mutant of Expected: the length of the header is not counted.
ExpectedBody(n, a) == a

\* The length of the response, according to its first piece
Expected(n, a) == a + HeaderEnd(n)

\* substr(si, l) of the whole response: the body, or something else
Body(n, a) ==
    IF start + HeaderEnd(n) = answer.blank + BlankLength /\ a = answer.value /\ n = End(answer)
    THEN "whole" ELSE "other"

\* The loop that receives the response: n bytes are there, l are to come.
\* When none are, the length and the header are looked for once more.
Received(n, left) ==
    /\ at' = n
    /\ l' = left
    /\ IF left > 0
       THEN pc' = "receive" /\ UNCHANGED <<fds, result>>
       ELSE /\ pc' = "answered"
            /\ fds' = [fds EXCEPT !["poller"] = @ - 1]
            /\ \E a \in Announced(n) : result' = Body(n, a)
    /\ UNCHANGED <<network, named, pass, answer, start>>

\* The first piece, from which alone the length is computed.
ReceiveFirst ==
    /\ pc = "first"
    /\ \E n \in Cuts :
          /\ Piece(n, End(answer))
          /\ IF Throws(n)
             THEN Crash
             ELSE /\ \E a \in Announced(n) : Received(n, Expected(n, a) - (n - at))
                  /\ entire' = (start = answer.interim /\ Found(answer.blank, BlankLength, n))

\* The pieces after it.
ReceiveMore ==
    /\ pc = "receive"
    /\ \E n \in Cuts : Piece(n, End(answer)) /\ Received(n, l - (n - at))
    /\ UNCHANGED entire

-----------------------------------------------------------------------------
(* What the pass does with the answer                                      *)

\* The pass ends: record() may start an ffmpeg, whose pipes stay.
EndPass ==
    /\ pc = "answered"
    /\ result # "other" \/ listing
    /\ fds' \in {fds, WithSpawn(fds, "poller")}
    /\ pc' = "cameras"
    /\ listing' = FALSE /\ entire' = FALSE
    /\ answer' = NoAnswer /\ start' = 0 /\ at' = 0 /\ l' = 0 /\ result' = "error"
    /\ before' = 0
    /\ UNCHANGED <<network, named, currentIP, newlyMarried>>

\* What is not the document sent cannot be parsed: nodeTab[0] of no node.
CannotParse ==
    /\ pc = "answered"
    /\ result = "other" /\ ~listing
    /\ Crash

\* getStrRecordedFiles leaves every directory open; then the list is sent.
ViewAllRecordedFiles ==
    /\ pc = "answered"
    /\ result = "whole" /\ ~listing
    /\ IF Full("poller")
       THEN Crash
       ELSE /\ fds' = WithMore(fds, "poller", 1 + Folders)
            /\ listing' = TRUE
            /\ pc' = "connect"
            /\ UNCHANGED <<network, named, currentIP, newlyMarried, before, stream, result>>

NetworkChanges(n) ==
    /\ n # network
    /\ network' = n
    /\ UNCHANGED <<pc, fds, named, pass, stream, result>>

Poller ==
    \/ SecondFork \/ GetCameras \/ PrimaryIp \/ Connect
    \/ Expect \/ ReceiveFirst \/ ReceiveMore \/ RequestFails
    \/ EndPass \/ CannotParse \/ ViewAllRecordedFiles

Next == Poller \/ Poke \/ SpawnDialer \/ \E n \in Networks : NetworkChanges(n)

\* The poller runs on: what the server does not send, the timeout ends.
Spec == Init /\ [][Next]_vars /\ WF_vars(Poller)

-----------------------------------------------------------------------------
\* When the server's "100 Continue" came alone and the header of the answer in
\* one piece, SOAPReq returns the body as it was sent or "CONNECTION ERROR",
\* however the rest is cut.
WholeOrError == (pc = "answered" /\ entire) => result \in {"whole", "error"}

\* A request that has reached the server leaves no descriptor behind, in
\* whatever way it ends.
ClosesConnection ==
    [][(pc \in {"expect", "first", "receive"} /\ pc' = "answered")
          => fds'["poller"] = before]_vars

\* Descriptors leak in several places and are never given back; once the
\* network is up for good, the poller reaches the server again and again all
\* the same, because what has run out goes down and is started again with the
\* table of a process further up.  (Where the server has a name and the first
\* child has less than five left, its pollers may die in gethostbyname for ever.)
ReachesServer ==
    <>[](network = "up" /\ (named => fds["first"] + 5 <= MaxFds)) => []<>(pc = "expect")
=============================================================================
