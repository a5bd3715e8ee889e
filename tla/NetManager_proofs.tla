-------------------------- MODULE NetManager_proofs --------------------------
(***************************************************************************)
(* Proofs about NetManager for any reconnect-duration, any number of       *)
(* losses of the network, interrupted calls, failing forks and strays.     *)
(***************************************************************************)
EXTENDS NetManager, FiniteSetTheorems, TLAPS

\* As long as no signal has cut a wait short, the wvdial that wvdial points to
\* is the only one that may run, and it has ended when the next one is started.
OwnDialer ==
    signals = 0 => /\ dialers \subseteq {wvdial}
                   /\ pc = "redial" => dialers = {}

\* The radio is off between the two nmcli commands that switch it, only, unless
\* a fork has failed.
RadioOn == failures = 0 => wwan \/ pc = "on"

IInv == TypeOK /\ OwnDialer /\ RadioOn

-----------------------------------------------------------------------------
\* The initial state satisfies the inductive invariant.
LEMMA InitInv == Init => IInv
<1> SUFFICES ASSUME Init PROVE IInv
  OBVIOUS
<1>1. processCleaned \in BOOLEAN /\ online \in BOOLEAN /\ wwan \in BOOLEAN
  BY Zenon DEF Init
<1> QED
  BY <1>1, TimeAssumption, BoundAssumption, GapAssumption
     DEF Init, IInv, TypeOK, OwnDialer, RadioOn, Steps, Held, Seconds, Children, NoChild

\* What a blocking call takes, and what a failing fork counts.
LEMMA StepFacts ==
    ASSUME TypeOK
    PROVE  /\ TakesTime => since' \in Seconds
           /\ MayConnect => online' \in BOOLEAN
           /\ UNCHANGED online => online' \in BOOLEAN
           /\ UNCHANGED wwan => wwan' \in BOOLEAN
           /\ UNCHANGED faults => /\ failures' = failures /\ failures' \in 0 .. MaxFailures
                                  /\ UNCHANGED <<losses, signals, strays>>
           /\ ForkFails => /\ failures' = failures + 1 /\ failures' \in 0 .. MaxFailures
                           /\ UNCHANGED <<losses, signals, strays>>
<1>1. TakesTime => since' \in Seconds
  BY DEF TakesTime
<1>2. /\ MayConnect => online' \in BOOLEAN
      /\ UNCHANGED online => online' \in BOOLEAN
      /\ UNCHANGED wwan => wwan' \in BOOLEAN
  BY Zenon DEF TypeOK, MayConnect
<1>3. /\ UNCHANGED faults => /\ failures' = failures /\ failures' \in 0 .. MaxFailures
                              /\ UNCHANGED <<losses, signals, strays>>
      /\ ForkFails => /\ failures' = failures + 1 /\ failures' \in 0 .. MaxFailures
                      /\ UNCHANGED <<losses, signals, strays>>
  BY BoundAssumption DEF TypeOK, faults, ForkFails
<1> QED  BY <1>1, <1>2, <1>3

\* What the steps of the loop keep that neither dial nor switch the radio.
LEMMA LoopInv ==
    ASSUME IInv, Stamp \/ Sleep \/ Test \/ Up \/ Up2
    PROVE  IInv'
<1> USE TimeAssumption, BoundAssumption DEF IInv, dialing, clock, faults
<1>1. CASE Stamp
  <2>1. TypeOK'
    BY <1>1 DEF TypeOK, Stamp, Steps, Held, Seconds
  <2>2. OwnDialer' /\ RadioOn'
    BY <1>1 DEF Stamp, OwnDialer, RadioOn
  <2> QED  BY <2>1, <2>2
<1>2. CASE Sleep
  <2>1. TypeOK'
    BY <1>2 DEF TypeOK, Sleep, Slept, Signal, Steps, Held, Seconds
  <2>2. OwnDialer' /\ RadioOn'
    BY <1>2 DEF TypeOK, Sleep, Signal, OwnDialer, RadioOn
  <2> QED  BY <2>1, <2>2
<1>3. CASE Test
  <2>1. pc' \in {"stamp", "dial", "up"}
    BY <1>3 DEF Test
  <2>2. TypeOK'
    BY <1>3, <2>1 DEF TypeOK, Test, TakesTime, Steps, Held, Seconds
  <2>3. OwnDialer' /\ RadioOn'
    BY <1>3, <2>1 DEF Test, OwnDialer, RadioOn
  <2> QED  BY <2>2, <2>3
<1>4. CASE Up \/ Up2
  <2>1. /\ pc' \in {"stamp", "up2", "off", "stuck"} /\ pc \in {"up", "up2"}
        /\ since' \in Seconds /\ online' \in BOOLEAN /\ processCleaned' = FALSE
        /\ UNCHANGED <<waitInterval, gap, dialing, wwan, mobileBroadbandCon, losses, signals, strays>>
        /\ failures' \in {failures, failures + 1} /\ failures' \in 0 .. MaxFailures
    <3>1. CASE Up
      BY <3>1, StepFacts DEF Up, ConUp, AfterFailure
    <3>2. CASE Up2
      BY <3>2, StepFacts DEF Up2, ConUp, AfterFailure
    <3> QED  BY <1>4, <3>1, <3>2
  <2>2. TypeOK'
    BY <2>1 DEF TypeOK, Steps, Held
  <2>3. OwnDialer' /\ RadioOn'
    BY <2>1 DEF TypeOK, OwnDialer, RadioOn
  <2> QED  BY <2>2, <2>3
<1> QED  BY <1>1, <1>2, <1>3, <1>4

\* What the steps keep that end a wvdial, wait for it and start the next.
LEMMA DialingInv ==
    ASSUME IInv, \/ Hangup \/ HangupAll \/ WaitDialer \/ Dial \/ WaitSpawned
                 \/ \E c \in Children : DialerEnds(c)
    PROVE  IInv'
<1> USE TimeAssumption, BoundAssumption DEF IInv, dialing, clock, faults
<1>1. CASE Hangup
  <2>1. TypeOK'
    BY <1>1 DEF TypeOK, Hangup, ToHangUp, TakesTime, Steps, Held, Seconds
  <2>2. OwnDialer' /\ RadioOn'
    BY <1>1 DEF Hangup, OwnDialer, RadioOn
  <2> QED  BY <2>1, <2>2
<1>2. CASE WaitDialer
  <2>1. TypeOK'
    BY <1>2 DEF TypeOK, WaitDialer, Signal, Steps, Held
  <2>2. OwnDialer'
    BY <1>2 DEF TypeOK, WaitDialer, HungUp, Signal, OwnDialer
  <2>3. RadioOn'
    BY <1>2 DEF WaitDialer, Signal, RadioOn
  <2> QED  BY <2>1, <2>2, <2>3
<1>3. CASE Dial
  <2>1. /\ pc' \in {"stamp", "waiting", "stuck"} /\ since' \in Seconds /\ online' \in BOOLEAN
        /\ \/ wvdial' \in Children /\ dialers' = dialers \cup {wvdial'}
           \/ wvdial' = Failed /\ dialers' = dialers
        /\ failures' \in {failures, failures + 1} /\ failures' \in 0 .. MaxFailures
        /\ processCleaned' = FALSE
        /\ UNCHANGED <<waitInterval, gap, hungup, wwan, mobileBroadbandCon, losses, signals, strays>>
    BY <1>3, StepFacts DEF Dial, AfterFailure
  <2>2. TypeOK'
    BY <2>1 DEF TypeOK, Steps, Held
  <2>3. signals = 0 => dialers = {}
    BY <1>3 DEF Dial, OwnDialer, TypeOK, NoChild, Children
  <2>4. OwnDialer' /\ RadioOn'
    <3>1. pc # "on"
      BY <1>3 DEF Dial
    <3> QED  BY <2>1, <2>3, <3>1 DEF TypeOK, OwnDialer, RadioOn
  <2> QED  BY <2>2, <2>4
<1>4. CASE \E c \in Children : DialerEnds(c)
  <2>1. TypeOK'
    BY <1>4 DEF TypeOK, DialerEnds
  <2>2. OwnDialer' /\ RadioOn'
    BY <1>4 DEF DialerEnds, OwnDialer, RadioOn
  <2> QED  BY <2>1, <2>2
<1>5. CASE HangupAll
  <2>1. TypeOK'
    BY <1>5 DEF TypeOK, HangupAll, Steps, Held
  <2>2. OwnDialer' /\ RadioOn'
    BY <1>5 DEF HangupAll, OwnDialer, RadioOn
  <2> QED  BY <2>1, <2>2
<1>6. CASE WaitSpawned
  <2>1. TypeOK'
    BY <1>6 DEF TypeOK, WaitSpawned, Signal, TakesTime, Steps, Held, Seconds
  <2>2. OwnDialer' /\ RadioOn'
    BY <1>6 DEF TypeOK, WaitSpawned, Signal, OwnDialer, RadioOn
  <2> QED  BY <2>1, <2>2
<1> QED  BY <1>1, <1>2, <1>3, <1>4, <1>5, <1>6

\* What the two commands keep that switch the radio, a loss of the network, and
\* the end of a stray child.
LEMMA RadioInv ==
    ASSUME IInv, WwanOff \/ WwanOn \/ GoesDown \/ ReapsStray
    PROVE  IInv'
<1> USE TimeAssumption, BoundAssumption DEF IInv, dialing, clock, faults
<1>1. CASE WwanOff \/ WwanOn
  <2>1. /\ pc' \in {"on", "stamp", "stuck"} /\ since' \in Seconds /\ wwan' \in BOOLEAN
        /\ failures' = failures => pc' = "on" \/ (pc' = "stamp" /\ wwan')
        /\ failures' \in {failures, failures + 1} /\ failures' \in 0 .. MaxFailures
        /\ processCleaned' = FALSE
        /\ UNCHANGED <<waitInterval, gap, dialing, online, mobileBroadbandCon, losses, signals, strays>>
    <3>1. \/ pc' = "on" /\ wwan' = FALSE /\ UNCHANGED faults
          \/ pc' = "stamp" /\ wwan' = TRUE /\ UNCHANGED faults
          \/ pc' \in {"on", "stamp", "stuck"} /\ UNCHANGED wwan /\ ForkFails
      BY <1>1 DEF WwanOff, WwanOn, Switch, AfterFailure
    <3>2. /\ TakesTime /\ processCleaned' = FALSE
          /\ UNCHANGED <<waitInterval, gap, dialing, online, mobileBroadbandCon>>
      BY <1>1 DEF WwanOff, WwanOn, Switch
    <3>3. wwan' \in BOOLEAN
      BY <3>1, StepFacts
    <3>4. failures' # failures \/ ~ForkFails
      BY StepFacts DEF TypeOK
    <3> QED  BY <3>1, <3>2, <3>3, <3>4, StepFacts
  <2>2. TypeOK'
    BY <2>1 DEF TypeOK, Steps, Held
  <2>3. OwnDialer' /\ RadioOn'
    BY <2>1 DEF TypeOK, OwnDialer, RadioOn
  <2> QED  BY <2>2, <2>3
<1>2. CASE GoesDown
  <2>1. TypeOK'
    <3>1. /\ online' \in BOOLEAN
          /\ UNCHANGED <<pc, clock, dialing, wwan, mobileBroadbandCon, processCleaned,
                         signals, failures, strays>>
      BY <1>2 DEF GoesDown
    <3>2. losses' \in 0 .. MaxLosses
      BY <1>2 DEF GoesDown, TypeOK
    <3> QED  BY <3>1, <3>2 DEF TypeOK
  <2>2. OwnDialer' /\ RadioOn'
    BY <1>2 DEF GoesDown, OwnDialer, RadioOn
  <2> QED  BY <2>1, <2>2
<1>3. CASE ReapsStray
  <2>1. TypeOK'
    BY <1>3 DEF TypeOK, ReapsStray
  <2>2. OwnDialer' /\ RadioOn'
    BY <1>3 DEF ReapsStray, OwnDialer, RadioOn
  <2> QED  BY <2>1, <2>2
<1> QED  BY <1>1, <1>2, <1>3

\* Every reachable state satisfies the inductive invariant.
LEMMA Inductive == Spec => []IInv
<1>1. IInv /\ [Next]_vars => IInv'
  <2> SUFFICES ASSUME IInv, [Next]_vars PROVE IInv'
    OBVIOUS
  <2>1. CASE Next
    BY <2>1, LoopInv, DialingInv, RadioInv DEF Next, Thread
  <2>2. CASE UNCHANGED vars
    BY <2>2 DEF vars, clock, dialing, faults, IInv, TypeOK, OwnDialer, RadioOn
  <2> QED  BY <2>1, <2>2
<1> QED  BY <1>1, InitInv, PTL DEF Spec

-----------------------------------------------------------------------------
\* Every variable keeps its type.
THEOREM TypeCorrect == Spec => []TypeOK
<1>1. IInv => TypeOK
  BY DEF IInv
<1> QED  BY <1>1, Inductive, PTL

\* No two wvdials dial at a time, as long as no signal has cut a wait short.
THEOREM NeverTwoDialers == Spec => []OneDialer
<1>1. IInv => OneDialer
  <2> SUFFICES ASSUME dialers \subseteq {wvdial} PROVE Cardinality(dialers) <= 1
    BY DEF IInv, OwnDialer, OneDialer
  <2>1. dialers = {} \/ dialers = {wvdial}
    OBVIOUS
  <2> QED  BY <2>1, FS_EmptySet, FS_Singleton
<1> QED  BY <1>1, Inductive, PTL

\* Whenever the thread probes, sleeps or reads the clock the radio is on, unless
\* a fork has failed.
THEOREM RadioRestored == Spec => []WwanRestored
<1>1. IInv => WwanRestored
  BY DEF IInv, RadioOn, WwanRestored
<1> QED  BY <1>1, Inductive, PTL
=============================================================================
