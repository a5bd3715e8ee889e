------------------------------ MODULE ChildLife ------------------------------
(***************************************************************************)
(* What class spawn (src/mystdlib.cpp) promises about the children of one  *)
(* process, whatever the order of fork, exit, signal and registration:     *)
(* a child that has exited is reported to its stop handler, once, and a    *)
(* child that still runs is never reported.  The process itself may go     *)
(* down, after which it promises nothing.                                  *)
(***************************************************************************)
EXTENDS Naturals

CONSTANT Pids            \* the process identifiers the kernel hands out

VARIABLES
    life,                \* life[p]: where child p is in its life
    down                 \* the parent has crashed

vars == <<life, down>>

Lives == {"unborn", "running", "exited", "reported"}

Init ==
    /\ life = [p \in Pids |-> "unborn"]
    /\ down = FALSE

\* One stage of one child's life follows another.
Move(p, from, to) ==
    /\ ~down
    /\ life[p] = from
    /\ life' = [life EXCEPT ![p] = to]
    /\ UNCHANGED down

Start(p)  == Move(p, "unborn", "running")
Exit(p)   == Move(p, "running", "exited")
Report(p) == Move(p, "exited", "reported")

Crash ==
    /\ ~down
    /\ down' = TRUE
    /\ UNCHANGED life

Next ==
    \/ Crash
    \/ \E p \in Pids : Start(p) \/ Exit(p) \/ Report(p)

Spec == Init /\ [][Next]_vars /\ \A p \in Pids : WF_vars(Report(p))
=============================================================================
