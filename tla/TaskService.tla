----------------------------- MODULE TaskService -----------------------------
(***************************************************************************)
(* What the user of a task queue is promised: every task accepted is       *)
(* performed at most once, and in the order of acceptance.                 *)
(***************************************************************************)
EXTENDS Naturals, Sequences

CONSTANT Task

VARIABLES accepted, performed

vars == <<accepted, performed>>

Init == accepted = <<>> /\ performed = <<>>

Accept ==
    /\ \E t \in Task : accepted' = Append(accepted, t)
    /\ UNCHANGED performed

Perform ==
    /\ Len(performed) < Len(accepted)
    /\ performed' = Append(performed, accepted[Len(performed) + 1])
    /\ UNCHANGED accepted

Next == Accept \/ Perform

Spec == Init /\ [][Next]_vars

(* ... and a service that stays up performs each of them. *)
FairSpec == Spec /\ WF_vars(Perform)
=============================================================================
