------------------------------ MODULE LockStep ------------------------------
(***************************************************************************)
(* What the installer promises of any run, as the comment at the head of   *)
(* installer/src/pipeline/run.ts states it: every node finishes a step     *)
(* before any node starts the next one.                                    *)
(*                                                                         *)
(* A piece of work is a triple <<round, step, node>>.  Round 1 is the run  *)
(* itself and round 2 the verification that may follow it.  Nothing here   *)
(* says how a step is chosen, who takes part in it, what a failure does or *)
(* how nodes are reached: that is Pipeline's business.                     *)
(***************************************************************************)
EXTENDS Naturals

CONSTANTS
    Node,
    Step     \* the steps of any plan, natural numbers in their order

VARIABLES
    begun,   \* the work some node has been given
    ended,   \* the part of it that node has finished
    over     \* whether the run has let go of the nodes

vars == <<begun, ended, over>>

Round == 1..2

Work == Round \X Step \X Node

\* One piece of work belongs to an earlier step than another.
Before(a, b) == a[1] < b[1] \/ (a[1] = b[1] /\ a[2] < b[2])

Init ==
    /\ begun = {}
    /\ ended = {}
    /\ over = FALSE

(* Every node that takes part in the next step is set to work on it, once  *)
(* nobody is at work on an earlier one.                                    *)
Begin ==
    /\ ~over
    /\ begun = ended
    /\ \E round \in Round, step \in Step, who \in SUBSET Node :
          /\ \A t \in begun, n \in who : Before(t, <<round, step, n>>)
          /\ begun' = begun \union {<<round, step, n>> : n \in who}
    /\ UNCHANGED <<ended, over>>

End ==
    /\ \E t \in begun \ ended : ended' = ended \union {t}
    /\ UNCHANGED <<begun, over>>

(* The run lets go of its nodes, with nothing left running on any of them. *)
Close ==
    /\ begun = ended
    /\ over' = TRUE
    /\ UNCHANGED <<begun, ended>>

Next == Begin \/ End \/ Close

Spec == Init /\ [][Next]_vars
=============================================================================
