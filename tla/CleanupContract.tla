-------------------------- MODULE CleanupContract --------------------------
(***************************************************************************)
(* What the controller relies on when a cleanup reports success: the       *)
(* process it was bound to is gone.  A cleanup whose binding was never     *)
(* read cannot succeed, and processes never come back from the dead.       *)
(***************************************************************************)
EXTENDS Naturals

CONSTANT Lives          \* the start times

VARIABLES alive,        \* the processes there are
          born,         \* the processes there ever were
          bound,        \* the binding of this cleanup
          outcome       \* "running", "succeeded" or "failed"

vars == <<alive, born, bound, outcome>>

Init == /\ born \subseteq Lives
        /\ alive \subseteq born
        /\ bound.valid => bound.life \in born
        /\ outcome = "running"

Birth == \E life \in Lives \ born : /\ born' = born \cup {life}
                                    /\ alive' = alive \cup {life}
                                    /\ UNCHANGED <<bound, outcome>>

Death == \E life \in alive : /\ alive' = alive \ {life}
                             /\ UNCHANGED <<born, bound, outcome>>

Succeed == /\ outcome = "running" /\ outcome' = "succeeded"
           /\ bound.required => bound.valid /\ bound.life \notin alive
           /\ UNCHANGED <<alive, born, bound>>

Fail == /\ outcome = "running" /\ outcome' = "failed"
        /\ UNCHANGED <<alive, born, bound>>

Next == Birth \/ Death \/ Succeed \/ Fail

Spec == Init /\ [][Next]_vars
=============================================================================
