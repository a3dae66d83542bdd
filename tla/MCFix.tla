--------------------------------- MODULE MCFix ---------------------------------
(* Small instances of a finding's whole life for TLC: one review, then fixes. *)
EXTENDS FixProperties, TLC

CONSTANTS review, fix1, fix2, f1, f2

Critical == [severity |-> "critical", confidence |-> "high", autoCategory |-> FALSE]
AllCritical == [f \in Findings |-> Critical]

\* The review is of c0; the first fix of what it finds is c1, the second c2, on
\* top of the first.
HeadOf == (review :> "c0") @@ (fix1 :> "c1") @@ (fix2 :> "c2")
BaseOf == (review :> "base") @@ (fix1 :> "c0") @@ (fix2 :> "c1")
=============================================================================
