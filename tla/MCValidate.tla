------------------------------ MODULE MCValidate ------------------------------
(* Small instances of reviews and client-requested validations for TLC. *)
EXTENDS ValidationProperties, TLC

CONSTANTS r1, r2, v1, f1, f2

Critical == [severity |-> "critical", confidence |-> "high", autoCategory |-> FALSE]
AllCritical == [f \in Findings |-> Critical]

SameHead == [r \in Runs |-> "c1"]
SymFindings == Permutations(Findings)
=============================================================================
