------------------------------- MODULE MCReview -------------------------------
(* Small instances of the review pipeline for TLC. *)
EXTENDS ReviewProperties, TLC

CONSTANTS r1, r2, f1, f2

Critical == [severity |-> "critical", confidence |-> "high", autoCategory |-> FALSE]

\* Every finding is escalated when routing's gates are open.
AllCritical == [f \in Findings |-> Critical]

SameHead == [r \in Runs |-> "c1"]
OwnHead == [r \in Runs |-> IF r = r1 THEN "c1" ELSE "c2"]
SymFindings == Permutations(Findings)

\* A client has cancelled the run or asked for its receipt while it was going on.
Called(r) ==
  \/ r \in cancelling \/ "cancelled" \in recorded[r]
  \/ fetching[r] # "none"
  \/ receipt[r] # "none" /\ jobState[StageJob("generate_receipt", r)] \in {"none", "waiting"}

\* Bound: the client calls while the engine has reported at most one finding and
\* nothing was interrupted.
CallsWithoutFaults ==
  \A r \in Runs : Called(r) => interrupts = 0 /\ \E f \in Findings : findingStatus[f] = "absent"

\* Bound: the second review is asked for once the first was blocked.
OneAfterTheOther ==
  \A r, s \in Runs : (r # s /\ runStatus[r] # "absent" /\ runStatus[s] # "absent") =>
    "blocked" \in {runStatus[r], runStatus[s]}
=============================================================================
