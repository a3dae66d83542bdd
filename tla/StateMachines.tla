---------------------------- MODULE StateMachines ----------------------------
(***************************************************************************)
(* The two status machines of the control plane: SecurityRun.status and    *)
(* Finding.status, as src/domain/run-state-machine.ts and                  *)
(* src/domain/finding-state-machine.ts tabulate them.  A table is a set of *)
(* edges; asking StateMachine.canTransition is asking for membership.      *)
(***************************************************************************)

RunStatuses ==
  { "queued", "classifying", "source_review_running", "source_review_completed",
    "validation_waiting_for_target", "validation_running", "awaiting_fix",
    "fix_verification_running", "completed", "blocked", "failed", "cancelled" }

FindingStatuses ==
  { "suspected", "source_confirmed", "validation_queued", "confirmed",
    "not_reproduced", "inconclusive", "fix_pending", "fix_submitted",
    "retesting", "verified_fixed", "still_exploitable", "accepted_risk",
    "dismissed" }

\* Statuses that work of some stage is still expected to leave.
InProgress ==
  { "queued", "classifying", "source_review_running", "source_review_completed",
    "validation_waiting_for_target", "validation_running",
    "fix_verification_running" }

RunEdges ==
  (InProgress \X {"failed", "cancelled"})
  \cup { <<"queued", "classifying">>,
         <<"classifying", "source_review_running">>,
         <<"source_review_running", "source_review_completed">>,
         <<"source_review_completed", "validation_waiting_for_target">>,
         <<"source_review_completed", "validation_running">>,
         <<"validation_waiting_for_target", "validation_running">>,
         <<"awaiting_fix", "fix_verification_running">>,
         <<"awaiting_fix", "cancelled">> }
  \cup ({"source_review_completed", "validation_running", "fix_verification_running"}
          \X {"awaiting_fix", "blocked", "completed"})

FindingEdges ==
  ({"suspected"} \X {"source_confirmed", "dismissed", "not_reproduced"})
  \cup ({"source_confirmed"} \X {"validation_queued", "fix_pending", "dismissed", "accepted_risk"})
  \cup ({"validation_queued"} \X {"confirmed", "not_reproduced", "inconclusive"})
  \cup ({"confirmed"} \X {"fix_pending", "accepted_risk"})
  \cup ({"not_reproduced", "inconclusive"}
          \X {"dismissed", "accepted_risk", "fix_pending", "validation_queued"})
  \cup ({"fix_pending"} \X {"fix_submitted", "accepted_risk", "dismissed"})
  \cup ({"fix_submitted"} \X {"retesting"})
  \cup ({"retesting"} \X {"verified_fixed", "still_exploitable", "inconclusive"})
  \cup ({"still_exploitable"} \X {"fix_pending"})

CanTransitionRun(from, to) == <<from, to>> \in RunEdges
CanTransitionFinding(from, to) == <<from, to>> \in FindingEdges

\* isRunTerminal: no successor in the table.  awaiting_fix has some, so it is
\* a disposition of a run without being terminal.
IsRunTerminal(s) == \A t \in RunStatuses : ~CanTransitionRun(s, t)

=============================================================================
