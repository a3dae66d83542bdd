-------------------------- MODULE ValidationProperties --------------------------
(***************************************************************************)
(* What is left of the review's promises once clients ask for validations  *)
(* of its findings at any moment, and what the requests themselves can be  *)
(* relied on for.                                                          *)
(***************************************************************************)
EXTENDS ValidateFinding, ReviewProperties

Missions(f) == {StrixJob(r, f) : r \in Runs}

\* Nothing about the finding is under way: no call, no mission, and no routing
\* of a run that answers for it.
AtRest(f) ==
  /\ CallAt(f, "none")
  /\ \A j \in Missions(f) : jobState[j] \notin {"waiting", "active"}
  /\ \A r \in Runs : f \in linked[r] =>
       jobState[StageJob("apply_routing_policy", r)] \notin {"waiting", "active"}

\* With one worker and while no job is cut short, a finding that stays at
\* validation_queued with nothing under way has one of three causes: a mission of it is in the dead
\* letters; a mission failed operationally; or the request that moved it never
\* sent its mission, because the call was lost after its transition or found the
\* key of its run spent on another finding (validateFinding,
\* computeRunIdempotencyKey).
QueuedHasACause ==
  \A f \in Findings : (findingStatus[f] = "validation_queued" /\ AtRest(f)) =>
    \/ \E j \in Missions(f) : jobState[j] = "dead"
    \/ \E v \in validations : v.finding = f /\ v.verdict = "failed"
    \/ /\ f \in requested
       /\ \A r \in RunsOfKey(lastSeen[f]) : jobState[StrixJob(r, f)] = "none"

\* With one worker, a review stands still without a disposition for one of three
\* causes: a job of it is in the dead letters (its mission was too late, a
\* request's mission had judged the finding), a mission of it failed
\* operationally, or a request took one of its findings from it: such a finding
\* is still counted by the review, which waits, but no mission of the review will
\* judge it, and the mission that does finalizes another run.
HeldUpHasACause ==
  \A r \in Reviews : (runStatus[r] \notin Disposed \cup {"absent"} /\ Quiet(r)) =>
    \/ \E j \in JobsOf(r) : jobState[j] = "dead"
    \/ \E v \in validations : v.run = r /\ v.verdict = "failed"
    \/ linked[r] \cap requested # {}

=============================================================================
