--------------------------- MODULE ReviewProperties ---------------------------
(***************************************************************************)
(* What the review pipeline promises.  The first part holds under every    *)
(* fault and interleaving of the model; the second part under the          *)
(* conditions each run's configuration states; the third part is what the  *)
(* repository's comments say and the code does not do.                     *)
(***************************************************************************)
EXTENDS ReviewPipeline

Disposed == Dispositions \cup {"failed", "cancelled"}

\* A validation that confirmed a finding of run r at runtime.
ConfirmedEvidence(r) ==
  \E v \in validations : v.verdict = "confirmed" /\ v.finding \in linked[r]

\* No client is inside a call about r and no job of r will run again.
Quiet(r) ==
  /\ r \notin creating \cup cancelling
  /\ \A j \in JobsOf(r) : jobState[j] \notin {"waiting", "active"}

-----------------------------------------------------------------------------
(* Under all faults.                                                       *)

\* The hard gate is never raised on suspicion: a run is blocked, or about to
\* be, or announced as blocked, only when a runtime validation confirmed one
\* of the findings linked to it (finalizeRun; persistStrixRun).
BlockedHasRuntimeEvidence ==
  \A r \in Runs :
    (\/ runStatus[r] = "blocked"
     \/ "blocked" \in announced[r]
     \/ \E j \in JobsOf(r) : At(j, "settle_write") /\ frame[j].decided = "blocked")
    => ConfirmedEvidence(r)

\* However jobs are retried, cut short or run side by side, and however many
\* runs report it, a finding is judged conclusively at most once (the retry of
\* a mission that already recorded its verdict must throw, not judge again).
OneConclusiveVerdict ==
  \A v, w \in validations :
    (v.finding = w.finding /\ {v.verdict, w.verdict} \subseteq Conclusive) => v = w

\* A job is only ever queued when what its handler reads first exists, so the
\* "no source snapshot" and "no target environment" errors never occur, and no
\* mission is sent for a finding its run is not accountable for.
StageInputsExist ==
  \A j \in Jobs : jobState[j] # "none" =>
    /\ j.type \in {"classify_change", "run_deepsec", "apply_routing_policy",
                   "run_strix_validation"} => j.run \in snapshots
    /\ j.type \in {"run_deepsec", "apply_routing_policy", "run_strix_validation"}
         => j.run \in classified
    /\ j.type = "run_strix_validation" =>
         /\ j.run \in Targets
         /\ j.finding \in linked[j.run]
         /\ findingStatus[j.finding] \notin {"absent", "suspected", "source_confirmed"}

\* The routing gate "already tested against this build" cannot be what spares
\* a candidate: a finding that still waits for its first routing decision has
\* no validation row, whatever was interrupted before.
CandidatesUntested ==
  \A v \in validations : findingStatus[v.finding] # "source_confirmed"

\* What may hold a run up without a disposition: the process died before the
\* first job was queued; a job of it is in the dead letters; a mission failed
\* operationally; or routing was cut short between escalating a finding and
\* queueing its mission.
HeldUp(r) ==
  \/ \A j \in JobsOf(r) : jobState[j] = "none"
  \/ \E j \in JobsOf(r) : jobState[j] = "dead"
  \/ \E f \in linked[r] :
       /\ findingStatus[f] = "validation_queued"
       /\ \/ jobState[StrixJob(r, f)] = "none"
          \/ \E v \in validations : v.finding = f /\ v.verdict = "failed"

\* A run that stands still without a disposition has one of these causes, or the
\* disposition its audit trail records was overwritten; there is no other.
StallHasACause ==
  \A r \in Runs :
    (runStatus[r] \notin Disposed \cup {"absent"} /\ Quiet(r)) =>
      HeldUp(r) \/ recorded[r] \cap Disposed # {}

\* A receipt, whoever generates it and however late it is stored, never shows
\* a gate the run's audit trail does not record.
GateReceiptsRecorded ==
  \A r \in Runs : \A shown \in {receipt[r], fetching[r]} :
    shown \in {"blocked", "awaiting_fix"} => shown \in recorded[r]

-----------------------------------------------------------------------------
(* One worker, nobody cancels: the drain of the InMemoryJobQueue, or a     *)
(* Worker started with concurrency 1.                                      *)

\* How far a review is for its client, by its status; the disposition it has, and
\* what a client reads off the status of its receipt.
StageOf(s) ==
  CASE s = "absent"             -> "unasked"
    [] s = "validation_running" -> "target"
    [] s \in Dispositions       -> "settled"
    [] OTHER                    -> "source"
SettledOn(s) == IF s \in Dispositions THEN s ELSE "none"
ShownAs(q) == IF q \in {"none", "failed", "blocked", "awaiting_fix"} THEN q ELSE "clear"

\* Retries and a fault included, the pipeline is an implementation of the life
\* cycle a client is promised: a review that has settled neither changes its mind
\* nor goes back, nothing is told or shown of it before it has settled, and what
\* subscribers hear and the receipt shows is what it settled on.
Lifecycle == INSTANCE ReviewLifecycle WITH
  Settlements <- Dispositions,
  stage       <- [r \in Reviews |-> StageOf(runStatus[r])],
  settlement  <- [r \in Reviews |-> SettledOn(runStatus[r])],
  heard       <- [r \in Reviews |-> announced[r]],
  shown       <- [r \in Reviews |-> ShownAs(receipt[r])]

ImplementsLifecycle == Lifecycle!LifecycleSpec

\* A finding queued for validation gets a verdict, unless a job of the pipeline
\* was cut short: a mission is never lost among the jobs of a run.
QueuedIsJudged ==
  \A f \in Findings :
    findingStatus[f] = "validation_queued" ~>
      (interrupts > 0 \/ \E v \in validations : v.finding = f)

\* The disposition of a run has reached those who wait for it.
Published(r) == announced[r] = {runStatus[r]} /\ receipt[r] # "none"

\* Every run reaches a disposition in the end and keeps it, and its subscribers
\* hear of it and its receipt is there, unless the run is held up for good by one
\* of the causes above: no sequence of retries leaves a run going round, waiting
\* for a job nobody will queue, or settled in silence.  Only a fault right after
\* the settlement loses the publication (finalizeRun does not do it again).
EventuallyDisposed ==
  \A r \in Runs :
    runStatus[r] = "queued" ~>
      [](\/ HeldUp(r)
         \/ runStatus[r] \in Dispositions /\ (Published(r) \/ interrupts > 0))

-----------------------------------------------------------------------------
(* What comments in the repository say, and the code does not do.          *)

\* run-transitions.ts: the transition, validated against the state machine, is
\* the only way a run's status changes; terminal statuses have no successor.
TerminalIsFinal ==
  [][\A r \in Runs : (runStatus[r] \in RunStatuses /\ IsRunTerminal(runStatus[r]))
       => runStatus'[r] = runStatus[r]]_vars

\* run-state-machine.ts: a run is blocked when "a prior confirmed finding
\* reappears. This is a hard gate."
ReappearingIsGated ==
  [][\A r \in Reviews : \A f \in reported[r] :
       (findingStatus[f] = "confirmed" /\ runStatus[r] # "completed")
         => runStatus'[r] # "completed"]_vars

=============================================================================
