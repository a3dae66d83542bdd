----------------------------- MODULE ControlPlane -----------------------------
(***************************************************************************)
(* What every handler of the control plane works with: the tables in       *)
(* Postgres, the job queue, the run-status transition, finalizeRun and the *)
(* receipt.                                                                *)
(*                                                                         *)
(* A step of the model is one durable effect of the code: a committed      *)
(* transaction, a job added to the queue, an artifact row.  The database   *)
(* runs at READ COMMITTED, so a status transition is two steps: the read   *)
(* with its assertion, and the update by primary key with its commit.      *)
(* Anything may happen between the two.                                    *)
(***************************************************************************)
EXTENDS StateMachines, VerificationOutcome, Naturals, FiniteSets

CONSTANTS
  Runs,           \* security runs a client may ask for
  Findings,       \* fingerprints the engines may report in the repository
  NoFinding,      \* the finding of a job whose payload has none
  Targets,        \* the runs created with a target environment
  FixRuns,        \* the runs of type fix_verification
  ValidationRuns, \* the runs of type finding_validation
  Head,           \* Head[r]: the head commit of run r
  Workers,        \* concurrent job executions (the Worker's concurrency)
  MaxAttempts,    \* attempts per job (DEFAULT_MAX_ATTEMPTS)
  MaxInterrupts   \* bound on transient faults: engine error, timeout, lost worker

ASSUME NoFindingAssumption == NoFinding \notin Findings
ASSUME RunsAssumption == Targets \subseteq Runs /\ FixRuns \subseteq Runs
ASSUME ValidationRunsAssumption == ValidationRuns \subseteq Targets \ FixRuns
ASSUME BoundsAssumption ==
  Workers \in Nat \ {0} /\ MaxAttempts \in Nat \ {0} /\ MaxInterrupts \in Nat

VARIABLES
  \* Postgres
  runStatus,      \* SecurityRun.status, "absent" before the row exists
  findingStatus,  \* Finding.status, "absent" before the row exists
  lastSeen,       \* Finding.lastSeenCommit, "none" before the row exists
  linked,         \* linked[r]: findings that an audit event of run r names
  recorded,       \* recorded[r]: statuses the run's audit events moved it to
  reported,       \* reported[r]: findings with a source location from run r
  snapshots,      \* runs with a source_snapshot artifact
  classified,     \* runs with a RunClassification row
  validations,    \* Validation rows
  receipt,        \* Receipt.status of each run, "none" before the row exists
  announced,      \* announced[r]: statuses security.run.completed was sent with
  \* the queue
  jobState,       \* "none" until a job with that id is added
  attempts,       \* attempts each job has started
  frame,          \* where the handler of an active job stands
  interrupts      \* transient faults so far

storeVars == << runStatus, findingStatus, lastSeen, linked, recorded, reported, snapshots,
                classified, validations, receipt, announced >>
queueVars == << jobState, attempts, frame, interrupts >>

-----------------------------------------------------------------------------
(* Jobs.  The id of a job is its type, its run and, for a mission, the     *)
(* finding: the queue keys are built from exactly these.                   *)

StageTypes == { "prepare_repository", "classify_change", "run_deepsec",
                "apply_routing_policy", "generate_receipt" }

StageJob(type, r) == [type |-> type, run |-> r, finding |-> NoFinding]
FindingJob(type, r, f) == [type |-> type, run |-> r, finding |-> f]
StrixJob(r, f) == FindingJob("run_strix_validation", r, f)

FindingTypes == {"run_strix_validation", "run_deepsec_revalidation", "run_strix_retest"}

Jobs == [type : StageTypes, run : Runs, finding : {NoFinding}]
          \cup [type : FindingTypes, run : Runs, finding : Findings]

\* The runs of type change_review and repository_scan.
Reviews == Runs \ (FixRuns \cup ValidationRuns)

JobsOf(r) == {j \in Jobs : j.run = r}

JobStates == {"none", "waiting", "active", "done", "dead"}
Verdicts == {"confirmed", "not_reproduced", "inconclusive", "failed"}
Conclusive == Verdicts \ {"failed"}
Dispositions == {"blocked", "awaiting_fix", "completed"}
ReceiptStatuses ==
  {"passed", "passed_with_findings", "blocked", "awaiting_fix", "inconclusive", "failed"}

Labels == { "idle", "begin", "read", "write", "snapshot", "enqueue", "persist",
            "route", "write_finding", "count", "finalize", "settle_read", "settle_write",
            "receipt", "announce", "store", "return",
            \* of the handlers of a fix verification only
            "start", "review", "judge", "run_read", "run_write", "replayed",
            "complete_read", "complete_write" }

\* What a running handler holds: its place, the findings routing still has to
\* decide, the one in hand, and its last decision (a verdict, an outcome, a
\* disposition, a receipt status, or whether routing's run-wide gates are open).
Frames ==
  [ at : Labels, todo : SUBSET Findings, finding : Findings \cup {NoFinding},
    decided : Verdicts \cup VerificationOutcomes \cup Dispositions \cup ReceiptStatuses
                \cup {"open", "shut", "none"} ]

IdleFrame == [at |-> "idle", todo |-> {}, finding |-> NoFinding, decided |-> "none"]

ValidationRows ==
  [finding : Findings, run : Runs, verdict : Verdicts, attempt : 1 .. MaxAttempts]

TypeOK ==
  /\ runStatus \in [Runs -> RunStatuses \cup {"absent"}]
  /\ findingStatus \in [Findings -> FindingStatuses \cup {"absent"}]
  /\ lastSeen \in [Findings -> {Head[r] : r \in Runs} \cup {"none"}]
  /\ linked \in [Runs -> SUBSET Findings]
  /\ recorded \in [Runs -> SUBSET RunStatuses]
  /\ reported \in [Runs -> SUBSET Findings]
  /\ snapshots \in SUBSET Runs
  /\ classified \in SUBSET Runs
  /\ validations \in SUBSET ValidationRows
  /\ receipt \in [Runs -> ReceiptStatuses \cup {"none"}]
  /\ announced \in [Runs -> SUBSET Dispositions]
  /\ jobState \in [Jobs -> JobStates]
  /\ attempts \in [Jobs -> 0 .. MaxAttempts]
  /\ frame \in [Jobs -> Frames]
  /\ interrupts \in 0 .. MaxInterrupts

ControlPlaneInit ==
  /\ runStatus = [r \in Runs |-> "absent"]
  /\ findingStatus = [f \in Findings |-> "absent"]
  /\ lastSeen = [f \in Findings |-> "none"]
  /\ linked = [r \in Runs |-> {}]
  /\ recorded = [r \in Runs |-> {}]
  /\ reported = [r \in Runs |-> {}]
  /\ snapshots = {}
  /\ classified = {}
  /\ validations = {}
  /\ receipt = [r \in Runs |-> "none"]
  /\ announced = [r \in Runs |-> {}]
  /\ jobState = [j \in Jobs |-> "none"]
  /\ attempts = [j \in Jobs |-> 0]
  /\ frame = [j \in Jobs |-> IdleFrame]
  /\ interrupts = 0

-----------------------------------------------------------------------------
(* The queue.                                                              *)

At(j, label) == jobState[j] = "active" /\ frame[j].at = label

Goto(j, label) == frame' = [frame EXCEPT ![j].at = label]

\* enqueue: a job id the queue already knows, in whatever state, is reused.
Enqueue(j) ==
  jobState' = IF jobState[j] = "none" THEN [jobState EXCEPT ![j] = "waiting"] ELSE jobState

PickUp(j) ==
  /\ jobState[j] = "waiting"
  /\ Cardinality({k \in Jobs : jobState[k] = "active"}) < Workers
  /\ jobState' = [jobState EXCEPT ![j] = "active"]
  /\ attempts' = [attempts EXCEPT ![j] = @ + 1]
  /\ Goto(j, "begin")
  /\ UNCHANGED <<storeVars, interrupts>>

Return(j) ==
  /\ At(j, "return")
  /\ jobState' = [jobState EXCEPT ![j] = "done"]
  /\ frame' = [frame EXCEPT ![j] = IdleFrame]
  /\ UNCHANGED <<storeVars, attempts, interrupts>>

\* The handler throws: back to the queue, or to the dead letters once the
\* attempts are spent.
Throw(j) ==
  /\ jobState' = [jobState EXCEPT ![j] = IF attempts[j] < MaxAttempts THEN "waiting" ELSE "dead"]
  /\ frame' = [frame EXCEPT ![j] = IdleFrame]

\* A transient fault at any point of a handler; an open transaction rolls back.
Interrupt(j) ==
  /\ jobState[j] = "active"
  /\ interrupts < MaxInterrupts
  /\ interrupts' = interrupts + 1
  /\ Throw(j)
  /\ UNCHANGED <<storeVars, attempts>>

-----------------------------------------------------------------------------
(* transitionRunStatus, in its two halves.                                 *)

\* Broken variant: the assertion is dropped.
UnassertedRunTransition(j, to, label) ==
  /\ Goto(j, label)
  /\ UNCHANGED <<storeVars, jobState, attempts, interrupts>>

AssertRunTransition(j, to, label) ==
  /\ IF CanTransitionRun(runStatus[j.run], to)
       THEN Goto(j, label) /\ UNCHANGED jobState
       ELSE Throw(j)
  /\ UNCHANGED <<storeVars, attempts, interrupts>>

WriteRunStatus(j, to, label) ==
  /\ runStatus' = [runStatus EXCEPT ![j.run] = to]
  /\ recorded' = [recorded EXCEPT ![j.run] = @ \cup {to}]
  /\ Goto(j, label)
  /\ UNCHANGED << findingStatus, linked, lastSeen, reported, snapshots, classified,
                  validations, receipt, announced, jobState, attempts, interrupts >>

-----------------------------------------------------------------------------
(* finalizeRun: called by the handler that believes it is the run's last.  *)

\* Broken variant: a source-confirmed finding raises the hard gate.
DispositionOnSuspicion(r) ==
  LET held == {findingStatus[f] : f \in linked[r]}
  IN  IF held \cap {"confirmed", "still_exploitable", "source_confirmed"} # {}
        THEN "blocked" ELSE "completed"

Disposition(r) ==
  LET held == {findingStatus[f] : f \in linked[r]}
  IN  IF held \cap {"confirmed", "still_exploitable"} # {} THEN "blocked"
      ELSE IF held \cap {"source_confirmed", "fix_pending"} # {} THEN "awaiting_fix"
      ELSE "completed"

FinalizeDecide(j) ==
  /\ At(j, "finalize")
  /\ frame' = IF IsRunTerminal(runStatus[j.run])
                THEN [frame EXCEPT ![j].at = "return"]
                ELSE [frame EXCEPT ![j].at = "settle_read", ![j].decided = Disposition(j.run)]
  /\ UNCHANGED <<storeVars, jobState, attempts, interrupts>>

FinalizeAssert(j) ==
  At(j, "settle_read") /\ AssertRunTransition(j, frame[j].decided, "settle_write")

FinalizeWrite(j) ==
  At(j, "settle_write") /\ WriteRunStatus(j, frame[j].decided, "receipt")

FinalizeReceipt(j) ==
  /\ At(j, "receipt")
  /\ Enqueue(StageJob("generate_receipt", j.run))
  /\ Goto(j, "announce")
  /\ UNCHANGED <<storeVars, attempts, interrupts>>

FinalizeAnnounce(j) ==
  /\ At(j, "announce")
  /\ announced' = [announced EXCEPT ![j.run] = @ \cup {frame[j].decided}]
  /\ Goto(j, "return")
  /\ UNCHANGED << runStatus, findingStatus, linked, recorded, lastSeen, reported, snapshots,
                  classified, validations, receipt, jobState, attempts, interrupts >>

Finalize(j) ==
  \/ FinalizeDecide(j)
  \/ FinalizeAssert(j)
  \/ FinalizeWrite(j)
  \/ FinalizeReceipt(j)
  \/ FinalizeAnnounce(j)

-----------------------------------------------------------------------------
(* Receipts.                                                               *)

\* Broken variant: the status is taken from the findings before the run has
\* settled on it.
ReceiptStatusFromFindings(r) ==
  IF Disposition(r) = "completed" THEN "passed" ELSE Disposition(r)

\* computeReceiptStatus over what gatherReceiptData reads of the run.
ReceiptStatus(r) ==
  CASE runStatus[r] \in {"failed", "cancelled"}       -> "failed"
    [] runStatus[r] \in {"blocked", "awaiting_fix"}   -> runStatus[r]
    [] OTHER ->
         IF linked[r] = {} THEN "passed"
         ELSE IF \E f \in linked[r] : findingStatus[f] = "inconclusive" THEN "inconclusive"
         ELSE "passed_with_findings"

\* generateReceipt: gather and render, then upsert.
ReceiptGather(j) ==
  /\ j.type = "generate_receipt"
  /\ At(j, "begin")
  /\ frame' = [frame EXCEPT ![j].at = "store", ![j].decided = ReceiptStatus(j.run)]
  /\ UNCHANGED <<storeVars, jobState, attempts, interrupts>>

ReceiptStore(j) ==
  /\ At(j, "store")
  /\ receipt' = [receipt EXCEPT ![j.run] = frame[j].decided]
  /\ Goto(j, "return")
  /\ UNCHANGED << runStatus, findingStatus, linked, recorded, lastSeen, reported, snapshots,
                  classified, validations, announced, jobState, attempts, interrupts >>

=============================================================================
