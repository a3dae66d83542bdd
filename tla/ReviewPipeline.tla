---------------------------- MODULE ReviewPipeline ----------------------------
(***************************************************************************)
(* A security review from the API call to its disposition: the handlers of *)
(* prepare_repository, classify_change, run_deepsec_*,                     *)
(* apply_routing_policy, run_strix_validation and generate_receipt, for    *)
(* change_review and repository_scan runs, with the API calls that         *)
(* interfere with them: create, cancel and fetch the receipt.              *)
(*                                                                         *)
(* Each handler is a chain of steps of one job; the label in frame[j].at   *)
(* is the place in its source.  A retry starts the handler again from its  *)
(* first line.                                                             *)
(***************************************************************************)
EXTENDS ControlPlane, RoutingPolicy

CONSTANTS
  FindingData,    \* severity, confidence and category each finding is first reported with
  Cancellable,    \* runs whose client may call cancelRun
  Queried         \* runs whose client may fetch the receipt at any time

ASSUME FindingDataAssumption ==
  FindingData \in [Findings -> [severity : Severities, confidence : Confidences,
                                autoCategory : BOOLEAN]]
ASSUME ClientsAssumption == Cancellable \subseteq Runs /\ Queried \subseteq Runs

VARIABLES
  creating,       \* runs inserted by createSecurityReview, first job not yet queued
  cancelling,     \* runs whose cancelRun has read the status and not yet written it
  fetching        \* receipt status getReceipt has computed and not yet stored

apiVars == <<creating, cancelling, fetching>>
vars == <<storeVars, queueVars, apiVars>>

Init ==
  /\ ControlPlaneInit
  /\ creating = {}
  /\ cancelling = {}
  /\ fetching = [r \in Runs |-> "none"]

PipelineTypeOK ==
  /\ TypeOK
  /\ creating \in SUBSET Runs
  /\ cancelling \in SUBSET Runs
  /\ fetching \in [Runs -> ReceiptStatuses \cup {"none"}]

-----------------------------------------------------------------------------
(* prepare_repository                                                      *)

PrepareAssert(j) ==
  /\ j.type = "prepare_repository"
  /\ At(j, "begin")
  /\ AssertRunTransition(j, "classifying", "write")

\* Broken variant: the next stage is queued without a snapshot.
PrepareWriteSkipsSnapshot(j) ==
  /\ j.type = "prepare_repository"
  /\ At(j, "write")
  /\ WriteRunStatus(j, "classifying", "enqueue")

PrepareWrite(j) ==
  /\ j.type = "prepare_repository"
  /\ At(j, "write")
  /\ WriteRunStatus(j, "classifying", "snapshot")

PrepareSnapshot(j) ==
  /\ At(j, "snapshot")
  /\ snapshots' = snapshots \cup {j.run}
  /\ Goto(j, "enqueue")
  /\ UNCHANGED << runStatus, findingStatus, linked, recorded, lastSeen, reported, classified,
                  validations, receipt, announced, jobState, attempts, interrupts >>

PrepareEnqueue(j) ==
  /\ j.type = "prepare_repository"
  /\ j.run \notin FixRuns
  /\ At(j, "enqueue")
  /\ Enqueue(StageJob("classify_change", j.run))
  /\ Goto(j, "return")
  /\ UNCHANGED <<storeVars, attempts, interrupts>>

Prepare(j) ==
  PrepareAssert(j) \/ PrepareWrite(j) \/ PrepareSnapshot(j) \/ PrepareEnqueue(j)

-----------------------------------------------------------------------------
(* classify_change.  Both the missing snapshot and a second classification *)
(* of the same run (a unique column) make the handler throw.               *)

ClassifyCreate(j) ==
  /\ j.type = "classify_change"
  /\ At(j, "begin")
  /\ IF j.run \in snapshots /\ j.run \notin classified
       THEN /\ classified' = classified \cup {j.run}
            /\ Goto(j, "read")
            /\ UNCHANGED jobState
       ELSE Throw(j) /\ UNCHANGED classified
  /\ UNCHANGED << runStatus, findingStatus, linked, recorded, lastSeen, reported, snapshots,
                  validations, receipt, announced, attempts, interrupts >>

ClassifyAssert(j) ==
  /\ j.type = "classify_change"
  /\ At(j, "read")
  /\ AssertRunTransition(j, "source_review_running", "write")

ClassifyWrite(j) ==
  /\ j.type = "classify_change"
  /\ At(j, "write")
  /\ WriteRunStatus(j, "source_review_running", "enqueue")

ClassifyEnqueue(j) ==
  /\ j.type = "classify_change"
  /\ At(j, "enqueue")
  /\ Enqueue(StageJob("run_deepsec", j.run))
  /\ Goto(j, "return")
  /\ UNCHANGED <<storeVars, attempts, interrupts>>

Classify(j) ==
  ClassifyCreate(j) \/ ClassifyAssert(j) \/ ClassifyWrite(j) \/ ClassifyEnqueue(j)

-----------------------------------------------------------------------------
(* run_deepsec_diff / run_deepsec_full                                     *)

FirstStatus(f) ==
  IF FindingData[f].confidence = "high" THEN "source_confirmed" ELSE "suspected"

Exists(f) == findingStatus[f] # "absent"

\* The engine reports, and the transaction of persistDeepSecRun looks each
\* fingerprint up: those it does not find it will insert.
DeepSecLookup(j) ==
  /\ j.type = "run_deepsec"
  /\ At(j, "begin")
  /\ IF j.run \in snapshots
       THEN /\ \E new \in SUBSET {f \in Findings : ~Exists(f)} :
                 frame' = [frame EXCEPT ![j].at = "persist", ![j].todo = new]
            /\ UNCHANGED jobState
       ELSE Throw(j)
  /\ UNCHANGED <<storeVars, attempts, interrupts>>

Reported(j, again) ==
  /\ findingStatus' = [f \in Findings |->
                         IF f \in frame[j].todo THEN FirstStatus(f) ELSE findingStatus[f]]
  /\ lastSeen' = [f \in Findings |->
                    IF f \in frame[j].todo \cup again THEN Head[j.run] ELSE lastSeen[f]]
  /\ reported' = [reported EXCEPT ![j.run] = @ \cup frame[j].todo \cup again]
  /\ frame' = [frame EXCEPT ![j].at = "read", ![j].todo = {}]

\* The commit.  The fingerprint is unique, so an insert that another run made
\* meanwhile makes the handler throw.  Only a finding the report creates gets
\* audit events; one that already exists gets a source location and nothing
\* that names the run.
DeepSecPersist(j) ==
  /\ At(j, "persist")
  /\ IF \E f \in frame[j].todo : Exists(f)
       THEN Throw(j) /\ UNCHANGED <<findingStatus, linked, lastSeen, reported>>
       ELSE /\ \E again \in SUBSET {f \in Findings : Exists(f)} : Reported(j, again)
            /\ linked' = [linked EXCEPT ![j.run] = @ \cup frame[j].todo]
            /\ UNCHANGED jobState
  /\ UNCHANGED << runStatus, recorded, snapshots, classified, validations, receipt,
                  announced, attempts, interrupts >>

DeepSecAssert(j) ==
  /\ j.type = "run_deepsec"
  /\ At(j, "read")
  /\ AssertRunTransition(j, "source_review_completed", "write")

DeepSecWrite(j) ==
  /\ j.type = "run_deepsec"
  /\ At(j, "write")
  /\ WriteRunStatus(j, "source_review_completed", "enqueue")

DeepSecEnqueue(j) ==
  /\ j.type = "run_deepsec"
  /\ At(j, "enqueue")
  /\ Enqueue(StageJob("apply_routing_policy", j.run))
  /\ Goto(j, "return")
  /\ UNCHANGED <<storeVars, attempts, interrupts>>

DeepSec(j) ==
  \/ DeepSecLookup(j) \/ DeepSecPersist(j)
  \/ DeepSecAssert(j) \/ DeepSecWrite(j) \/ DeepSecEnqueue(j)

-----------------------------------------------------------------------------
(* apply_routing_policy                                                    *)

\* The candidates and the run-wide inputs are read once, before the loop.  Any
\* answer is possible for the budget, and for the target when the run has one.
RoutingBegin(j) ==
  /\ j.type = "apply_routing_policy"
  /\ At(j, "begin")
  /\ \E authorized, affordable \in BOOLEAN :
       /\ authorized => j.run \in Targets
       /\ frame' = [frame EXCEPT
            ![j].at = "route",
            ![j].todo = {f \in linked[j.run] : findingStatus[f] = "source_confirmed"},
            ![j].decided = IF authorized /\ affordable THEN "open" ELSE "shut"]
  /\ UNCHANGED <<storeVars, jobState, attempts, interrupts>>

\* A validation of the finding against the build under review exists.
AlreadyTested(r, f) ==
  /\ r \in Targets
  /\ \E v \in validations : v.finding = f /\ Head[v.run] = Head[r]

RoutingInput(j, f) ==
  [ severity |-> FindingData[f].severity, confidence |-> FindingData[f].confidence,
    autoCategory |-> FindingData[f].autoCategory,
    codeQuality |-> FALSE, runtimeRequired |-> FALSE, production |-> FALSE,
    authorized |-> frame[j].decided = "open", dynamic |-> frame[j].decided = "open",
    affordable |-> frame[j].decided = "open",
    tested |-> AlreadyTested(j.run, f) ]

\* Broken variant: the mission is queued, the finding is left as it was.
RoutingDecideWithoutTransition(j) ==
  /\ At(j, "route")
  /\ \E f \in frame[j].todo :
       frame' = [frame EXCEPT ![j].at = IF Escalates(RoutingInput(j, f)) THEN "enqueue" ELSE "route",
                              ![j].finding = f, ![j].todo = @ \ {f}]
  /\ UNCHANGED <<storeVars, jobState, attempts, interrupts>>

RoutingDecide(j) ==
  /\ At(j, "route")
  /\ \E f \in frame[j].todo :
       IF ~Escalates(RoutingInput(j, f))
         THEN /\ frame' = [frame EXCEPT ![j].todo = @ \ {f}]
              /\ UNCHANGED jobState
         ELSE IF CanTransitionFinding(findingStatus[f], "validation_queued")
         THEN /\ frame' = [frame EXCEPT ![j].at = "write_finding", ![j].finding = f,
                                        ![j].todo = @ \ {f}]
              /\ UNCHANGED jobState
         ELSE Throw(j)
  /\ UNCHANGED <<storeVars, attempts, interrupts>>

RoutingEscalate(j) ==
  /\ j.type = "apply_routing_policy"
  /\ At(j, "write_finding")
  /\ findingStatus' = [findingStatus EXCEPT ![frame[j].finding] = "validation_queued"]
  /\ linked' = [linked EXCEPT ![j.run] = @ \cup {frame[j].finding}]
  /\ Goto(j, "enqueue")
  /\ UNCHANGED << runStatus, recorded, lastSeen, reported, snapshots, classified,
                  validations, receipt, announced, jobState, attempts, interrupts >>

\* Broken variant: the mission's key does not tell the findings of a run apart.
RoutingEnqueueOneKey(j) ==
  /\ j.type = "apply_routing_policy"
  /\ At(j, "enqueue")
  /\ Enqueue(StrixJob(j.run, CHOOSE f \in linked[j.run] : TRUE))
  /\ Goto(j, "route")
  /\ UNCHANGED <<storeVars, attempts, interrupts>>

RoutingEnqueue(j) ==
  /\ j.type = "apply_routing_policy"
  /\ At(j, "enqueue")
  /\ Enqueue(StrixJob(j.run, frame[j].finding))
  /\ Goto(j, "route")
  /\ UNCHANGED <<storeVars, attempts, interrupts>>

\* The count of findings still queued, over the findings linked to the run.
StillQueued(r) == {f \in linked[r] : findingStatus[f] = "validation_queued"}

\* Broken variant: nothing finalizes a run without missions.
RoutingCountOnlyWaits(j) ==
  /\ At(j, "route")
  /\ frame[j].todo = {}
  /\ Goto(j, IF StillQueued(j.run) # {} THEN "read" ELSE "return")
  /\ UNCHANGED <<storeVars, jobState, attempts, interrupts>>

RoutingCount(j) ==
  /\ At(j, "route")
  /\ frame[j].todo = {}
  /\ Goto(j, IF StillQueued(j.run) # {} THEN "read" ELSE "finalize")
  /\ UNCHANGED <<storeVars, jobState, attempts, interrupts>>

RoutingAssert(j) ==
  /\ j.type = "apply_routing_policy"
  /\ At(j, "read")
  /\ AssertRunTransition(j, "validation_running", "write")

RoutingWrite(j) ==
  /\ j.type = "apply_routing_policy"
  /\ At(j, "write")
  /\ WriteRunStatus(j, "validation_running", "return")

Routing(j) ==
  \/ RoutingBegin(j) \/ RoutingDecide(j) \/ RoutingEscalate(j) \/ RoutingEnqueue(j)
  \/ RoutingCount(j) \/ RoutingAssert(j) \/ RoutingWrite(j)

-----------------------------------------------------------------------------
(* run_strix_validation                                                    *)

\* resolveFindingStatusFromValidation, for a test that was completed against the
\* build it was meant for: `failed` says nothing about the finding, any other
\* verdict is its next status.
Judges(verdict) == verdict # "failed"

\* Broken variant: the finding's status is not asserted before the verdict.
StrixMissionUnasserted(j) ==
  /\ j.type = "run_strix_validation"
  /\ At(j, "begin")
  /\ \E verdict \in Verdicts :
       frame' = [frame EXCEPT ![j].at = "write_finding", ![j].decided = verdict]
  /\ UNCHANGED <<storeVars, jobState, attempts, interrupts>>

\* The mission runs and its verdict is resolved.  The build under test is the
\* run's own head and the test counts as complete; a verdict that judges the
\* finding must be legal from the status read.
StrixMission(j) ==
  /\ j.type = "run_strix_validation"
  /\ At(j, "begin")
  /\ IF j.run \in Targets
       THEN \E verdict \in Verdicts :
              IF Judges(verdict) => CanTransitionFinding(findingStatus[j.finding], verdict)
                THEN /\ frame' = [frame EXCEPT ![j].at = "write_finding", ![j].decided = verdict]
                     /\ UNCHANGED jobState
                ELSE Throw(j)
       ELSE Throw(j)
  /\ UNCHANGED <<storeVars, attempts, interrupts>>

\* Broken variant: `failed` is written to the finding like any verdict.
StrixPersistRawVerdict(j) ==
  /\ j.type = "run_strix_validation"
  /\ At(j, "write_finding")
  /\ validations' = validations \cup
       {[finding |-> j.finding, run |-> j.run, verdict |-> frame[j].decided, attempt |-> attempts[j]]}
  /\ findingStatus' = [findingStatus EXCEPT ![j.finding] = frame[j].decided]
  /\ linked' = [linked EXCEPT ![j.run] = @ \cup {j.finding}]
  /\ Goto(j, "count")
  /\ UNCHANGED << runStatus, recorded, lastSeen, reported, snapshots, classified, receipt,
                  announced, jobState, attempts, interrupts >>

\* Broken variant: the verdict is recorded, the finding is left as it was.
StrixPersistVerdictOnly(j) ==
  /\ j.type = "run_strix_validation"
  /\ At(j, "write_finding")
  /\ validations' = validations \cup
       {[finding |-> j.finding, run |-> j.run, verdict |-> frame[j].decided, attempt |-> attempts[j]]}
  /\ Goto(j, "count")
  /\ UNCHANGED << runStatus, findingStatus, linked, recorded, lastSeen, reported, snapshots,
                  classified, receipt, announced, jobState, attempts, interrupts >>

\* persistStrixRun: the Validation row always, the status unless `failed`.
StrixPersist(j) ==
  /\ j.type = "run_strix_validation"
  /\ At(j, "write_finding")
  /\ LET verdict == frame[j].decided IN
     /\ validations' = validations \cup
          {[finding |-> j.finding, run |-> j.run, verdict |-> verdict, attempt |-> attempts[j]]}
     /\ IF Judges(verdict)
          THEN /\ findingStatus' = [findingStatus EXCEPT ![j.finding] = verdict]
               /\ linked' = [linked EXCEPT ![j.run] = @ \cup {j.finding}]
          ELSE UNCHANGED <<findingStatus, linked>>
  /\ Goto(j, "count")
  /\ UNCHANGED << runStatus, recorded, lastSeen, reported, snapshots, classified, receipt,
                  announced, jobState, attempts, interrupts >>

\* Broken variant: the last mission does not finalize the run.
StrixCountNeverFinalizes(j) ==
  At(j, "count") /\ Goto(j, "return") /\ UNCHANGED <<storeVars, jobState, attempts, interrupts>>

StrixCount(j) ==
  /\ At(j, "count")
  /\ Goto(j, IF StillQueued(j.run) = {} THEN "finalize" ELSE "return")
  /\ UNCHANGED <<storeVars, jobState, attempts, interrupts>>

Strix(j) == StrixMission(j) \/ StrixPersist(j) \/ StrixCount(j)

-----------------------------------------------------------------------------
(* API calls.                                                              *)

\* createSecurityReview inserts the run, then queues its first job.  A repeat
\* for the same key finds the row and returns it: no step.
CreateReview(r) ==
  /\ r \in Reviews
  /\ runStatus[r] = "absent"
  /\ runStatus' = [runStatus EXCEPT ![r] = "queued"]
  /\ creating' = creating \cup {r}
  /\ UNCHANGED << findingStatus, linked, recorded, lastSeen, reported, snapshots, classified,
                  validations, receipt, announced, queueVars, cancelling, fetching >>

EnqueuePrepare(r) ==
  /\ r \in creating
  /\ Enqueue(StageJob("prepare_repository", r))
  /\ creating' = creating \ {r}
  /\ UNCHANGED <<storeVars, attempts, frame, interrupts, cancelling, fetching>>

\* The API process dies between the two.
CreateInterrupted(r) ==
  /\ r \in creating
  /\ interrupts < MaxInterrupts
  /\ interrupts' = interrupts + 1
  /\ creating' = creating \ {r}
  /\ UNCHANGED <<storeVars, jobState, attempts, frame, cancelling, fetching>>

CancelAssert(r) ==
  /\ r \in Cancellable \ cancelling
  /\ CanTransitionRun(runStatus[r], "cancelled")
  /\ cancelling' = cancelling \cup {r}
  /\ UNCHANGED <<storeVars, queueVars, creating, fetching>>

CancelWrite(r) ==
  /\ r \in cancelling
  /\ runStatus' = [runStatus EXCEPT ![r] = "cancelled"]
  /\ recorded' = [recorded EXCEPT ![r] = @ \cup {"cancelled"}]
  /\ cancelling' = cancelling \ {r}
  /\ UNCHANGED << findingStatus, linked, lastSeen, reported, snapshots, classified,
                  validations, receipt, announced, queueVars, creating, fetching >>

\* getReceipt: a stored receipt is served as it is; otherwise one is generated
\* from whatever the run looks like at that moment, and kept.
FetchGather(r) ==
  /\ r \in Queried
  /\ runStatus[r] # "absent"
  /\ receipt[r] = "none"
  /\ fetching[r] = "none"
  /\ fetching' = [fetching EXCEPT ![r] = ReceiptStatus(r)]
  /\ UNCHANGED <<storeVars, queueVars, creating, cancelling>>

FetchStore(r) ==
  /\ fetching[r] # "none"
  /\ receipt' = [receipt EXCEPT ![r] = fetching[r]]
  /\ fetching' = [fetching EXCEPT ![r] = "none"]
  /\ UNCHANGED << runStatus, findingStatus, linked, recorded, lastSeen, reported, snapshots,
                  classified, validations, announced, queueVars, creating, cancelling >>

-----------------------------------------------------------------------------

\* One step of the handler of job j, once a worker has it.
HandlerStep(j) ==
  \/ Prepare(j) \/ Classify(j) \/ DeepSec(j) \/ Routing(j) \/ Strix(j)
  \/ Finalize(j) \/ ReceiptGather(j) \/ ReceiptStore(j) \/ Return(j)

Work(j) == (PickUp(j) \/ HandlerStep(j)) /\ UNCHANGED apiVars

Fault(j) == Interrupt(j) /\ UNCHANGED apiVars

ApiStep(r) ==
  \/ CreateReview(r) \/ EnqueuePrepare(r) \/ CreateInterrupted(r)
  \/ CancelAssert(r) \/ CancelWrite(r)
  \/ FetchGather(r) \/ FetchStore(r)

Next ==
  \/ \E j \in Jobs : Work(j) \/ Fault(j)
  \/ \E r \in Runs : ApiStep(r)

Spec == Init /\ [][Next]_vars

\* A worker that has a job keeps running it, a free worker takes what waits,
\* and an API call that has begun is completed.  Nothing forces a client to
\* call, an engine to fail or a process to die.
FairSpec ==
  /\ Spec
  /\ \A j \in Jobs : WF_vars(Work(j))
  /\ \A r \in Runs : WF_vars(EnqueuePrepare(r)) /\ WF_vars(CancelWrite(r)) /\ WF_vars(FetchStore(r))

=============================================================================
