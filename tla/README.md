# Specifications of the SHLD control plane

SHLD is a security control plane: a client (an agent, over HTTP, MCP or a GitHub
webhook) asks for a review of a change, a pipeline of queued jobs runs two engines
over it (DeepSec reads the source, Strix attacks a running target), and the run ends
with a *disposition* (`blocked`, `awaiting_fix` or `completed`), a receipt and a
webhook. A finding that was fixed is verified by a second kind of run.

The TLA+ modules in this directory specify that core: what the job handlers do to the
shared tables, in which order, and what retries, faults, concurrent workers and API
calls can make of it. Four further specifications go into what the core takes as given:
the job queue in detail, the delivery of webhooks over it, how runs are asked for, and how
the source snapshot of a change is prepared, stored and classified. TLC checks small
instances; TLAPS proves the main safety properties for every instance. Paths below are
relative to the repository, without its leading `src/` when the meaning is clear.

Contents: 1 inventory · 2 modules and their correspondence to the code · 3 what the
model abstracts · 4 runs and bounds · 5 fairness · 6 where code and comments disagree
· 7 proofs · 8 what is only model-checked, what is not modelled · 9 plan.

## 1. Inventory

### Components

| Component | State it keeps | Operations | Hard because |
|---|---|---|---|
| Status machines (`domain/*state-machine.ts`) | none: two tables | `canTransition`, `isRunTerminal` | everything else trusts them; `awaiting_fix` is a disposition and not terminal |
| Transitions and audit (`domain/*-transitions.ts`, `audit/audit-log.ts`) | `SecurityRun.status`, `Finding.status`, `AuditEvent` | `transitionRunStatus`, `transitionFindingStatus`, `recordAuditEvent` | read, assert, update by primary key, at READ COMMITTED: the read can be outdated by the time of the update |
| Job handlers (`orchestration/handlers/`) | `Artifact`, `RunClassification`, the place of each running handler | one handler per job type, `finalizeRun` | each is a chain of transactions, engine calls and enqueues; a retry starts at its first line |
| Engine persistence (`adapters/*/persist.ts`) | `Finding`, `FindingSourceLocation`, `Validation` | `persistDeepSecRun`, `persistStrixRun` | two runs may report one fingerprint at once |
| Routing policy (`policy/`) | `RoutingDecision` | `evaluateRoutingPolicy`, `applyRoutingPolicy` | gates read state that later steps change |
| Receipts (`receipts/`) | `Receipt` | `gatherReceiptData`, `computeReceiptStatus`, `generateReceipt` | computed from rows that are not written together; two writers |
| Job queue (`orchestration/*queue*.ts`, `tenant-concurrency.ts`) | jobs, attempts, dead letters, tenant slots | `enqueue`, workers, cancel, replay | deduplication by id, retries, timeouts, back-pressure |
| Review API (`api/services/`) | — | create, cancel, get receipt, get run | a call races the jobs of the run it is about |
| Finding services (`api/services/finding-services.ts`) | the findings, a `finding_validation` run | `validateFinding` | it moves a finding, makes a run and queues a mission in three transactions, beside the review that owns the finding |
| Remediation (`remediation/`, `api/services/finding-services.ts`) | `Remediation` | `submitFix`, `verifyFix`, `completeFixVerification` | what was decided when the fix was submitted is used when its verification ends |
| Outbound webhooks (`webhooks/`) | `WebhookDelivery` | enqueue, deliver, redeliver | at-least-once delivery; late failures |
| HTTP idempotency (`api/idempotency.ts`) | `IdempotencyRecord` | `withIdempotency` | look up, execute, then record |
| GitHub integration (`github/`) | inbound deliveries, token cache | process a pull-request event | duplicated deliveries |
| Repository preparation (`repo-prep/`) | one directory per repository, base and head, with a marker file | `prepareRepositorySnapshot` | nothing locks the directory; a worker may die between any two commands |
| Artifact store (`artifacts/`) | content-addressed files, `Artifact` rows | `store`, `read` | a file is opened, truncated, written and then protected |
| Change classifier (`policy/change-classifier.ts`) | none: a function | `classifyChange` | its answer depends on what other runs have found by then |
| Auth, authorization, engine adapters, dashboard, MCP, app wiring | none shared with the pipeline | checks of one request, child processes, pages | — |

### Interaction

```
 client -- createSecurityReview --> SecurityRun row, prepare_repository job
   prepare_repository --> classify_change --> run_deepsec_* --> apply_routing_policy
        apply_routing_policy --> run_strix_validation (one per escalated finding)
        apply_routing_policy, or the last mission --> finalizeRun
        finalizeRun --> status, generate_receipt job, webhooks
 client -- validateFinding --> finding_validation run, run_strix_validation
 client -- submitFix, verifyFix --> Remediation row, fix_verification run
   prepare_repository --> run_deepsec_revalidation [--> run_strix_retest]
        whichever is last --> completeFixVerification --> finalizeRun
 client -- cancelRun, getReceipt --> the same rows, at any moment
```

Every arrow into the queue is an `enqueue` with a deterministic job id; every other
arrow is a transaction on the shared tables. Nothing else connects the parts, so all
interference is between transactions of different jobs and calls.

### What makes each part correct

* Transitions: a status only moves along its table; a terminal status stays.
* Handlers: no stage runs without its inputs; every run ends in a disposition or stands
  still for a reason an operator can see; the disposition is backed by evidence.
* Persistence: a finding is judged once; a run that reports a finding confirmed before is
  gated by it (it is not: section 6).
* Receipts: a receipt never shows a gate that the audit trail does not have.
* Remediation: `verified_fixed` is always backed by checks of the fix on record.
* Queue: a job id goes through BullMQ as the contract says, but for known departures; a tenant's slots are bounded and
  come back; a refused job is not forgotten.
* Webhooks: a pending delivery has somebody behind it, and settles.
* Idempotency and admission: one key, one body, one answer; a budget is exceeded only by requests that
  overlap; a recorded delivery has its run.
* Requested validations: what a request leaves standing, of the finding or of the review that
  found it, can be explained.
* Preparation and artifacts: a snapshot that is trusted is the commit under review, what a dead
  preparation left harms no other, and what a row points to is there.
* Classification: more changed files, or findings known, never lower the risk.

`PROJECT.json` lists the hazards behind these, each at its line, with the properties
that cover it or the reason why none does yet.

## 2. Modules and their correspondence to the code

| Module | What it is |
|---|---|
| `StateMachines` | the two transition tables as sets of edges |
| `RoutingPolicy` | `evaluateRoutingPolicy` as a predicate on an input record |
| `VerificationOutcome` | `determineVerificationOutcome` and `outcomeToFindingStatus` |
| `ControlPlane` | tables, queue, `transitionRunStatus`, `finalizeRun`, receipts: what every handler shares |
| `ReviewPipeline` | the handlers of a review and the calls create, cancel, fetch; `Spec`, `FairSpec` |
| `ReviewProperties` | what the pipeline promises |
| `ReviewLifecycle` | what a client is promised about a review, as an abstract specification |
| `ValidateFinding` | `validateFinding`, composed with the review pipeline over the same tables and queue; `ValidateSpec` |
| `ValidationProperties` | what requests can be relied on for, and what they leave of the review's promises |
| `FixVerification` | `submitFix`, `verifyFix`, the handlers of a verification run; `FixSpec`, composed with the review pipeline over the same tables and queue |
| `FixProperties` | what fix verification promises |
| `JobContract` | the contract of the `JobQueue` interface, from the in-memory queue, and the three departures of the BullMQ one |
| `JobQueue` | `BullMqJobQueue` and `TenantConcurrencyLimiter` in detail |
| `QueueProperties` | what the queue promises, and that it departs from `JobContract` in those three ways only |
| `WebhookDelivery` | `enqueueWebhookDelivery`, `replayWebhookDelivery` and the `deliver_webhook` handler, over `JobQueue`; `DeliverySpec` |
| `Admission` | `withIdempotency`, `processPullRequestEvent`, `createSecurityReview` up to its first job |
| `ChangeClassifier` | `classifyChange` as operators on a set of abstract files |
| `Preparation` | `prepareRepositorySnapshot`, the rest of the `prepare_repository` handler, `ArtifactStore.store`, classification, for runs that share a snapshot |
| `PreparationProperties` | what the marker and the content address give such runs |
| `MCReview`, `MCValidate`, `MCFix`, `MCQueue`, `MCWebhook`, `MCAdmission`, `MCPreparation` | values of the constants for TLC |
| `ReviewTyping`, `ReviewSafety` | the proofs about `ReviewPipeline` |
| `ValidationSafety` | the proofs about `ValidateFinding` |
| `FixSafety` | the proofs about `FixVerification` |
| `QueueSafety` | the proofs about `JobQueue`, and how it relates to `JobContract` |
| `DeliverySafety` | the proofs about `WebhookDelivery` |
| `AdmissionSafety` | the proofs about `Admission` |
| `PreparationSafety` | the proofs about `Preparation` and `ChangeClassifier` |

### State

| Variable | Code |
|---|---|
| `runStatus`, `findingStatus`, `lastSeen` | columns of `SecurityRun` and `Finding`; `"absent"`/`"none"` before the row exists |
| `linked[r]` | the findings some `AuditEvent` with `runId = r` names. `findingIdsForRun`, `finalizeRun` and the receipt all start from this set |
| `recorded[r]` | the statuses the audit events of `r` moved it to |
| `reported[r]` | findings with a `FindingSourceLocation` from `r` |
| `snapshots`, `classified` | runs with a `source_snapshot` artifact; with a `RunClassification` |
| `validations` | `Validation` rows: finding, run, verdict, and the attempt that wrote them |
| `receipt[r]`, `announced[r]` | `Receipt.status`; the statuses `security.run.completed` was sent with |
| `jobState`, `attempts` | the queue's view of a job |
| `frame[j]` | where the handler of an active job stands (`at`) and the local variables it carries across an `await` |
| `creating`, `cancelling`, `fetching`, `submitting`, `verifying` | API calls between their first read and their last write |
| `validating`, `requested` | `validateFinding` calls between two of their transactions, with the commit they read; history: findings an audit event without a run moved to `validation_queued` |
| `remediation`, `verifies`, `held` | the `Remediation` row; the finding of a verification run; the copy of the row a handler has read |

### Steps

A step is one durable effect: a committed transaction, a job added, an artifact row
written. Each handler is a chain of such steps of one job; the label in `frame[j].at`
says which comes next. The chain of a review:

| Handler | Steps |
|---|---|
| `prepare_repository` | `PrepareAssert`, `PrepareWrite`, `PrepareSnapshot`, `PrepareEnqueue` |
| `classify_change` | `ClassifyCreate`, `ClassifyAssert`, `ClassifyWrite`, `ClassifyEnqueue` |
| `run_deepsec_*` | `DeepSecLookup` (engine, and the look-up of fingerprints), `DeepSecPersist`, `DeepSecAssert`, `DeepSecWrite`, `DeepSecEnqueue` |
| `apply_routing_policy` | `RoutingBegin`, then for each candidate `RoutingDecide`, `RoutingEscalate`, `RoutingEnqueue`; `RoutingCount`, and `RoutingAssert`, `RoutingWrite` or `finalizeRun` |
| `run_strix_validation` | `StrixMission`, `StrixPersist`, `StrixCount`, `finalizeRun` if it is the last |
| `finalizeRun` | `FinalizeDecide`, `FinalizeAssert`, `FinalizeWrite`, `FinalizeReceipt`, `FinalizeAnnounce` |
| `generate_receipt` | `ReceiptGather`, `ReceiptStore` |
| `run_deepsec_revalidation` | `RevalidateAssert`, `…Start`, `…Lookup`, `DeepSecPersist`, `…FinishAssert`, `…FinishWrite`, `…Judge`, then completion, or `…RunAssert`, `…RunWrite`, `…Enqueue` |
| `run_strix_retest` | `RetestMission`, `RetestPersist`, `CompleteAssert`, `CompleteWrite`, `finalizeRun` |
| `validateFinding` (a call) | `ValidateRead`, `ValidateAssert` and `ValidateWrite` if the finding is `source_confirmed`, `ValidateCreate`, `ValidateEnqueue` |

`transitionRunStatus` is two steps everywhere, `AssertRunTransition` (the read and the
table) and `WriteRunStatus` (the update and the audit event): Postgres at READ COMMITTED
lets another transaction commit between them. A transition of a finding inside
`persistDeepSecRun` and `persistStrixRun` is split in the same way.

A throw (`Throw`) ends the attempt: back to `waiting`, or `dead` once the attempts are
spent. `Interrupt` is a throw at any other point: an engine error, a timeout, a lost
worker. An interrupted API call leaves the row without its job (`CreateInterrupted`).

### The queue, webhooks, admission and preparation

| Module | Variable | Code |
|---|---|---|
| `JobQueue` | `state`, `made`, `failedReason` | BullMQ's state, `attemptsMade` and `failedReason` of a job id; `<<j, 0>>` is the job `enqueue` added, `<<j, n>>` its `n`-th back-pressure copy |
| | `at[w]` | what an execution slot of the worker does: `count` (`scard`), `add` (`sadd`), `run`, `release` (`srem`), `settle` |
| | `slots`, `cancelKeys` | the Redis set of a tenant; the cancel flags |
| | `refused` | refusals whose `failed` event the listener has yet to handle |
| | `stalled`, `losses`, `replays` | ids that lost a worker once; counters of the bounds |
| `WebhookDelivery` | `status`, `tried` | `WebhookDelivery.status` and `.attempts` |
| | `owed` | callers between the row and `enqueue` |
| | `vouched` | history: jobs that recorded a success |
| `Admission` | `status`, `owner`, `started` | a `SecurityRun` (active: not in `TERMINAL_RUN_STATUSES`), its `requestedByAgentId`, whether its first job was queued |
| | `records`, `delivered`, `identities` | `IdempotencyRecord`, `InboundGithubEvent`, `AgentIdentity` of type github |
| | `call[c]` | the request a connection has in progress, with what it has read |
| | `answers`, `orphaned` | history: keyed responses; runs whose request was lost before it queued the job |
| `Preparation` | `at[r]`, `whence[r]` | the next command of the run's preparation, or how it ended; the place at which it threw or died |
| | `dir` | the snapshot directory: what is in it, whose clone, whether the marker is there and the tree read-only |
| | `file`, `rows` | the artifact's file; runs with a `source_snapshot` row |
| | `draft[r]`, `risk[r]`, `previous` | the level a handler has computed and not yet inserted; `RunClassification.riskLevel`; the categories of the repository's findings |
| | `overlapped`, `crashes` | history: two runs without a marker were building at once; dead workers |
| | `privileged` | whether the workers run as root, fixed at the start |

`tryAcquire` is two steps (`Admitted` or `Refused`, then `AddSlot`), a refused attempt and the
copy the listener adds are two (`Refused`, `CopyRefused`), as are every row and the job that
follows it (`Upsert` or `Replay`, then `EnqueueOwed`; `CreateRun`, then `EnqueuePrepare`). The
deliver handler is `ReadRow`, `Post`, `RecordOutcome`. In `Admission` a step is one query, so
a look-up and the insert it guards are always apart.

In `Preparation` a step is one command on the directory (`Check`, `Remove`, `MakeDir`,
`CloneBegin` and `CloneEnd`, `Checkout`, `Mark`, `Protect`, `Describe`) or the file (`OpenFile`,
which truncates, and `WriteFile`), one row (`Record`), the read of the earlier findings and the
insert of the classification (`ClassifyRead`, `ClassifyWrite`), or the engine's read (`EngineEnds`).
`Describe` includes the submodules: as root, their files are written after the modes are set and
leave the tree writable.

`ReviewProperties` maps a review to `ReviewLifecycle` (not asked for, looking at the source, at the
target, settled; what it settled on; what was announced and shown); everything else the
pipeline does is a stutter there. `QueueProperties` maps the detailed queue to `JobContract`: the state of a job is the state of
the id `enqueue` gave it, except that it still waits while the limiter is counting (`View`: its
handler has not been called); attempts started are `attemptsMade` plus the one in progress; a job is
being aborted when the worker that has it has seen its flag. The limiter's own steps, the copies and
the flags are stutters.

Definitions with the comment "Broken variant" are not part of the model: each is a
plausible bug in the definition that follows it, and substituting it must make the
property named in `PROJECT.json` fail.

## 3. What the model abstracts

Data:

* A finding is its fingerprint with a severity, a confidence and whether its category
  is one of the auto-escalated ones (`FindingData`). The order in which a report lists
  findings does not matter: `persistDeepSecRun` is one transaction.
* Budget, authorization and policy toggles are one nondeterministic choice per routing
  attempt (`"open"` or `"shut"`): the code reads them once per attempt.
* A run's target build is its own head commit (`assumedTargetBuildId`), so a mission
  always matches its build and its test counts as complete.
* A verdict is one of four; `Judges` says which of them `resolveFindingStatusFromValidation`
  turns into the finding's status.
* `run_deepsec_diff` and `run_deepsec_full` are one job type: one handler function
  serves both and a run uses one of them.
* Artifacts, engine executions, cost and usage rows, reasons and rendering are left out.

Atomicity that the code does not have literally, and why nothing is lost:

* The engine call and the first read of the transaction after it are one step: nothing
  the engine does is visible, so the reads are what fixes the order.
* The three reads of `finalizeRun` before its transition are one step: the transition
  asserts the status again, and findings of a run only gain evidence.
* Routing's list of finding ids is read once and used for its final count; every finding
  it may contain is already linked when routing starts.
* `verifyFix`'s reads before the transaction are merged with the transaction's own, and
  the revalidation's read of the remediation with its first status read.
* `completeFixVerification` updates the `Remediation` row first and therefore holds that
  row's lock until it commits; `Locked` keeps out the other writers of the row. That
  Postgres may abort one of a completion and a submission as a deadlock is a case of
  `Interrupt`.

Left out of the environment: BullMQ starting a stalled job a second time while the first
execution still runs; eviction of completed job ids; `createDynamicFinding`, which has no
caller. One `submitFix` per finding is in flight at a time. The pipeline modules also leave
out what `JobQueue` and `Admission` model: the tenant limiter, `maxConcurrentRuns`,
`replayDeadLetterJob` and the queue's `cancel`, which only tests call.

What `JobQueue` takes from BullMQ (5.x), whose code is not in the repository: a job whose
processor throws is retried until `attemptsMade` reaches its `attempts`, and each of these
throws is a `failed` event; `retry` keeps `attemptsMade`; a stalled job goes to another worker
once without counting an attempt and fails the second time. Not modelled of it: a worker that
loses its lock and lives on, eviction beyond `removeOnComplete`, validation of custom ids,
and priorities and delays, which only order what is nondeterministic here. `cancel`'s
`getState` and `remove` are one step, and so are `enqueue`'s `getJob` and `add` (an `add` under an
id that exists does nothing).

What `Admission` simplifies: a request body is a value of `Bodies`, and `ChangeIn` says which change
(repository, commits and run type) it names. The key of a run has the change and the policy version
and nothing else of the body, as in `computeRunIdempotencyKey`, while the hash of the request covers all of
it. So two bodies may share a change and differ in the target environment or the pull-request number; the
second finds the run of the first. Every request is a `POST /v1/security/reviews` of one organization, and
authorization succeeds. The other mutations go through `withIdempotency` too, with the pattern of their
route as the endpoint and a hash of the body only (`security-routes.ts:101`, `:120`, `:132`, `:145`): what
that does is in section 6 and not in the model. A policy read and the look-up of the run are one step: the policy can
change and change back between any two steps. A run that has ended stays ended; the race that
breaks this is `bug_terminal_overwritten`. Runs that `validateFinding` and `verifyFix` create are
not limited, although the count of a review's agent includes them; the model has reviews only.

What `ValidateFinding` simplifies: one call per finding is open at a time, the target of a call is
authorized, and there is a run for each commit a call may be about (a call about another
commit is left out).

What `Preparation` takes from git and the file system, which are not in the repository: a clone
goes into no directory or an empty one only, empties it when it fails, and fails when its
directory is taken away; a removal that meets a read-only directory or one that is still
written to takes what it can and throws; root ignores modes. A git child that survives the
worker that started it is left out. The checkout includes the fetch and the two `rev-parse`
calls before it. Of the description of a snapshot only whether it can be made is kept; the
language scan has no effect on others, and the files of a submodule only that of leaving the tree
writable where modes do not stop their writer. That an engine leaves the tree it reads as it is, is
assumed. The changed files of a change are
fixed. A file is abstracted to the patterns it matches, the repository's own patterns are
fixed for a change, and no operation in the code takes a finding away or dismisses one. The
verification of a fix is not classified.

## 4. Runs and bounds

| Run | Instance | Question |
|---|---|---|
| `review_faults` | 1 run, 2 findings (symmetric), 2 workers, and either 1 fault or a client that cancels the run and fetches its receipt | Do the stages find their inputs, is each finding judged once, is a gate ever raised or shown without evidence, and why can a run stand still, whatever is retried? |
| `review_live` | 1 run, 2 findings, 1 worker, 1 fault, fair | Does the pipeline keep the life cycle a client is promised, is every run disposed of and its disposition published, and every queued finding judged? |
| `validate_calls` | 1 review, 1 `finding_validation` run, 2 findings (symmetric), 1 worker, no fault | What holds a finding or a review up when clients ask for validations at any moment? |
| `fix_verified` | a review and two successive fixes of one finding, 1 worker, 1 fault | Is `verified_fixed` always backed by checks of the fix on record? |
| `queue_contract` | 2 jobs of a tenant with 1 slot (symmetric), 2 workers, 2 copies, one disturbance at a time (a dead-letter replay, a lost worker, a cancel flag), originals cancelled while they wait or run | Where does BullMQ with the limiter depart from the contract, and what happens to slots and refused jobs? |
| `webhook_delivery` | 1 delivery, its job and a manual replay, 2 workers, 3 attempts, 1 loss, fair | Does a delivery settle, and is what its row says true? |
| `admission` | 2 API connections of one agent, 2 GitHub connections, 3 requests, 1 key, 3 bodies about 2 changes, 2 policy versions, budget 1 | Do look-ups and inserts that interleave keep their promises? |
| `preparation` | 3 runs about one change (symmetric), 2 dead workers, root or not | Is a trusted snapshot the source, and what does one preparation do to the next? |

Bounds, and why they suffice for what is asked:

* `MaxAttempts = 2` (the code has 3): the first attempt, the retry, and the dead letters
  are all reached; a third attempt sees the same states as the second.
* `MaxInterrupts = 1`: one fault at any point of any handler. Faults are what make a
  partial effect visible to a retry; illegal transitions throw without being counted.
* `Workers` is 2 where the question is about interleaving (any two handlers overlap) and 1
  where the promise is about sequential execution (the in-memory queue drains one job at
  a time).
* `CallsWithoutFaults` in `review_faults` is a state constraint: a client calls only where nothing was
  interrupted and at most one of the two findings was reported. The calls meet every schedule of
  two workers over one finding, the fault every schedule over two.
* `OneAfterTheOther` in `bug_reappearing_not_gated` asks for the second review once the first was
  blocked, so that the counterexample is the plain sequence the comment speaks of.
* In `validate_calls` the validation run is a constant that exists from a request on. Two
  findings share its key, which is the case that matters; a review behind it owns both.
* Three runs are what it takes for a third to meet what two that overlap, or two that died,
  have left; the three files of the change are two high-risk ones and one that earlier
  findings make high, so every level from the second on is reached.
* Two findings are needed for anything about the *last* of several missions; two runs for
  anything about shared fingerprints; two fixes for anything about a fix and its successor. Two reviews
  that overlap are in no passing run (`review_faults` has one, to keep its two findings and its fault):
  there the theorems of `ReviewSafety`, which hold for any number of runs, carry the properties.
* `Awaited` in the fix module is the set of runs whose jobs a client lets end before it
  acts on their findings. `fix_verified` has all of them: it asks what the system
  guarantees to such a client. `bug_stale_verification` shows what is lost otherwise.

* The queue runs have one tenant: nothing is shared between the slots of two. Two workers
  make every race of the limiter (both count, then both add). With two copies in all, a job
  is refused until it is dead, a copy is refused, or both jobs are. `OneDisturbance` is a
  state constraint: a replay, a loss and a flag are each met by every schedule, not all
  at once.
* `webhook_delivery` has the three attempts of the code, since the handler's literal 3 is the
  point, and a limit the tenant does not reach; `bug_pending_forever` is the case that does.
* Three requests are what it takes to overlap two under a budget of one that is already
  spent, and every pair of requests overlaps in every way.

`CHECK_DEADLOCK FALSE` is set everywhere: once every job is done or dead and no client
calls, the system is at rest, which is what it should be.

What the passing runs show, property by property:

* `BlockedHasRuntimeEvidence`: a blocked run, a pending block and an announced one all rest
  on a `confirmed` validation of a finding linked to the run.
* `OneConclusiveVerdict`, `CandidatesUntested`: a retry of a mission that already recorded
  its verdict throws instead of judging again, and what saves a candidate from a second
  test is its status, not the routing gate that asks for earlier validations.
* `StageInputsExist`: the "no source snapshot" and "no target environment" errors of the
  review's handlers cannot happen.
* `BlockedHasRuntimeEvidence` and the others of this run hold however the client's cancellation falls
  between the reads and writes of the handlers.
* `StallHasACause`: a run stands still without a disposition for one of four causes (`HeldUp`),
  or because the disposition it had was overwritten. It says that there is no fifth, and not that the four
  do no harm: two of them (a failed mission, an
  escalated finding whose mission was never queued) leave nothing in the dead letters for an
  operator to find.
* `GateReceiptsRecorded`: a receipt fetched in the middle of the run may be stale, but never
  shows a gate the audit trail does not have. It may show less than the trail has (section 6).
* `ImplementsLifecycle`: with one worker a review is asked for, looks at the source, perhaps at the
  target, and settles once; what is announced and shown is what it settled on, whatever is
  retried.
* `EventuallyDisposed`: with one worker every run ends held up by a cause, or disposed of for
  good with its announcement and its receipt; only a fault after the settlement loses these.
  `QueuedIsJudged`: no mission is lost among the jobs of a run.
* `QueuedHasACause`, `HeldUpHasACause`: what a request costs: a review from which it took a
  candidate waits for ever, and of two requests at one commit the second leaves its finding at `validation_queued`.
* `FixedIsVouchedFor`, `FindingStepsLegal`, `RetestingHasACause`, `ReplayedIffConfirmed`: see
  `FixProperties`.

* `DepartsOnlyAsKnown`: the BullMQ queue does not keep the contract of the in-memory one, although the
  latter says so. It departs from it in three ways (`Departure`): a replayed dead letter keeps the attempts
  it has spent, a cancelled active job is retried, and a refused start counts as an attempt. In all else
  a job id is added, started, retried, finished, cancelled and replayed as in the in-memory queue,
  whatever the limiter, the flags, the copies and a lost worker do in between.
* `SlotsBounded`: the limiter's race lets a tenant exceed its limit by less than the number of
  workers, which is what `tenant-concurrency.ts` calls tolerated. `SlotsLeakOnlyByLoss`: only a
  lost worker leaks a slot. Nothing ever gives such a slot back, so a tenant with `Limit` of
  them is refused for ever.
* `RefusedIsNotForgotten`: the original of a refused job may end in the dead letters, but an
  instance of the job is then still to run, has completed or has failed by its own error.
* `PendingIsAlive`, `ExhaustedWasTried`, `DeliveredIsNotResent`, `DeliverySettles`: a tenant below
  its limit can trust the row, except after a loss.
* `SameAnswer`, `OneBodyPerKey`, `BudgetBounded`, `RecordedDeliveryIsServed`: overlapping requests
  under one key cost errors and a budget exceeded by the overlap; those that succeed had one body
  and got one run. That the run is about the target the body names is not promised (section 6), nor
  that only one of them executed. A run whose inserter was lost before it queued the job nobody repairs.

* `SnapshotIsSource`: the marker can be trusted after any death of a worker, but not after two builds at
  once. `LeftoversNeverFail`: until two build at once a preparation fails, before it comes to the
  store, only by git's own failure, and never by what another did or left; at the store every
  unprivileged one fails that stores the snapshot again (section 6). `RowsHaveContent`: the content of
  a recorded snapshot is missing only while it is written again, which only root can do.
  `RiskOnlyRises`: of two runs about one change the one that reads the findings later is never
  classified lower; the rows may be written in another order.

## 5. Fairness

`FairSpec` assumes weak fairness of `Work(j)` for each job (a worker that holds a job keeps
running it; a free worker takes what waits: BullMQ's and the in-memory queue's loop), and
of the second half of each API call. It includes that an engine's process comes back: a
timeout only aborts a signal, and the execution strategies of both engines then wait for the
child to close, so a child that ignores SIGTERM would hold its handler and its worker for
good. No client has to call and no fault has to happen. Weak fairness is enough: once a job waits, its `PickUp` is disabled
only while all workers are busy, and each of them finishes; with finitely many jobs, each
run a bounded number of times, no job can be passed over for ever.

`DeliverySpec` assumes the same of the queue's workers and of the deliver handler, of the
`failed` listener, and of a caller that has written the row. `DeliverySettles` therefore excepts
losses: a caller or a worker that is lost owes nothing any more.

## 6. Where code and comments disagree

Each of these has a run whose property states the comment and whose counterexample shows
the code. Line references are in `PROJECT.json` under `findings`.

| Run | In short |
|---|---|
| `bug_terminal_overwritten` | a status transition can overwrite a terminal status committed after its read |
| `bug_stale_verification` | a retried replay of one fix can mark its successor `verified_fixed` |
| `bug_pending_forever` | a back-pressure copy has one attempt, the deliver handler counts to three: a failed copy leaves its delivery pending for good, one that was delivered included |
| `bug_reappearing_not_gated` | a run that reports a finding confirmed at runtime before completes: nothing ties the run to the finding |

Seen while modelling, without a run of their own:

* a mission that fails operationally is done, not retried (`strix/persist.ts:116`, "can be
  retried" at line 43);
* an inconclusive or failed verification completes its run (`deps.ts:41`; `run-state-machine.ts:21`
  says only `verified_fixed` does);
* the in-memory queue is said to implement the same contract as the BullMQ one
  (`in-memory-job-queue.ts:30`), and `DepartsOnlyAsKnown` names what differs: cancelling an active job aborts
  its signal, and the error is retried like any other (`bullmq-job-queue.ts:166`), where the in-memory
  queue ends the job (`in-memory-job-queue.ts:160`); a replayed dead letter keeps its spent attempts
  (`bullmq-job-queue.ts:154`), where the in-memory queue resets them (`:124`); a refused attempt is an
  attempt and may be the one that ends in the dead letters (`bullmq-job-queue.ts:107`), against the
  comment at line 119. Besides, cancelling an original leaves its copies, and the job and its copy may run
  at once;
* a review asked for with another target environment or pull-request number than an earlier one about the
  same change is answered with the earlier one's run, which tests the earlier target
  (`run-idempotency-key.ts:20`, `create-security-review.ts:82`);
* the idempotency record of the other mutations is kept under the pattern of their route, without the
  finding or run id, and its hash covers only the body (`security-routes.ts:101`, `:120`, `:132`,
  `:145`; `idempotency.ts:34`): one key used with one body for two findings answers the second with the
  response about the first, against `idempotency.ts:24`;
* two deliveries of a new organization can create two "single" GitHub identities, each with a
  budget of its own (`authenticate-agent.ts:57`);
* a run at `awaiting_fix` counts against `maxConcurrentRuns` for as long as it stays there
  (`create-security-review.ts:11`);
* with two workers, a mission that finishes before routing has queued the next one settles the
  run with findings still queued (`run-strix.ts:75` counts, `deps.ts:27` says the last validation
  decides); `SettlesWhenJudged` proves that it does not with one;
* with two workers, a review's mission and a requested one may run at once and both judge the
  finding (`finding-services.ts:109`); the table has no edge for the second; `RequestedOrJudgedOnce`
  proves that with one worker only a finding taken by a request is judged twice;
* a `finding_validation` run is never settled (`deps.ts:43`): it is still `queued` when its mission
  ends, which has no edge to a disposition, so the handler throws after the verdict is stored,
  its retries find the finding judged, and the run counts against `maxConcurrentRuns` for ever,
  although `deps.ts:23` has `finalizeRun` decide it;
* a request that takes a `source_confirmed` finding from the review that found it leaves that
  review waiting (`finding-services.ts:76`, no run in the audit event);
* the key of a `finding_validation` run holds the commit and no finding (`finding-services.ts:88`):
  the second request at a commit fails with its transition committed; `computeValidationIdempotencyKey`
  exists and has no caller;
* of two preparations at once one may write the marker into the directory the other has just
  begun to fill, which every later run then trusts (`repository-preparation.ts:75`, against the
  comment above it), and a late removal may damage a snapshot that is marked;
* storing what is stored already, said to dedupe naturally (`artifact-store.ts:12`), opens a
  read-only file for writing: it fails for every user but root, so the second run about a
  change fails; for root it truncates what other runs have recorded;
* a snapshot called immutable (`repository-preparation.ts:57`) can be written to by the engine that
  reads it when a worker died between the marker and the modes (`:86`), when the worker is root, whom
  modes do not stop, and in the submodules such a worker fetches after the modes were set (`:94`, `:169`);
* what a submodule could not be fetched for is noted in the snapshot's `submoduleIssues`, which
  nobody stores;
* the classifier explains a category by "confirmed findings before", but is given the categories of
  all findings that were not dismissed (`prepare-and-classify.ts:109`);
* an abort that arrives before the engine's process is started is lost
  (`deepsec/execution-strategy.ts:74`), and Strix's `instruction.md` is named and never written;
* two missions that both believe they are the last: the second `finalizeRun` throws
  (`deps.ts:43`, called safe at `deps.ts:26`);
* a run whose only finding is of medium confidence completes with it still `suspected`,
  although `receipt-status.ts:16` calls a completed run's findings benign or inconclusive;
* a receipt fetched during the run can be stored after the receipt job's
  (`get-receipt.ts:40`) and stays;
* two findings fixed by one commit share the key of their verification run
  (`finding-services.ts:168`), so the second verification fails on the unique key.

## 7. Proofs

TLAPS checks eight modules: `ReviewTyping` and `ReviewSafety` about the review pipeline,
`ValidationSafety` about requested validations beside it, `FixSafety` about fix verification beside
it, `QueueSafety` about the job queue and its contract, `DeliverySafety` about webhook delivery over
that queue, `AdmissionSafety` about admission, and `PreparationSafety` about the snapshot and the
classification. Every invariant and every action property of the passing runs is stated by a
theorem; what each theorem needs beyond the assumptions on the constants is said below.

### The review pipeline

The theorems hold of `Spec` for *every* value of
the constants, under the assumptions named in `ControlPlane` and `ReviewPipeline`
(`NoFindingAssumption`, `RunsAssumption`, `BoundsAssumption`, `FindingDataAssumption`,
`ClientsAssumption`). They say that `NoFinding` is not a finding, that the subsets of runs
are subsets, that there is a worker and an attempt, and that `FindingData` has its type.
Nothing is assumed about the number of runs, findings, workers or faults, and clients
may cancel and fetch at will.

The argument has two layers.

**Typing** (`TypingInvariant`). `PipelineTypeOK` is not inductive: `attempts` stays within
`MaxAttempts` only because a waiting job has an attempt left (`AttemptsCounted`), and
`WriteRunStatus` writes a status only because a handler about to settle a run holds a
disposition and not, say, a verdict (`PlacesOK`: the local values that fit each place of
each handler). The conjunction is inductive; `TypeCorrect` is its first part.

**Safe** (`SafeInvariant`), inductive relative to Typing, has four parts that need one
another:

* `FindingsSafe`: findings linked to a run exist, are linked to one run only, have
  validations only once they were queued, and conclusive validations only once they are
  judged; `confirmed` has its validation row.
* `GatesSafe`: blocked runs and announcements have their evidence, statuses their audit
  event, receipts their gate.
* `StageInputsExist`: jobs in the queue find their inputs.
* `HandlersSafe`: what a handler in mid-flight may rely on, most of all that its candidates
  are still `source_confirmed` (nobody else decides them: one routing job per run and one
  accountable run per finding) and that a mission about to write a conclusive verdict
  finds its finding still `validation_queued` (one mission per run and finding). These
  stability facts are why read-then-write of a *finding* is safe in a review although the
  same pattern on a *run* is not.

The step lemma splits over the actions (`WorkActions`, `Writers`, `OnlyOwnJob`, `Grows` say
once what each touches); the six properties then follow from `Safe` one by one:
`BlockedNeedsEvidence`, `JudgedOnce`, `InputsExist`, `CandidatesAreUntested`,
`SingleAccountability`, `ReceiptsAreRecorded`. `SingleAccountability` is the other side of
`bug_reappearing_not_gated`: since a finding that is reported again is tied to no second run, no two reviews
share one, and much of `Safe` rests on that. A repair of the upsert would need another argument.

**Progress** (`ProgressInvariant`), inductive on top of both, also for any number of workers,
clients and faults: a stage that has left its queue has queued the next or still holds the step
that will; routing that is done has either handed the run to `finalizeRun` or left missions,
each of which is there, or has its verdict, or has failed; a mission that finds no other
outstanding hands the run over. `StandstillHasACause` follows: take a run at rest that nothing in
`HeldUp` explains; then its stages are done, no finding of it waits for a verdict, and
whoever saw the last one judged has written a disposition into the audit trail. No
cardinality is needed, since the count the code makes (`StillQueued(r) = {}`) is a test for the
last one.

**One worker** (`LifeInvariant`). The rest holds under `Workers = 1` and `Cancellable = {}` only, and
each hypothesis is needed: two handlers, or a handler and a cancellation, may both assert a
status before either writes, which is the finding `bug_terminal_overwritten`. Under them at
most one handler is at work (`AloneInv`), nobody else changes the status of a run that exists,
and so what a handler asserted still holds when it writes (`Asserted`, for each place of each handler);
a receipt is only generated of a run that has its disposition (`ReceiptsFollow`).

* `ReviewKeepsLifecycle`: every step maps to a step of `ReviewLifecycle` or to a stutter. It also
  assumes `Queried = {}`: a receipt that a client fetches in the middle of a review may be stored
  after the disposition and show the run without it.
* `SettlesWhenJudged`: between the count that found no validation outstanding and the write of the
  disposition nobody asks for another one (`Drained`); and unless something was cut short, routing
  passes through a run once, before its missions (`RoutedOnce`).
  With two workers it is false.
* `TerminalStays`: `TerminalIsFinal`, which the violation run refutes for two workers, is true for one
  that no cancellation disturbs. What goes wrong is the overlap and nothing else.

These theorems are about the review pipeline by itself (`Spec`). In the composed
specification `FixSpec` findings take further statuses, and `OneConclusiveVerdict`, say,
is meant to fail: a replay is a second verdict.

### Requested validations

`ValidateTypeCorrect` extends the typing of the pipeline to `ValidateSpec`. `RequestedOrJudgedOnce` is
proved under `Workers = 1`, without which it is false, for any runs, findings, attempts, faults
and calls. The invariants of `ReviewSafety` do not hold here: a finding may have a mission of a
run that does not answer for it. Instead, `AloneInv` says that at most one job is active and
only an active job has a place in a handler (the limit `PickUp` tests is the worker's
concurrency), and `JudgedInv` says of each finding nobody requested that a conclusive verdict is
still its status and that what the one handler in hand is about to do to it (escalate it, or
write a verdict) it may still do. A request disturbs only findings it makes requested.

The other two are about what is left undone, and their claim is made of the states in which no job
or call was cut short (`interrupts = 0`), whatever `MaxInterrupts` is: a routing attempt that dies between
escalating a finding and queueing its mission leaves a finding with no mission of it and no request.

* `QueuedFindingsHaveACause` (`Workers = 1`). `QueueInv` follows a queued finding to whoever will
  judge it: the routing job that has escalated it and is about to send its mission, a mission
  that waits or runs and has not written yet, or one of the three causes (`QueuedFits`); and it
  says what a call in flight and a mission in hand may still do to it (`CallFits`, `MissionFits`).
* `HeldUpReviewsHaveACause` (`Workers = 1`, `Cancellable = {}`). `ReviewInv` follows a review: each
  stage that is done has queued the next (`ChainOK`), routing leaves it disposed of or with missions to
  wait for (`RoutingHands`), and each of its queued findings has a mission of the review's own still to
  come, unless a dead job, a failed mission or a request excuses it (`MissionsOwed`). The last mission to
  judge sees the others judged and disposes of the run, because what it asserts of the run's status
  holds (`LifeInv` again).

### Fix verification

`FixTypeCorrect` needs nothing of the clients. The other theorems are proved of behaviours in which

* clients let the jobs about a finding end before they act on it (`Awaited = Runs`, the case
  `fix_verified` asks about; `bug_stale_verification` shows what is lost without it), and
* no two calls of `verifyFix` for one finding are in flight for two runs at once (`[]OneVerifyCall`).
  A run is unique per head and base commit, and the base is the commit the finding was last seen
  at: if another review sees the finding again between two calls, both can read `fix_submitted`
  before either writes `retesting`. `FixesApartSafe` shows that
  the hypothesis is about nothing else: when no commit is the fix of two verification runs
  (`FixesApart`, as in `fix_verified`), `OneVerifyCall` is itself an invariant and the four
  properties hold with no word on the timing of calls.

For any number of reviews, fixes, findings, workers, attempts and faults, `FixInv` then says that one
party at a time acts on a finding under repair. `QueueShape` says which jobs a run of each kind may have, in
which order. `ReviewsApart` is what remains of `Safe` once findings take further statuses.
`Repaired` relates a finding's status, its `Remediation` row, the call or run that is at work on it,
and what each handler holds: a revalidation that has read the row still agrees with it when it
completes, a replay is there only for a finding confirmed at runtime, and a completion writes a
status its finding may take. `FixesAreVouchedFor`, `ReplayFollowsEvidence` and `FindingEdgesTaken` read off
it. `NoVerificationForgotten` adds `RetestInv`: a finding at `retesting` has a run that is being created,
is on its way to its completion, or is stuck for one of the listed causes, and a completion that
leaves it at `retesting` has its operational failure on record. `FixesAssumption` says that `"none"`,
which stands for a missing row, is not a commit.

### The queue

`QueueInv` is the conjunction of the types; of what each worker holds (`Worked`: a worker's job is
active, and no two workers have one job); of the attempts a job in each state
has used (`Counted`: a replay buys one beyond the budget); and of a count of slots (`SlotsFit`: the slots of a tenant, and the
executions that have counted and not yet added, are within the limit plus the other workers,
and those nobody works on within the losses). `SlotsAreBounded`, `LeaksAreLosses` and
`QueueTypeCorrect` read off it, for every number of jobs, tenants, workers, attempts and losses.
`RefusedIsKept` adds that a refused job keeps an instance; it assumes that waiting *copies* are not
cancelled (`"waiting" \notin CancellableCopies`), since a client that finds a copy and cancels it has
cancelled the job.

`QueueDepartsOnlyAsKnown` is the refinement: every initial state maps to one of `JobContract`, and every
step to a step of it, one of its departures, or a stutter, with no assumption on which jobs are
cancelled or when. On top of `QueueInv` it needs that no worker has its signal aborted before its handler
runs (`AbortedLater`), since the contract calls a job waiting until then (`View`). A step of the queue
changes what is mapped of one id at most (`OneIdChanges`), so the proof says for each action what it
may show of that id (`MayShow`), and once for all that whatever may be shown is allowed
(`ShownAllowed`).

### Webhook delivery

The steps of `DeliverySpec` are those of the queue with the handler in place of the processor, so the part
of `QueueInv` that concerns jobs and workers (`Queue`) is proved again, from two facts: the
handler's steps only move a worker's label on (`Proceeds`), and losing a caller moves nothing
(`OnlyLoses`). `DeliveryTypeCorrect` needs nothing more. The other three hold *while no job is
refused* (`[]NothingRefused`: the tenant's workers and the slots its lost workers leaked stay below its
limit, as in `webhook_delivery`): a refused attempt is counted by the queue and recorded by nobody, and the
copy made of it has one attempt where the handler counts to three, which is
`bug_pending_forever`.

* `ExhaustedOnlyWhenTried`: every attempt the queue has counted was recorded before (`Recorded`), so when
  the handler sees its last one, the row has the others.
* `RecordedIsNotSentAgain`: a delivery that the only job of its row recorded still stands, and the job is past its
  POST (`VouchedStands`). It assumes that no waiting job is cancelled (nothing in the code
  cancels a `deliver_webhook` job): a cancelled job can be added again and sends again.
* `PendingIsCarried`: a pending row has a caller about to add its job, or a job that waits or is at a
  place from which it will record an outcome or wait again (`Carried`). It assumes as much, and
  that jobs have at least the three attempts the handler counts to (`MaxAttempts >= 3`;
  `DEFAULT_MAX_ATTEMPTS` is 3), since a job with fewer is dead before its handler calls the
  row exhausted.

### Preparation and classification

`PrepInv` holds for any number of runs and deaths. Its core (`Orderly`) says that until two runs
overlap at most one is building, the marker is there only over a complete tree, and the place of
the builder tells how far the directory is. What overlaps is excepted by name and not
assumed away: typing, content and risk hold through it. `FileFits` relates the file to
those who have stored it, and `WhenceFits` the end of a run to the place it ended at.
`RiskNeverDrops` rests on `RiskIsMonotone` of the classifier, a fact about all sets of files and
histories, and on what a handler has read and not yet written (`DraftsOld`).

### Admission

The theorems hold for every set of API and GitHub clients, keys, deliveries, changes and
policy versions and every limit, with any number of requests. Assumed: the clients are
finitely many and the two kinds are disjoint, every body names a change,
deliveries are about a change or nothing, keys are not delivery ids, `NoKey`, `NoChange` and
`NoRun` are distinct from the real values, the
limit is positive (`ClientsAssumption`, `ChangeAssumption`, `NoneAssumption`,
`NoRunAssumption`, `MaxRunsAssumption`).

None of the properties is inductive. `AdmissionInvariant` adds what a request carries at each
place (`CallsOK`, through `Fits`), that only the inserter of a run or its loss separates the row from
its job (`RunsServed`), and that records and answers agree (`RecordsOwn`,
`AnswersRecorded`); the first three properties read off it. `SameAnswer` rests on the one
thing the code leaves to the database: the second insert under a key fails, and with it the
request, so no answer is given that the record does not hold.

The budget needs a count (`BudgetInv`): an agent's active runs, and the requests between
their count and their insert (`Passed`), are together at most the limit plus one for each
*other* client of the agent. A count succeeds only below the limit, with at most every client
past it; an insert turns a place into a run. So the bound is what the code really
gives, and no better one holds: `admission` reaches it.

## 8. Only model-checked, and not modelled

Only model-checked: the liveness properties `EventuallyDisposed`, `QueuedIsJudged` and
`DeliverySettles`, since liveness under fairness is out of the prover's reach here. The instances of
the runs for the other properties meet the hypotheses of the theorems about them. Outside those hypotheses
nothing is claimed: two workers break the life cycle and the finality of terminal statuses, a call
in the middle of a verification its verdict, a refused webhook job its row (section 6).

Not modelled: the engine adapters (child processes and the parsing of what they print; the
pipeline models what is done with their reports), HTTP routes and the MCP server (transports of the
modelled services), the dashboard (it only reads), authentication and target authorization (checks
of one request; whether a target is authorized is a free choice in routing), `correlate-*` beyond
the fingerprint and the verdict (text of a finding), the wording of receipts. `PROJECT.json` gives the
status of every component.

## 9. Plan

Done: the status machines, the shared control plane, the review pipeline with its
interfering calls, its properties, its abstract life cycle and its proofs; requested
validations beside it; the remediation flow with its properties; the queue, its contract and
the proof of where it departs from it; webhook delivery; idempotency, GitHub deliveries and admission;
preparation, the artifact store and the classifier; and a theorem for every invariant, action
property and refinement that a passing run checks.

What would come next, in this order:

1. Requested validations together with submitted fixes over the same findings.
2. A queue that starts a stalled job a second time while the first execution lives on, under
   the review pipeline.
