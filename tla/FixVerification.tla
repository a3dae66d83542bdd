---------------------------- MODULE FixVerification ----------------------------
(***************************************************************************)
(* The second half of a finding's life: a client submits a fix and asks    *)
(* for its verification, and a fix_verification run revalidates the source *)
(* and, for a finding that was confirmed at runtime, replays the exploit.  *)
(* It runs beside the reviews of ReviewPipeline, over the same tables and  *)
(* the same queue.                                                         *)
(*                                                                         *)
(* completeFixVerification updates the Remediation row before it reads the *)
(* finding, so two completions for one finding are serialized by that row's *)
(* lock, and so are a completion and the upsert of submitFix.              *)
(***************************************************************************)
EXTENDS ReviewPipeline

CONSTANTS
  Base,           \* Base[r]: the base commit of fix_verification run r
  Fixes,          \* commits clients submit as fixes
  Awaited         \* runs whose jobs a client lets end before it acts on their findings

ASSUME FixesAssumption == "none" \notin Fixes
ASSUME FixRunsAssumption == \A r \in FixRuns : Head[r] \in Fixes
ASSUME AwaitedAssumption == Awaited \subseteq Runs

VARIABLES
  remediation,    \* Remediation row of each finding; its fix is "none" before it exists
  verifies,       \* the finding that the finding.retesting event of a run names
  submitting,     \* the fix of a submitFix that has read the finding and not yet written
  verifying,      \* the finding of a startFixVerification that has not yet written
  held            \* the remediation a running handler has read

fixVars == <<remediation, verifies, submitting, verifying, held>>
allVars == <<vars, fixVars>>

Remediations ==
  [ fix : Fixes \cup {"none"}, source : CheckVerdicts \cup {"pending"},
    runtime : CheckVerdicts \cup {"pending", "not_applicable"} ]

NoRemediation == [fix |-> "none", source |-> "pending", runtime |-> "not_applicable"]

FixInit ==
  /\ Init
  /\ remediation = [f \in Findings |-> NoRemediation]
  /\ verifies = [r \in Runs |-> NoFinding]
  /\ submitting = [f \in Findings |-> "none"]
  /\ verifying = [r \in Runs |-> NoFinding]
  /\ held = [j \in Jobs |-> NoRemediation]

FixTypeOK ==
  /\ PipelineTypeOK
  /\ remediation \in [Findings -> Remediations]
  /\ verifies \in [Runs -> Findings \cup {NoFinding}]
  /\ submitting \in [Findings -> Fixes \cup {"none"}]
  /\ verifying \in [Runs -> Findings \cup {NoFinding}]
  /\ held \in [Jobs -> Remediations]

RuntimeConfirmed(f) == \E v \in validations : v.finding = f /\ v.verdict = "confirmed"

\* What a handler has read dies with it.
HeldByActive == held' = [j \in Jobs |-> IF jobState'[j] = "active" THEN held[j] ELSE NoRemediation]

-----------------------------------------------------------------------------
(* submitFix and verifyFix.                                                *)

HopToFixPendingFrom ==
  {"source_confirmed", "confirmed", "not_reproduced", "inconclusive", "still_exploitable"}

\* No job of an awaited run that answers for the finding is left.
MayCall(f) ==
  \A j \in Jobs : (j.run \in Awaited /\ jobState[j] \in {"waiting", "active"}) => f \notin linked[j.run]

\* A completion holds the lock of the finding's Remediation row.
Locked(f) == \E j \in Jobs : At(j, "complete_write") /\ j.finding = f

SubmitAssert(f, fix) ==
  /\ submitting[f] = "none"
  /\ MayCall(f)
  /\ findingStatus[f] \in HopToFixPendingFrom \cup {"fix_pending"}
  /\ submitting' = [submitting EXCEPT ![f] = fix]
  /\ UNCHANGED <<vars, remediation, verifies, verifying, held>>

\* Broken variant: a replay is asked for whether or not there is an exploit.
SubmitWriteAlwaysReplays(f) ==
  /\ submitting[f] # "none"
  /\ ~Locked(f)
  /\ findingStatus' = [findingStatus EXCEPT ![f] = "fix_submitted"]
  /\ remediation' = [remediation EXCEPT ![f] =
       [fix |-> submitting[f], source |-> "pending", runtime |-> "pending"]]
  /\ submitting' = [submitting EXCEPT ![f] = "none"]
  /\ UNCHANGED << runStatus, lastSeen, linked, recorded, reported, snapshots, classified,
                  validations, receipt, announced, queueVars, apiVars, verifies, verifying, held >>

SubmitWrite(f) ==
  /\ submitting[f] # "none"
  /\ ~Locked(f)
  /\ findingStatus' = [findingStatus EXCEPT ![f] = "fix_submitted"]
  /\ remediation' = [remediation EXCEPT ![f] =
       [ fix |-> submitting[f], source |-> "pending",
         runtime |-> IF RuntimeConfirmed(f) THEN "pending" ELSE "not_applicable" ]]
  /\ submitting' = [submitting EXCEPT ![f] = "none"]
  /\ UNCHANGED << runStatus, lastSeen, linked, recorded, reported, snapshots, classified,
                  validations, receipt, announced, queueVars, apiVars, verifies, verifying, held >>

\* The key of the new run is made of its base and head commit and is unique; it
\* does not name the finding.
VerifyAssert(f, r) ==
  /\ r \in FixRuns
  /\ runStatus[r] = "absent"
  /\ verifying[r] = NoFinding
  /\ MayCall(f)
  /\ Base[r] = lastSeen[f] /\ Head[r] = remediation[f].fix
  /\ CanTransitionFinding(findingStatus[f], "retesting")
  /\ verifying' = [verifying EXCEPT ![r] = f]
  /\ UNCHANGED <<vars, remediation, verifies, submitting, held>>

VerifyWrite(r) ==
  /\ verifying[r] # NoFinding
  /\ runStatus' = [runStatus EXCEPT ![r] = "queued"]
  /\ findingStatus' = [findingStatus EXCEPT ![verifying[r]] = "retesting"]
  /\ linked' = [linked EXCEPT ![r] = @ \cup {verifying[r]}]
  /\ verifies' = [verifies EXCEPT ![r] = verifying[r]]
  /\ creating' = creating \cup {r}
  /\ verifying' = [verifying EXCEPT ![r] = NoFinding]
  /\ UNCHANGED << lastSeen, recorded, reported, snapshots, classified, validations, receipt,
                  announced, queueVars, cancelling, fetching, remediation, submitting, held >>

-----------------------------------------------------------------------------
(* prepare_repository, of a fix_verification run.                          *)

FixPrepareEnqueue(j) ==
  /\ j.type = "prepare_repository"
  /\ j.run \in FixRuns
  /\ At(j, "enqueue")
  /\ Enqueue(FindingJob("run_deepsec_revalidation", j.run, verifies[j.run]))
  /\ Goto(j, "return")
  /\ UNCHANGED <<storeVars, attempts, interrupts, remediation, verifies, held>>

-----------------------------------------------------------------------------
(* run_deepsec_revalidation                                                *)

RevalidateAssert(j) ==
  /\ j.type = "run_deepsec_revalidation"
  /\ At(j, "begin")
  /\ IF j.run \in snapshots
       THEN AssertRunTransition(j, "source_review_running", "start")
       ELSE Throw(j) /\ UNCHANGED <<storeVars, attempts, interrupts>>
  /\ held' = [held EXCEPT ![j] = IF jobState'[j] = "active" THEN remediation[j.finding]
                                                           ELSE NoRemediation]
  /\ UNCHANGED <<remediation, verifies>>

RevalidateStart(j) ==
  /\ At(j, "start")
  /\ WriteRunStatus(j, "source_review_running", "review")
  /\ UNCHANGED <<remediation, verifies, held>>

RevalidateLookup(j) ==
  /\ At(j, "review")
  /\ \E new \in SUBSET {f \in Findings : ~Exists(f)} :
       frame' = [frame EXCEPT ![j].at = "persist", ![j].todo = new]
  /\ UNCHANGED <<storeVars, jobState, attempts, interrupts, remediation, verifies, held>>

\* From "persist" on, DeepSecPersist of the review pipeline takes over: the code
\* is the same.

RevalidateFinishAssert(j) ==
  /\ j.type = "run_deepsec_revalidation"
  /\ At(j, "read")
  /\ AssertRunTransition(j, "source_review_completed", "write")
  /\ HeldByActive
  /\ UNCHANGED <<remediation, verifies>>

RevalidateFinishWrite(j) ==
  /\ j.type = "run_deepsec_revalidation"
  /\ At(j, "write")
  /\ WriteRunStatus(j, "source_review_completed", "judge")
  /\ UNCHANGED <<remediation, verifies, held>>

\* The verdict is the first reported finding's, so a report without findings
\* has none.  The path is chosen by the remediation read at the start.
RevalidateJudge(j) ==
  /\ At(j, "judge")
  /\ \E source \in CheckVerdicts :
       /\ source # "inconclusive" => reported[j.run] # {}
       /\ IF held[j].runtime = "not_applicable"
            THEN /\ held' = [held EXCEPT ![j].source = source]
                 /\ frame' = [frame EXCEPT ![j].at = "complete_read",
                                           ![j].decided = SourceOutcome(source)]
                 /\ UNCHANGED remediation
            ELSE /\ ~Locked(j.finding)
                 /\ remediation' = [remediation EXCEPT ![j.finding].source = source]
                 /\ Goto(j, "run_read")
                 /\ UNCHANGED held
  /\ UNCHANGED <<storeVars, jobState, attempts, interrupts, verifies>>

RevalidateRunAssert(j) ==
  /\ At(j, "run_read")
  /\ AssertRunTransition(j, "validation_running", "run_write")
  /\ HeldByActive
  /\ UNCHANGED <<remediation, verifies>>

RevalidateRunWrite(j) ==
  /\ At(j, "run_write")
  /\ WriteRunStatus(j, "validation_running", "enqueue")
  /\ UNCHANGED <<remediation, verifies, held>>

\* Broken variant: the replay is queued under the id of the job in hand.
RevalidateEnqueueSameKey(j) ==
  /\ j.type = "run_deepsec_revalidation"
  /\ At(j, "enqueue")
  /\ Enqueue(j)
  /\ Goto(j, "return")
  /\ UNCHANGED <<storeVars, attempts, interrupts, remediation, verifies, held>>

RevalidateEnqueue(j) ==
  /\ j.type = "run_deepsec_revalidation"
  /\ At(j, "enqueue")
  /\ Enqueue(FindingJob("run_strix_retest", j.run, j.finding))
  /\ Goto(j, "return")
  /\ UNCHANGED <<storeVars, attempts, interrupts, remediation, verifies, held>>

Revalidate(j) ==
  \/ RevalidateAssert(j) \/ RevalidateStart(j) \/ RevalidateLookup(j)
  \/ RevalidateFinishAssert(j) \/ RevalidateFinishWrite(j) \/ RevalidateJudge(j)
  \/ RevalidateRunAssert(j) \/ RevalidateRunWrite(j) \/ RevalidateEnqueue(j)

-----------------------------------------------------------------------------
(* run_strix_retest                                                        *)

\* The remediation is read before the exploit is replayed.
RetestMission(j) ==
  /\ j.type = "run_strix_retest"
  /\ At(j, "begin")
  /\ IF j.run \in Targets
       THEN /\ \E verdict \in Verdicts :
                 frame' = [frame EXCEPT ![j].at = "replayed", ![j].decided = verdict]
            /\ held' = [held EXCEPT ![j] = remediation[j.finding]]
            /\ UNCHANGED jobState
       ELSE Throw(j) /\ UNCHANGED held
  /\ UNCHANGED <<storeVars, attempts, interrupts, remediation, verifies>>

\* Broken variant: the replay's verdict is kept as the engine names it.
ReplayVerdictRaw(verdict) == verdict

ReplayVerdict(verdict) ==
  CASE verdict = "not_reproduced" -> "passed"
    [] verdict = "confirmed"      -> "failed"
    [] OTHER                      -> "inconclusive"

\* Broken variant: the replay is run and its verdict ignored.
RetestOutcomeBySource(read, r, verdict) ==
  IF verdict = "failed" \/ read.source = "pending" THEN "verification_failed"
  ELSE SourceOutcome(read.source)

RetestOutcome(read, r, verdict) ==
  IF verdict = "failed" THEN "verification_failed"
  ELSE ReplayOutcome(IF read.source = "pending" THEN "inconclusive" ELSE read.source,
                     ReplayVerdict(verdict), read.fix = Head[r])

\* The Validation row, and no status: the finding is at `retesting`.
RetestPersist(j) ==
  /\ At(j, "replayed")
  /\ LET verdict == frame[j].decided IN
     /\ validations' = validations \cup
          {[finding |-> j.finding, run |-> j.run, verdict |-> verdict, attempt |-> attempts[j]]}
     /\ held' = [held EXCEPT ![j].runtime = ReplayVerdict(verdict),
                             ![j].source = IF @ = "pending" THEN "inconclusive" ELSE @]
     /\ frame' = [frame EXCEPT ![j].at = "complete_read",
                               ![j].decided = RetestOutcome(held[j], j.run, verdict)]
  /\ UNCHANGED << runStatus, findingStatus, lastSeen, linked, recorded, reported, snapshots,
                  classified, receipt, announced, jobState, attempts, interrupts,
                  remediation, verifies >>

Retest(j) == RetestMission(j) \/ RetestPersist(j)

-----------------------------------------------------------------------------
(* completeFixVerification, called by both.                                *)

\* Broken variant: the finding's status is not asserted again.
CompleteUnasserted(j) ==
  /\ At(j, "complete_read")
  /\ ~Locked(j.finding)
  /\ Goto(j, "complete_write")
  /\ UNCHANGED <<storeVars, jobState, attempts, interrupts, remediation, verifies, held>>

CompleteAssert(j) ==
  /\ At(j, "complete_read")
  /\ ~Locked(j.finding)
  /\ IF \/ FindingStatusOf(frame[j].decided) = "retesting"
        \/ CanTransitionFinding(findingStatus[j.finding], FindingStatusOf(frame[j].decided))
       THEN Goto(j, "complete_write") /\ UNCHANGED jobState
       ELSE Throw(j)
  /\ HeldByActive
  /\ UNCHANGED <<storeVars, attempts, interrupts, remediation, verifies>>

CompleteWrite(j) ==
  /\ At(j, "complete_write")
  /\ remediation' = [remediation EXCEPT ![j.finding].source = held[j].source,
                                        ![j.finding].runtime = held[j].runtime]
  /\ IF frame[j].decided = "verification_failed"
       THEN UNCHANGED <<findingStatus, linked>>
       ELSE /\ findingStatus' = [findingStatus EXCEPT ![j.finding] = FindingStatusOf(frame[j].decided)]
            /\ linked' = [linked EXCEPT ![j.run] = @ \cup {j.finding}]
  /\ Goto(j, "finalize")
  /\ UNCHANGED << runStatus, lastSeen, recorded, reported, snapshots, classified, validations,
                  receipt, announced, jobState, attempts, interrupts, verifies, held >>

Complete(j) == CompleteAssert(j) \/ CompleteWrite(j)

-----------------------------------------------------------------------------

FixWork(j) ==
  /\ FixPrepareEnqueue(j) \/ Revalidate(j) \/ Retest(j) \/ Complete(j)
  /\ UNCHANGED <<apiVars, submitting, verifying>>

\* A step of the review pipeline or of the queue.
ReviewStep == Next /\ HeldByActive /\ UNCHANGED <<remediation, verifies, submitting, verifying>>

FixCall ==
  \/ \E f \in Findings : SubmitWrite(f) \/ \E fix \in Fixes : SubmitAssert(f, fix)
  \/ \E r \in FixRuns : VerifyWrite(r) \/ \E f \in Findings : VerifyAssert(f, r)

FixNext == ReviewStep \/ FixCall \/ \E j \in Jobs : FixWork(j)

FixSpec == FixInit /\ [][FixNext]_allVars

=============================================================================
