------------------------------- MODULE FixSafety -------------------------------
(***************************************************************************)
(* Fix verification beside the reviews, for any runs, findings, fixes,     *)
(* number of workers, attempts and faults: type correctness, that exactly  *)
(* the findings confirmed at runtime are replayed, that a verified fix is  *)
(* vouched for, that every change of a finding's status is an edge of its  *)
(* state machine, and that a finding left at retesting has a cause.        *)
(*                                                                         *)
(* The types need nothing of the clients.  The rest does: clients let the  *)
(* jobs about a finding end before they act on it (Awaited = Runs) and do  *)
(* not ask twice at the same moment for its verification (OneVerifyCall,   *)
(* which follows when no commit is the fix of two verification runs).      *)
(* Then one party at a time acts on a finding under repair: a call, or one *)
(* verification run.                                                       *)
(***************************************************************************)
EXTENDS FixProperties, ReviewSafety

RevalidationPlaces == {"start", "review", "judge", "run_read", "run_write"}
CompletionPlaces == {"complete_read", "complete_write"}
VerificationTypes == {"run_deepsec_revalidation", "run_strix_retest"}
OwnPlaces == RevalidationPlaces \cup CompletionPlaces \cup {"replayed"}

\* The handlers that end in finalizeRun, and the places of finalizeRun.
FixFinalizers == {"apply_routing_policy", "run_strix_validation"} \cup VerificationTypes
FinalPlaces == {"finalize", "settle_read", "settle_write", "receipt", "announce"}

\* The places of the verification's handlers, and of finalizeRun, belong to the
\* handlers that have them.
FixPlaceFits(j, at, decided) ==
  /\ at \in RevalidationPlaces => j.type = "run_deepsec_revalidation"
  /\ at = "replayed" => j.type = "run_strix_retest" /\ decided \in Verdicts
  /\ at \in CompletionPlaces => j.type \in VerificationTypes /\ decided \in VerificationOutcomes
  /\ at \in FinalPlaces => j.type \in FixFinalizers

FixPlacesOK == \A j \in Jobs : FixPlaceFits(j, frame[j].at, frame[j].decided)

\* A verification run that has begun names its finding.
VerifiesKnown ==
  \A r \in FixRuns :
    (r \in creating \/ \E j \in JobsOf(r) : jobState[j] # "none") => verifies[r] \in Findings

FixTyping ==
  /\ Typing
  /\ remediation \in [Findings -> Remediations]
  /\ verifies \in [Runs -> Findings \cup {NoFinding}]
  /\ submitting \in [Findings -> Fixes \cup {"none"}]
  /\ verifying \in [Runs -> Findings \cup {NoFinding}]
  /\ held \in [Jobs -> Remediations]
  /\ FixPlacesOK
  /\ VerifiesKnown

-----------------------------------------------------------------------------
(* What holds together, on top of FixTyping.                               *)

\* Clients ask for one verification of a finding at a time.
OneVerifyCall ==
  \A r, s \in FixRuns : verifying[r] # NoFinding /\ verifying[r] = verifying[s] => r = s

LiveRun(r) == r \in creating \/ \E j \in JobsOf(r) : jobState[j] \in {"waiting", "active"}

\* A client's fix of f is being submitted or is on record.
Fixing(f) == submitting[f] # "none" \/ remediation[f].fix # "none"

FixStages ==
  {"prepare_repository", "run_deepsec_revalidation", "run_strix_retest", "generate_receipt"}

\* The jobs of a run belong to its kind, and come after its row.
JobFits(j) ==
  jobState[j] # "none" =>
    /\ runStatus[j.run] # "absent"
    /\ j.run \in FixRuns => j.type \in FixStages
    /\ j.type \in VerificationTypes => j.run \in FixRuns /\ j.finding = verifies[j.run]
    /\ j.type = "run_strix_validation" => j.finding \in linked[j.run]

RunFits(r) ==
  /\ r \in creating =>
       /\ runStatus[r] # "absent"
       /\ \A j \in JobsOf(r) : jobState[j] = "none"
       /\ recorded[r] \subseteq {"cancelled"}
       /\ linked[r] = IF r \in FixRuns THEN {verifies[r]} ELSE {}
  /\ r \in cancelling => runStatus[r] # "absent"
  /\ runStatus[r] = "absent" => linked[r] = {} /\ recorded[r] = {}
  /\ verifies[r] # NoFinding => r \in FixRuns /\ runStatus[r] # "absent" /\ verifies[r] \in linked[r]

QueueShape == PlacesLive /\ (\A j \in Jobs : JobFits(j)) /\ \A r \in Runs : RunFits(r)

\* The review that found a finding answers for it alone, and decides about it
\* only what its status admits.
ReviewHand(j) ==
  /\ j.type = "apply_routing_policy" /\ frame[j].at \in {"route", "write_finding", "enqueue"} =>
       /\ frame[j].todo \subseteq linked[j.run]
       /\ \A f \in frame[j].todo : findingStatus[f] = "source_confirmed"
  /\ j.type = "apply_routing_policy" /\ frame[j].at \in {"write_finding", "enqueue"} =>
       frame[j].finding \in linked[j.run] \ frame[j].todo
  /\ j.type = "apply_routing_policy" /\ frame[j].at = "write_finding" =>
       findingStatus[frame[j].finding] = "source_confirmed"
  /\ j.type = "run_strix_validation" /\ frame[j].at = "write_finding" /\ Judges(frame[j].decided) =>
       CanTransitionFinding(findingStatus[j.finding], frame[j].decided)

ReviewsApart ==
  /\ \A r, s \in Runs \ FixRuns : r # s => linked[r] \cap linked[s] = {}
  /\ \A r \in Runs : \A f \in linked[r] : Exists(f)
  /\ \A j \in Jobs : ReviewHand(j)

\* No run is at work on f.
AtRest(f) == \A r \in Runs : f \in linked[r] => ~LiveRun(r)

FixStatuses == {"fix_submitted", "retesting", "verified_fixed", "still_exploitable"}

\* Once a fix is submitted only verifications and calls are about the finding,
\* and the remediation knows whether there is an exploit.
FindingFixed(f) ==
  /\ submitting[f] # "none" =>
       /\ findingStatus[f] \in HopToFixPendingFrom \cup {"fix_pending"}
       /\ AtRest(f)
  /\ findingStatus[f] \in FixStatuses => remediation[f].fix # "none"
  /\ Fixing(f) => Exists(f) /\ \A r \in Runs \ FixRuns : f \in linked[r] => ~LiveRun(r)
  /\ remediation[f].fix = "none" => remediation[f].runtime = "not_applicable"
  /\ remediation[f].fix # "none" => (remediation[f].runtime # "not_applicable" <=> RuntimeConfirmed(f))

\* A verification about to begin, and one at work, is of the fix on record, and
\* no other party acts on its finding.
Called(r) ==
  verifying[r] # NoFinding =>
    /\ r \in FixRuns /\ runStatus[r] = "absent"
    /\ findingStatus[verifying[r]] = "fix_submitted"
    /\ Head[r] = remediation[verifying[r]].fix
    /\ AtRest(verifying[r])

Verified(r) ==
  LiveRun(r) =>
    /\ Head[r] = remediation[verifies[r]].fix
    /\ "source_review_running" \notin recorded[r] => findingStatus[verifies[r]] = "retesting"
    /\ \A s \in FixRuns : verifies[s] = verifies[r] /\ LiveRun(s) => s = r

\* The statuses of a verification run, as its audit events have them.
Trail(r) ==
  /\ runStatus[r] = "queued" => recorded[r] = {}
  /\ runStatus[r] = "classifying" => recorded[r] \subseteq {"classifying", "cancelled"}

PrepareHand(j) ==
  j.type = "prepare_repository" /\ j.run \in FixRuns =>
    /\ frame[j].at = "write" => recorded[j.run] \subseteq {"cancelled"}
    /\ frame[j].at \in {"snapshot", "enqueue"} => "classifying" \in recorded[j.run]

\* Places of a revalidation from its first assertion to its end.
Revalidating ==
  {"start", "review", "persist", "read", "write", "judge", "run_read", "run_write", "enqueue"}
    \cup CompletionPlaces

RevalidationHand(j) ==
  j.type = "run_deepsec_revalidation" =>
    /\ jobState[j] # "none" => "classifying" \in recorded[j.run]
    /\ frame[j].at \in Revalidating =>
         /\ findingStatus[j.finding] = "retesting"
         /\ jobState[FindingJob("run_strix_retest", j.run, j.finding)] = "none"
         /\ held[j].runtime = remediation[j.finding].runtime
    /\ frame[j].at \in Revalidating \ {"start"} => "source_review_running" \in recorded[j.run]
    /\ frame[j].at \in {"run_read", "run_write", "enqueue"} => held[j].runtime # "not_applicable"
    /\ frame[j].at \in CompletionPlaces =>
         /\ held[j].runtime = "not_applicable"
         /\ frame[j].decided = "verified_fixed" => held[j].source = "passed"

RetestHand(j) ==
  j.type = "run_strix_retest" =>
    /\ jobState[j] # "none" =>
         "source_review_running" \in recorded[j.run] /\ RuntimeConfirmed(j.finding)
    /\ frame[j].at = "replayed" => held[j] = remediation[j.finding]
    /\ frame[j].at \in CompletionPlaces =>
         /\ held[j].runtime # "not_applicable"
         /\ held[j].source # remediation[j.finding].source
              => remediation[j.finding].source = "pending" /\ held[j].source = "inconclusive"
         /\ frame[j].decided = "verified_fixed" =>
              /\ held[j].source = "passed"
              /\ \E v \in validations :
                   v.finding = j.finding /\ v.run = j.run /\ v.verdict = "not_reproduced"

CompletionHand(j) ==
  frame[j].at = "complete_write" /\ FindingStatusOf(frame[j].decided) # "retesting" =>
    CanTransitionFinding(findingStatus[j.finding], FindingStatusOf(frame[j].decided))

FixHand(j) == PrepareHand(j) /\ RevalidationHand(j) /\ RetestHand(j) /\ CompletionHand(j)

Repaired ==
  /\ \A f \in Findings : FindingFixed(f)
  /\ \A r \in Runs : Called(r)
  /\ \A r \in FixRuns : Verified(r) /\ Trail(r)
  /\ \A j \in Jobs : FixHand(j)

FixInv == QueueShape /\ ReviewsApart /\ Repaired /\ FixedIsVouchedFor

-----------------------------------------------------------------------------
(* Types.                                                                  *)

\* Every action of a verification's handlers, named once.
LEMMA FixActions ==
  ASSUME NEW j \in Jobs, FixWork(j)
  PROVE  /\ UNCHANGED <<apiVars, submitting, verifying>>
         /\ \/ FixPrepareEnqueue(j)
            \/ RevalidateAssert(j) \/ RevalidateStart(j) \/ RevalidateLookup(j)
            \/ RevalidateFinishAssert(j) \/ RevalidateFinishWrite(j) \/ RevalidateJudge(j)
            \/ RevalidateRunAssert(j) \/ RevalidateRunWrite(j) \/ RevalidateEnqueue(j)
            \/ RetestMission(j) \/ RetestPersist(j)
            \/ CompleteAssert(j) \/ CompleteWrite(j)
BY DEF FixWork, Revalidate, Retest, Complete

\* The jobs about one finding.
LEMMA FindingJobs ==
  /\ \A j \in Jobs : j.type \in FindingTypes => j.finding \in Findings /\ j = FindingJob(j.type, j.run, j.finding)
  /\ \A type \in FindingTypes, r \in Runs, f \in Findings : FindingJob(type, r, f) \in Jobs
  /\ VerificationTypes \subseteq FindingTypes
BY DEF Jobs, StageTypes, FindingTypes, FindingJob, VerificationTypes

\* What a step of the pipeline adds to the queue.
LEMMA WorkQueues ==
  ASSUME Typing, NEW j \in Jobs, Work(j), NEW k \in Jobs \ {j}, jobState'[k] # jobState[k]
  PROVE  /\ jobState[j] = "active" /\ jobState[k] = "none" /\ jobState'[k] = "waiting"
         /\ \/ /\ j.type = "prepare_repository" /\ j.run \notin FixRuns
               /\ k = StageJob("classify_change", j.run)
            \/ j.type = "classify_change" /\ k = StageJob("run_deepsec", j.run)
            \/ j.type = "run_deepsec" /\ k = StageJob("apply_routing_policy", j.run)
            \/ /\ j.type = "apply_routing_policy" /\ At(j, "enqueue")
               /\ k = StrixJob(j.run, frame[j].finding)
            \/ k = StageJob("generate_receipt", j.run)
<1> USE DEF Typing, PipelineTypeOK, TypeOK, Throw, Enqueue, At
<1>1. CASE PickUp(j) \/ Return(j)
  BY <1>1 DEF PickUp, Return
<1>2. CASE PrepareAssert(j) \/ PrepareWrite(j) \/ PrepareSnapshot(j) \/ PrepareEnqueue(j)
  BY <1>2 DEF PrepareAssert, PrepareWrite, PrepareSnapshot, PrepareEnqueue,
              AssertRunTransition, WriteRunStatus
<1>3. CASE ClassifyCreate(j) \/ ClassifyAssert(j) \/ ClassifyWrite(j) \/ ClassifyEnqueue(j)
  BY <1>3 DEF ClassifyCreate, ClassifyAssert, ClassifyWrite, ClassifyEnqueue,
              AssertRunTransition, WriteRunStatus
<1>4. CASE \/ DeepSecLookup(j) \/ DeepSecPersist(j)
           \/ DeepSecAssert(j) \/ DeepSecWrite(j) \/ DeepSecEnqueue(j)
  BY <1>4 DEF DeepSecLookup, DeepSecPersist, DeepSecAssert, DeepSecWrite, DeepSecEnqueue,
              AssertRunTransition, WriteRunStatus
<1>5. CASE \/ RoutingBegin(j) \/ RoutingDecide(j) \/ RoutingEscalate(j) \/ RoutingEnqueue(j)
           \/ RoutingCount(j) \/ RoutingAssert(j) \/ RoutingWrite(j)
  BY <1>5 DEF RoutingBegin, RoutingDecide, RoutingEscalate, RoutingEnqueue,
              RoutingCount, RoutingAssert, RoutingWrite, AssertRunTransition, WriteRunStatus
<1>6. CASE StrixMission(j) \/ StrixPersist(j) \/ StrixCount(j)
  BY <1>6 DEF StrixMission, StrixPersist, StrixCount
<1>7. CASE \/ FinalizeDecide(j) \/ FinalizeAssert(j) \/ FinalizeWrite(j)
           \/ FinalizeReceipt(j) \/ FinalizeAnnounce(j)
  BY <1>7 DEF FinalizeDecide, FinalizeAssert, FinalizeWrite, FinalizeReceipt, FinalizeAnnounce,
              AssertRunTransition, WriteRunStatus
<1>8. CASE ReceiptGather(j) \/ ReceiptStore(j)
  BY <1>8 DEF ReceiptGather, ReceiptStore
<1> QED BY <1>1, <1>2, <1>3, <1>4, <1>5, <1>6, <1>7, <1>8, WorkActions

\* A step of the pipeline leads to no place of the verification's handlers, and
\* to finalizeRun only from the handlers that end in it.
LEMMA WorkPlaces ==
  ASSUME Typing, FixPlacesOK, NEW j \in Jobs, Work(j)
  PROVE  /\ frame'[j].at \notin OwnPlaces
         /\ frame'[j].at \in FinalPlaces => j.type \in FixFinalizers
<1> USE DEF OwnPlaces, RevalidationPlaces, CompletionPlaces, FinalPlaces, At, Goto, Throw, IdleFrame
<1>0. /\ frame \in [Jobs -> Frames]
      /\ frame[j] \in [at : Labels, todo : SUBSET Findings, finding : Findings \cup {NoFinding},
                       decided : Verdicts \cup VerificationOutcomes \cup Dispositions
                                   \cup ReceiptStatuses \cup {"open", "shut", "none"}]
      /\ frame[j].at \in FinalPlaces => j.type \in FixFinalizers
      /\ frame[j].at = "route" => j.type = "apply_routing_policy"
      /\ frame[j].at = "count" => j.type = "run_strix_validation"
  BY DEF Typing, PipelineTypeOK, TypeOK, PlacesOK, PlaceOK, PlaceFits, FixPlacesOK, FixPlaceFits, Frames
<1>1. CASE PickUp(j) \/ Return(j)
  BY <1>0, <1>1 DEF PickUp, Return
<1>2. CASE PrepareAssert(j) \/ PrepareWrite(j) \/ PrepareSnapshot(j) \/ PrepareEnqueue(j)
  BY <1>0, <1>2 DEF PrepareAssert, PrepareWrite, PrepareSnapshot, PrepareEnqueue,
              AssertRunTransition, WriteRunStatus
<1>3. CASE ClassifyCreate(j) \/ ClassifyAssert(j) \/ ClassifyWrite(j) \/ ClassifyEnqueue(j)
  BY <1>0, <1>3 DEF ClassifyCreate, ClassifyAssert, ClassifyWrite, ClassifyEnqueue,
              AssertRunTransition, WriteRunStatus
<1>4. CASE \/ DeepSecLookup(j) \/ DeepSecPersist(j)
           \/ DeepSecAssert(j) \/ DeepSecWrite(j) \/ DeepSecEnqueue(j)
  BY <1>0, <1>4 DEF DeepSecLookup, DeepSecPersist, DeepSecAssert, DeepSecWrite, DeepSecEnqueue,
              AssertRunTransition, WriteRunStatus, Reported
<1>5. CASE \/ RoutingBegin(j) \/ RoutingDecide(j) \/ RoutingEscalate(j) \/ RoutingEnqueue(j)
           \/ RoutingCount(j) \/ RoutingAssert(j) \/ RoutingWrite(j)
  <2>1. CASE RoutingBegin(j)
    <3>1. PICK authorized, affordable \in BOOLEAN :
            frame' = [frame EXCEPT
              ![j].at = "route",
              ![j].todo = {f \in linked[j.run] : findingStatus[f] = "source_confirmed"},
              ![j].decided = IF authorized /\ affordable THEN "open" ELSE "shut"]
      BY <2>1 DEF RoutingBegin
    <3> QED BY <1>0, <3>1
  <2>2. CASE RoutingDecide(j)
    <3>1. frame'[j].at \in {"route", "write_finding", "idle"}
      BY <1>0, <2>2 DEF RoutingDecide
    <3> QED BY <3>1
  <2>3. CASE RoutingEscalate(j) \/ RoutingEnqueue(j) \/ RoutingCount(j)
    BY <1>0, <2>3 DEF RoutingEscalate, RoutingEnqueue, RoutingCount, FixFinalizers
  <2>4. CASE RoutingAssert(j) \/ RoutingWrite(j)
    BY <1>0, <2>4 DEF RoutingAssert, RoutingWrite, AssertRunTransition, WriteRunStatus
  <2> QED BY <1>5, <2>1, <2>2, <2>3, <2>4
<1>6. CASE StrixMission(j) \/ StrixPersist(j) \/ StrixCount(j)
  BY <1>0, <1>6 DEF StrixMission, StrixPersist, StrixCount, FixFinalizers
<1>7. CASE \/ FinalizeDecide(j) \/ FinalizeAssert(j) \/ FinalizeWrite(j)
           \/ FinalizeReceipt(j) \/ FinalizeAnnounce(j)
  BY <1>0, <1>7 DEF FinalizeDecide, FinalizeAssert, FinalizeWrite, FinalizeReceipt, FinalizeAnnounce,
              AssertRunTransition, WriteRunStatus
<1>8. CASE ReceiptGather(j) \/ ReceiptStore(j)
  BY <1>0, <1>8 DEF ReceiptGather, ReceiptStore
<1> QED BY <1>1, <1>2, <1>3, <1>4, <1>5, <1>6, <1>7, <1>8, WorkActions

\* A throw, a move to another place, and a new frame keep the places fit.
LEMMA ThrowPlaces ==
  ASSUME Typing, FixPlacesOK, NEW j \in Jobs, Throw(j)
  PROVE  FixPlacesOK'
BY DEF Throw, IdleFrame, FixPlacesOK, FixPlaceFits, RevalidationPlaces, CompletionPlaces, FinalPlaces,
       Typing, PipelineTypeOK, TypeOK

LEMMA GotoPlaces ==
  ASSUME Typing, FixPlacesOK, NEW j \in Jobs, NEW label \in Labels, Goto(j, label),
         FixPlaceFits(j, label, frame[j].decided)
  PROVE  FixPlacesOK'
<1>1. frame \in [Jobs -> Frames]
  BY DEF Typing, PipelineTypeOK, TypeOK
<1>2. FixPlaceFits(j, frame'[j].at, frame'[j].decided)
  BY <1>1, GotoFrames
<1>3. \A k \in Jobs \ {j} : FixPlaceFits(k, frame'[k].at, frame'[k].decided)
  BY <1>1, GotoFrames DEF FixPlacesOK
<1> QED BY <1>2, <1>3 DEF FixPlacesOK

LEMMA FramePlaces ==
  ASSUME Typing, FixPlacesOK, NEW j \in Jobs, NEW fr \in Frames,
         FixPlaceFits(j, fr.at, fr.decided), frame' = [frame EXCEPT ![j] = fr]
  PROVE  FixPlacesOK'
BY DEF FixPlacesOK, Typing, PipelineTypeOK, TypeOK

\* A step of the pipeline, of the queue or of a client of the pipeline.
LEMMA ReviewStepTyping ==
  ASSUME FixTyping, ReviewStep
  PROVE  FixTyping'
<1>1. Typing'
  BY StepTyping DEF FixTyping, ReviewStep
<1>2. held' \in [Jobs -> Remediations]
  BY DEF FixTyping, ReviewStep, HeldByActive, Remediations, NoRemediation
<1>3. FixPlacesOK'
  <2>1. ASSUME NEW j \in Jobs, Work(j) PROVE FixPlacesOK'
    <3> SUFFICES ASSUME NEW k \in Jobs PROVE FixPlaceFits(k, frame'[k].at, frame'[k].decided)
      BY DEF FixPlacesOK
    <3>1. CASE k = j
      BY <2>1, <3>1, WorkPlaces DEF FixTyping, FixPlaceFits, OwnPlaces
    <3>2. CASE k # j
      BY <2>1, <3>2, OnlyOwnJob DEF FixTyping, FixPlacesOK
    <3> QED BY <3>1, <3>2
  <2>2. ASSUME NEW j \in Jobs, Fault(j) PROVE FixPlacesOK'
    BY <2>2, ThrowPlaces DEF Fault, Interrupt, FixTyping
  <2>3. ASSUME NEW r \in Runs, ApiStep(r) PROVE FixPlacesOK'
    <3>1. UNCHANGED frame
      BY <2>3 DEF ApiStep, CreateReview, EnqueuePrepare, CreateInterrupted, CancelAssert, CancelWrite,
                  FetchGather, FetchStore, queueVars
    <3> QED BY <3>1 DEF FixTyping, FixPlacesOK
  <2> QED BY <2>1, <2>2, <2>3 DEF ReviewStep, Next
<1>4. VerifiesKnown'
  <2> SUFFICES ASSUME NEW r \in FixRuns, r \in creating' \/ \E j \in JobsOf(r) : jobState'[j] # "none"
               PROVE  r \in creating \/ \E j \in JobsOf(r) : jobState[j] # "none"
    BY DEF FixTyping, VerifiesKnown, ReviewStep
  <2>1. ASSUME NEW j \in Jobs, Work(j)
        PROVE  r \in creating \/ \E k \in JobsOf(r) : jobState[k] # "none"
    <3>1. creating' = creating
      BY <2>1 DEF Work, apiVars
    <3>2. jobState[j] # "none"
      BY <2>1, WorkKinds DEF PickUp
    <3>3. ASSUME NEW k \in JobsOf(r), jobState'[k] # "none", jobState[k] = "none"
          PROVE  j \in JobsOf(r)
      BY <2>1, <3>2, <3>3, WorkQueues DEF FixTyping, JobsOf, StageJob, StrixJob, FindingJob
    <3> QED BY <3>1, <3>2, <3>3
  <2>2. ASSUME NEW j \in Jobs, Fault(j)
        PROVE  r \in creating \/ \E k \in JobsOf(r) : jobState[k] # "none"
    BY <2>2 DEF Fault, apiVars, Interrupt, Throw, JobsOf
  <2>3. ASSUME NEW q \in Runs, ApiStep(q)
        PROVE  r \in creating \/ \E k \in JobsOf(r) : jobState[k] # "none"
    <3>1. CASE EnqueuePrepare(q)
      <4>1. q \in creating /\ creating' \subseteq creating
        BY <3>1 DEF EnqueuePrepare
      <4>2. \A k \in Jobs : jobState'[k] # "none" => jobState[k] # "none" \/ k.run = q
        BY <3>1 DEF EnqueuePrepare, Enqueue, StageJob, FixTyping, Typing, PipelineTypeOK, TypeOK
      <4> QED BY <4>1, <4>2 DEF JobsOf
    <3>2. CASE UNCHANGED jobState /\ creating' \subseteq creating \cup Reviews
      BY <3>2 DEF Reviews
    <3> QED BY <2>3, <3>1, <3>2 DEF ApiStep, CreateReview, CreateInterrupted, CancelAssert, CancelWrite,
                                    FetchGather, FetchStore, queueVars
  <2> QED BY <2>1, <2>2, <2>3 DEF ReviewStep, Next
<1> QED BY <1>1, <1>2, <1>3, <1>4 DEF FixTyping, ReviewStep

\* A client's step.
LEMMA FixCallTyping ==
  ASSUME FixTyping, FixCall
  PROVE  FixTyping'
<1> USE DEF FixTyping, Typing, PipelineTypeOK, TypeOK
<1>0. \A r \in FixRuns : r \in Runs
  BY RunsAssumption
<1>1. ASSUME NEW f \in Findings, NEW fix \in Fixes, SubmitAssert(f, fix) PROVE FixTyping'
  <2>1. submitting' \in [Findings -> Fixes \cup {"none"}]
    BY <1>1 DEF SubmitAssert
  <2> QED BY <1>1, <2>1 DEF SubmitAssert, vars, storeVars, queueVars, apiVars, AttemptsCounted, PlacesOK,
                           PlaceOK, FixPlacesOK, VerifiesKnown
<1>2. ASSUME NEW f \in Findings, SubmitWrite(f) PROVE FixTyping'
  <2>1. submitting[f] \in Fixes
    BY <1>2 DEF SubmitWrite
  <2>2. /\ submitting' \in [Findings -> Fixes \cup {"none"}]
        /\ remediation' \in [Findings -> Remediations]
        /\ findingStatus' \in [Findings -> FindingStatuses \cup {"absent"}]
    BY <1>2, <2>1 DEF SubmitWrite, Remediations, FindingStatuses
  <2> QED BY <1>2, <2>2 DEF SubmitWrite, queueVars, apiVars, AttemptsCounted, PlacesOK,
                           PlaceOK, FixPlacesOK, VerifiesKnown
<1>3. ASSUME NEW r \in FixRuns, NEW f \in Findings, VerifyAssert(f, r) PROVE FixTyping'
  <2>1. verifying' \in [Runs -> Findings \cup {NoFinding}]
    BY <1>0, <1>3 DEF VerifyAssert
  <2> QED BY <1>3, <2>1 DEF VerifyAssert, vars, storeVars, queueVars, apiVars, AttemptsCounted, PlacesOK,
                           PlaceOK, FixPlacesOK, VerifiesKnown
<1>4. ASSUME NEW r \in FixRuns, VerifyWrite(r) PROVE FixTyping'
  <2>1. verifying[r] \in Findings /\ r \in Runs
    BY <1>0, <1>4 DEF VerifyWrite
  <2>2. /\ runStatus' \in [Runs -> RunStatuses \cup {"absent"}]
        /\ findingStatus' \in [Findings -> FindingStatuses \cup {"absent"}]
    BY <1>4, <2>1 DEF VerifyWrite, RunStatuses, FindingStatuses
  <2>3. /\ linked' \in [Runs -> SUBSET Findings]
        /\ creating' \in SUBSET Runs
        /\ verifies' \in [Runs -> Findings \cup {NoFinding}]
        /\ verifying' \in [Runs -> Findings \cup {NoFinding}]
    BY <1>4, <2>1 DEF VerifyWrite
  <2>4. VerifiesKnown'
    BY <1>4, <2>1 DEF VerifyWrite, VerifiesKnown, queueVars, JobsOf
  <2> QED BY <1>4, <2>2, <2>3, <2>4 DEF VerifyWrite, queueVars, AttemptsCounted, PlacesOK,
                           PlaceOK, FixPlacesOK
<1> QED BY <1>1, <1>2, <1>3, <1>4 DEF FixCall

\* A place of a verification's handler that needs nothing but its type.
LEMMA PlainPlaces ==
  ASSUME NEW j \in Jobs, j.type \in {"prepare_repository"} \cup VerificationTypes,
         NEW label \in {"read", "write", "return", "enqueue", "start", "review", "judge",
                        "run_read", "run_write"},
         label \in RevalidationPlaces => j.type = "run_deepsec_revalidation"
  PROVE  /\ label \in Labels
         /\ PlaceFits(j, label, frame[j].finding, frame[j].decided)
         /\ FixPlaceFits(j, label, frame[j].decided)
BY DEF Labels, PlaceFits, FixPlaceFits, VerificationTypes, RevalidationPlaces, CompletionPlaces, FinalPlaces

\* The two halves of a run transition, with the places of this module.
LEMMA FixAssertTyping ==
  ASSUME FixTyping, NEW j \in Jobs, jobState[j] = "active", NEW to, NEW label \in Labels,
         PlaceFits(j, label, frame[j].finding, frame[j].decided),
         FixPlaceFits(j, label, frame[j].decided),
         AssertRunTransition(j, to, label), UNCHANGED apiVars
  PROVE  Typing' /\ FixPlacesOK'
BY AssertRunTyping, GotoPlaces, ThrowPlaces DEF AssertRunTransition, FixTyping

LEMMA FixWriteTyping ==
  ASSUME FixTyping, NEW j \in Jobs, NEW to \in RunStatuses, NEW label \in Labels,
         PlaceFits(j, label, frame[j].finding, frame[j].decided),
         FixPlaceFits(j, label, frame[j].decided),
         WriteRunStatus(j, to, label), UNCHANGED apiVars
  PROVE  Typing' /\ FixPlacesOK'
BY WriteRunTyping, GotoPlaces DEF WriteRunStatus, FixTyping

LEMMA FixMoveTyping ==
  ASSUME FixTyping, NEW j \in Jobs, NEW label \in Labels, Goto(j, label),
         PlaceFits(j, label, frame[j].finding, frame[j].decided),
         FixPlaceFits(j, label, frame[j].decided),
         UNCHANGED jobState \/ \E k \in Jobs : Enqueue(k),
         UNCHANGED <<storeVars, attempts, interrupts, apiVars>>
  PROVE  Typing' /\ FixPlacesOK'
BY MoveTyping, GotoPlaces DEF FixTyping

LEMMA FixFrameTyping ==
  ASSUME FixTyping, NEW j \in Jobs, NEW fr \in Frames,
         PlaceFits(j, fr.at, fr.finding, fr.decided), FixPlaceFits(j, fr.at, fr.decided),
         frame' = [frame EXCEPT ![j] = fr],
         UNCHANGED <<storeVars, jobState, attempts, interrupts, apiVars>>
  PROVE  Typing' /\ FixPlacesOK'
BY FrameTyping, FramePlaces DEF FixTyping

LEMMA FixThrowTyping ==
  ASSUME FixTyping, NEW j \in Jobs, jobState[j] = "active", Throw(j),
         UNCHANGED <<storeVars, attempts, interrupts, apiVars>>
  PROVE  Typing' /\ FixPlacesOK'
BY ThrowTyping, ThrowPlaces DEF FixTyping, Typing, PipelineTypeOK, TypeOK, storeVars, apiVars

\* What a handler has read is a remediation, whether it goes on or not.
LEMMA HeldTyping ==
  ASSUME FixTyping, NEW j \in Jobs
  PROVE  /\ HeldByActive => held' \in [Jobs -> Remediations]
         /\ NoRemediation \in Remediations
         /\ held[j] \in Remediations
         /\ \A f \in Findings : remediation[f] \in Remediations
BY DEF FixTyping, HeldByActive, Remediations, NoRemediation

\* Only the revalidation has a place of its own; both end in a completion.
LEMMA FixPlaceTypes ==
  ASSUME FixTyping, NEW j \in Jobs
  PROVE  /\ frame[j].at \in RevalidationPlaces => j.type = "run_deepsec_revalidation"
         /\ frame[j].at = "replayed" => j.type = "run_strix_retest" /\ frame[j].decided \in Verdicts
         /\ frame[j].at \in CompletionPlaces =>
              j.type \in VerificationTypes /\ frame[j].decided \in VerificationOutcomes
         /\ j.type \in VerificationTypes => j.finding \in Findings
         /\ frame[j] \in Frames
BY FindingJobs DEF FixTyping, FixPlacesOK, FixPlaceFits, Typing, PipelineTypeOK, TypeOK

LEMMA OutcomeTyping ==
  /\ \A source \in CheckVerdicts : SourceOutcome(source) \in VerificationOutcomes
  /\ \A verdict \in Verdicts : ReplayVerdict(verdict) \in CheckVerdicts
  /\ \A read, r, verdict : RetestOutcome(read, r, verdict) \in VerificationOutcomes
  /\ \A outcome \in VerificationOutcomes : FindingStatusOf(outcome) \in FindingStatuses
BY DEF CheckVerdicts, SourceOutcome, VerificationOutcomes, Verdicts, ReplayVerdict, RetestOutcome,
       ReplayOutcome, FindingStatusOf, FindingStatuses

\* A revalidation's step.
LEMMA RevalidateTyping ==
  ASSUME FixTyping, NEW j \in Jobs, Revalidate(j), UNCHANGED apiVars
  PROVE  /\ Typing' /\ FixPlacesOK'
         /\ held' \in [Jobs -> Remediations]
         /\ remediation' \in [Findings -> Remediations]
<1> USE DEF At
<1>0. j.type = "run_deepsec_revalidation" /\ frame[j] \in Frames /\ jobState[j] = "active"
      /\ j.finding \in Findings
  BY FixPlaceTypes DEF Revalidate, RevalidateAssert, RevalidateStart, RevalidateLookup, RevalidateFinishAssert,
     RevalidateFinishWrite, RevalidateJudge, RevalidateRunAssert, RevalidateRunWrite, RevalidateEnqueue,
     RevalidationPlaces, VerificationTypes
<1>a. held \in [Jobs -> Remediations] /\ remediation \in [Findings -> Remediations]
  BY DEF FixTyping
<1>b. j.type \in VerificationTypes
  BY <1>0 DEF VerificationTypes
<1>1. CASE RevalidateAssert(j)
  <2>1. held' \in [Jobs -> Remediations]
    BY <1>0, <1>1, <1>a, HeldTyping DEF RevalidateAssert
  <2>2. CASE AssertRunTransition(j, "source_review_running", "start")
    BY <1>0, <1>1, <1>a, <1>b, <2>1, <2>2, FixAssertTyping, PlainPlaces DEF RevalidateAssert
  <2>3. CASE Throw(j) /\ UNCHANGED <<storeVars, attempts, interrupts>>
    BY <1>0, <1>1, <1>a, <2>1, <2>3, FixThrowTyping DEF RevalidateAssert
  <2> QED BY <1>1, <2>2, <2>3 DEF RevalidateAssert
<1>2. CASE RevalidateStart(j)
  BY <1>0, <1>2, <1>a, <1>b, FixWriteTyping, PlainPlaces DEF RevalidateStart, RunStatuses
<1>3. CASE RevalidateLookup(j)
  <2>1. PICK new \in SUBSET {f \in Findings : ~Exists(f)} :
          frame' = [frame EXCEPT ![j].at = "persist", ![j].todo = new]
    BY <1>3 DEF RevalidateLookup
  <2> DEFINE fr == [frame[j] EXCEPT !.at = "persist", !.todo = new]
  <2>2. fr \in Frames
    BY <1>0 DEF Frames, Labels
  <2>3. PlaceFits(j, fr.at, fr.finding, fr.decided) /\ FixPlaceFits(j, fr.at, fr.decided)
    BY <1>0 DEF Frames, PlaceFits, FixPlaceFits, RevalidationPlaces, CompletionPlaces, FinalPlaces
  <2>4. frame' = [frame EXCEPT ![j] = fr]
    BY <2>1 DEF FixTyping, Typing, PipelineTypeOK, TypeOK
  <2> QED BY <1>3, <1>a, <2>2, <2>3, <2>4, FixFrameTyping DEF RevalidateLookup
<1>4. CASE RevalidateFinishAssert(j)
  BY <1>0, <1>4, <1>a, <1>b, FixAssertTyping, PlainPlaces, HeldTyping DEF RevalidateFinishAssert, RevalidationPlaces
<1>5. CASE RevalidateFinishWrite(j)
  BY <1>0, <1>5, <1>a, <1>b, FixWriteTyping, PlainPlaces DEF RevalidateFinishWrite, RunStatuses
<1>6. CASE RevalidateJudge(j)
  <2>1. PICK source \in CheckVerdicts :
          IF held[j].runtime = "not_applicable"
            THEN /\ held' = [held EXCEPT ![j].source = source]
                 /\ frame' = [frame EXCEPT ![j].at = "complete_read",
                                           ![j].decided = SourceOutcome(source)]
                 /\ UNCHANGED remediation
            ELSE /\ remediation' = [remediation EXCEPT ![j.finding].source = source]
                 /\ Goto(j, "run_read")
                 /\ UNCHANGED held
    BY <1>6 DEF RevalidateJudge
  <2>2. held' \in [Jobs -> Remediations] /\ remediation' \in [Findings -> Remediations]
    BY <1>a, <2>1 DEF Remediations
  <2>3. CASE held[j].runtime = "not_applicable"
    <3> DEFINE fr == [frame[j] EXCEPT !.at = "complete_read", !.decided = SourceOutcome(source)]
    <3>1. SourceOutcome(source) \in VerificationOutcomes
      BY OutcomeTyping
    <3>2. fr \in Frames
      BY <1>0, <3>1 DEF Frames, Labels
    <3>3. fr.at = "complete_read" /\ fr.decided = SourceOutcome(source)
      BY <1>0 DEF Frames
    <3>4. PlaceFits(j, fr.at, fr.finding, fr.decided) /\ FixPlaceFits(j, fr.at, fr.decided)
      BY <1>0, <1>b, <3>1, <3>3 DEF PlaceFits, FixPlaceFits, RevalidationPlaces, CompletionPlaces, FinalPlaces
    <3>5. frame' = [frame EXCEPT ![j] = fr]
      BY <2>1, <2>3 DEF FixTyping, Typing, PipelineTypeOK, TypeOK
    <3> QED BY <1>6, <2>2, <3>2, <3>4, <3>5, FixFrameTyping DEF RevalidateJudge
  <2>4. CASE held[j].runtime # "not_applicable"
    BY <1>0, <1>6, <1>b, <2>1, <2>2, <2>4, FixMoveTyping, PlainPlaces DEF RevalidateJudge
  <2> QED BY <2>3, <2>4
<1>7. CASE RevalidateRunAssert(j)
  BY <1>0, <1>7, <1>a, <1>b, FixAssertTyping, PlainPlaces, HeldTyping DEF RevalidateRunAssert
<1>8. CASE RevalidateRunWrite(j)
  BY <1>0, <1>8, <1>a, <1>b, FixWriteTyping, PlainPlaces DEF RevalidateRunWrite, RunStatuses, RevalidationPlaces
<1>9. CASE RevalidateEnqueue(j)
  <2>1. FindingJob("run_strix_retest", j.run, j.finding) \in Jobs
    BY <1>0, JobFacts, FindingJobs DEF FindingTypes
  <2> QED BY <1>0, <1>9, <1>a, <1>b, <2>1, FixMoveTyping, PlainPlaces DEF RevalidateEnqueue, RevalidationPlaces
<1> QED BY <1>1, <1>2, <1>3, <1>4, <1>5, <1>6, <1>7, <1>8, <1>9 DEF Revalidate

\* A replay's step.
LEMMA RetestTyping ==
  ASSUME FixTyping, NEW j \in Jobs, Retest(j), UNCHANGED apiVars
  PROVE  /\ Typing' /\ FixPlacesOK'
         /\ held' \in [Jobs -> Remediations]
         /\ remediation' \in [Findings -> Remediations]
<1> USE DEF At
<1>0. j.type = "run_strix_retest" /\ frame[j] \in Frames /\ jobState[j] = "active"
      /\ j.finding \in Findings /\ j.run \in Runs
  BY FixPlaceTypes, JobFacts DEF Retest, RetestMission, RetestPersist, VerificationTypes
<1>a. held \in [Jobs -> Remediations] /\ remediation \in [Findings -> Remediations]
  BY DEF FixTyping
<1>b. j.type \in VerificationTypes
  BY <1>0 DEF VerificationTypes
<1>1. CASE RetestMission(j)
  <2>0. held' \in [Jobs -> Remediations] /\ remediation' = remediation
    BY <1>0, <1>1, <1>a DEF RetestMission
  <2>1. CASE Throw(j)
    BY <1>0, <1>1, <1>a, <2>0, <2>1, FixThrowTyping DEF RetestMission
  <2>2. ASSUME NEW verdict \in Verdicts, UNCHANGED jobState,
               frame' = [frame EXCEPT ![j].at = "replayed", ![j].decided = verdict]
        PROVE  Typing' /\ FixPlacesOK'
    <3> DEFINE fr == [frame[j] EXCEPT !.at = "replayed", !.decided = verdict]
    <3>1. fr \in Frames /\ fr.at = "replayed" /\ fr.decided = verdict
      BY <1>0 DEF Frames, Labels
    <3>2. PlaceFits(j, fr.at, fr.finding, fr.decided) /\ FixPlaceFits(j, fr.at, fr.decided)
      BY <1>0, <3>1 DEF PlaceFits, FixPlaceFits, RevalidationPlaces, CompletionPlaces, FinalPlaces
    <3>3. frame' = [frame EXCEPT ![j] = fr]
      BY <2>2 DEF FixTyping, Typing, PipelineTypeOK, TypeOK
    <3> QED BY <1>1, <2>2, <3>1, <3>2, <3>3, FixFrameTyping DEF RetestMission
  <2> QED BY <1>1, <1>a, <2>0, <2>1, <2>2 DEF RetestMission
<1>2. CASE RetestPersist(j)
  <2> DEFINE verdict == frame[j].decided
             row == [finding |-> j.finding, run |-> j.run, verdict |-> verdict,
                     attempt |-> attempts[j]]
             outcome == RetestOutcome(held[j], j.run, verdict)
             fr == [frame[j] EXCEPT !.at = "complete_read", !.decided = outcome]
  <2>1. verdict \in Verdicts
    BY <1>2, FixPlaceTypes DEF RetestPersist
  <2>2. attempts[j] \in 1 .. MaxAttempts
    BY <1>0, BoundsAssumption DEF FixTyping, Typing, PipelineTypeOK, TypeOK, AttemptsCounted
  <2>3. validations' \in SUBSET ValidationRows
    BY <1>0, <1>2, <2>1, <2>2 DEF RetestPersist, ValidationRows, FixTyping, Typing, PipelineTypeOK, TypeOK
  <2>4. outcome \in VerificationOutcomes /\ ReplayVerdict(verdict) \in CheckVerdicts
    BY <2>1, OutcomeTyping
  <2>5. held' \in [Jobs -> Remediations] /\ remediation' = remediation
    <3> DEFINE h == [held[j] EXCEPT !.runtime = ReplayVerdict(verdict),
                                    !.source = IF @ = "pending" THEN "inconclusive" ELSE @]
    <3>1. h \in Remediations
      BY <1>a, <2>4 DEF Remediations, CheckVerdicts
    <3>2. held' = [held EXCEPT ![j] = h]
      BY <1>2, <1>a DEF RetestPersist
    <3> QED BY <1>2, <1>a, <3>1, <3>2 DEF RetestPersist
  <2>6. fr \in Frames /\ fr.at = "complete_read" /\ fr.decided = outcome
    BY <1>0, <2>4 DEF Frames, Labels
  <2>7. PlaceFits(j, fr.at, fr.finding, fr.decided) /\ FixPlaceFits(j, fr.at, fr.decided)
    BY <1>0, <1>b, <2>4, <2>6 DEF PlaceFits, FixPlaceFits, RevalidationPlaces, CompletionPlaces, FinalPlaces
  <2>8. frame' = [frame EXCEPT ![j] = fr]
    BY <1>2 DEF RetestPersist, FixTyping, Typing, PipelineTypeOK, TypeOK
  <2>9. FixPlacesOK'
    BY <2>6, <2>7, <2>8, FramePlaces DEF FixTyping
  <2>10. frame' \in [Jobs -> Frames] /\ PlacesOK'
    BY <2>6, <2>7, <2>8 DEF PlacesOK, PlaceOK, FixTyping, Typing, PipelineTypeOK, TypeOK
  <2>11. Typing'
    BY <1>2, <2>3, <2>10 DEF RetestPersist, FixTyping, Typing, PipelineTypeOK, TypeOK, apiVars, AttemptsCounted
  <2> QED BY <1>a, <2>5, <2>9, <2>11
<1> QED BY <1>1, <1>2 DEF Retest

\* A completion's step.
LEMMA CompleteTyping ==
  ASSUME FixTyping, NEW j \in Jobs, Complete(j), UNCHANGED apiVars
  PROVE  /\ Typing' /\ FixPlacesOK'
         /\ held' \in [Jobs -> Remediations]
         /\ remediation' \in [Findings -> Remediations]
<1> USE DEF At
<1>0. /\ j.type \in VerificationTypes /\ frame[j] \in Frames /\ jobState[j] = "active"
      /\ j.finding \in Findings /\ j.run \in Runs
      /\ frame[j].decided \in VerificationOutcomes
  BY FixPlaceTypes, JobFacts DEF Complete, CompleteAssert, CompleteWrite, CompletionPlaces
<1>a. held \in [Jobs -> Remediations] /\ remediation \in [Findings -> Remediations]
  BY DEF FixTyping
<1>1. CASE CompleteAssert(j)
  <2>1. held' \in [Jobs -> Remediations] /\ remediation' = remediation
    BY <1>1, HeldTyping DEF CompleteAssert
  <2>2. CASE Throw(j)
    BY <1>0, <1>1, <1>a, <2>1, <2>2, FixThrowTyping DEF CompleteAssert
  <2>3. CASE Goto(j, "complete_write") /\ UNCHANGED jobState
    <3>1. /\ PlaceFits(j, "complete_write", frame[j].finding, frame[j].decided)
          /\ FixPlaceFits(j, "complete_write", frame[j].decided)
      BY <1>0 DEF PlaceFits, FixPlaceFits, RevalidationPlaces, CompletionPlaces, FinalPlaces
    <3> QED BY <1>1, <1>a, <2>1, <2>3, <3>1, FixMoveTyping DEF CompleteAssert, Labels
  <2> QED BY <1>1, <2>2, <2>3 DEF CompleteAssert
<1>2. CASE CompleteWrite(j)
  <2>1. remediation' \in [Findings -> Remediations] /\ held' = held
    BY <1>0, <1>2, <1>a DEF CompleteWrite, Remediations
  <2>2. /\ findingStatus' \in [Findings -> FindingStatuses \cup {"absent"}]
        /\ linked' \in [Runs -> SUBSET Findings]
    <3>1. /\ findingStatus \in [Findings -> FindingStatuses \cup {"absent"}]
          /\ linked \in [Runs -> SUBSET Findings] /\ j.run \in Runs /\ j.finding \in Findings
      BY <1>0 DEF FixTyping, Typing, PipelineTypeOK, TypeOK
    <3>2. CASE UNCHANGED <<findingStatus, linked>>
      BY <3>1, <3>2
    <3>3. CASE /\ findingStatus' = [findingStatus EXCEPT ![j.finding] = FindingStatusOf(frame[j].decided)]
               /\ linked' = [linked EXCEPT ![j.run] = @ \cup {j.finding}]
      BY <1>0, <3>1, <3>3, OutcomeTyping DEF CompleteWrite
    <3> QED BY <1>2, <3>2, <3>3 DEF CompleteWrite
  <2>3. /\ PlaceFits(j, "finalize", frame[j].finding, frame[j].decided)
        /\ FixPlaceFits(j, "finalize", frame[j].decided)
    BY <1>0 DEF PlaceFits, FixPlaceFits, RevalidationPlaces, CompletionPlaces, FinalPlaces, FixFinalizers
  <2>4. frame' \in [Jobs -> Frames] /\ PlacesOK' /\ FixPlacesOK'
    BY <1>2, <2>3, GotoTyping, GotoPlaces DEF CompleteWrite, Labels, FixTyping
  <2>5. Typing'
    BY <1>2, <2>2, <2>4 DEF CompleteWrite, FixTyping, Typing, PipelineTypeOK, TypeOK, apiVars, AttemptsCounted
  <2> QED BY <1>a, <2>1, <2>4, <2>5
<1> QED BY <1>1, <1>2 DEF Complete

\* What a verification's step does to the queue.
LEMMA FixWorkQueues ==
  ASSUME FixTyping, NEW j \in Jobs, FixWork(j), NEW k \in Jobs \ {j}
  PROVE  /\ jobState[j] = "active"
         /\ frame'[k] = frame[k]
         /\ jobState'[k] # jobState[k] =>
              /\ jobState[k] = "none" /\ jobState'[k] = "waiting"
              /\ \/ /\ j.type = "prepare_repository" /\ j.run \in FixRuns /\ At(j, "enqueue")
                    /\ k = FindingJob("run_deepsec_revalidation", j.run, verifies[j.run])
                 \/ /\ j.type = "run_deepsec_revalidation" /\ At(j, "enqueue")
                    /\ k = FindingJob("run_strix_retest", j.run, j.finding)
<1> USE DEF At, FixTyping, Typing, PipelineTypeOK, TypeOK, Goto, Throw, Enqueue, storeVars
<1>1. CASE FixPrepareEnqueue(j) \/ RevalidateEnqueue(j)
  BY <1>1 DEF FixPrepareEnqueue, RevalidateEnqueue
<1>2. CASE RevalidateAssert(j) \/ RevalidateFinishAssert(j) \/ RevalidateRunAssert(j)
  BY <1>2 DEF RevalidateAssert, RevalidateFinishAssert, RevalidateRunAssert, AssertRunTransition
<1>3. CASE RevalidateStart(j) \/ RevalidateFinishWrite(j) \/ RevalidateRunWrite(j)
  BY <1>3 DEF RevalidateStart, RevalidateFinishWrite, RevalidateRunWrite, WriteRunStatus
<1>4. CASE RevalidateLookup(j) \/ RevalidateJudge(j)
  BY <1>4 DEF RevalidateLookup, RevalidateJudge
<1>5. CASE RetestMission(j) \/ RetestPersist(j)
  BY <1>5 DEF RetestMission, RetestPersist
<1>6. CASE CompleteAssert(j) \/ CompleteWrite(j)
  BY <1>6 DEF CompleteAssert, CompleteWrite
<1> QED BY <1>1, <1>2, <1>3, <1>4, <1>5, <1>6, FixActions

LEMMA FixWorkTyping ==
  ASSUME FixTyping, NEW j \in Jobs, FixWork(j)
  PROVE  FixTyping'
<1>1. UNCHANGED <<apiVars, submitting, verifying>> /\ UNCHANGED verifies
  BY DEF FixWork, FixPrepareEnqueue, Revalidate, RevalidateAssert, RevalidateStart, RevalidateLookup,
     RevalidateFinishAssert, RevalidateFinishWrite, RevalidateJudge, RevalidateRunAssert,
     RevalidateRunWrite, RevalidateEnqueue, Retest, RetestMission, RetestPersist, Complete,
     CompleteAssert, CompleteWrite
<1>2. /\ Typing' /\ FixPlacesOK'
      /\ held' \in [Jobs -> Remediations]
      /\ remediation' \in [Findings -> Remediations]
  <2>1. CASE FixPrepareEnqueue(j)
    <3>1. j.run \in FixRuns /\ verifies[j.run] \in Findings
      BY <2>1 DEF FixPrepareEnqueue, At, FixTyping, VerifiesKnown, JobsOf
    <3>2. FindingJob("run_deepsec_revalidation", j.run, verifies[j.run]) \in Jobs
      BY <3>1, JobFacts, FindingJobs DEF FindingTypes
    <3> QED BY <1>1, <2>1, <3>2, FixMoveTyping, PlainPlaces
            DEF FixPrepareEnqueue, RevalidationPlaces, FixTyping
  <2> QED BY <1>1, <2>1, RevalidateTyping, RetestTyping, CompleteTyping DEF FixWork
<1>3. VerifiesKnown'
  <2> SUFFICES ASSUME NEW r \in FixRuns, NEW k \in JobsOf(r), jobState'[k] # "none"
               PROVE  \E i \in JobsOf(r) : jobState[i] # "none"
    BY <1>1 DEF FixTyping, VerifiesKnown, apiVars
  <2>1. jobState[j] = "active" \/ k = j
    BY FixWorkQueues DEF JobsOf
  <2>2. CASE jobState[k] # "none"
    BY <2>2
  <2>3. CASE k # j /\ jobState[k] = "none"
    BY <2>3, FixWorkQueues DEF JobsOf, FindingJob
  <2>4. jobState[j] = "active"
    BY DEF FixWork, FixPrepareEnqueue, Revalidate, RevalidateAssert, RevalidateStart, RevalidateLookup,
     RevalidateFinishAssert, RevalidateFinishWrite, RevalidateJudge, RevalidateRunAssert,
     RevalidateRunWrite, RevalidateEnqueue, Retest, RetestMission, RetestPersist, Complete,
     CompleteAssert, CompleteWrite, At
  <2> QED BY <2>2, <2>3, <2>4
<1> QED BY <1>1, <1>2, <1>3 DEF FixTyping

LEMMA FixInitTyping == FixInit => FixTyping
<1> SUFFICES ASSUME FixInit PROVE FixTyping
  OBVIOUS
<1>1. Typing
  BY InitTyping DEF FixInit
<1>2. FixPlacesOK
  BY DEF FixInit, Init, ControlPlaneInit, IdleFrame, FixPlacesOK, FixPlaceFits, RevalidationPlaces,
         CompletionPlaces, FinalPlaces
<1>3. VerifiesKnown
  BY DEF FixInit, Init, ControlPlaneInit, VerifiesKnown, JobsOf
<1> QED BY <1>1, <1>2, <1>3 DEF FixInit, FixTyping, Remediations, NoRemediation

LEMMA FixStepTyping == FixTyping /\ [FixNext]_allVars => FixTyping'
<1> SUFFICES ASSUME FixTyping, [FixNext]_allVars PROVE FixTyping'
  OBVIOUS
<1>1. CASE UNCHANGED allVars
  BY <1>1 DEF allVars, vars, storeVars, queueVars, apiVars, fixVars, FixTyping, Typing, PipelineTypeOK,
              TypeOK, AttemptsCounted, PlacesOK, PlaceOK, FixPlacesOK, VerifiesKnown
<1> QED BY <1>1, ReviewStepTyping, FixCallTyping, FixWorkTyping DEF FixNext

\* Every reachable state is well typed, with the places of the verification's
\* handlers in step, and a verification run that has begun names its finding.
THEOREM FixTypingInvariant == FixSpec => []FixTyping
<1>1. FixInit => FixTyping
  BY FixInitTyping
<1>2. FixTyping /\ [FixNext]_allVars => FixTyping'
  BY FixStepTyping
<1> QED BY <1>1, <1>2, PTL DEF FixSpec

\* The status columns and the remediations only ever hold values of their
\* enums, whatever clients do.
THEOREM FixTypeCorrect == FixSpec => []FixTypeOK
<1>1. FixTyping => FixTypeOK
  BY DEF FixTyping, FixTypeOK, Typing
<1> QED BY <1>1, FixTypingInvariant, PTL

-----------------------------------------------------------------------------
(* What one step of a job's handler leaves alone.                          *)

\* A job that the handler of j may add.
Joins(j, k) ==
  /\ k.run = j.run
  /\ k.run \in FixRuns => k.type \in FixStages
  /\ k.type \in VerificationTypes => k.run \in FixRuns /\ k.finding = verifies[k.run]
  /\ k.type = "run_strix_validation" => k.finding \in linked[k.run]

\* A step of job j is about its run, and makes no other run accountable for a
\* finding that is known already.
Local(j) ==
  /\ jobState[j] \in {"waiting", "active"} /\ jobState'[j] # "none" /\ LiveFrame(j)'
  /\ \A k \in Jobs \ {j} :
       /\ frame'[k] = frame[k]
       /\ jobState'[k] # jobState[k] =>
            jobState[k] = "none" /\ jobState'[k] = "waiting" /\ Joins(j, k)
  /\ \A r \in Runs \ {j.run} :
       runStatus'[r] = runStatus[r] /\ linked'[r] = linked[r] /\ recorded'[r] = recorded[r]
  /\ runStatus[j.run] # "absent" => runStatus'[j.run] # "absent"
  /\ Grows
  /\ \A f \in linked'[j.run] \ linked[j.run] : ~Exists(f) /\ Exists(f)'
  /\ \A f \in Findings : Exists(f) => Exists(f)'
  /\ UNCHANGED <<apiVars, verifies, submitting, verifying>>

\* How the pipeline changes a finding's status.
ReviewMoves(j) ==
  \A f \in Findings :
    \/ findingStatus'[f] = findingStatus[f]
    \/ ~Exists(f) /\ findingStatus'[f] \in {"suspected", "source_confirmed"}
    \/ /\ j.type = "apply_routing_policy" /\ frame[j].at = "write_finding" /\ f = frame[j].finding
       /\ findingStatus[f] = "source_confirmed" /\ findingStatus'[f] = "validation_queued"
    \/ /\ j.type = "run_strix_validation" /\ frame[j].at = "write_finding" /\ f = j.finding
       /\ CanTransitionFinding(findingStatus[f], frame[j].decided)
       /\ findingStatus'[f] = frame[j].decided /\ frame[j].decided \in Conclusive

LEMMA WorkReviewMoves ==
  ASSUME FixTyping, ReviewsApart, NEW j \in Jobs, Work(j)
  PROVE  ReviewMoves(j)
<1> USE DEF FixTyping, Typing, PipelineTypeOK, TypeOK
<1>1. CASE UNCHANGED findingStatus
  BY <1>1 DEF ReviewMoves
<1>2. CASE DeepSecPersist(j)
  <2>1. CASE UNCHANGED findingStatus
    BY <2>1 DEF ReviewMoves
  <2>2. CASE /\ ~ \E f \in frame[j].todo : Exists(f)
             /\ \E again \in SUBSET {f \in Findings : Exists(f)} : Reported(j, again)
    BY <2>2 DEF ReviewMoves, Reported, FirstStatus
  <2> QED BY <1>2, <2>1, <2>2 DEF DeepSecPersist
<1>3. CASE RoutingEscalate(j)
  <2>1. findingStatus[frame[j].finding] = "source_confirmed"
    BY <1>3 DEF RoutingEscalate, At, ReviewsApart, ReviewHand
  <2> QED BY <1>3, <2>1 DEF RoutingEscalate, At, ReviewMoves
<1>4. CASE StrixPersist(j)
  <2>1. frame[j].decided \in Verdicts
    BY <1>4 DEF StrixPersist, At, PlacesOK, PlaceOK, PlaceFits
  <2>2. CASE frame[j].decided = "failed"
    BY <1>4, <2>2 DEF StrixPersist, Judges, ReviewMoves
  <2>3. CASE frame[j].decided \in Conclusive
    <3>1. CanTransitionFinding(findingStatus[j.finding], frame[j].decided)
      BY <1>4, <2>3 DEF StrixPersist, Judges, At, ReviewsApart, ReviewHand, Conclusive
    <3> QED BY <1>4, <2>3, <3>1 DEF StrixPersist, Judges, At, ReviewMoves, Conclusive
  <2> QED BY <2>1, <2>2, <2>3 DEF Conclusive
<1> QED BY <1>1, <1>2, <1>3, <1>4, Writers

LEMMA WorkOwnRun ==
  ASSUME FixTyping, QueueShape, ReviewsApart, NEW j \in Jobs, Work(j)
  PROVE  /\ \A r \in Runs \ {j.run} :
              runStatus'[r] = runStatus[r] /\ linked'[r] = linked[r] /\ recorded'[r] = recorded[r]
         /\ runStatus[j.run] # "absent" => runStatus'[j.run] # "absent"
         /\ \A f \in linked'[j.run] \ linked[j.run] : ~Exists(f) /\ Exists(f)'
<1> USE DEF FixTyping, Typing, PipelineTypeOK, TypeOK
<1>0. j.run \in Runs
  BY JobFacts
<1>1. /\ \A r \in Runs \ {j.run} : runStatus'[r] = runStatus[r] /\ recorded'[r] = recorded[r]
      /\ runStatus[j.run] # "absent" => runStatus'[j.run] # "absent"
  <2>1. CASE FinalizeWrite(j)
    <3>1. frame[j].decided # "absent"
      BY <2>1 DEF FinalizeWrite, At, PlacesOK, PlaceOK, PlaceFits, Dispositions
    <3> QED BY <1>0, <2>1, <3>1 DEF FinalizeWrite, WriteRunStatus
  <2>2. CASE PrepareWrite(j) \/ ClassifyWrite(j) \/ DeepSecWrite(j) \/ RoutingWrite(j)
    BY <1>0, <2>2 DEF PrepareWrite, ClassifyWrite, DeepSecWrite, RoutingWrite, WriteRunStatus
  <2>3. CASE UNCHANGED <<runStatus, recorded>>
    BY <2>3
  <2> QED BY <2>1, <2>2, <2>3, Writers
<1>2. /\ \A r \in Runs \ {j.run} : linked'[r] = linked[r]
      /\ \A f \in linked'[j.run] \ linked[j.run] : ~Exists(f) /\ Exists(f)'
  <2>1. CASE UNCHANGED linked
    BY <2>1
  <2>2. CASE DeepSecPersist(j)
    <3>1. CASE UNCHANGED linked
      BY <3>1
    <3>2. CASE /\ ~ \E f \in frame[j].todo : Exists(f)
               /\ \E again \in SUBSET {f \in Findings : Exists(f)} : Reported(j, again)
               /\ linked' = [linked EXCEPT ![j.run] = @ \cup frame[j].todo]
      <4>1. frame[j].todo \in SUBSET Findings
        BY DEF Frames
      <4> QED BY <1>0, <3>2, <4>1 DEF Reported, FirstStatus, Exists
    <3> QED BY <2>2, <3>1, <3>2 DEF DeepSecPersist
  <2>3. CASE RoutingEscalate(j)
    <3>1. frame[j].finding \in linked[j.run]
      BY <2>3 DEF RoutingEscalate, At, ReviewsApart, ReviewHand
    <3> QED BY <1>0, <2>3, <3>1 DEF RoutingEscalate
  <2>4. CASE StrixPersist(j)
    <3>1. j.finding \in linked[j.run]
      BY <2>4 DEF StrixPersist, At, QueueShape, JobFits
    <3> QED BY <1>0, <2>4, <3>1 DEF StrixPersist
  <2> QED BY <2>1, <2>2, <2>3, <2>4, Writers
<1> QED BY <1>1, <1>2

LEMMA WorkLocal ==
  ASSUME FixTyping, QueueShape, ReviewsApart, NEW j \in Jobs, Work(j),
         UNCHANGED <<verifies, submitting, verifying>>
  PROVE  Local(j)
<1> USE DEF FixTyping
<1>1. jobState[j] \in {"waiting", "active"} /\ jobState'[j] # "none" /\ LiveFrame(j)'
  <2>1. jobState[j] \in {"waiting", "active"}
    BY WorkKinds DEF PickUp
  <2>2. jobState'[j] # "none"
    <3>1. CASE PickUp(j) \/ Return(j) \/ Throw(j)
      BY <3>1 DEF PickUp, Return, Throw, Typing, PipelineTypeOK, TypeOK
    <3>2. CASE jobState[j] = "active" /\ (UNCHANGED jobState \/ \E k : Enqueue(k))
      BY <3>2, StillActive
    <3> QED BY <3>1, <3>2, WorkKinds
  <2> QED BY <2>1, <2>2, OwnPlaceLive
<1>2. ASSUME NEW k \in Jobs \ {j}, jobState'[k] # jobState[k]
      PROVE  jobState[k] = "none" /\ jobState'[k] = "waiting" /\ Joins(j, k)
  <2>1. JobFits(j) /\ jobState[j] # "none"
    BY <1>1 DEF QueueShape
  <2>2. j.type = "apply_routing_policy" /\ At(j, "enqueue") => frame[j].finding \in linked[j.run]
    BY DEF ReviewsApart, ReviewHand, At
  <2> QED BY <1>2, <2>1, <2>2, WorkQueues
          DEF Joins, JobFits, StageJob, StrixJob, FindingJob, FixStages, VerificationTypes
<1>3. \A f \in Findings : Exists(f) => Exists(f)'
  BY WorkReviewMoves DEF ReviewMoves, Exists, Conclusive, Verdicts
<1>4. UNCHANGED apiVars
  BY WorkActions
<1> QED BY <1>1, <1>2, <1>3, <1>4, OnlyOwnJob, WorkOwnRun, WorkGrows DEF Local

\* A fault takes what the handler holds, and nothing else.
LEMMA FaultLocal ==
  ASSUME FixTyping, NEW j \in Jobs, Fault(j), UNCHANGED <<verifies, submitting, verifying>>
  PROVE  /\ Local(j)
         /\ frame'[j].at = "idle" /\ jobState'[j] # "active"
         /\ UNCHANGED storeVars
<1> USE DEF FixTyping, Typing, PipelineTypeOK, TypeOK, Fault, Interrupt, Throw, IdleFrame
<1>1. jobState[j] = "active" /\ jobState'[j] # "none" /\ LiveFrame(j)'
  BY DEF LiveFrame
<1>2. \A k \in Jobs \ {j} : frame'[k] = frame[k] /\ jobState'[k] = jobState[k]
  OBVIOUS
<1>3. Grows /\ \A f \in Findings : Exists(f) => Exists(f)'
  BY DEF storeVars, Grows, Exists
<1> QED BY <1>1, <1>2, <1>3 DEF Local, storeVars

\* The finding of a verification's job is the one its run names, and the run
\* answers for it.
LEMMA JobsFinding ==
  ASSUME FixTyping, QueueShape, NEW j \in Jobs, jobState[j] # "none", j.type \in VerificationTypes
  PROVE  /\ j.run \in FixRuns /\ j.run \in Runs /\ j.finding \in Findings
         /\ j.finding = verifies[j.run] /\ j.finding \in linked[j.run]
         /\ runStatus[j.run] # "absent"
<1>1. JobFits(j) /\ j.run \in Runs /\ j.finding \in Findings
  BY JobFacts, FixPlaceTypes DEF QueueShape
<1>2. RunFits(j.run)
  BY <1>1 DEF QueueShape
<1> QED BY <1>1, <1>2, NoFindingAssumption DEF JobFits, RunFits

LEMMA FixWorkLocal ==
  ASSUME FixTyping, QueueShape, NEW j \in Jobs, FixWork(j)
  PROVE  Local(j)
<1> USE DEF FixTyping, Typing, PipelineTypeOK, TypeOK
<1>0. jobState[j] = "active" /\ j.run \in Runs /\ frame[j] \in Frames
  <2>1. jobState[j] = "active"
    BY FixActions DEF FixPrepareEnqueue, RevalidateAssert, RevalidateStart, RevalidateLookup,
     RevalidateFinishAssert, RevalidateFinishWrite, RevalidateJudge, RevalidateRunAssert,
     RevalidateRunWrite, RevalidateEnqueue, RetestMission, RetestPersist,
     CompleteAssert, CompleteWrite, At
  <2> QED BY <2>1, JobFacts
<1>1. jobState'[j] # "none" /\ LiveFrame(j)'
  <2>1. CASE Throw(j)
    BY <1>0, <2>1 DEF Throw, LiveFrame, IdleFrame
  <2>2. CASE UNCHANGED jobState \/ \E k : Enqueue(k)
    BY <1>0, <2>2, StillActive DEF LiveFrame
  <2>3. Throw(j) \/ UNCHANGED jobState \/ \E k : Enqueue(k)
    BY FixActions DEF FixPrepareEnqueue, RevalidateAssert, RevalidateStart, RevalidateLookup,
     RevalidateFinishAssert, RevalidateFinishWrite, RevalidateJudge, RevalidateRunAssert,
     RevalidateRunWrite, RevalidateEnqueue, RetestMission, RetestPersist,
     CompleteAssert, CompleteWrite, AssertRunTransition, WriteRunStatus
  <2> QED BY <2>1, <2>2, <2>3
<1>2. ASSUME NEW k \in Jobs \ {j}, jobState'[k] # jobState[k]
      PROVE  jobState[k] = "none" /\ jobState'[k] = "waiting" /\ Joins(j, k)
  <2>1. j.type = "run_deepsec_revalidation" => j.run \in FixRuns /\ j.finding = verifies[j.run]
    BY <1>0, JobsFinding DEF VerificationTypes
  <2> QED BY <1>2, <2>1, FixWorkQueues DEF Joins, FindingJob, FixStages, VerificationTypes
<1>3. /\ \A r \in Runs \ {j.run} : runStatus'[r] = runStatus[r] /\ recorded'[r] = recorded[r]
      /\ runStatus[j.run] # "absent" => runStatus'[j.run] # "absent"
      /\ \A r \in Runs : recorded[r] \subseteq recorded'[r]
      /\ UNCHANGED <<snapshots, classified, verifies>>
  <2>1. CASE RevalidateStart(j) \/ RevalidateFinishWrite(j) \/ RevalidateRunWrite(j)
    BY <1>0, <2>1 DEF RevalidateStart, RevalidateFinishWrite, RevalidateRunWrite, WriteRunStatus
  <2>2. CASE UNCHANGED <<runStatus, recorded, snapshots, classified, verifies>>
    BY <2>2
  <2> QED
    BY <2>1, <2>2, FixActions DEF FixPrepareEnqueue, RevalidateAssert, RevalidateLookup,
     RevalidateFinishAssert, RevalidateJudge, RevalidateRunAssert, RevalidateEnqueue,
     RetestMission, RetestPersist, CompleteAssert, CompleteWrite, AssertRunTransition, storeVars
<1>4. /\ linked' = linked
      /\ \A f \in Findings : Exists(f) => Exists(f)'
  <2>1. CASE CompleteWrite(j)
    <3>1. j.finding \in linked[j.run] /\ j.finding \in Findings /\ frame[j].decided \in VerificationOutcomes
      BY <1>0, <2>1, JobsFinding, FixPlaceTypes DEF CompleteWrite, At, CompletionPlaces
    <3>2. linked' = linked \/ linked' = [linked EXCEPT ![j.run] = linked[j.run] \cup {j.finding}]
      BY <1>0, <2>1 DEF CompleteWrite
    <3>3. linked[j.run] \cup {j.finding} = linked[j.run]
      BY <3>1
    <3>4. linked \in [Runs -> SUBSET Findings]
      OBVIOUS
    <3>5. [linked EXCEPT ![j.run] = linked[j.run]] = linked
      <4> HIDE DEF FixTyping, Typing, PipelineTypeOK, TypeOK
      <4> QED BY <1>0, <3>4
    <3>6. linked' = linked
      BY <3>2, <3>3, <3>5
    <3>7. FindingStatusOf(frame[j].decided) # "absent"
      BY <3>1 DEF FindingStatusOf, VerificationOutcomes
    <3> QED BY <2>1, <3>1, <3>6, <3>7 DEF CompleteWrite, Exists
  <2>2. CASE UNCHANGED <<linked, findingStatus>>
    BY <2>2 DEF Exists
  <2> QED
    BY <2>1, <2>2, FixActions DEF FixPrepareEnqueue, RevalidateAssert, RevalidateStart, RevalidateLookup,
     RevalidateFinishAssert, RevalidateFinishWrite, RevalidateJudge, RevalidateRunAssert,
     RevalidateRunWrite, RevalidateEnqueue, RetestMission, RetestPersist, CompleteAssert,
     AssertRunTransition, WriteRunStatus, storeVars
<1>5. validations \subseteq validations'
  BY FixActions DEF FixPrepareEnqueue, RevalidateAssert, RevalidateStart, RevalidateLookup,
     RevalidateFinishAssert, RevalidateFinishWrite, RevalidateJudge, RevalidateRunAssert,
     RevalidateRunWrite, RevalidateEnqueue, RetestMission, RetestPersist, CompleteAssert, CompleteWrite,
     AssertRunTransition, WriteRunStatus, storeVars
<1>6. Grows
  BY <1>3, <1>4, <1>5 DEF Grows
<1>7. UNCHANGED <<apiVars, submitting, verifying>>
  BY FixActions
<1> QED BY <1>0, <1>1, <1>2, <1>3, <1>4, <1>6, <1>7, FixWorkQueues DEF Local

-----------------------------------------------------------------------------
(* What follows for the queue and the runs.                                *)

\* A handler's step leaves alive only what was.
LEMMA LocalLive ==
  ASSUME FixTyping, NEW j \in Jobs, Local(j)
  PROVE  /\ LiveRun(j.run)
         /\ \A r \in Runs : LiveRun(r)' => LiveRun(r)
<1>1. LiveRun(j.run)
  BY DEF Local, LiveRun, JobsOf
<1>2. ASSUME NEW r \in Runs, LiveRun(r)' PROVE LiveRun(r)
  <2>1. CASE r \in creating'
    BY <2>1 DEF Local, apiVars, LiveRun
  <2>2. ASSUME NEW k \in JobsOf(r), jobState'[k] \in {"waiting", "active"} PROVE LiveRun(r)
    <3>1. CASE k = j
      BY <1>1, <3>1 DEF JobsOf
    <3>2. CASE k # j /\ jobState'[k] = jobState[k]
      BY <2>2, <3>2 DEF LiveRun
    <3>3. CASE k # j /\ jobState'[k] # jobState[k]
      BY <1>1, <3>3 DEF Local, Joins, JobsOf
    <3> QED BY <3>1, <3>2, <3>3
  <2> QED BY <1>2, <2>1, <2>2 DEF LiveRun, JobsOf
<1> QED BY <1>1, <1>2

LEMMA LocalShape ==
  ASSUME FixTyping, QueueShape, NEW j \in Jobs, Local(j)
  PROVE  QueueShape'
<1>0. jobState[j] # "none" /\ j.run \in Runs /\ JobFits(j)
  BY JobFacts DEF Local, QueueShape
<1>1. PlacesLive'
  <2> SUFFICES ASSUME NEW k \in Jobs PROVE LiveFrame(k)'
    BY DEF PlacesLive
  <2>1. CASE k = j
    BY <2>1 DEF Local
  <2>2. CASE k # j
    BY <2>2 DEF Local, QueueShape, PlacesLive, LiveFrame
  <2> QED BY <2>1, <2>2
<1>2. ASSUME NEW k \in Jobs PROVE JobFits(k)'
  <2>1. /\ k.run \in Runs /\ JobFits(k)
        /\ linked[k.run] \subseteq linked'[k.run] /\ verifies' = verifies
        /\ runStatus[k.run] # "absent" => runStatus'[k.run] # "absent"
    BY JobFacts DEF QueueShape, Local, Grows
  <2>2. CASE jobState[k] # "none"
    BY <2>1, <2>2 DEF JobFits
  <2>3. CASE jobState[k] = "none" /\ jobState'[k] # "none"
    <3>1. Joins(j, k)
      BY <1>0, <2>3 DEF Local
    <3>2. runStatus[k.run] # "absent"
      BY <1>0, <3>1 DEF Joins, JobFits
    <3> QED BY <2>1, <3>1, <3>2 DEF Joins, JobFits
  <2> QED BY <2>2, <2>3 DEF JobFits
<1>3. ASSUME NEW r \in Runs PROVE RunFits(r)'
  <2>1. RunFits(r) /\ UNCHANGED <<creating, cancelling, fetching, verifies>>
    BY DEF QueueShape, Local, apiVars
  <2>2. CASE r = j.run
    <3>1. r \notin creating
      BY <1>0, <2>1, <2>2 DEF RunFits, JobsOf
    <3>2. runStatus'[r] # "absent" /\ linked[r] \subseteq linked'[r]
      BY <1>0, <2>2 DEF JobFits, Local, Grows
    <3> QED BY <2>1, <3>1, <3>2 DEF RunFits
  <2>3. CASE r # j.run
    <3>1. runStatus'[r] = runStatus[r] /\ linked'[r] = linked[r] /\ recorded'[r] = recorded[r]
      BY <2>3 DEF Local
    <3>2. \A k \in JobsOf(r) : jobState'[k] = jobState[k]
      BY <2>3 DEF Local, Joins, JobsOf
    <3>3. JobsOf(r)' = JobsOf(r)
      BY DEF JobsOf
    <3> QED BY <2>1, <3>1, <3>2, <3>3 DEF RunFits
  <2> QED BY <2>2, <2>3
<1> QED BY <1>1, <1>2, <1>3 DEF QueueShape

LEMMA LocalLinks ==
  ASSUME FixTyping, ReviewsApart, NEW j \in Jobs, Local(j)
  PROVE  /\ \A r, s \in Runs \ FixRuns : r # s => linked'[r] \cap linked'[s] = {}
         /\ \A r \in Runs : \A f \in linked'[r] : Exists(f)'
<1>0. linked \in [Runs -> SUBSET Findings]
  BY DEF FixTyping, Typing, PipelineTypeOK, TypeOK
<1>1. ASSUME NEW r \in Runs, NEW f \in linked'[r]
      PROVE  f \in linked[r] \/ (r = j.run /\ ~Exists(f) /\ Exists(f)')
  BY DEF Local
<1>2. \A r \in Runs : \A f \in linked[r] : Exists(f) /\ Exists(f)'
  BY <1>0 DEF ReviewsApart, Local
<1>3. \A r, s \in Runs \ FixRuns : r # s => linked[r] \cap linked[s] = {}
  BY DEF ReviewsApart
<1> QED BY <1>1, <1>2, <1>3

\* A finding no run is at work on stays so.
LEMMA LocalRest ==
  ASSUME FixTyping, ReviewsApart, NEW j \in Jobs, Local(j), NEW f \in Findings, Exists(f)
  PROVE  /\ AtRest(f) => AtRest(f)'
         /\ \A r \in Runs : f \in linked'[r] => f \in linked[r]
<1>1. \A r \in Runs : f \in linked'[r] => f \in linked[r]
  BY JobFacts DEF Local
<1> QED BY <1>1, LocalLive DEF AtRest

-----------------------------------------------------------------------------
(* The reviews.                                                            *)

\* What a routing or a mission holds stays good while the findings it holds
\* do.
LEMMA ReviewHandStays ==
  ASSUME FixTyping, NEW k \in Jobs, ReviewHand(k), frame'[k] = frame[k],
         linked[k.run] \subseteq linked'[k.run],
         k.type = "apply_routing_policy" /\ frame[k].at # "idle" =>
           \A f \in linked[k.run] : findingStatus[f] = "source_confirmed" => findingStatus'[f] = findingStatus[f],
         k.type = "run_strix_validation" /\ frame[k].at = "write_finding" /\ Judges(frame[k].decided) =>
           findingStatus'[k.finding] = findingStatus[k.finding]
  PROVE  ReviewHand(k)'
BY DEF ReviewHand

\* A handler that is out of these places holds nothing.
LEMMA ReviewHandFree ==
  ASSUME NEW j \in Jobs, \/ frame'[j].at \notin {"route", "write_finding", "enqueue"}
                         \/ j.type \notin {"apply_routing_policy", "run_strix_validation"}
  PROVE  ReviewHand(j)'
BY DEF ReviewHand

LEMMA RoutingReviewHand ==
  ASSUME FixTyping, ReviewsApart, NEW j \in Jobs,
         \/ RoutingBegin(j) \/ RoutingDecide(j) \/ RoutingEscalate(j) \/ RoutingEnqueue(j)
         \/ RoutingCount(j) \/ RoutingAssert(j) \/ RoutingWrite(j)
  PROVE  ReviewHand(j)'
<1>0. /\ frame \in [Jobs -> Frames] /\ frame[j] \in Frames
      /\ ReviewHand(j) /\ PlaceOK(j) /\ j.run \in Runs
  BY JobFacts DEF FixTyping, Typing, PipelineTypeOK, TypeOK, PlacesOK, ReviewsApart
<1>a. CASE Throw(j)
  BY <1>0, <1>a, ReviewHandFree DEF Throw, IdleFrame
<1>1. CASE RoutingBegin(j)
  <2>1. PICK authorized, affordable \in BOOLEAN :
          frame' = [frame EXCEPT
               ![j].at = "route",
               ![j].todo = {f \in linked[j.run] : findingStatus[f] = "source_confirmed"},
               ![j].decided = IF authorized /\ affordable THEN "open" ELSE "shut"]
    BY <1>1 DEF RoutingBegin
  <2>2. /\ frame'[j].at = "route"
        /\ frame'[j].todo = {f \in linked[j.run] : findingStatus[f] = "source_confirmed"}
    BY <1>0, <2>1 DEF Frames
  <2> QED BY <1>1, <2>2 DEF RoutingBegin, storeVars, ReviewHand
<1>2. CASE RoutingDecide(j)
  <2>0. /\ j.type = "apply_routing_policy"
        /\ frame[j].todo \subseteq linked[j.run]
        /\ \A f \in frame[j].todo : findingStatus[f] = "source_confirmed"
        /\ UNCHANGED storeVars
    BY <1>0, <1>2 DEF RoutingDecide, At, PlaceOK, PlaceFits, ReviewHand
  <2>1. PICK f \in frame[j].todo :
          IF ~Escalates(RoutingInput(j, f))
            THEN frame' = [frame EXCEPT ![j].todo = @ \ {f}] /\ UNCHANGED jobState
            ELSE IF CanTransitionFinding(findingStatus[f], "validation_queued")
            THEN /\ frame' = [frame EXCEPT ![j].at = "write_finding", ![j].finding = f,
                                           ![j].todo = @ \ {f}]
                 /\ UNCHANGED jobState
            ELSE Throw(j)
    BY <1>2 DEF RoutingDecide
  <2>2. CASE Throw(j)
    BY <1>a, <2>2
  <2>3. CASE frame' = [frame EXCEPT ![j].todo = @ \ {f}]
    <3>1. frame'[j].at = "route" /\ frame'[j].todo = frame[j].todo \ {f}
      BY <1>0, <1>2, <2>0, <2>3 DEF RoutingDecide, At, Frames
    <3> QED BY <2>0, <3>1 DEF storeVars, ReviewHand
  <2>4. CASE frame' = [frame EXCEPT ![j].at = "write_finding", ![j].finding = f, ![j].todo = @ \ {f}]
    <3>1. /\ frame'[j].at = "write_finding" /\ frame'[j].finding = f
          /\ frame'[j].todo = frame[j].todo \ {f}
      BY <1>0, <2>0, <2>4 DEF Frames
    <3> QED BY <2>0, <3>1 DEF storeVars, ReviewHand
  <2> QED BY <2>1, <2>2, <2>3, <2>4
<1>3. CASE RoutingEscalate(j)
  <2>1. frame'[j].at = "enqueue" /\ frame'[j].todo = frame[j].todo /\ frame'[j].finding = frame[j].finding
    BY <1>0, <1>3 DEF RoutingEscalate, Goto, Frames
  <2>2. /\ frame[j].finding \in linked[j.run] \ frame[j].todo
        /\ frame[j].todo \subseteq linked[j.run]
        /\ \A f \in frame[j].todo : findingStatus[f] = "source_confirmed"
    BY <1>0, <1>3 DEF RoutingEscalate, At, ReviewHand
  <2>3. linked[j.run] \subseteq linked'[j.run] /\ linked[j.run] \subseteq Findings
    BY <1>0, <1>3 DEF RoutingEscalate, FixTyping, Typing, PipelineTypeOK, TypeOK
  <2>4. \A f \in frame[j].todo : findingStatus'[f] = "source_confirmed"
    BY <1>3, <2>2, <2>3 DEF RoutingEscalate, FixTyping, Typing, PipelineTypeOK, TypeOK
  <2> QED BY <1>3, <2>1, <2>2, <2>3, <2>4 DEF RoutingEscalate, ReviewHand
<1>4. CASE RoutingEnqueue(j)
  <2>1. frame'[j].at = "route" /\ frame'[j].todo = frame[j].todo
    BY <1>0, <1>4 DEF RoutingEnqueue, Goto, Frames
  <2> QED BY <1>0, <1>4, <2>1 DEF RoutingEnqueue, At, storeVars, ReviewHand
<1>5. CASE RoutingCount(j) \/ RoutingAssert(j) \/ RoutingWrite(j)
  <2>1. Throw(j) \/ frame'[j].at \in {"read", "finalize", "write", "return"}
    BY <1>0, <1>5, GotoFrames
       DEF RoutingCount, RoutingAssert, RoutingWrite, AssertRunTransition, WriteRunStatus, Labels
  <2> QED BY <1>a, <2>1, ReviewHandFree
<1> QED BY <1>1, <1>2, <1>3, <1>4, <1>5

LEMMA StrixReviewHand ==
  ASSUME FixTyping, ReviewsApart, NEW j \in Jobs, StrixMission(j) \/ StrixPersist(j) \/ StrixCount(j)
  PROVE  ReviewHand(j)'
<1>0. frame \in [Jobs -> Frames] /\ frame[j] \in Frames
  BY DEF FixTyping, Typing, PipelineTypeOK, TypeOK
<1>1. CASE StrixMission(j)
  <2>1. CASE Throw(j)
    BY <1>0, <2>1, ReviewHandFree DEF Throw, IdleFrame
  <2>2. ASSUME NEW verdict \in Verdicts,
               Judges(verdict) => CanTransitionFinding(findingStatus[j.finding], verdict),
               frame' = [frame EXCEPT ![j].at = "write_finding", ![j].decided = verdict]
        PROVE  ReviewHand(j)'
    <3>1. frame'[j].at = "write_finding" /\ frame'[j].decided = verdict
      BY <1>0, <2>2 DEF Frames
    <3> QED BY <1>1, <2>2, <3>1 DEF StrixMission, storeVars, ReviewHand
  <2> QED BY <1>1, <2>1, <2>2 DEF StrixMission
<1>2. CASE StrixPersist(j) \/ StrixCount(j)
  <2>1. frame'[j].at \in {"count", "finalize", "return"}
    BY <1>0, <1>2, GotoFrames DEF StrixPersist, StrixCount, Labels
  <2> QED BY <2>1, ReviewHandFree
<1> QED BY <1>1, <1>2

\* Of the other handlers, none ends at a place of a routing or a mission.
LEMMA WorkReviewHand ==
  ASSUME FixTyping, ReviewsApart, NEW j \in Jobs, Work(j)
  PROVE  ReviewHand(j)'
<1>0. /\ frame \in [Jobs -> Frames] /\ frame[j] \in Frames /\ PlaceOK(j)
  BY DEF FixTyping, Typing, PipelineTypeOK, TypeOK, PlacesOK
<1> USE DEF Goto, Throw, IdleFrame, At, Frames
<1>1. CASE PickUp(j) \/ Return(j)
  BY <1>0, <1>1, ReviewHandFree DEF PickUp, Return
<1>2. CASE PrepareAssert(j) \/ PrepareWrite(j) \/ PrepareSnapshot(j) \/ PrepareEnqueue(j)
  BY <1>0, <1>2, ReviewHandFree DEF PrepareAssert, PrepareWrite, PrepareSnapshot, PrepareEnqueue,
              PlaceOK, PlaceFits
<1>3. CASE ClassifyCreate(j) \/ ClassifyAssert(j) \/ ClassifyWrite(j) \/ ClassifyEnqueue(j)
  BY <1>0, <1>3, ReviewHandFree DEF ClassifyCreate, ClassifyAssert, ClassifyWrite, ClassifyEnqueue
<1>4. CASE \/ DeepSecLookup(j) \/ DeepSecPersist(j)
           \/ DeepSecAssert(j) \/ DeepSecWrite(j) \/ DeepSecEnqueue(j)
  BY <1>0, <1>4, ReviewHandFree DEF DeepSecLookup, DeepSecPersist, DeepSecAssert, DeepSecWrite,
              DeepSecEnqueue, PlaceOK, PlaceFits
<1>5. CASE \/ FinalizeDecide(j) \/ FinalizeAssert(j) \/ FinalizeWrite(j)
           \/ FinalizeReceipt(j) \/ FinalizeAnnounce(j)
  BY <1>0, <1>5, ReviewHandFree DEF FinalizeDecide, FinalizeAssert, FinalizeWrite, FinalizeReceipt,
              FinalizeAnnounce, AssertRunTransition, WriteRunStatus
<1>6. CASE ReceiptGather(j) \/ ReceiptStore(j)
  BY <1>0, <1>6, ReviewHandFree DEF ReceiptGather, ReceiptStore
<1> QED BY <1>1, <1>2, <1>3, <1>4, <1>5, <1>6, WorkActions, RoutingReviewHand, StrixReviewHand

\* A routing and a mission are of a run that is no verification, and the
\* findings they are about are the run's.
LEMMA ReviewersRuns ==
  ASSUME FixTyping, QueueShape, ReviewsApart, NEW k \in Jobs, jobState[k] # "none"
  PROVE  /\ k.type \in {"apply_routing_policy", "run_strix_validation"} => k.run \in Runs \ FixRuns
         /\ k.type = "apply_routing_policy" /\ frame[k].at = "write_finding" =>
              frame[k].finding \in linked[k.run] /\ findingStatus[frame[k].finding] = "source_confirmed"
         /\ k.type = "run_strix_validation" => k.finding \in linked[k.run] /\ k.finding \in Findings
<1>1. JobFits(k) /\ ReviewHand(k) /\ k.run \in Runs
  BY JobFacts DEF QueueShape, ReviewsApart
<1> QED BY <1>1, JobFacts DEF JobFits, ReviewHand, FixStages

\* No mission judges a finding that has not been sent for.
LEMMA NotJudgedYet ==
  ASSUME NEW verdict \in Verdicts
  PROVE  ~CanTransitionFinding("source_confirmed", verdict)
BY DEF Verdicts, CanTransitionFinding, FindingEdges

\* Two routings, two missions, or one of each never hold the same finding.
LEMMA WorkOthersReviewHand ==
  ASSUME FixTyping, QueueShape, ReviewsApart, NEW j \in Jobs, Work(j), Local(j),
         NEW k \in Jobs \ {j}
  PROVE  ReviewHand(k)'
<1>0. /\ ReviewHand(k) /\ frame'[k] = frame[k] /\ linked[k.run] \subseteq linked'[k.run]
      /\ jobState[j] # "none" /\ j.run \in Runs /\ k.run \in Runs
      /\ linked[k.run] \subseteq Findings
  BY JobFacts DEF ReviewsApart, Local, Grows, FixTyping, Typing, PipelineTypeOK, TypeOK
<1>1. ReviewMoves(j)
  BY WorkReviewMoves
<1>2. frame[k].at # "idle" => jobState[k] # "none"
  BY DEF QueueShape, PlacesLive, LiveFrame
<1>3. \A f \in linked[k.run] : Exists(f)
  BY <1>0 DEF ReviewsApart
<1>4. ASSUME NEW f \in linked[k.run], f \in linked[j.run], j.run \notin FixRuns, k.run \notin FixRuns
      PROVE  j.run = k.run
  BY <1>0, <1>4 DEF ReviewsApart
<1>5. ASSUME k.type = "apply_routing_policy", frame[k].at # "idle",
             NEW f \in linked[k.run], findingStatus[f] = "source_confirmed"
      PROVE  findingStatus'[f] = findingStatus[f]
  <2>0. k.run \notin FixRuns /\ f \in Findings
    BY <1>0, <1>2, <1>5, ReviewersRuns
  <2>1. CASE /\ j.type = "apply_routing_policy" /\ frame[j].at = "write_finding" /\ f = frame[j].finding
    <3>1. j.run = k.run
      BY <1>0, <1>4, <2>0, <2>1, ReviewersRuns
    <3> QED BY <1>5, <2>1, <3>1, JobIdentity DEF StageTypes
  <2>2. ~(frame[j].decided \in Conclusive /\ CanTransitionFinding(findingStatus[f], frame[j].decided))
    BY <1>5, NotJudgedYet DEF Conclusive
  <2> QED BY <1>1, <1>3, <2>0, <2>1, <2>2 DEF ReviewMoves, Exists
<1>6. ASSUME k.type = "run_strix_validation", frame[k].at = "write_finding", Judges(frame[k].decided)
      PROVE  findingStatus'[k.finding] = findingStatus[k.finding]
  <2>0. k.run \notin FixRuns /\ k.finding \in linked[k.run] /\ k.finding \in Findings
        /\ frame[k].decided \in Verdicts
        /\ CanTransitionFinding(findingStatus[k.finding], frame[k].decided)
    BY <1>0, <1>2, <1>6, ReviewersRuns DEF ReviewHand, FixTyping, Typing, PlacesOK, PlaceOK, PlaceFits
  <2>1. findingStatus[k.finding] # "source_confirmed"
    BY <2>0, NotJudgedYet
  <2>2. CASE j.type = "run_strix_validation" /\ k.finding = j.finding
    <3>1. j.run = k.run
      BY <1>0, <1>4, <2>0, <2>2, ReviewersRuns
    <3> QED BY <1>6, <2>2, <3>1, JobIdentity
  <2> QED BY <1>1, <1>3, <2>0, <2>1, <2>2 DEF ReviewMoves, Exists
<1> QED BY <1>0, <1>5, <1>6, ReviewHandStays

-----------------------------------------------------------------------------
(* The pipeline beside the repair of a finding.                            *)

\* A live verification is of a finding that a fix is on record for.
LEMMA VerifiedFinding ==
  ASSUME FixTyping, QueueShape, Repaired, NEW r \in FixRuns, LiveRun(r)
  PROVE  /\ r \in Runs /\ verifies[r] \in Findings /\ verifies[r] \in linked[r]
         /\ Head[r] = remediation[verifies[r]].fix
         /\ Fixing(verifies[r])
<1>1. r \in Runs /\ verifies[r] \in Findings
  BY RunsAssumption DEF LiveRun, FixTyping, VerifiesKnown
<1>2. verifies[r] \in linked[r]
  BY <1>1, NoFindingAssumption DEF QueueShape, RunFits
<1>3. Head[r] = remediation[verifies[r]].fix
  BY DEF Repaired, Verified
<1> QED BY <1>1, <1>2, <1>3, FixRunsAssumption, FixesAssumption DEF Fixing

\* The finding of a verification's handler is under repair.
LEMMA HandlersFinding ==
  ASSUME FixTyping, QueueShape, Repaired, NEW k \in Jobs, k.type \in VerificationTypes,
         jobState[k] \in {"waiting", "active"}
  PROVE  /\ k.run \in FixRuns /\ k.run \in Runs /\ LiveRun(k.run)
         /\ k.finding \in Findings /\ k.finding = verifies[k.run] /\ Fixing(k.finding)
<1>1. k.run \in FixRuns /\ k.run \in Runs /\ k.finding \in Findings /\ k.finding = verifies[k.run]
  BY JobsFinding
<1>2. LiveRun(k.run)
  BY DEF LiveRun, JobsOf
<1> QED BY <1>1, <1>2, VerifiedFinding

\* What the steps of the pipeline never do to a finding under repair.
BesidesRepair ==
  /\ UNCHANGED <<remediation, verifies, submitting, verifying>>
  /\ \A f \in Findings : Fixing(f) =>
       findingStatus'[f] = findingStatus[f] /\ (RuntimeConfirmed(f)' <=> RuntimeConfirmed(f))
  /\ \A f \in Findings :
       /\ findingStatus'[f] \in FixStatuses => findingStatus'[f] = findingStatus[f]
       /\ Exists(f) => Exists(f)'
  /\ \A r \in Runs : LiveRun(r)' => LiveRun(r) \/ (r \notin FixRuns /\ linked'[r] = {})
  /\ \A r \in Runs : \A f \in linked'[r] : f \in linked[r] \/ ~Exists(f)
  /\ \A r \in FixRuns : runStatus[r] = "absent" => runStatus'[r] = "absent"
  /\ \A r \in Runs : recorded[r] \subseteq recorded'[r]
  /\ validations \subseteq validations'

LEMMA WorkBesides ==
  ASSUME FixTyping, QueueShape, ReviewsApart, Repaired, NEW j \in Jobs, Work(j), Local(j),
         UNCHANGED <<remediation, verifies, submitting, verifying>>
  PROVE  BesidesRepair
<1>0. /\ jobState[j] # "none" /\ j.run \in Runs /\ LiveRun(j.run)
      /\ ReviewMoves(j) /\ Grows
  BY JobFacts, LocalLive, WorkReviewMoves DEF Local
<1>1. \A f \in Findings : Fixing(f) => Exists(f) /\ \A r \in Runs \ FixRuns : f \in linked[r] => ~LiveRun(r)
  BY DEF Repaired, FindingFixed
<1>2. ASSUME NEW f \in Findings, Fixing(f) PROVE findingStatus'[f] = findingStatus[f]
  BY <1>0, <1>1, <1>2, ReviewersRuns DEF ReviewMoves
<1>3. ASSUME NEW f \in Findings, Fixing(f) PROVE RuntimeConfirmed(f)' <=> RuntimeConfirmed(f)
  <2>1. CASE UNCHANGED validations
    BY <2>1 DEF RuntimeConfirmed
  <2>2. CASE StrixPersist(j)
    <3>1. j.finding # f
      BY <1>0, <1>1, <1>3, <2>2, ReviewersRuns DEF StrixPersist
    <3>2. validations' = validations \cup
            {[finding |-> j.finding, run |-> j.run, verdict |-> frame[j].decided, attempt |-> attempts[j]]}
      BY <2>2 DEF StrixPersist
    <3> QED BY <3>1, <3>2 DEF RuntimeConfirmed
  <2> QED BY <2>1, <2>2, Writers DEF FixTyping
<1>4. \A f \in Findings : /\ findingStatus'[f] \in FixStatuses => findingStatus'[f] = findingStatus[f]
                          /\ Exists(f) => Exists(f)'
  BY <1>0 DEF ReviewMoves, FixStatuses, Conclusive, Verdicts, Exists
<1>5. \A r \in Runs : /\ LiveRun(r)' => LiveRun(r)
                      /\ \A f \in linked'[r] : f \in linked[r] \/ ~Exists(f)
  BY LocalLive DEF Local
<1>6. \A r \in FixRuns : runStatus[r] = "absent" => runStatus'[r] = "absent"
  BY <1>0, RunsAssumption DEF Local, QueueShape, JobFits
<1> QED BY <1>0, <1>2, <1>3, <1>4, <1>5, <1>6 DEF BesidesRepair, Grows

\* Then who is at work on what stays as it was, and a fix stays vouched for.
LEMMA BesidesKeeps ==
  ASSUME FixTyping, QueueShape, ReviewsApart, Repaired, FixedIsVouchedFor, BesidesRepair
  PROVE  /\ \A f \in Findings : FindingFixed(f)'
         /\ \A r \in Runs : Called(r)'
         /\ \A r \in FixRuns : Verified(r)'
         /\ FixedIsVouchedFor'
<1>0. \A f \in Findings : Fixing(f) => Exists(f) /\ (Fixing(f)' <=> Fixing(f)) /\ Fixing(f)'
  BY DEF Repaired, FindingFixed, BesidesRepair, Fixing
<1>1. ASSUME NEW f \in Findings, Exists(f), AtRest(f) PROVE AtRest(f)'
  BY <1>1 DEF AtRest, BesidesRepair
<1>2. ASSUME NEW f \in Findings PROVE FindingFixed(f)'
  <2>1. FindingFixed(f) /\ (Fixing(f)' <=> Fixing(f))
    BY DEF Repaired, BesidesRepair, Fixing
  <2>2. submitting'[f] # "none" =>
          findingStatus'[f] \in HopToFixPendingFrom \cup {"fix_pending"} /\ AtRest(f)'
    BY <1>0, <1>1, <2>1 DEF FindingFixed, BesidesRepair, Fixing
  <2>3. findingStatus'[f] \in FixStatuses => remediation'[f].fix # "none"
    BY <2>1 DEF FindingFixed, BesidesRepair
  <2>4. Fixing(f)' => Exists(f)' /\ \A r \in Runs \ FixRuns : f \in linked'[r] => ~LiveRun(r)'
    BY <1>0, <2>1 DEF FindingFixed, BesidesRepair
  <2>5. /\ remediation'[f].fix = "none" => remediation'[f].runtime = "not_applicable"
        /\ remediation'[f].fix # "none" => (remediation'[f].runtime # "not_applicable" <=> RuntimeConfirmed(f)')
    BY <2>1 DEF FindingFixed, BesidesRepair, Fixing
  <2> QED BY <2>2, <2>3, <2>4, <2>5 DEF FindingFixed
<1>3. ASSUME NEW r \in Runs PROVE Called(r)'
  <2> SUFFICES ASSUME verifying[r] # NoFinding PROVE Called(r)'
    BY DEF Called, BesidesRepair
  <2> DEFINE f == verifying[r]
  <2>1. /\ r \in FixRuns /\ runStatus[r] = "absent" /\ f \in Findings
        /\ findingStatus[f] = "fix_submitted" /\ Head[r] = remediation[f].fix /\ AtRest(f)
    BY DEF Repaired, Called, FixTyping
  <2>2. Fixing(f) /\ Exists(f)
    BY <1>0, <2>1, FixRunsAssumption, FixesAssumption DEF Fixing
  <2> QED BY <1>1, <2>1, <2>2 DEF Called, BesidesRepair
<1>4. ASSUME NEW r \in FixRuns PROVE Verified(r)'
  <2> SUFFICES ASSUME LiveRun(r)' PROVE Verified(r)'
    BY DEF Verified
  <2>1. \A s \in FixRuns : LiveRun(s)' => LiveRun(s)
    BY RunsAssumption DEF BesidesRepair
  <2>2. Verified(r) /\ LiveRun(r) /\ verifies[r] \in Findings /\ Fixing(verifies[r])
    BY <2>1, VerifiedFinding DEF Repaired
  <2> QED BY <2>1, <2>2, RunsAssumption DEF Verified, BesidesRepair
<1>5. FixedIsVouchedFor'
  <2> SUFFICES ASSUME NEW f \in Findings, findingStatus'[f] = "verified_fixed"
               PROVE  \E r \in FixRuns : VouchedBy(f, r)'
    BY DEF FixedIsVouchedFor
  <2>1. findingStatus[f] = "verified_fixed"
    BY DEF BesidesRepair, FixStatuses
  <2>2. Fixing(f)
    BY <2>1 DEF Repaired, FindingFixed, FixStatuses, Fixing
  <2>3. PICK r \in FixRuns : VouchedBy(f, r)
    BY <2>1 DEF FixedIsVouchedFor
  <2> QED BY <2>2, <2>3 DEF VouchedBy, BesidesRepair
<1> QED BY <1>2, <1>3, <1>4, <1>5

\* Places at which a verification's handler holds what it has read.
Holding == Revalidating \cup {"replayed"}

\* What the handler of k holds stays good while its finding, and what is on
\* record about it, do.
LEMMA FixHandHeld ==
  ASSUME FixTyping, NEW k \in Jobs, FixHand(k), frame'[k] = frame[k],
         k.type \in VerificationTypes => jobState'[k] = jobState[k],
         k.type \in VerificationTypes /\ frame[k].at \in Holding =>
           /\ held'[k] = held[k]
           /\ remediation'[k.finding] = remediation[k.finding]
           /\ findingStatus'[k.finding] = findingStatus[k.finding],
         k.type = "run_deepsec_revalidation" /\ frame[k].at \in Revalidating =>
           LET replay == FindingJob("run_strix_retest", k.run, k.finding)
           IN  jobState'[replay] = jobState[replay],
         recorded[k.run] \subseteq recorded'[k.run], validations \subseteq validations',
         k.type = "prepare_repository" /\ k.run \in FixRuns /\ frame[k].at = "write" =>
           recorded'[k.run] \subseteq {"cancelled"}
  PROVE  FixHand(k)'
<1> USE DEF Holding
<1>1. PrepareHand(k)'
  BY DEF FixHand, PrepareHand
<1>2. RevalidationHand(k)'
  BY DEF FixHand, RevalidationHand, VerificationTypes, Revalidating, CompletionPlaces
<1>3. RetestHand(k)'
  BY DEF FixHand, RetestHand, VerificationTypes, Revalidating, RuntimeConfirmed, CompletionPlaces
<1>4. CompletionHand(k)'
  BY FixPlaceTypes DEF FixHand, CompletionHand, Revalidating, CompletionPlaces
<1> QED BY <1>1, <1>2, <1>3, <1>4 DEF FixHand

LEMMA FixHandStays ==
  ASSUME FixTyping, NEW k \in Jobs, FixHand(k), frame'[k] = frame[k],
         k.type \in VerificationTypes => jobState'[k] = jobState[k],
         k.type \in VerificationTypes /\ frame[k].at # "idle" =>
           /\ held'[k] = held[k]
           /\ remediation'[k.finding] = remediation[k.finding]
           /\ findingStatus'[k.finding] = findingStatus[k.finding],
         k.type = "run_deepsec_revalidation" /\ frame[k].at \in Revalidating =>
           LET replay == FindingJob("run_strix_retest", k.run, k.finding)
           IN  jobState'[replay] = jobState[replay],
         recorded[k.run] \subseteq recorded'[k.run], validations \subseteq validations',
         k.type = "prepare_repository" /\ k.run \in FixRuns /\ frame[k].at = "write" =>
           recorded'[k.run] \subseteq {"cancelled"}
  PROVE  FixHand(k)'
<1>1. frame[k].at \in Holding => frame[k].at # "idle"
  BY DEF Holding, Revalidating, CompletionPlaces
<1> QED BY <1>1, FixHandHeld

\* The steps of the pipeline that a verification's own jobs take.
LEMMA PrepareWork ==
  ASSUME FixTyping, NEW j \in Jobs, Work(j), j.type = "prepare_repository"
  PROVE  \/ PickUp(j) \/ Return(j)
         \/ PrepareAssert(j) \/ PrepareWrite(j) \/ PrepareSnapshot(j) \/ PrepareEnqueue(j)
<1>1. /\ frame[j].at \notin FinalPlaces \cup {"persist", "route", "count", "store"}
  BY DEF FixTyping, FixPlacesOK, FixPlaceFits, FixFinalizers, VerificationTypes,
         Typing, PlacesOK, PlaceOK, PlaceFits
<1>2. ~(ClassifyCreate(j) \/ ClassifyAssert(j) \/ ClassifyWrite(j) \/ ClassifyEnqueue(j))
  BY DEF ClassifyCreate, ClassifyAssert, ClassifyWrite, ClassifyEnqueue
<1>3. ~(\/ DeepSecLookup(j) \/ DeepSecPersist(j)
        \/ DeepSecAssert(j) \/ DeepSecWrite(j) \/ DeepSecEnqueue(j))
  BY <1>1 DEF DeepSecLookup, DeepSecPersist, DeepSecAssert, DeepSecWrite, DeepSecEnqueue, At
<1>4. ~(\/ RoutingBegin(j) \/ RoutingDecide(j) \/ RoutingEscalate(j) \/ RoutingEnqueue(j)
        \/ RoutingCount(j) \/ RoutingAssert(j) \/ RoutingWrite(j))
  BY <1>1 DEF RoutingBegin, RoutingDecide, RoutingEscalate, RoutingEnqueue, RoutingCount,
              RoutingAssert, RoutingWrite, At
<1>5. ~(StrixMission(j) \/ StrixPersist(j) \/ StrixCount(j) \/ ReceiptGather(j) \/ ReceiptStore(j))
  BY <1>1 DEF StrixMission, StrixPersist, StrixCount, ReceiptGather, ReceiptStore, At
<1>6. ~(\/ FinalizeDecide(j) \/ FinalizeAssert(j) \/ FinalizeWrite(j)
        \/ FinalizeReceipt(j) \/ FinalizeAnnounce(j))
  BY <1>1 DEF FinalizeDecide, FinalizeAssert, FinalizeWrite, FinalizeReceipt, FinalizeAnnounce,
              FinalPlaces, At
<1> QED BY <1>2, <1>3, <1>4, <1>5, <1>6, WorkActions

LEMMA VerificationWork ==
  ASSUME FixTyping, NEW j \in Jobs, Work(j), j.type \in VerificationTypes
  PROVE  \/ PickUp(j) \/ Return(j)
         \/ j.type = "run_deepsec_revalidation" /\ DeepSecPersist(j)
         \/ FinalizeDecide(j) \/ FinalizeAssert(j) \/ FinalizeWrite(j)
         \/ FinalizeReceipt(j) \/ FinalizeAnnounce(j)
<1> USE DEF VerificationTypes
<1>1. /\ frame[j].at \notin {"snapshot", "route", "count", "store"}
      /\ frame[j].at = "persist" => j.type = "run_deepsec_revalidation"
  BY DEF FixTyping, Typing, PlacesOK, PlaceOK, PlaceFits
<1>2. ~(\/ ClassifyCreate(j) \/ ClassifyAssert(j) \/ ClassifyWrite(j) \/ ClassifyEnqueue(j)
        \/ PrepareAssert(j) \/ PrepareWrite(j) \/ PrepareSnapshot(j) \/ PrepareEnqueue(j))
  BY <1>1 DEF ClassifyCreate, ClassifyAssert, ClassifyWrite, ClassifyEnqueue,
              PrepareAssert, PrepareWrite, PrepareSnapshot, PrepareEnqueue, At
<1>3. /\ ~(DeepSecLookup(j) \/ DeepSecAssert(j) \/ DeepSecWrite(j) \/ DeepSecEnqueue(j))
      /\ DeepSecPersist(j) => j.type = "run_deepsec_revalidation"
  BY <1>1 DEF DeepSecLookup, DeepSecPersist, DeepSecAssert, DeepSecWrite, DeepSecEnqueue, At
<1>4. ~(\/ RoutingBegin(j) \/ RoutingDecide(j) \/ RoutingEscalate(j) \/ RoutingEnqueue(j)
        \/ RoutingCount(j) \/ RoutingAssert(j) \/ RoutingWrite(j))
  BY <1>1 DEF RoutingBegin, RoutingDecide, RoutingEscalate, RoutingEnqueue, RoutingCount,
              RoutingAssert, RoutingWrite, At
<1>5. ~(StrixMission(j) \/ StrixPersist(j) \/ StrixCount(j) \/ ReceiptGather(j) \/ ReceiptStore(j))
  BY <1>1 DEF StrixMission, StrixPersist, StrixCount, ReceiptGather, ReceiptStore, At
<1> QED BY <1>2, <1>3, <1>4, <1>5, WorkActions

\* The statuses of a verification run that a step of the pipeline writes.
LEMMA WorkTrail ==
  ASSUME FixTyping, QueueShape, Repaired, NEW j \in Jobs, Work(j), NEW r \in FixRuns
  PROVE  Trail(r)'
<1>0. Trail(r) /\ r \in Runs /\ j.run \in Runs
  BY JobFacts, RunsAssumption DEF Repaired
<1> USE DEF FixTyping, Typing, PipelineTypeOK, TypeOK
<1>1. CASE UNCHANGED <<runStatus, recorded>>
  BY <1>0, <1>1 DEF Trail
<1>2. CASE PrepareWrite(j)
  <2>1. j.run = r => recorded[r] \subseteq {"cancelled"}
    BY <1>2 DEF PrepareWrite, At, Repaired, FixHand, PrepareHand
  <2> QED BY <1>0, <1>2, <2>1 DEF PrepareWrite, WriteRunStatus, Trail
<1>3. CASE ClassifyWrite(j) \/ DeepSecWrite(j) \/ RoutingWrite(j)
  BY <1>0, <1>3 DEF ClassifyWrite, DeepSecWrite, RoutingWrite, WriteRunStatus, Trail
<1>4. CASE FinalizeWrite(j)
  <2>1. frame[j].decided \in Dispositions
    BY <1>4 DEF FinalizeWrite, At, PlacesOK, PlaceOK, PlaceFits
  <2> QED BY <1>0, <1>4, <2>1 DEF FinalizeWrite, WriteRunStatus, Trail, Dispositions
<1> QED BY <1>1, <1>2, <1>3, <1>4, Writers
\* A step of the pipeline or a fault leaves what the other handlers of
\* verifications hold.
LEMMA OthersFixHand ==
  ASSUME FixTyping, QueueShape, Repaired, BesidesRepair, HeldByActive, NEW j \in Jobs, Local(j),
         NEW k \in Jobs \ {j},
         \A i \in Jobs \ {j} : i.type \in VerificationTypes => jobState'[i] = jobState[i],
         k.type = "prepare_repository" /\ k.run \in FixRuns /\ frame[k].at = "write" =>
           recorded'[k.run] \subseteq {"cancelled"}
  PROVE  FixHand(k)'
<1>0. /\ FixHand(k) /\ frame'[k] = frame[k] /\ k.run \in Runs /\ jobState[j] # "none"
      /\ recorded[k.run] \subseteq recorded'[k.run] /\ validations \subseteq validations'
  BY JobFacts DEF Repaired, Local, BesidesRepair
<1>1. ASSUME k.type \in VerificationTypes, frame[k].at # "idle"
      PROVE  /\ held'[k] = held[k]
             /\ remediation'[k.finding] = remediation[k.finding]
             /\ findingStatus'[k.finding] = findingStatus[k.finding]
  <2>1. jobState[k] = "active" /\ jobState'[k] = "active"
    BY <1>1 DEF QueueShape, PlacesLive, LiveFrame
  <2>2. k.finding \in Findings /\ Fixing(k.finding)
    BY <1>1, <2>1, HandlersFinding
  <2> QED BY <2>1, <2>2 DEF HeldByActive, BesidesRepair
<1>2. ASSUME k.type = "run_deepsec_revalidation", frame[k].at \in Revalidating
      PROVE  LET replay == FindingJob("run_strix_retest", k.run, k.finding)
             IN  jobState'[replay] = jobState[replay]
  <2> DEFINE replay == FindingJob("run_strix_retest", k.run, k.finding)
  <2>1. replay \in Jobs /\ replay.type \in VerificationTypes
    BY <1>0, <1>2, FindingJobs DEF FindingJob, VerificationTypes, FindingTypes
  <2>2. jobState[replay] = "none"
    BY <1>0, <1>2 DEF FixHand, RevalidationHand
  <2> QED BY <1>0, <2>1, <2>2
<1> QED BY <1>0, <1>1, <1>2, FixHandStays

\* Which runs' audit events a step of the pipeline adds to, beside a
\* verification that is still being prepared.
LEMMA WorkOthersRecords ==
  ASSUME FixTyping, QueueShape, Repaired, NEW j \in Jobs, Work(j), NEW k \in Jobs \ {j},
         k.type = "prepare_repository", k.run \in FixRuns, frame[k].at = "write"
  PROVE  recorded'[k.run] \subseteq {"cancelled"}
<1>0. /\ recorded[k.run] \subseteq {"cancelled"} /\ k.run \in Runs /\ j.run \in Runs
      /\ JobFits(j) /\ FixHand(j)
  BY JobFacts DEF Repaired, FixHand, PrepareHand, QueueShape
<1> USE DEF FixTyping, Typing, PipelineTypeOK, TypeOK
<1>1. CASE UNCHANGED recorded
  BY <1>0, <1>1
<1>2. CASE k.run # j.run
  BY <1>0, <1>2, Writers DEF PrepareWrite, ClassifyWrite, DeepSecWrite, RoutingWrite, FinalizeWrite,
                             WriteRunStatus
<1>3. CASE k.run = j.run /\ PrepareWrite(j)
  BY <1>3, JobIdentity DEF PrepareWrite, StageTypes
<1>4. CASE k.run = j.run /\ (ClassifyWrite(j) \/ DeepSecWrite(j) \/ RoutingWrite(j))
  BY <1>0, <1>4 DEF ClassifyWrite, DeepSecWrite, RoutingWrite, At, JobFits, FixStages
<1>5. CASE k.run = j.run /\ FinalizeWrite(j)
  <2>1. jobState[j] # "none" /\ j.type \in FixFinalizers
    BY <1>5 DEF FinalizeWrite, At, FixPlacesOK, FixPlaceFits, FinalPlaces
  <2>2. j.type \in VerificationTypes
    BY <1>0, <1>5, <2>1 DEF JobFits, FixStages, FixFinalizers
  <2> QED BY <1>0, <1>5, <2>1, <2>2 DEF FixHand, RevalidationHand, RetestHand, VerificationTypes
<1> QED BY <1>1, <1>2, <1>3, <1>4, <1>5, Writers

\* What the handler in hand holds after a step of the pipeline.
LEMMA WorkPrepareHand ==
  ASSUME FixTyping, QueueShape, Repaired, NEW j \in Jobs, Work(j)
  PROVE  PrepareHand(j)'
<1> SUFFICES ASSUME j.type = "prepare_repository", j.run \in FixRuns PROVE PrepareHand(j)'
  BY DEF PrepareHand
<1>0. /\ frame \in [Jobs -> Frames] /\ frame[j] \in Frames
      /\ PrepareHand(j) /\ Trail(j.run) /\ j.run \in Runs
      /\ recorded \in [Runs -> SUBSET RunStatuses]
  BY JobFacts DEF FixTyping, Typing, PipelineTypeOK, TypeOK, Repaired, FixHand
<1>a. CASE frame'[j].at \notin {"write", "snapshot", "enqueue"}
  BY <1>a DEF PrepareHand
<1>1. CASE PickUp(j) \/ Return(j)
  BY <1>0, <1>a, <1>1, GotoFrames DEF PickUp, Return, IdleFrame, Labels
<1>2. CASE PrepareAssert(j)
  <2>1. CASE Throw(j)
    BY <1>0, <1>a, <2>1 DEF Throw, IdleFrame
  <2>2. CASE CanTransitionRun(runStatus[j.run], "classifying") /\ Goto(j, "write")
    <3>1. runStatus[j.run] = "queued"
      BY <2>2 DEF CanTransitionRun, RunEdges
    <3>2. recorded'[j.run] = {}
      BY <1>0, <1>2, <3>1 DEF PrepareAssert, AssertRunTransition, storeVars, Trail
    <3>3. frame'[j].at = "write"
      BY <1>0, <2>2, GotoFrames DEF Labels
    <3> QED BY <3>2, <3>3 DEF PrepareHand
  <2> QED BY <1>2, <2>1, <2>2 DEF PrepareAssert, AssertRunTransition
<1>3. CASE PrepareWrite(j)
  BY <1>0, <1>3 DEF PrepareWrite, WriteRunStatus, Goto, PrepareHand, Frames
<1>4. CASE PrepareSnapshot(j)
  BY <1>0, <1>4 DEF PrepareSnapshot, At, Goto, PrepareHand, Frames
<1>5. CASE PrepareEnqueue(j)
  BY <1>5 DEF PrepareEnqueue
<1> QED BY <1>1, <1>2, <1>3, <1>4, <1>5, PrepareWork
LEMMA WorkFixHand ==
  ASSUME FixTyping, QueueShape, Repaired, BesidesRepair, HeldByActive, NEW j \in Jobs, Work(j), Local(j)
  PROVE  FixHand(j)'
<1>0. /\ frame \in [Jobs -> Frames] /\ frame[j] \in Frames
      /\ FixHand(j) /\ j.run \in Runs /\ jobState[j] \in {"waiting", "active"}
      /\ recorded[j.run] \subseteq recorded'[j.run] /\ validations \subseteq validations'
  BY JobFacts DEF FixTyping, Typing, PipelineTypeOK, TypeOK, Repaired, Local, BesidesRepair
<1>1. frame'[j].at \notin OwnPlaces
  BY WorkPlaces DEF FixTyping
<1>2. PrepareHand(j)'
  BY WorkPrepareHand
<1>3. RevalidationHand(j)'
  <2> SUFFICES ASSUME j.type = "run_deepsec_revalidation" PROVE RevalidationHand(j)'
    BY DEF RevalidationHand
  <2>1. "classifying" \in recorded'[j.run]
    BY <1>0 DEF FixHand, RevalidationHand
  <2>2. CASE frame'[j].at \notin Revalidating
    BY <2>1, <2>2 DEF RevalidationHand, Revalidating, CompletionPlaces
  <2>3. CASE frame'[j].at \in Revalidating
    <3>1. CASE PickUp(j)
      BY <1>0, <2>3, <3>1, GotoFrames DEF PickUp, Labels, Revalidating, CompletionPlaces
    <3>2. CASE Throw(j) \/ Return(j)
      BY <1>0, <2>3, <3>2 DEF Throw, Return, IdleFrame, Revalidating, CompletionPlaces
    <3>3. CASE FinalizeDecide(j)
      BY <1>0, <2>3, <3>3 DEF FinalizeDecide, Frames, Revalidating, CompletionPlaces
    <3>4. CASE FinalizeAssert(j) /\ ~Throw(j)
      BY <1>0, <2>3, <3>4, GotoFrames DEF FinalizeAssert, AssertRunTransition, Labels, Revalidating, CompletionPlaces
    <3>5. CASE FinalizeWrite(j) \/ FinalizeReceipt(j) \/ FinalizeAnnounce(j)
      BY <1>0, <2>3, <3>5, GotoFrames DEF FinalizeWrite, FinalizeReceipt, FinalizeAnnounce,
              WriteRunStatus, Labels, Revalidating, CompletionPlaces
    <3>6. CASE DeepSecPersist(j) /\ ~Throw(j)
      <4>1. /\ frame[j].at = "persist" /\ frame'[j].at = "read" /\ jobState[j] = "active" /\ jobState' = jobState
        BY <1>0, <3>6 DEF DeepSecPersist, Reported, At, Frames
      <4>2. /\ findingStatus[j.finding] = "retesting"
            /\ jobState[FindingJob("run_strix_retest", j.run, j.finding)] = "none"
            /\ held[j].runtime = remediation[j.finding].runtime
            /\ "source_review_running" \in recorded[j.run]
        BY <1>0, <4>1 DEF FixHand, RevalidationHand, Revalidating
      <4>3. findingStatus'[j.finding] = findingStatus[j.finding] /\ remediation' = remediation
        BY <1>0, <4>1, HandlersFinding DEF BesidesRepair, VerificationTypes
      <4>4. held'[j] = held[j]
        BY <4>1 DEF HeldByActive
      <4> QED BY <1>0, <2>1, <4>1, <4>2, <4>3, <4>4 DEF RevalidationHand, CompletionPlaces
    <3> QED BY <3>1, <3>2, <3>3, <3>4, <3>5, <3>6, VerificationWork
            DEF VerificationTypes, FinalizeAssert, AssertRunTransition
  <2> QED BY <2>2, <2>3
<1>4. RetestHand(j)'
  BY <1>0, <1>1 DEF FixHand, RetestHand, OwnPlaces, RuntimeConfirmed
<1>5. CompletionHand(j)'
  BY <1>1 DEF CompletionHand, OwnPlaces, CompletionPlaces
<1> QED BY <1>2, <1>3, <1>4, <1>5 DEF FixHand

\* A step of the pipeline beside the repair of findings.
LEMMA WorkKeepsFixes ==
  ASSUME FixTyping, FixInv, NEW j \in Jobs, Work(j), HeldByActive,
         UNCHANGED <<remediation, verifies, submitting, verifying>>
  PROVE  FixInv'
<1>1. Local(j)
  BY WorkLocal DEF FixInv
<1>2. BesidesRepair
  BY <1>1, WorkBesides DEF FixInv
<1>3. QueueShape'
  BY <1>1, LocalShape DEF FixInv
<1>4. ReviewsApart'
  <2>1. \A k \in Jobs : ReviewHand(k)'
    BY <1>1, WorkReviewHand, WorkOthersReviewHand DEF FixInv
  <2> QED BY <1>1, <2>1, LocalLinks DEF FixInv, ReviewsApart
<1>5. \A k \in Jobs : FixHand(k)'
  <2>1. \A i \in Jobs \ {j} : i.type \in VerificationTypes => jobState'[i] = jobState[i]
    BY WorkQueues DEF FixTyping, VerificationTypes, StageJob, StrixJob, FindingJob
  <2>2. \A k \in Jobs \ {j} : FixHand(k)'
    BY <1>1, <1>2, <2>1, OthersFixHand, WorkOthersRecords DEF FixInv
  <2> QED BY <1>1, <1>2, <2>2, WorkFixHand DEF FixInv
<1>6. \A r \in FixRuns : Trail(r)'
  BY WorkTrail DEF FixInv
<1>7. /\ \A f \in Findings : FindingFixed(f)'
      /\ \A r \in Runs : Called(r)'
      /\ \A r \in FixRuns : Verified(r)'
      /\ FixedIsVouchedFor'
  BY <1>2, BesidesKeeps DEF FixInv
<1> QED BY <1>3, <1>4, <1>5, <1>6, <1>7 DEF FixInv, Repaired

LEMMA FaultKeepsFixes ==
  ASSUME FixTyping, FixInv, NEW j \in Jobs, Fault(j), HeldByActive,
         UNCHANGED <<remediation, verifies, submitting, verifying>>
  PROVE  FixInv'
<1>1. /\ Local(j)
      /\ frame'[j].at = "idle" /\ jobState'[j] # "active"
      /\ UNCHANGED storeVars
  BY FaultLocal
<1>2. BesidesRepair
  BY <1>1, LocalLive DEF BesidesRepair, storeVars, Exists, RuntimeConfirmed
<1>3. QueueShape'
  BY <1>1, LocalShape DEF FixInv
<1>4. ReviewsApart'
  <2>1. ReviewHand(j)'
    BY <1>1, ReviewHandFree
  <2>2. ASSUME NEW k \in Jobs \ {j} PROVE ReviewHand(k)'
    BY <1>1, ReviewHandStays DEF FixInv, ReviewsApart, Local, storeVars
  <2> QED BY <1>1, <2>1, <2>2, LocalLinks DEF FixInv, ReviewsApart
<1>5. \A k \in Jobs : FixHand(k)'
  <2>0. jobState[j] # "none" /\ FixHand(j)
    BY <1>1 DEF Local, FixInv, Repaired
  <2>1. FixHand(j)'
    BY <1>1, <2>0 DEF FixHand, PrepareHand, RevalidationHand, RetestHand, CompletionHand,
                      Revalidating, CompletionPlaces, RuntimeConfirmed, storeVars
  <2>2. \A i \in Jobs \ {j} : jobState'[i] = jobState[i]
    BY DEF Fault, Interrupt, Throw, FixTyping, Typing, PipelineTypeOK, TypeOK
  <2>3. ASSUME NEW k \in Jobs \ {j} PROVE FixHand(k)'
    <3>1. k.type = "prepare_repository" /\ k.run \in FixRuns /\ frame[k].at = "write" =>
           recorded'[k.run] \subseteq {"cancelled"}
      BY <1>1 DEF FixInv, Repaired, FixHand, PrepareHand, storeVars
    <3> QED BY <1>1, <1>2, <2>2, <3>1, OthersFixHand DEF FixInv
  <2> QED BY <2>1, <2>3
<1>6. \A r \in FixRuns : Trail(r)'
  BY <1>1 DEF FixInv, Repaired, Trail, storeVars
<1>7. /\ \A f \in Findings : FindingFixed(f)'
      /\ \A r \in Runs : Called(r)'
      /\ \A r \in FixRuns : Verified(r)'
      /\ FixedIsVouchedFor'
  BY <1>2, BesidesKeeps DEF FixInv
<1> QED BY <1>3, <1>4, <1>5, <1>6, <1>7 DEF FixInv, Repaired
\* What the clients of the pipeline do to the queue and the runs.
LEMMA ApiShape ==
  ASSUME FixTyping, QueueShape, NEW r \in Runs, ApiStep(r), UNCHANGED verifies
  PROVE  /\ QueueShape'
         /\ UNCHANGED <<findingStatus, linked, validations, frame>>
         /\ \A k \in Jobs : jobState'[k] = jobState[k] \/ k.type = "prepare_repository"
         /\ \A k \in Jobs : jobState[k] = "active" => jobState'[k] = "active"
         /\ \A s \in Runs : LiveRun(s)' => LiveRun(s) \/ (s \notin FixRuns /\ linked'[s] = {})
         /\ \A s \in FixRuns : runStatus[s] = "absent" => runStatus'[s] = "absent"
         /\ \A s \in Runs : \/ recorded'[s] = recorded[s]
                            \/ runStatus'[s] = "cancelled" /\ recorded'[s] = recorded[s] \cup {"cancelled"}
         /\ \A s \in Runs : runStatus'[s] \in {runStatus[s], "cancelled"} \/ s \notin FixRuns
<1> USE DEF FixTyping, Typing, PipelineTypeOK, TypeOK
<1>0. /\ \A k \in Jobs : JobFits(k) /\ LiveFrame(k) /\ k.run \in Runs
      /\ \A s \in Runs : RunFits(s)
  BY JobFacts DEF QueueShape, PlacesLive
<1>1. CASE CreateReview(r)
  <2>0. r \notin FixRuns /\ runStatus[r] = "absent" /\ linked[r] = {} /\ recorded[r] = {}
    BY <1>0, <1>1 DEF CreateReview, Reviews, RunFits
  <2>1. ASSUME NEW k \in Jobs PROVE JobFits(k)' /\ LiveFrame(k)'
    BY <1>0, <1>1 DEF CreateReview, JobFits, LiveFrame, queueVars
  <2>2. \A k \in JobsOf(r) : jobState[k] = "none"
    BY <1>0, <2>0 DEF JobFits, JobsOf
  <2>3. ASSUME NEW s \in Runs PROVE RunFits(s)'
    <3>1. CASE s = r
      BY <1>0, <1>1, <2>0, <2>2, <3>1 DEF CreateReview, RunFits, queueVars, JobsOf
    <3>2. CASE s # r
      BY <1>0, <1>1, <3>2 DEF CreateReview, RunFits, queueVars, JobsOf
    <3> QED BY <3>1, <3>2
  <2>4. \A s \in Runs : LiveRun(s)' => LiveRun(s) \/ (s \notin FixRuns /\ linked'[s] = {})
    BY <1>1, <2>0 DEF CreateReview, LiveRun, queueVars, JobsOf
  <2> QED BY <1>1, <2>0, <2>1, <2>3, <2>4 DEF CreateReview, QueueShape, PlacesLive, queueVars
<1>2. CASE EnqueuePrepare(r)
  <2> DEFINE first == StageJob("prepare_repository", r)
  <2>0. /\ first \in Jobs /\ first.run = r /\ first.type = "prepare_repository"
        /\ \A k \in Jobs \ {first} : jobState'[k] = jobState[k]
        /\ jobState'[first] \in {jobState[first], "waiting"}
        /\ jobState[first] # "none" => jobState'[first] = jobState[first]
        /\ runStatus[r] # "absent"
    BY <1>0, <1>2, JobFacts DEF EnqueuePrepare, Enqueue, StageJob, StageTypes, RunFits
  <2>1. ASSUME NEW k \in Jobs PROVE JobFits(k)' /\ LiveFrame(k)'
    BY <1>0, <1>2, <2>0 DEF EnqueuePrepare, JobFits, LiveFrame, storeVars, FixStages, VerificationTypes
  <2>3. ASSUME NEW s \in Runs PROVE RunFits(s)'
    <3>1. CASE s = r
      BY <1>0, <1>2, <3>1 DEF EnqueuePrepare, RunFits, storeVars
    <3>2. CASE s # r
      <4>1. \A k \in JobsOf(s) : jobState'[k] = jobState[k]
        BY <2>0, <3>2 DEF JobsOf
      <4> QED BY <1>0, <1>2, <3>2, <4>1 DEF EnqueuePrepare, RunFits, storeVars, JobsOf
    <3> QED BY <3>1, <3>2
  <2>4. \A s \in Runs : LiveRun(s)' => LiveRun(s)
    BY <1>2, <2>0 DEF EnqueuePrepare, LiveRun, JobsOf
  <2> QED BY <1>2, <2>0, <2>1, <2>3, <2>4 DEF EnqueuePrepare, QueueShape, PlacesLive, storeVars
<1>3. CASE CreateInterrupted(r)
  <2>1. ASSUME NEW k \in Jobs PROVE JobFits(k)' /\ LiveFrame(k)'
    BY <1>0, <1>3 DEF CreateInterrupted, JobFits, LiveFrame, storeVars
  <2>2. ASSUME NEW s \in Runs PROVE RunFits(s)' /\ (LiveRun(s)' => LiveRun(s))
    BY <1>0, <1>3 DEF CreateInterrupted, RunFits, storeVars, LiveRun, JobsOf
  <2> QED BY <1>3, <2>1, <2>2 DEF CreateInterrupted, QueueShape, PlacesLive, storeVars
<1>4. CASE CancelAssert(r) \/ CancelWrite(r)
  <2>0. /\ UNCHANGED <<findingStatus, linked, validations, frame, jobState, creating>>
        /\ \A s \in Runs : runStatus'[s] \in {runStatus[s], "cancelled"}
        /\ \A s \in Runs : \/ recorded'[s] = recorded[s]
                           \/ runStatus'[s] = "cancelled" /\ recorded'[s] = recorded[s] \cup {"cancelled"}
        /\ \A s \in Runs : runStatus[s] = "absent" => runStatus'[s] = "absent" /\ recorded'[s] = recorded[s]
    BY <1>0, <1>4 DEF CancelAssert, CancelWrite, storeVars, queueVars, RunFits
  <2>1. ASSUME NEW k \in Jobs PROVE JobFits(k)' /\ LiveFrame(k)'
    BY <1>0, <2>0 DEF JobFits, LiveFrame
  <2>2. \A s \in Runs : s \in cancelling' => runStatus'[s] # "absent"
    <3>1. ~CanTransitionRun("absent", "cancelled")
      BY DEF CanTransitionRun, RunEdges, InProgress
    <3> QED BY <1>0, <1>4, <3>1 DEF CancelAssert, CancelWrite, storeVars, RunFits
  <2>3. ASSUME NEW s \in Runs PROVE RunFits(s)' /\ (LiveRun(s)' => LiveRun(s))
    BY <1>0, <2>0, <2>2 DEF RunFits, LiveRun, JobsOf
  <2> QED BY <2>0, <2>1, <2>3, RunsAssumption DEF QueueShape, PlacesLive
<1>5. CASE FetchGather(r) \/ FetchStore(r)
  <2>0. UNCHANGED <<findingStatus, linked, validations, frame, jobState, creating, cancelling,
                    runStatus, recorded>>
    BY <1>5 DEF FetchGather, FetchStore, storeVars, queueVars
  <2>1. ASSUME NEW k \in Jobs PROVE JobFits(k)' /\ LiveFrame(k)'
    BY <1>0, <2>0 DEF JobFits, LiveFrame
  <2>3. ASSUME NEW s \in Runs PROVE RunFits(s)' /\ (LiveRun(s)' => LiveRun(s))
    BY <1>0, <2>0 DEF RunFits, LiveRun, JobsOf
  <2> QED BY <2>0, <2>1, <2>3 DEF QueueShape, PlacesLive
<1> QED BY <1>1, <1>2, <1>3, <1>4, <1>5 DEF ApiStep

LEMMA ApiKeepsFixes ==
  ASSUME FixTyping, FixInv, NEW r \in Runs, ApiStep(r), HeldByActive,
         UNCHANGED <<remediation, verifies, submitting, verifying>>
  PROVE  FixInv'
<1>1. /\ QueueShape'
      /\ UNCHANGED <<findingStatus, linked, validations, frame>>
      /\ \A k \in Jobs : jobState'[k] = jobState[k] \/ k.type = "prepare_repository"
      /\ \A k \in Jobs : jobState[k] = "active" => jobState'[k] = "active"
      /\ \A s \in Runs : LiveRun(s)' => LiveRun(s) \/ (s \notin FixRuns /\ linked'[s] = {})
      /\ \A s \in FixRuns : runStatus[s] = "absent" => runStatus'[s] = "absent"
      /\ \A s \in Runs : \/ recorded'[s] = recorded[s]
                         \/ runStatus'[s] = "cancelled" /\ recorded'[s] = recorded[s] \cup {"cancelled"}
      /\ \A s \in Runs : runStatus'[s] \in {runStatus[s], "cancelled"} \/ s \notin FixRuns
  BY ApiShape DEF FixInv
<1>2. BesidesRepair
  <2>1. /\ \A s \in Runs : recorded[s] \subseteq recorded'[s]
        /\ validations \subseteq validations'
    BY <1>1
  <2>2. \A f \in Findings : (Exists(f) => Exists(f)') /\ (RuntimeConfirmed(f)' <=> RuntimeConfirmed(f))
    BY <1>1 DEF Exists, RuntimeConfirmed
  <2> QED BY <1>1, <2>1, <2>2 DEF BesidesRepair
<1>3. ReviewsApart'
  BY <1>1 DEF FixInv, ReviewsApart, ReviewHand, Exists
<1>4. ASSUME NEW k \in Jobs PROVE FixHand(k)'
  <2>0. k.run \in Runs /\ FixHand(k) /\ LiveFrame(k)
    BY JobFacts DEF FixInv, Repaired, QueueShape, PlacesLive
  <2>1. k.type \in VerificationTypes => jobState'[k] = jobState[k]
    BY <1>1 DEF VerificationTypes
  <2>2. frame[k].at # "idle" => held'[k] = held[k]
    BY <1>1, <2>0 DEF LiveFrame, HeldByActive
  <2>3. k.type = "run_deepsec_revalidation" =>
           LET replay == FindingJob("run_strix_retest", k.run, k.finding)
           IN  jobState'[replay] = jobState[replay]
    BY <1>1, <2>0, FindingJobs DEF FindingJob, VerificationTypes, FindingTypes
  <2>4. k.type = "prepare_repository" /\ k.run \in FixRuns /\ frame[k].at = "write" =>
           recorded'[k.run] \subseteq {"cancelled"}
    BY <1>1, <2>0 DEF FixHand, PrepareHand
  <2>5. recorded[k.run] \subseteq recorded'[k.run]
    BY <1>1, <2>0
  <2> QED BY <1>1, <2>0, <2>1, <2>2, <2>3, <2>4, <2>5, FixHandStays
<1>5. ASSUME NEW s \in FixRuns PROVE Trail(s)'
  BY <1>1, RunsAssumption DEF FixInv, Repaired, Trail
<1>6. /\ \A f \in Findings : FindingFixed(f)'
      /\ \A s \in Runs : Called(s)'
      /\ \A s \in FixRuns : Verified(s)'
      /\ FixedIsVouchedFor'
  BY <1>2, BesidesKeeps DEF FixInv
<1> QED BY <1>1, <1>3, <1>4, <1>5, <1>6 DEF FixInv, Repaired

LEMMA ReviewKeepsFixes ==
  ASSUME FixTyping, FixInv, ReviewStep
  PROVE  FixInv'
BY WorkKeepsFixes, FaultKeepsFixes, ApiKeepsFixes DEF ReviewStep, Next
-----------------------------------------------------------------------------
(* The calls of clients who let the jobs about a finding end first.        *)

\* Then no run is at work on the finding: one whose first job is still to be
\* queued would have it at retesting.
LEMMA CallsAtRest ==
  ASSUME Awaited = Runs, FixTyping, FixInv, NEW f \in Findings, MayCall(f), findingStatus[f] # "retesting"
  PROVE  AtRest(f)
<1> SUFFICES ASSUME NEW r \in Runs, f \in linked[r], LiveRun(r) PROVE FALSE
  BY DEF AtRest
<1>1. r \in creating
  BY DEF MayCall, LiveRun, JobsOf
<1>2. linked[r] = (IF r \in FixRuns THEN {verifies[r]} ELSE {}) /\ recorded[r] \subseteq {"cancelled"}
  BY <1>1 DEF FixInv, QueueShape, RunFits
<1>3. r \in FixRuns /\ f = verifies[r]
  BY <1>2
<1> QED BY <1>2, <1>3 DEF FixInv, Repaired, Verified

\* What is written about a finding at rest concerns no handler.
LEMMA RestKeepsHands ==
  ASSUME FixTyping, FixInv, NEW f \in Findings, AtRest(f),
         UNCHANGED <<queueVars, recorded, validations, held>>,
         \A r \in Runs : linked[r] \subseteq linked'[r],
         \A g \in Findings \ {f} :
           remediation'[g] = remediation[g] /\ findingStatus'[g] = findingStatus[g]
  PROVE  \A k \in Jobs : FixHand(k)' /\ ReviewHand(k)'
<1> SUFFICES ASSUME NEW k \in Jobs PROVE FixHand(k)' /\ ReviewHand(k)'
  OBVIOUS
<1>0. /\ FixHand(k) /\ ReviewHand(k) /\ LiveFrame(k) /\ k.run \in Runs
      /\ linked[k.run] \subseteq Findings
  BY JobFacts DEF FixInv, Repaired, ReviewsApart, QueueShape, PlacesLive,
                  FixTyping, Typing, PipelineTypeOK, TypeOK
<1>1. frame[k].at # "idle" => jobState[k] = "active" /\ f \notin linked[k.run]
  BY <1>0 DEF LiveFrame, AtRest, LiveRun, JobsOf
<1>2. FixHand(k)'
  <2>1. k.type \in VerificationTypes /\ frame[k].at # "idle" => k.finding \in Findings \ {f}
    BY <1>1, JobsFinding DEF FixInv
  <2>2. recorded[k.run] \subseteq recorded'[k.run] /\ validations \subseteq validations'
    OBVIOUS
  <2>3. k.type = "prepare_repository" /\ k.run \in FixRuns /\ frame[k].at = "write" =>
           recorded'[k.run] \subseteq {"cancelled"}
    BY <1>0 DEF FixHand, PrepareHand
  <2> QED BY <1>0, <2>1, <2>2, <2>3, FixHandStays DEF queueVars
<1>3. ReviewHand(k)'
  <2>1. k.type = "run_strix_validation" /\ frame[k].at # "idle" => k.finding \in Findings \ {f}
    BY <1>1, ReviewersRuns DEF FixInv
  <2>2. frame[k].at # "idle" => \A g \in linked[k.run] : g \in Findings \ {f}
    BY <1>0, <1>1
  <2> QED BY <1>0, <2>1, <2>2, ReviewHandStays DEF queueVars
<1> QED BY <1>2, <1>3

LEMMA SubmitAssertKeeps ==
  ASSUME Awaited = Runs, FixTyping, FixInv, NEW f \in Findings, NEW fix \in Fixes, SubmitAssert(f, fix)
  PROVE  FixInv'
<1>1. /\ AtRest(f) /\ submitting[f] = "none"
      /\ findingStatus[f] \in HopToFixPendingFrom \cup {"fix_pending"} /\ Exists(f)
  BY CallsAtRest DEF SubmitAssert, HopToFixPendingFrom, Exists
<1>2. /\ UNCHANGED <<vars, remediation, verifies, verifying, held>>
      /\ \A g \in Findings \ {f} : submitting'[g] = submitting[g]
  BY DEF SubmitAssert, FixTyping
<1> USE DEF vars, storeVars, queueVars, apiVars
<1>3. QueueShape' /\ ReviewsApart' /\ FixedIsVouchedFor'
  <2>1. QueueShape'
    BY <1>2 DEF FixInv, QueueShape, PlacesLive, LiveFrame, JobFits, RunFits
  <2>2. ReviewsApart'
    BY <1>2 DEF FixInv, ReviewsApart, ReviewHand, Exists
  <2>3. FixedIsVouchedFor'
    BY <1>2 DEF FixInv, FixedIsVouchedFor, VouchedBy, RuntimeConfirmed
  <2> QED BY <2>1, <2>2, <2>3
<1>4. ASSUME NEW g \in Findings PROVE FindingFixed(g)'
  <2>1. FindingFixed(g)
    BY DEF FixInv, Repaired
  <2>2. CASE g = f
    BY <1>1, <1>2, <2>1, <2>2 DEF FindingFixed, Fixing, AtRest, LiveRun, Exists, RuntimeConfirmed
  <2>3. CASE g # f
    BY <1>2, <2>1, <2>3 DEF FindingFixed, Fixing, AtRest, LiveRun, Exists, RuntimeConfirmed
  <2> QED BY <2>2, <2>3
<1>5. /\ \A r \in Runs : Called(r)'
      /\ \A r \in FixRuns : Verified(r)' /\ Trail(r)'
  BY <1>2 DEF FixInv, Repaired, Called, Verified, Trail, AtRest, LiveRun
<1>6. \A k \in Jobs : FixHand(k)'
  BY <1>1, <1>2, RestKeepsHands
<1> QED BY <1>3, <1>4, <1>5, <1>6 DEF FixInv, Repaired

LEMMA SubmitWriteKeeps ==
  ASSUME FixTyping, FixInv, NEW f \in Findings, SubmitWrite(f)
  PROVE  FixInv'
<1>1. /\ AtRest(f) /\ FindingFixed(f) /\ submitting[f] \in Fixes /\ Fixing(f) /\ Exists(f)
      /\ findingStatus[f] \in HopToFixPendingFrom \cup {"fix_pending"}
  BY DEF SubmitWrite, FixInv, Repaired, FindingFixed, Fixing, FixTyping
<1>2. /\ UNCHANGED <<runStatus, linked, recorded, validations, queueVars, apiVars, verifies, verifying, held>>
      /\ \A g \in Findings \ {f} : /\ submitting'[g] = submitting[g]
                                   /\ remediation'[g] = remediation[g]
                                   /\ findingStatus'[g] = findingStatus[g]
      /\ findingStatus'[f] = "fix_submitted" /\ submitting'[f] = "none"
      /\ remediation'[f].fix = submitting[f]
      /\ remediation'[f].runtime = IF RuntimeConfirmed(f) THEN "pending" ELSE "not_applicable"
  BY DEF SubmitWrite, FixTyping, Typing, PipelineTypeOK, TypeOK
<1> USE DEF queueVars, apiVars
<1>3. QueueShape'
  BY <1>2 DEF FixInv, QueueShape, PlacesLive, LiveFrame, JobFits, RunFits
<1>4. \A k \in Jobs : FixHand(k)' /\ ReviewHand(k)'
  BY <1>1, <1>2, RestKeepsHands
<1>5. ReviewsApart'
  <2>1. ASSUME NEW r \in Runs, NEW g \in linked[r] PROVE g \in Findings /\ findingStatus'[g] # "absent"
    BY <1>2 DEF FixInv, ReviewsApart, Exists, FixTyping, Typing, PipelineTypeOK, TypeOK
  <2> QED BY <1>2, <1>4, <2>1 DEF FixInv, ReviewsApart, Exists
<1>6. ASSUME NEW g \in Findings PROVE FindingFixed(g)'
  <2>1. FindingFixed(g)
    BY DEF FixInv, Repaired
  <2>2. CASE g = f
    BY <1>1, <1>2, <2>1, <2>2, FixesAssumption
       DEF FindingFixed, Fixing, AtRest, LiveRun, Exists, RuntimeConfirmed
  <2>3. CASE g # f
    BY <1>2, <2>1, <2>3 DEF FindingFixed, Fixing, AtRest, LiveRun, Exists, RuntimeConfirmed
  <2> QED BY <2>2, <2>3
<1>7. ASSUME NEW r \in Runs PROVE Called(r)'
  <2>1. verifying[r] # NoFinding => findingStatus[verifying[r]] = "fix_submitted" /\ verifying[r] \in Findings
    BY DEF FixInv, Repaired, Called, FixTyping
  <2>2. verifying[r] # f
    BY <1>1, <2>1, NoFindingAssumption DEF HopToFixPendingFrom
  <2> QED BY <1>2, <2>1, <2>2 DEF FixInv, Repaired, Called, AtRest, LiveRun
<1>8. ASSUME NEW r \in FixRuns PROVE Verified(r)' /\ Trail(r)'
  <2>1. LiveRun(r) => verifies[r] \in Findings \ {f}
    BY <1>1, VerifiedFinding DEF FixInv, AtRest
  <2> QED BY <1>2, <2>1 DEF FixInv, Repaired, Verified, Trail, LiveRun
<1>9. FixedIsVouchedFor'
  <2> SUFFICES ASSUME NEW g \in Findings \ {f}, findingStatus[g] = "verified_fixed"
               PROVE  \E r \in FixRuns : VouchedBy(g, r)'
    BY <1>2 DEF FixedIsVouchedFor
  <2>1. PICK r \in FixRuns : VouchedBy(g, r)
    BY DEF FixInv, FixedIsVouchedFor
  <2> QED BY <1>2, <2>1 DEF VouchedBy, RuntimeConfirmed
<1> QED BY <1>3, <1>4, <1>5, <1>6, <1>7, <1>8, <1>9 DEF FixInv, Repaired
LEMMA VerifyAssertKeeps ==
  ASSUME Awaited = Runs, FixTyping, FixInv, NEW f \in Findings, NEW r \in FixRuns, VerifyAssert(f, r)
  PROVE  FixInv'
<1>0. r \in Runs
  BY RunsAssumption
<1>1. /\ findingStatus[f] = "fix_submitted" /\ AtRest(f)
      /\ Head[r] = remediation[f].fix /\ runStatus[r] = "absent"
  <2>1. findingStatus[f] = "fix_submitted"
    BY DEF VerifyAssert, CanTransitionFinding, FindingEdges
  <2> QED BY <2>1, CallsAtRest DEF VerifyAssert
<1>2. /\ UNCHANGED <<vars, remediation, verifies, submitting, held>>
      /\ verifying'[r] = f
      /\ \A s \in Runs \ {r} : verifying'[s] = verifying[s]
  BY <1>0 DEF VerifyAssert, FixTyping
<1> USE DEF vars, storeVars, queueVars, apiVars
<1>3. QueueShape' /\ ReviewsApart' /\ FixedIsVouchedFor'
  <2>1. QueueShape'
    BY <1>2 DEF FixInv, QueueShape, PlacesLive, LiveFrame, JobFits, RunFits
  <2>2. ReviewsApart'
    BY <1>2 DEF FixInv, ReviewsApart, ReviewHand, Exists
  <2>3. FixedIsVouchedFor'
    BY <1>2 DEF FixInv, FixedIsVouchedFor, VouchedBy, RuntimeConfirmed
  <2> QED BY <2>1, <2>2, <2>3
<1>4. \A g \in Findings : FindingFixed(g)'
  BY <1>2 DEF FixInv, Repaired, FindingFixed, Fixing, AtRest, LiveRun, Exists, RuntimeConfirmed
<1>5. ASSUME NEW s \in Runs PROVE Called(s)'
  <2>1. CASE s = r
    BY <1>1, <1>2, <2>1 DEF Called, AtRest, LiveRun
  <2>2. CASE s # r
    BY <1>2, <2>2 DEF FixInv, Repaired, Called, AtRest, LiveRun
  <2> QED BY <2>1, <2>2
<1>6. \A s \in FixRuns : Verified(s)' /\ Trail(s)'
  BY <1>2 DEF FixInv, Repaired, Verified, Trail, LiveRun
<1>7. \A k \in Jobs : FixHand(k)'
  BY <1>1, <1>2, RestKeepsHands
<1> QED BY <1>3, <1>4, <1>5, <1>6, <1>7 DEF FixInv, Repaired

\* The row of a verification that has been asserted.
LEMMA VerifyWriteRows ==
  ASSUME FixTyping, FixInv, NEW r \in FixRuns, VerifyWrite(r)
  PROVE  LET f == verifying[r] IN
         /\ r \in Runs /\ f \in Findings
         /\ runStatus[r] = "absent" /\ runStatus'[r] = "queued" /\ recorded[r] = {}
         /\ linked[r] = {} /\ linked'[r] = {f}
         /\ verifies[r] = NoFinding /\ verifies'[r] = f
         /\ creating' = creating \cup {r} /\ verifying'[r] = NoFinding
         /\ \A j \in JobsOf(r) : jobState[j] = "none"
         /\ findingStatus[f] = "fix_submitted" /\ findingStatus'[f] = "retesting"
         /\ Head[r] = remediation[f].fix /\ AtRest(f)
         /\ \A s \in Runs \ {r} : /\ runStatus'[s] = runStatus[s] /\ linked'[s] = linked[s]
                                  /\ verifies'[s] = verifies[s] /\ verifying'[s] = verifying[s]
         /\ \A g \in Findings \ {f} : findingStatus'[g] = findingStatus[g]
         /\ UNCHANGED <<recorded, validations, queueVars, cancelling, fetching, remediation, submitting, held>>
<1>1. /\ r \in Runs /\ verifying[r] \in Findings /\ verifying[r] # NoFinding
      /\ Called(r) /\ RunFits(r)
      /\ \A j \in Jobs : JobFits(j)
  BY RunsAssumption DEF VerifyWrite, FixInv, Repaired, QueueShape, FixTyping
<1>2. /\ runStatus[r] = "absent" /\ recorded[r] = {} /\ linked[r] = {} /\ verifies[r] = NoFinding
      /\ \A j \in JobsOf(r) : jobState[j] = "none"
      /\ findingStatus[verifying[r]] = "fix_submitted"
      /\ Head[r] = remediation[verifying[r]].fix /\ AtRest(verifying[r])
  BY <1>1 DEF Called, RunFits, JobFits, JobsOf
<1>3. linked \in [Runs -> SUBSET Findings] /\ runStatus \in [Runs -> RunStatuses \cup {"absent"}]
      /\ verifies \in [Runs -> Findings \cup {NoFinding}] /\ verifying \in [Runs -> Findings \cup {NoFinding}]
      /\ findingStatus \in [Findings -> FindingStatuses \cup {"absent"}]
  BY DEF FixTyping, Typing, PipelineTypeOK, TypeOK
<1> QED BY <1>1, <1>2, <1>3 DEF VerifyWrite, queueVars

LEMMA VerifyWriteKeeps ==
  ASSUME FixTyping, FixInv, OneVerifyCall, NEW r \in FixRuns, VerifyWrite(r)
  PROVE  FixInv'
<1> DEFINE f == verifying[r]
<1>1. /\ r \in Runs /\ f \in Findings
      /\ runStatus[r] = "absent" /\ runStatus'[r] = "queued" /\ recorded[r] = {}
      /\ linked[r] = {} /\ linked'[r] = {f}
      /\ verifies[r] = NoFinding /\ verifies'[r] = f
      /\ creating' = creating \cup {r} /\ verifying'[r] = NoFinding
      /\ \A j \in JobsOf(r) : jobState[j] = "none"
      /\ findingStatus[f] = "fix_submitted" /\ findingStatus'[f] = "retesting"
      /\ Head[r] = remediation[f].fix /\ AtRest(f)
      /\ \A s \in Runs \ {r} : /\ runStatus'[s] = runStatus[s] /\ linked'[s] = linked[s]
                               /\ verifies'[s] = verifies[s] /\ verifying'[s] = verifying[s]
      /\ \A g \in Findings \ {f} : findingStatus'[g] = findingStatus[g]
      /\ UNCHANGED <<recorded, validations, queueVars, cancelling, fetching, remediation, submitting, held>>
  BY VerifyWriteRows
<1>a. f # NoFinding
  BY <1>1, NoFindingAssumption
<1> HIDE DEF f
<1> USE DEF queueVars
<1>2. \A s \in Runs : s # r => (LiveRun(s)' <=> LiveRun(s))
  BY <1>1 DEF LiveRun, JobsOf
<1>3. QueueShape'
  <2>1. ASSUME NEW k \in Jobs PROVE JobFits(k)' /\ LiveFrame(k)'
    <3>0. JobFits(k) /\ LiveFrame(k) /\ k.run \in Runs
      BY JobFacts DEF FixInv, QueueShape, PlacesLive
    <3>1. jobState[k] # "none" => k.run # r
      BY <1>1 DEF JobsOf
    <3> QED BY <1>1, <3>0, <3>1 DEF JobFits, LiveFrame
  <2>2. ASSUME NEW s \in Runs PROVE RunFits(s)'
    <3>0. RunFits(s)
      BY DEF FixInv, QueueShape
    <3>1. CASE s = r
      BY <1>1, <3>0, <3>1 DEF RunFits, JobsOf
    <3>2. CASE s # r
      BY <1>1, <3>0, <3>2 DEF RunFits, JobsOf
    <3> QED BY <3>1, <3>2
  <2> QED BY <2>1, <2>2 DEF QueueShape, PlacesLive
<1>4. \A k \in Jobs : FixHand(k)' /\ ReviewHand(k)'
  BY <1>1, RestKeepsHands
<1>5. ReviewsApart'
  <2>1. \A s, t \in Runs \ FixRuns : s # t => linked'[s] \cap linked'[t] = {}
    BY <1>1 DEF FixInv, ReviewsApart
  <2>2. ASSUME NEW s \in Runs, NEW g \in linked'[s] PROVE findingStatus'[g] # "absent"
    <3>1. CASE s = r
      BY <1>1, <3>1
    <3>2. CASE s # r
      BY <1>1, <3>2 DEF FixInv, ReviewsApart, Exists, FixTyping, Typing, PipelineTypeOK, TypeOK
    <3> QED BY <3>1, <3>2
  <2> QED BY <1>4, <2>1, <2>2 DEF ReviewsApart, Exists
<1>6. ASSUME NEW g \in Findings PROVE FindingFixed(g)'
  <2>1. FindingFixed(g)
    BY DEF FixInv, Repaired
  <2>2. \A s \in Runs \ FixRuns : g \in linked'[s] /\ LiveRun(s)' => g \in linked[s] /\ LiveRun(s)
    BY <1>1, <1>2
  <2>3. CASE g = f
    <3>1. submitting[g] = "none"
      BY <1>1, <2>1, <2>3 DEF FindingFixed, HopToFixPendingFrom
    <3> QED BY <1>1, <2>1, <2>2, <2>3, <3>1 DEF FindingFixed, Fixing, Exists, RuntimeConfirmed, FixStatuses
  <2>4. CASE g # f
    <3>1. AtRest(g) => AtRest(g)'
      BY <1>1, <1>2, <2>4 DEF AtRest
    <3> QED BY <1>1, <2>1, <2>2, <2>4, <3>1 DEF FindingFixed, Fixing, Exists, RuntimeConfirmed
  <2> QED BY <2>3, <2>4
<1>7. ASSUME NEW s \in Runs PROVE Called(s)'
  <2>1. CASE s = r
    BY <1>1, <2>1 DEF Called
  <2>2. CASE s # r /\ verifying[s] # NoFinding
    <3>1. Called(s) /\ verifying[s] # f
      BY <1>a, <2>2 DEF FixInv, Repaired, Called, OneVerifyCall, f
    <3>2. verifying[s] \in Findings
      BY <2>2 DEF FixTyping
    <3>3. AtRest(verifying[s])'
      BY <1>1, <1>2, <2>2, <3>1 DEF Called, AtRest
    <3> QED BY <1>1, <2>2, <3>1, <3>2, <3>3 DEF Called
  <2>3. CASE s # r /\ verifying[s] = NoFinding
    BY <1>1, <2>3 DEF Called
  <2> QED BY <2>1, <2>2, <2>3
<1>8. ASSUME NEW s \in FixRuns PROVE Verified(s)' /\ Trail(s)'
  <2>0. s \in Runs
    BY RunsAssumption
  <2>1. \A t \in FixRuns : LiveRun(t) => t # r /\ verifies[t] \in Findings \ {f}
    BY <1>1, VerifiedFinding DEF FixInv, AtRest, RunFits, QueueShape, LiveRun
  <2>2. \A t \in FixRuns \ {r} : LiveRun(t)' => LiveRun(t) /\ verifies'[t] = verifies[t]
    BY <1>1, <1>2, RunsAssumption
  <2>3. CASE s = r
    BY <1>1, <2>1, <2>2, <2>3 DEF Verified, Trail
  <2>4. CASE s # r
    <3>1. Verified(s) /\ Trail(s)
      BY DEF FixInv, Repaired
    <3>2. Verified(s)'
      BY <1>1, <2>0, <2>1, <2>2, <2>4, <3>1 DEF Verified
    <3> QED BY <1>1, <2>0, <2>4, <3>1, <3>2 DEF Trail
  <2> QED BY <2>3, <2>4
<1>9. FixedIsVouchedFor'
  <2> SUFFICES ASSUME NEW g \in Findings \ {f}, findingStatus[g] = "verified_fixed"
               PROVE  \E s \in FixRuns : VouchedBy(g, s)'
    BY <1>1 DEF FixedIsVouchedFor
  <2>1. PICK s \in FixRuns : VouchedBy(g, s)
    BY DEF FixInv, FixedIsVouchedFor
  <2>2. s \in Runs \ {r}
    BY <1>1, <2>1, RunsAssumption, NoFindingAssumption DEF VouchedBy
  <2> QED BY <1>1, <2>1, <2>2 DEF VouchedBy, RuntimeConfirmed
<1> QED BY <1>3, <1>4, <1>5, <1>6, <1>7, <1>8, <1>9 DEF FixInv, Repaired

LEMMA CallKeepsFixes ==
  ASSUME Awaited = Runs, FixTyping, FixInv, OneVerifyCall, FixCall
  PROVE  FixInv'
BY SubmitAssertKeeps, SubmitWriteKeeps, VerifyAssertKeeps, VerifyWriteKeeps DEF FixCall

-----------------------------------------------------------------------------
(* The handlers of a verification.                                         *)

\* Who writes what: the remediation's verdicts are written by the judgement of
\* the source and by the completion, the status by the completion alone.
LEMMA FixWriters ==
  ASSUME FixTyping, NEW j \in Jobs, FixWork(j)
  PROVE  /\ jobState[j] = "active"
         /\ (j.type = "prepare_repository" /\ j.run \in FixRuns) \/ j.type \in VerificationTypes
         /\ \A g \in Findings \ {j.finding} :
              remediation'[g] = remediation[g] /\ findingStatus'[g] = findingStatus[g]
         /\ \A g \in Findings : remediation'[g].fix = remediation[g].fix
         /\ UNCHANGED remediation \/ RevalidateJudge(j) \/ CompleteWrite(j)
         /\ \A g \in Findings : remediation'[g].runtime = remediation[g].runtime \/ CompleteWrite(j)
         /\ UNCHANGED findingStatus \/ CompleteWrite(j)
         /\ UNCHANGED validations \/ RetestPersist(j)
         /\ \/ UNCHANGED <<runStatus, recorded>>
            \/ /\ RevalidateStart(j) \/ RevalidateFinishWrite(j) \/ RevalidateRunWrite(j)
               /\ j.type = "run_deepsec_revalidation"
               /\ \A r \in Runs \ {j.run} : runStatus'[r] = runStatus[r] /\ recorded'[r] = recorded[r]
               /\ runStatus'[j.run] \notin {"queued", "classifying"}
         /\ \A k \in Jobs \ {j} : jobState'[k] = "active" => held'[k] = held[k]
<1>0. /\ held \in [Jobs -> Remediations] /\ remediation \in [Findings -> Remediations]
      /\ findingStatus \in [Findings -> FindingStatuses \cup {"absent"}]
      /\ runStatus \in [Runs -> RunStatuses \cup {"absent"}]
      /\ recorded \in [Runs -> SUBSET RunStatuses]
      /\ j.run \in Runs
  BY JobFacts DEF FixTyping, Typing, PipelineTypeOK, TypeOK
<1>p. /\ frame[j].at \in RevalidationPlaces => j.type = "run_deepsec_revalidation"
      /\ frame[j].at = "replayed" => j.type = "run_strix_retest"
      /\ frame[j].at \in CompletionPlaces => j.type \in VerificationTypes
  BY FixPlaceTypes
<1> USE DEF At, storeVars
<1>1. CASE FixPrepareEnqueue(j)
  BY <1>0, <1>1 DEF FixPrepareEnqueue
<1>2. CASE RevalidateAssert(j)
  BY <1>0, <1>2 DEF RevalidateAssert, AssertRunTransition, VerificationTypes
<1>3. CASE RevalidateFinishAssert(j) \/ RevalidateRunAssert(j)
  BY <1>0, <1>p, <1>3 DEF RevalidateFinishAssert, RevalidateRunAssert, AssertRunTransition,
       VerificationTypes, RevalidationPlaces, HeldByActive
<1>4. CASE RevalidateStart(j) \/ RevalidateFinishWrite(j) \/ RevalidateRunWrite(j)
  BY <1>0, <1>p, <1>4 DEF RevalidateStart, RevalidateFinishWrite, RevalidateRunWrite, WriteRunStatus,
       VerificationTypes, RevalidationPlaces
<1>5. CASE RevalidateLookup(j) \/ RevalidateEnqueue(j)
  BY <1>0, <1>p, <1>5 DEF RevalidateLookup, RevalidateEnqueue, VerificationTypes, RevalidationPlaces
<1>6. CASE RevalidateJudge(j)
  <2>1. PICK source \in CheckVerdicts :
          \/ held' = [held EXCEPT ![j].source = source] /\ UNCHANGED remediation
          \/ remediation' = [remediation EXCEPT ![j.finding].source = source] /\ UNCHANGED held
    BY <1>6 DEF RevalidateJudge
  <2>2. \A g \in Findings : remediation[g] \in Remediations
    BY <1>0
  <2>3. \A g \in Findings : /\ g # j.finding => remediation'[g] = remediation[g]
                            /\ remediation'[g].fix = remediation[g].fix
                            /\ remediation'[g].runtime = remediation[g].runtime
    BY <1>0, <2>1, <2>2 DEF Remediations
  <2>4. \A k \in Jobs \ {j} : held'[k] = held[k]
    BY <1>0, <2>1
  <2> QED BY <1>6, <1>p, <2>3, <2>4 DEF RevalidateJudge, RevalidationPlaces, VerificationTypes
<1>7. CASE RetestMission(j) \/ RetestPersist(j)
  BY <1>0, <1>p, <1>7 DEF RetestMission, RetestPersist, VerificationTypes, RevalidateJudge
<1>8. CASE CompleteAssert(j)
  BY <1>0, <1>p, <1>8 DEF CompleteAssert, CompletionPlaces, HeldByActive
<1>9. CASE CompleteWrite(j)
  <2>1. \A g \in Findings : remediation[g] \in Remediations
    BY <1>0
  <2>2. \A g \in Findings : /\ g # j.finding => remediation'[g] = remediation[g]
                            /\ remediation'[g].fix = remediation[g].fix
    BY <1>0, <1>9, <2>1 DEF CompleteWrite, Remediations
  <2> QED BY <1>0, <1>p, <1>9, <2>2 DEF CompleteWrite, CompletionPlaces
<1> QED BY <1>1, <1>2, <1>3, <1>4, <1>5, <1>6, <1>7, <1>8, <1>9, FixActions

\* The finding of the handler in hand, and that its run alone is at work on it.
LEMMA InHandFinding ==
  ASSUME FixTyping, FixInv, NEW j \in Jobs, j.type \in VerificationTypes, jobState[j] = "active"
  PROVE  /\ j.run \in FixRuns /\ j.run \in Runs /\ j.finding \in Findings
         /\ LiveRun(j.run) /\ runStatus[j.run] # "absent"
         /\ j.finding = verifies[j.run] /\ j.finding \in linked[j.run]
         /\ Head[j.run] = remediation[j.finding].fix /\ remediation[j.finding].fix # "none"
         /\ Fixing(j.finding) /\ ~AtRest(j.finding)
         /\ \A r \in Runs : LiveRun(r) /\ j.finding \in linked[r] => r \in FixRuns
         /\ \A r \in FixRuns : LiveRun(r) /\ verifies[r] = j.finding => r = j.run
         /\ remediation[j.finding].runtime # "not_applicable" <=> RuntimeConfirmed(j.finding)
<1>1. /\ j.run \in FixRuns /\ j.run \in Runs /\ j.finding \in Findings
      /\ j.finding = verifies[j.run] /\ j.finding \in linked[j.run] /\ runStatus[j.run] # "absent"
  BY JobsFinding DEF FixInv
<1>2. LiveRun(j.run) /\ Fixing(j.finding)
  BY HandlersFinding DEF FixInv
<1>3. Verified(j.run) /\ FindingFixed(j.finding)
  BY <1>1 DEF FixInv, Repaired
<1>4. Head[j.run] = remediation[j.finding].fix /\ remediation[j.finding].fix # "none"
  BY <1>1, <1>2, <1>3, FixRunsAssumption, FixesAssumption DEF Verified
<1> QED BY <1>1, <1>2, <1>3, <1>4 DEF Verified, FindingFixed, AtRest

\* A revalidation in hand has queued no replay, and one that has begun.
LEMMA ReplayIsLater ==
  ASSUME FixTyping, FixInv, NEW j \in Jobs, NEW k \in Jobs,
         j.type = "run_deepsec_revalidation", jobState[j] = "active", frame[j].at \in Revalidating,
         k.type = "run_strix_retest", k.run = j.run, jobState[k] # "none"
  PROVE  FALSE
<1>1. k = FindingJob("run_strix_retest", j.run, j.finding)
  BY FindingJobs, JobsFinding, InHandFinding DEF FixInv, VerificationTypes, FindingTypes
<1> QED BY <1>1 DEF FixInv, Repaired, FixHand, RevalidationHand

LEMMA FixWorkRest ==
  ASSUME FixTyping, FixInv, NEW j \in Jobs, FixWork(j), Local(j)
  PROVE  /\ \A r \in Runs : LiveRun(r)' => LiveRun(r)
         /\ \A g \in Findings, r \in Runs : Exists(g) /\ g \in linked'[r] => g \in linked[r]
         /\ \A g \in Findings : AtRest(g) => /\ g # j.finding /\ (Exists(g) => AtRest(g)')
                                             /\ remediation'[g] = remediation[g]
                                             /\ findingStatus'[g] = findingStatus[g]
         /\ \A g \in Findings : RuntimeConfirmed(g)' <=> RuntimeConfirmed(g)
<1>1. \A r \in Runs : LiveRun(r)' => LiveRun(r)
  BY LocalLive
<1>2. \A g \in Findings, r \in Runs : Exists(g) /\ g \in linked'[r] => g \in linked[r]
  BY LocalRest DEF FixInv
<1>3. ASSUME NEW g \in Findings, AtRest(g)
      PROVE  /\ g # j.finding /\ (Exists(g) => AtRest(g)')
             /\ remediation'[g] = remediation[g] /\ findingStatus'[g] = findingStatus[g]
  <2>1. g # j.finding
    <3>1. CASE j.type = "prepare_repository"
      <4>1. j.finding = NoFinding
        BY <3>1 DEF Jobs, FindingTypes
      <4> QED BY <4>1, NoFindingAssumption
    <3>2. CASE j.type \in VerificationTypes
      BY <1>3, <3>2, FixWriters, InHandFinding
    <3> QED BY <3>1, <3>2, FixWriters
  <2>2. Exists(g) => AtRest(g)'
    BY <1>3, LocalRest DEF FixInv
  <2> QED BY <2>1, <2>2, FixWriters
<1>4. ASSUME NEW g \in Findings PROVE RuntimeConfirmed(g)' <=> RuntimeConfirmed(g)
  <2>1. CASE UNCHANGED validations
    BY <2>1 DEF RuntimeConfirmed
  <2>2. CASE RetestPersist(j)
    <3>1. j.type = "run_strix_retest" /\ jobState[j] # "none"
      BY <2>2, FixPlaceTypes DEF RetestPersist, At
    <3>2. RuntimeConfirmed(j.finding)
      BY <3>1 DEF FixInv, Repaired, FixHand, RetestHand
    <3>3. validations' = validations \cup
            {[finding |-> j.finding, run |-> j.run, verdict |-> frame[j].decided, attempt |-> attempts[j]]}
      BY <2>2 DEF RetestPersist
    <3> QED BY <3>2, <3>3 DEF RuntimeConfirmed
  <2> QED BY <2>1, <2>2, FixWriters
<1> QED BY <1>1, <1>2, <1>3, <1>4

\* The verdicts of a completion are of the path the remediation asks for.
LEMMA CompletionRow ==
  ASSUME FixTyping, FixInv, NEW j \in Jobs, CompleteWrite(j)
  PROVE  /\ j.type \in VerificationTypes /\ jobState[j] = "active"
         /\ frame[j].at = "complete_write" /\ frame[j].decided \in VerificationOutcomes
         /\ j.finding \in Findings
         /\ remediation'[j.finding].source = held[j].source
         /\ remediation'[j.finding].runtime = held[j].runtime
         /\ held[j].runtime # "not_applicable" <=> RuntimeConfirmed(j.finding)
         /\ "source_review_running" \in recorded[j.run]
<1>1. j.type \in VerificationTypes /\ frame[j].decided \in VerificationOutcomes /\ jobState[j] = "active"
      /\ frame[j].at = "complete_write"
  BY FixPlaceTypes DEF CompleteWrite, At, CompletionPlaces
<1>2. j.finding \in Findings /\ (remediation[j.finding].runtime # "not_applicable" <=> RuntimeConfirmed(j.finding))
  BY <1>1, InHandFinding
<1>3. /\ remediation'[j.finding].source = held[j].source
      /\ remediation'[j.finding].runtime = held[j].runtime
  <2>1. remediation[j.finding] \in Remediations /\ remediation \in [Findings -> Remediations]
    BY <1>2 DEF FixTyping
  <2> QED BY <1>2, <2>1 DEF CompleteWrite, Remediations
<1>4. CASE j.type = "run_deepsec_revalidation"
  <2>1. /\ held[j].runtime = remediation[j.finding].runtime
        /\ "source_review_running" \in recorded[j.run]
    BY <1>1, <1>4 DEF FixInv, Repaired, FixHand, RevalidationHand, Revalidating, CompletionPlaces
  <2> QED BY <1>1, <1>2, <1>3, <2>1
<1>5. CASE j.type = "run_strix_retest"
  <2>1. /\ held[j].runtime # "not_applicable" /\ RuntimeConfirmed(j.finding)
        /\ "source_review_running" \in recorded[j.run]
    BY <1>1, <1>5 DEF FixInv, Repaired, FixHand, RetestHand, CompletionPlaces
  <2> QED BY <1>1, <1>2, <1>3, <2>1
<1> QED BY <1>1, <1>4, <1>5 DEF VerificationTypes

LEMMA FixWorkFindings ==
  ASSUME FixTyping, FixInv, NEW j \in Jobs, FixWork(j), Local(j)
  PROVE  \A g \in Findings : FindingFixed(g)'
<1> SUFFICES ASSUME NEW g \in Findings PROVE FindingFixed(g)'
  OBVIOUS
<1>0. /\ FindingFixed(g) /\ submitting' = submitting /\ (Fixing(g)' <=> Fixing(g))
      /\ remediation'[g].fix = remediation[g].fix
      /\ Exists(g) => Exists(g)'
  BY FixWriters DEF FixInv, Repaired, Local, Fixing
<1>1. submitting'[g] # "none" =>
        findingStatus'[g] \in HopToFixPendingFrom \cup {"fix_pending"} /\ AtRest(g)'
  BY <1>0, FixWorkRest DEF FindingFixed, Fixing
<1>2. findingStatus'[g] \in FixStatuses => remediation'[g].fix # "none"
  <2>1. CASE g = j.finding /\ CompleteWrite(j)
    BY <1>0, <2>1, CompletionRow, InHandFinding
  <2> QED BY <1>0, <2>1, FixWriters DEF FindingFixed
<1>3. Fixing(g)' => Exists(g)' /\ \A r \in Runs \ FixRuns : g \in linked'[r] => ~LiveRun(r)'
  BY <1>0, FixWorkRest DEF FindingFixed
<1>4. /\ remediation'[g].fix = "none" => remediation'[g].runtime = "not_applicable"
      /\ remediation'[g].fix # "none" => (remediation'[g].runtime # "not_applicable" <=> RuntimeConfirmed(g)')
  <2>1. CASE g = j.finding /\ CompleteWrite(j)
    BY <1>0, <2>1, CompletionRow, InHandFinding, FixWorkRest
  <2>2. CASE ~(g = j.finding /\ CompleteWrite(j))
    BY <1>0, <2>2, FixWriters, FixWorkRest DEF FindingFixed
  <2> QED BY <2>1, <2>2
<1> QED BY <1>1, <1>2, <1>3, <1>4 DEF FindingFixed

LEMMA FixWorkRuns ==
  ASSUME FixTyping, FixInv, NEW j \in Jobs, FixWork(j), Local(j)
  PROVE  /\ \A r \in Runs : Called(r)'
         /\ \A r \in FixRuns : Verified(r)' /\ Trail(r)'
<1>1. ASSUME NEW r \in Runs PROVE Called(r)'
  <2> SUFFICES ASSUME verifying[r] # NoFinding PROVE Called(r)'
    BY DEF Called, Local
  <2>1. Called(r) /\ verifying' = verifying /\ verifying[r] \in Findings
    BY DEF FixInv, Repaired, Local, FixTyping
  <2>2. Exists(verifying[r])
    BY <2>1 DEF Called, Exists
  <2>3. runStatus'[r] = "absent"
    <3>1. runStatus[j.run] # "absent"
      <4>1. JobFits(j) /\ jobState[j] # "none"
        BY FixWriters DEF FixInv, QueueShape
      <4> QED BY <4>1 DEF JobFits
    <3> QED BY <2>1, <3>1 DEF Called, Local
  <2> QED BY <2>1, <2>2, <2>3, FixWorkRest DEF Called
<1>2. ASSUME NEW r \in FixRuns PROVE Verified(r)'
  <2> SUFFICES ASSUME LiveRun(r)' PROVE Verified(r)'
    BY DEF Verified
  <2>0. r \in Runs /\ LiveRun(r) /\ Verified(r) /\ verifies' = verifies /\ verifies[r] \in Findings
    BY RunsAssumption, FixWorkRest, VerifiedFinding DEF FixInv, Repaired, Local
  <2>1. Head[r] = remediation'[verifies[r]].fix
    BY <2>0, FixWriters DEF Verified
  <2>2. "source_review_running" \notin recorded'[r] => findingStatus'[verifies[r]] = "retesting"
    <3>1. "source_review_running" \notin recorded'[r] => "source_review_running" \notin recorded[r]
      BY <2>0 DEF Local, Grows
    <3>2. CASE CompleteWrite(j) /\ j.finding = verifies[r]
      <4>1. j.run = r
        BY <2>0, <3>2, CompletionRow, InHandFinding
      <4> QED BY <3>1, <3>2, <4>1, CompletionRow
    <3>3. CASE ~(CompleteWrite(j) /\ j.finding = verifies[r])
      BY <2>0, <3>1, <3>3, FixWriters DEF Verified
    <3> QED BY <3>2, <3>3
  <2>3. \A s \in FixRuns : verifies[s] = verifies[r] /\ LiveRun(s)' => s = r
    BY <2>0, FixWorkRest, RunsAssumption DEF Verified
  <2> QED BY <2>0, <2>1, <2>2, <2>3 DEF Verified
<1>3. ASSUME NEW r \in FixRuns PROVE Trail(r)'
  <2>1. r \in Runs /\ Trail(r)
    BY RunsAssumption DEF FixInv, Repaired
  <2> QED BY <2>1, FixWriters DEF Trail
<1> QED BY <1>1, <1>2, <1>3

\* The reviews, beside a step of a verification.
LEMMA FixWorkReviews ==
  ASSUME FixTyping, FixInv, NEW j \in Jobs, FixWork(j), Local(j)
  PROVE  ReviewsApart'
<1>1. ASSUME NEW k \in Jobs PROVE ReviewHand(k)'
  <2>0. /\ ReviewHand(k) /\ LiveFrame(k) /\ k.run \in Runs /\ linked[k.run] \subseteq Findings
        /\ linked[k.run] \subseteq linked'[k.run]
    BY JobFacts DEF FixInv, ReviewsApart, QueueShape, PlacesLive, Local, Grows,
                    FixTyping, Typing, PipelineTypeOK, TypeOK
  <2>1. CASE k = j
    BY <2>1, FixWriters, ReviewHandFree DEF VerificationTypes
  <2>2. CASE k # j
    <3>1. k.type \in {"apply_routing_policy", "run_strix_validation"} /\ frame[k].at # "idle" =>
            \A g \in linked[k.run] : g \in Findings /\ findingStatus'[g] = findingStatus[g]
      <4>1. CASE CompleteWrite(j)
        <5> SUFFICES ASSUME k.type \in {"apply_routing_policy", "run_strix_validation"}, jobState[k] = "active"
                     PROVE  j.finding \notin linked[k.run]
          BY <2>0, FixWriters DEF LiveFrame
        <5>1. k.run \notin FixRuns /\ LiveRun(k.run)
          BY ReviewersRuns DEF FixInv, LiveRun, JobsOf
        <5> QED BY <2>0, <4>1, <5>1, CompletionRow, InHandFinding
      <4>2. CASE UNCHANGED findingStatus
        BY <2>0, <4>2
      <4> QED BY <4>1, <4>2, FixWriters
    <3>2. k.type = "run_strix_validation" /\ frame[k].at # "idle" => k.finding \in linked[k.run]
      BY <2>0, ReviewersRuns DEF FixInv, LiveFrame
    <3>3. frame'[k] = frame[k]
      BY <2>2 DEF Local
    <3> QED BY <2>0, <3>1, <3>2, <3>3, ReviewHandStays
  <2> QED BY <2>1, <2>2
<1> QED BY <1>1, LocalLinks DEF FixInv, ReviewsApart

\* A verification's handler does not write the statuses of a run that is still
\* being prepared.
LEMMA FixWorkOthersRecords ==
  ASSUME FixTyping, FixInv, NEW j \in Jobs, FixWork(j), NEW k \in Jobs,
         k.type = "prepare_repository", k.run \in FixRuns, frame[k].at = "write"
  PROVE  recorded'[k.run] \subseteq {"cancelled"}
<1>1. recorded[k.run] \subseteq {"cancelled"} /\ k.run \in Runs
  BY JobFacts DEF FixInv, Repaired, FixHand, PrepareHand
<1>2. j.type = "run_deepsec_revalidation" => "classifying" \in recorded[j.run]
  BY FixWriters DEF FixInv, Repaired, FixHand, RevalidationHand
<1> QED BY <1>1, <1>2, FixWriters

\* What the other handlers hold, beside a step of a verification.
LEMMA FixWorkOthers ==
  ASSUME FixTyping, FixInv, NEW j \in Jobs, FixWork(j), Local(j), NEW k \in Jobs \ {j}
  PROVE  FixHand(k)'
<1>0. /\ FixHand(k) /\ FixHand(j) /\ LiveFrame(k) /\ frame'[k] = frame[k] /\ k.run \in Runs
      /\ recorded[k.run] \subseteq recorded'[k.run] /\ validations \subseteq validations'
      /\ jobState[j] = "active"
  BY JobFacts, FixWriters DEF FixInv, Repaired, QueueShape, PlacesLive, Local, Grows
<1>1. CASE k.type \in VerificationTypes /\ jobState'[k] # jobState[k]
  <2>1. /\ jobState[k] = "none" /\ k.run = j.run /\ frame[k].at = "idle" /\ At(j, "enqueue")
        /\ \/ j.type = "prepare_repository" /\ j.run \in FixRuns /\ k.type = "run_deepsec_revalidation"
           \/ j.type = "run_deepsec_revalidation" /\ k.type = "run_strix_retest" /\ k.finding = j.finding
    BY <1>0, <1>1, FixWorkQueues DEF FindingJob, LiveFrame
  <2>2. CASE j.type = "prepare_repository" /\ k.type = "run_deepsec_revalidation"
    <3>1. "classifying" \in recorded'[k.run]
      BY <1>0, <2>1, <2>2 DEF FixHand, PrepareHand, At
    <3> QED BY <1>0, <2>1, <2>2, <3>1 DEF FixHand, PrepareHand, RevalidationHand, RetestHand, CompletionHand,
                                          Revalidating, CompletionPlaces
  <2>3. CASE j.type = "run_deepsec_revalidation" /\ k.type = "run_strix_retest"
    <3>1. /\ "source_review_running" \in recorded[j.run]
          /\ held[j].runtime = remediation[j.finding].runtime /\ held[j].runtime # "not_applicable"
      BY <1>0, <2>1, <2>3 DEF FixHand, RevalidationHand, Revalidating, CompletionPlaces, At
    <3>2. RuntimeConfirmed(j.finding) /\ j.finding \in Findings
      BY <1>0, <2>3, <3>1, InHandFinding DEF VerificationTypes
    <3>3. "source_review_running" \in recorded'[k.run] /\ RuntimeConfirmed(k.finding)'
      BY <1>0, <2>1, <2>3, <3>1, <3>2, FixWorkRest
    <3> QED BY <1>0, <2>1, <2>3, <3>3 DEF FixHand, PrepareHand, RevalidationHand, RetestHand, CompletionHand,
                                          CompletionPlaces
  <2> QED BY <2>1, <2>2, <2>3
<1>2. CASE ~(k.type \in VerificationTypes /\ jobState'[k] # jobState[k])
  <2>1. ASSUME k.type \in VerificationTypes, frame[k].at \in Holding
        PROVE  /\ held'[k] = held[k]
               /\ remediation'[k.finding] = remediation[k.finding]
               /\ findingStatus'[k.finding] = findingStatus[k.finding]
    <3>1. jobState[k] = "active" /\ jobState'[k] = "active"
      BY <1>0, <1>2, <2>1 DEF LiveFrame, Holding, Revalidating, CompletionPlaces
    <3>2. held'[k] = held[k]
      BY <3>1, FixWriters
    <3>3. k.finding \in Findings /\ LiveRun(k.run) /\ k.run \in FixRuns /\ verifies[k.run] = k.finding
      BY <2>1, <3>1, InHandFinding
    <3>4. ASSUME k.finding = j.finding, RevalidateJudge(j) \/ CompleteWrite(j) PROVE FALSE
      <4>1. j.type \in VerificationTypes /\ frame[j].at \in {"judge", "complete_write"}
        BY <3>4, CompletionRow, FixPlaceTypes DEF RevalidateJudge, At, RevalidationPlaces, VerificationTypes
      <4>2. k.run = j.run
        BY <1>0, <3>3, <3>4, <4>1, InHandFinding
      <4>3. k.type # j.type
        BY <2>1, <3>4, <4>1, <4>2, FindingJobs
      <4>4. CASE j.type = "run_deepsec_revalidation" /\ k.type = "run_strix_retest"
        BY <1>0, <3>1, <4>1, <4>2, <4>4, ReplayIsLater DEF Revalidating, CompletionPlaces
      <4>5. CASE j.type = "run_strix_retest" /\ k.type = "run_deepsec_revalidation"
        <5>1. frame[k].at \in Revalidating
          BY <2>1, <4>5, FixPlaceTypes DEF Holding
        <5> QED BY <1>0, <3>1, <4>2, <4>5, <5>1, ReplayIsLater
      <4> QED BY <2>1, <4>1, <4>3, <4>4, <4>5 DEF VerificationTypes
    <3> QED BY <3>2, <3>3, <3>4, FixWriters
  <2>2. ASSUME k.type = "run_deepsec_revalidation", frame[k].at \in Revalidating
        PROVE  LET replay == FindingJob("run_strix_retest", k.run, k.finding)
               IN  jobState'[replay] = jobState[replay]
    <3> DEFINE replay == FindingJob("run_strix_retest", k.run, k.finding)
    <3>1. /\ replay \in Jobs /\ replay.type = "run_strix_retest"
          /\ replay.run = k.run /\ replay.finding = k.finding
      BY <1>0, <2>2, FindingJobs DEF FindingJob, FindingTypes
    <3>2. jobState[replay] = "none"
      BY <1>0, <2>2 DEF FixHand, RevalidationHand
    <3>3. ASSUME jobState'[replay] # jobState[replay] PROVE FALSE
      <4>1. j.type = "run_deepsec_revalidation" /\ j.run = k.run /\ j.finding = k.finding
        BY <1>0, <3>1, <3>2, <3>3, FixWorkQueues DEF FindingJob
      <4> QED BY <2>2, <4>1, FindingJobs DEF FindingTypes
    <3> QED BY <3>3
  <2>3. k.type = "prepare_repository" /\ k.run \in FixRuns /\ frame[k].at = "write" =>
           recorded'[k.run] \subseteq {"cancelled"}
    BY FixWorkOthersRecords
  <2> HIDE DEF FixHand
  <2> QED BY <1>0, <1>2, <2>1, <2>2, <2>3, FixHandHeld
<1> QED BY <1>1, <1>2

\* A revalidation's finding stays at retesting until it is completed.
LEMMA RevalidationStays ==
  ASSUME FixTyping, FixInv, NEW j \in Jobs, FixWork(j), Local(j), ~CompleteWrite(j),
         j.type = "run_deepsec_revalidation"
  PROVE  LET replay == FindingJob("run_strix_retest", j.run, j.finding) IN
         /\ jobState[j] = "active" /\ j.finding \in Findings /\ j.run \in Runs
         /\ "classifying" \in recorded'[j.run]
         /\ frame[j].at \in Revalidating =>
              /\ findingStatus'[j.finding] = "retesting"
              /\ frame[j].at # "enqueue" => jobState'[replay] = "none"
              /\ remediation'[j.finding].runtime = held[j].runtime
         /\ frame[j].at \in Revalidating \ {"start"} => "source_review_running" \in recorded'[j.run]
<1> DEFINE replay == FindingJob("run_strix_retest", j.run, j.finding)
<1>1. /\ jobState[j] = "active" /\ j.finding \in Findings /\ j.run \in Runs
      /\ RevalidationHand(j) /\ recorded[j.run] \subseteq recorded'[j.run]
  BY JobFacts, FixWriters, FixPlaceTypes
     DEF FixInv, Repaired, FixHand, Local, Grows, VerificationTypes
<1>2. replay \in Jobs \ {j}
  BY <1>1, FindingJobs DEF FindingJob, FindingTypes
<1>3. frame[j].at # "enqueue" => jobState'[replay] = jobState[replay]
  BY <1>1, <1>2, FixWorkQueues DEF At
<1>4. remediation'[j.finding].runtime = remediation[j.finding].runtime
      /\ findingStatus'[j.finding] = findingStatus[j.finding]
  BY <1>1, FixWriters
<1> QED BY <1>1, <1>3, <1>4 DEF RevalidationHand

LEMMA BeginsRevalidation ==
  ASSUME FixTyping, FixInv, NEW j \in Jobs, FixWork(j), Local(j), RevalidateAssert(j)
  PROVE  RevalidationHand(j)'
<1>0. /\ j.type = "run_deepsec_revalidation" /\ jobState[j] = "active"
      /\ frame \in [Jobs -> Frames] /\ held \in [Jobs -> Remediations]
      /\ frame[j].at = "begin" /\ ~CompleteWrite(j)
  BY DEF RevalidateAssert, CompleteWrite, At, FixTyping, Typing, PipelineTypeOK, TypeOK
<1>a. "classifying" \in recorded'[j.run]
  BY <1>0, RevalidationStays
<1>1. CASE Throw(j)
  BY <1>0, <1>a, <1>1 DEF Throw, IdleFrame, RevalidationHand, Revalidating, CompletionPlaces
<1>2. CASE /\ CanTransitionRun(runStatus[j.run], "source_review_running")
           /\ Goto(j, "start") /\ UNCHANGED jobState /\ UNCHANGED storeVars
  <2> DEFINE replay == FindingJob("run_strix_retest", j.run, j.finding)
  <2>1. runStatus[j.run] = "classifying"
    BY <1>2 DEF CanTransitionRun, RunEdges
  <2>2. /\ j.run \in FixRuns /\ LiveRun(j.run) /\ j.finding = verifies[j.run] /\ j.finding \in Findings
        /\ j.run \in Runs
    BY <1>0, InHandFinding DEF VerificationTypes
  <2>3. "source_review_running" \notin recorded[j.run]
    BY <2>1, <2>2 DEF FixInv, Repaired, Trail
  <2>4. findingStatus[j.finding] = "retesting"
    BY <2>2, <2>3 DEF FixInv, Repaired, Verified
  <2>5. replay \in Jobs /\ replay.type = "run_strix_retest" /\ replay.run = j.run
    BY <2>2, FindingJobs DEF FindingJob, FindingTypes
  <2>6. jobState[replay] = "none"
    BY <2>3, <2>5 DEF FixInv, Repaired, FixHand, RetestHand
  <2>7. held'[j] = remediation[j.finding] /\ remediation' = remediation
    BY <1>0, <1>2 DEF RevalidateAssert
  <2>8. frame'[j].at = "start"
    BY <1>0, <1>2, GotoFrames DEF Labels
  <2> QED BY <1>0, <1>2, <1>a, <2>4, <2>6, <2>7, <2>8
          DEF RevalidationHand, Revalidating, CompletionPlaces, storeVars
<1> QED BY <1>1, <1>2 DEF RevalidateAssert, AssertRunTransition

LEMMA MovesRevalidation ==
  ASSUME FixTyping, FixInv, NEW j \in Jobs, FixWork(j), Local(j),
         \/ RevalidateStart(j) \/ RevalidateLookup(j)
         \/ RevalidateFinishAssert(j) \/ RevalidateFinishWrite(j)
         \/ RevalidateRunAssert(j) \/ RevalidateRunWrite(j) \/ RevalidateEnqueue(j)
  PROVE  RevalidationHand(j)'
<1>0. /\ j.type = "run_deepsec_revalidation" /\ jobState[j] = "active"
      /\ frame \in [Jobs -> Frames] /\ held \in [Jobs -> Remediations]
      /\ frame[j] \in Frames /\ j.run \in Runs
      /\ recorded \in [Runs -> SUBSET RunStatuses]
      /\ frame[j].at \in {"start", "review", "read", "write", "run_read", "run_write", "enqueue"}
  <2>1. j.type = "run_deepsec_revalidation" /\ jobState[j] = "active"
    BY FixPlaceTypes DEF RevalidateStart, RevalidateLookup, RevalidateFinishAssert, RevalidateFinishWrite,
       RevalidateRunAssert, RevalidateRunWrite, RevalidateEnqueue, At, RevalidationPlaces
  <2>2. frame[j].at \in {"start", "review", "read", "write", "run_read", "run_write", "enqueue"}
    BY DEF RevalidateStart, RevalidateLookup, RevalidateFinishAssert, RevalidateFinishWrite,
       RevalidateRunAssert, RevalidateRunWrite, RevalidateEnqueue, At
  <2> QED BY <2>1, <2>2, JobFacts DEF FixTyping, Typing, PipelineTypeOK, TypeOK
<1>1. /\ frame[j].at \in Revalidating /\ ~CompleteWrite(j) /\ RevalidationHand(j)
  BY <1>0 DEF Revalidating, CompleteWrite, At, FixInv, Repaired, FixHand
<1> DEFINE replay == FindingJob("run_strix_retest", j.run, j.finding)
<1>2. /\ "classifying" \in recorded'[j.run]
      /\ findingStatus'[j.finding] = "retesting"
      /\ frame[j].at # "enqueue" => jobState'[replay] = "none"
      /\ remediation'[j.finding].runtime = held[j].runtime
      /\ frame[j].at # "start" => "source_review_running" \in recorded'[j.run]
  BY <1>0, <1>1, RevalidationStays
<1> USE DEF Revalidating, CompletionPlaces
<1>3. CASE RevalidateStart(j)
  <2>1. frame'[j].at = "review" /\ held' = held /\ "source_review_running" \in recorded'[j.run]
    BY <1>0, <1>3, GotoFrames DEF RevalidateStart, WriteRunStatus, Labels
  <2> QED BY <1>0, <1>2, <1>3, <2>1 DEF RevalidationHand, RevalidateStart, At
<1>4. CASE RevalidateLookup(j)
  <2>1. frame'[j].at = "persist" /\ held' = held
    BY <1>0, <1>4 DEF RevalidateLookup, Frames
  <2> QED BY <1>0, <1>2, <1>4, <2>1 DEF RevalidationHand, RevalidateLookup, At
<1>5. CASE Throw(j)
  BY <1>0, <1>2, <1>5 DEF Throw, IdleFrame, RevalidationHand
<1>6. CASE RevalidateFinishAssert(j) /\ ~Throw(j)
  <2>1. frame'[j].at = "write" /\ held'[j] = held[j]
    BY <1>0, <1>6, GotoFrames DEF RevalidateFinishAssert, AssertRunTransition, Labels, HeldByActive
  <2> QED BY <1>0, <1>2, <1>6, <2>1 DEF RevalidationHand, RevalidateFinishAssert, At
<1>7. CASE RevalidateFinishWrite(j)
  <2>1. frame'[j].at = "judge" /\ held' = held
    BY <1>0, <1>7, GotoFrames DEF RevalidateFinishWrite, WriteRunStatus, Labels
  <2> QED BY <1>0, <1>2, <1>7, <2>1 DEF RevalidationHand, RevalidateFinishWrite, At
<1>8. CASE RevalidateRunAssert(j) /\ ~Throw(j)
  <2>1. /\ frame'[j].at = "run_write" /\ held'[j] = held[j] /\ held[j].runtime # "not_applicable"
        /\ frame[j].at = "run_read"
    BY <1>0, <1>1, <1>8, GotoFrames DEF RevalidateRunAssert, AssertRunTransition, Labels, HeldByActive,
       RevalidationHand, At
  <2> QED BY <1>0, <1>2, <2>1 DEF RevalidationHand
<1>9. CASE RevalidateRunWrite(j)
  <2>1. /\ frame'[j].at = "enqueue" /\ held' = held /\ held[j].runtime # "not_applicable"
        /\ frame[j].at = "run_write"
    BY <1>0, <1>1, <1>9, GotoFrames DEF RevalidateRunWrite, WriteRunStatus, Labels, RevalidationHand, At
  <2> QED BY <1>0, <1>2, <2>1 DEF RevalidationHand
<1>10. CASE RevalidateEnqueue(j)
  <2>1. frame'[j].at = "return"
    BY <1>0, <1>10, GotoFrames DEF RevalidateEnqueue, Labels
  <2> QED BY <1>0, <1>2, <2>1 DEF RevalidationHand
<1> QED BY <1>3, <1>4, <1>5, <1>6, <1>7, <1>8, <1>9, <1>10

LEMMA JudgesRevalidation ==
  ASSUME FixTyping, FixInv, NEW j \in Jobs, FixWork(j), Local(j), RevalidateJudge(j)
  PROVE  RevalidationHand(j)'
<1>0. /\ j.type = "run_deepsec_revalidation" /\ jobState[j] = "active" /\ frame[j].at = "judge"
      /\ frame \in [Jobs -> Frames] /\ frame[j] \in Frames
      /\ held \in [Jobs -> Remediations] /\ held[j] \in Remediations
  <2>1. j.type = "run_deepsec_revalidation" /\ jobState[j] = "active" /\ frame[j].at = "judge"
    BY FixPlaceTypes DEF RevalidateJudge, At, RevalidationPlaces
  <2> QED BY <2>1 DEF FixTyping, Typing, PipelineTypeOK, TypeOK
<1>1. frame[j].at \in Revalidating /\ ~CompleteWrite(j)
  BY <1>0 DEF Revalidating, CompleteWrite, At
<1>2. /\ "classifying" \in recorded'[j.run]
      /\ findingStatus'[j.finding] = "retesting"
      /\ jobState'[FindingJob("run_strix_retest", j.run, j.finding)] = "none"
      /\ remediation'[j.finding].runtime = held[j].runtime
      /\ "source_review_running" \in recorded'[j.run]
  BY <1>0, <1>1, RevalidationStays
<1>3. PICK source \in CheckVerdicts :
        IF held[j].runtime = "not_applicable"
          THEN /\ held' = [held EXCEPT ![j].source = source]
               /\ frame' = [frame EXCEPT ![j].at = "complete_read",
                                         ![j].decided = SourceOutcome(source)]
          ELSE Goto(j, "run_read") /\ UNCHANGED held
  BY DEF RevalidateJudge
<1>4. CASE held[j].runtime = "not_applicable"
  <2>1. /\ frame'[j].at = "complete_read" /\ frame'[j].decided = SourceOutcome(source)
        /\ held'[j].source = source /\ held'[j].runtime = held[j].runtime
    BY <1>0, <1>3, <1>4 DEF Frames, Remediations
  <2>2. SourceOutcome(source) = "verified_fixed" => source = "passed"
    BY DEF SourceOutcome, CheckVerdicts
  <2> QED BY <1>0, <1>2, <1>4, <2>1, <2>2 DEF RevalidationHand, CompletionPlaces
<1>5. CASE held[j].runtime # "not_applicable"
  <2>1. frame'[j].at = "run_read" /\ held' = held
    BY <1>0, <1>3, <1>5, GotoFrames DEF Labels
  <2> QED BY <1>0, <1>2, <1>5, <2>1 DEF RevalidationHand, CompletionPlaces
<1> QED BY <1>4, <1>5

\* A replay is judged fixed only if the source check passed and it did not
\* reproduce the exploit.
LEMMA FixedOutcome ==
  ASSUME NEW read \in Remediations, NEW r, NEW verdict \in Verdicts,
         RetestOutcome(read, r, verdict) = "verified_fixed"
  PROVE  read.source = "passed" /\ verdict = "not_reproduced"
BY DEF RetestOutcome, ReplayOutcome, ReplayVerdict, Verdicts, Remediations, CheckVerdicts

LEMMA MovesRetest ==
  ASSUME FixTyping, FixInv, NEW j \in Jobs, FixWork(j), Local(j), RetestMission(j) \/ RetestPersist(j)
  PROVE  j.type = "run_strix_retest" /\ RetestHand(j)'
<1>0. /\ j.type = "run_strix_retest" /\ jobState[j] = "active"
      /\ frame \in [Jobs -> Frames] /\ frame[j] \in Frames
      /\ held \in [Jobs -> Remediations] /\ held[j] \in Remediations
      /\ j.finding \in Findings /\ j.run \in Runs
  <2>1. j.type = "run_strix_retest" /\ jobState[j] = "active"
    BY FixPlaceTypes DEF RetestMission, RetestPersist, At
  <2> QED BY <2>1, InHandFinding DEF FixTyping, Typing, PipelineTypeOK, TypeOK, VerificationTypes
<1>1. "source_review_running" \in recorded'[j.run] /\ RuntimeConfirmed(j.finding)' /\ RetestHand(j)
  <2>1. "source_review_running" \in recorded[j.run] /\ RuntimeConfirmed(j.finding) /\ RetestHand(j)
    BY <1>0 DEF FixInv, Repaired, FixHand, RetestHand
  <2> QED BY <1>0, <2>1, FixWorkRest DEF Local, Grows
<1>2. CASE RetestMission(j)
  <2>1. CASE Throw(j)
    BY <1>0, <1>1, <2>1 DEF Throw, IdleFrame, RetestHand, CompletionPlaces
  <2>2. ASSUME NEW verdict \in Verdicts,
               frame' = [frame EXCEPT ![j].at = "replayed", ![j].decided = verdict],
               held' = [held EXCEPT ![j] = remediation[j.finding]]
        PROVE  RetestHand(j)'
    <3>1. frame'[j].at = "replayed" /\ held'[j] = remediation[j.finding]
      BY <1>0, <2>2 DEF Frames
    <3>2. remediation' = remediation
      BY <1>2 DEF RetestMission
    <3> QED BY <1>0, <1>1, <3>1, <3>2 DEF RetestHand, CompletionPlaces
  <2> QED BY <1>0, <1>2, <2>1, <2>2 DEF RetestMission
<1>3. CASE RetestPersist(j)
  <2> DEFINE verdict == frame[j].decided
             row == [finding |-> j.finding, run |-> j.run, verdict |-> verdict, attempt |-> attempts[j]]
  <2>1. verdict \in Verdicts /\ held[j] = remediation[j.finding]
    BY <1>1, <1>0, <1>3, FixPlaceTypes DEF RetestPersist, At, RetestHand
  <2>2. /\ validations' = validations \cup {row}
        /\ remediation' = remediation
        /\ held' = [held EXCEPT ![j].runtime = ReplayVerdict(verdict),
                                ![j].source = IF @ = "pending" THEN "inconclusive" ELSE @]
        /\ frame' = [frame EXCEPT ![j].at = "complete_read",
                                  ![j].decided = RetestOutcome(held[j], j.run, verdict)]
    BY <1>3 DEF RetestPersist
  <2>3. /\ frame'[j].at = "complete_read"
        /\ frame'[j].decided = RetestOutcome(held[j], j.run, verdict)
    BY <1>0, <2>2 DEF Frames
  <2>4. /\ held'[j].runtime = ReplayVerdict(verdict)
        /\ held'[j].source = IF held[j].source = "pending" THEN "inconclusive" ELSE held[j].source
    BY <1>0, <2>2 DEF Remediations
  <2>5. ReplayVerdict(verdict) # "not_applicable"
    BY DEF ReplayVerdict
  <2>6. frame'[j].decided = "verified_fixed" => held'[j].source = "passed" /\ verdict = "not_reproduced"
    <3>1. ASSUME RetestOutcome(held[j], j.run, verdict) = "verified_fixed"
          PROVE  held[j].source = "passed" /\ verdict = "not_reproduced"
      <4> HIDE DEF verdict
      <4> QED BY <1>0, <2>1, <3>1, FixedOutcome
    <3> QED BY <2>3, <2>4, <3>1
  <2>7. row \in validations' /\ row.finding = j.finding /\ row.run = j.run /\ row.verdict = verdict
    BY <2>2
  <2> HIDE DEF row, verdict
  <2> QED BY <1>0, <1>1, <2>1, <2>2, <2>3, <2>4, <2>5, <2>6, <2>7 DEF RetestHand, CompletionPlaces
<1> QED BY <1>0, <1>2, <1>3

LEMMA AssertsCompletion ==
  ASSUME FixTyping, FixInv, NEW j \in Jobs, FixWork(j), Local(j), CompleteAssert(j)
  PROVE  FixHand(j)'
<1>0. /\ j.type \in VerificationTypes /\ jobState[j] = "active" /\ frame[j].at = "complete_read"
      /\ frame \in [Jobs -> Frames] /\ held \in [Jobs -> Remediations]
      /\ FixHand(j) /\ j.run \in Runs
      /\ recorded[j.run] \subseteq recorded'[j.run]
      /\ ~CompleteWrite(j)
  <2>1. j.type \in VerificationTypes /\ jobState[j] = "active" /\ frame[j].at = "complete_read"
    BY FixPlaceTypes DEF CompleteAssert, At, CompletionPlaces
  <2>2. ~CompleteWrite(j)
    BY <2>1 DEF CompleteWrite, At
  <2> QED BY <2>1, <2>2, JobFacts DEF FixTyping, Typing, PipelineTypeOK, TypeOK, FixInv, Repaired, Local, Grows
<1>1. UNCHANGED <<storeVars, remediation>>
  BY DEF CompleteAssert
<1> USE DEF storeVars
<1>2. PrepareHand(j)'
  BY <1>0 DEF PrepareHand, VerificationTypes
<1>3. CASE Throw(j)
  <2>1. frame'[j].at = "idle"
    BY <1>0, <1>3 DEF Throw, IdleFrame
  <2> QED BY <1>0, <1>1, <1>2, <2>1 DEF FixHand, RevalidationHand, RetestHand, CompletionHand, Revalidating,
                                        CompletionPlaces, RuntimeConfirmed
<1>4. CASE /\ \/ FindingStatusOf(frame[j].decided) = "retesting"
              \/ CanTransitionFinding(findingStatus[j.finding], FindingStatusOf(frame[j].decided))
           /\ Goto(j, "complete_write") /\ UNCHANGED jobState
  <2>1. frame'[j].at = "complete_write" /\ frame'[j].decided = frame[j].decided
    BY <1>0, <1>4, GotoFrames DEF Labels
  <2>2. held'[j] = held[j] /\ jobState' = jobState
    BY <1>0, <1>4 DEF CompleteAssert, HeldByActive
  <2>3. RevalidationHand(j)'
    BY <1>0, <1>1, <2>1, <2>2 DEF FixHand, RevalidationHand, Revalidating, CompletionPlaces
  <2>4. RetestHand(j)'
    BY <1>0, <1>1, <2>1, <2>2 DEF FixHand, RetestHand, CompletionPlaces, RuntimeConfirmed
  <2>5. CompletionHand(j)'
    BY <1>1, <1>4, <2>1 DEF CompletionHand
  <2> QED BY <1>2, <2>3, <2>4, <2>5 DEF FixHand
<1> QED BY <1>3, <1>4 DEF CompleteAssert

LEMMA FixWorkOwn ==
  ASSUME FixTyping, FixInv, NEW j \in Jobs, FixWork(j), Local(j)
  PROVE  FixHand(j)'
<1>0. /\ jobState[j] = "active" /\ FixHand(j)
      /\ frame \in [Jobs -> Frames] /\ frame[j] \in Frames
      /\ recorded[j.run] \subseteq recorded'[j.run]
  BY FixWriters, JobFacts DEF FixInv, Repaired, Local, Grows, FixTyping, Typing, PipelineTypeOK, TypeOK
<1>1. CASE FixPrepareEnqueue(j)
  <2>1. j.type = "prepare_repository" /\ frame'[j].at = "return"
    BY <1>0, <1>1, GotoFrames DEF FixPrepareEnqueue, Labels
  <2> QED BY <2>1 DEF FixHand, PrepareHand, RevalidationHand, RetestHand, CompletionHand
<1>2. CASE \/ RevalidateAssert(j) \/ RevalidateStart(j) \/ RevalidateLookup(j)
           \/ RevalidateFinishAssert(j) \/ RevalidateFinishWrite(j) \/ RevalidateJudge(j)
           \/ RevalidateRunAssert(j) \/ RevalidateRunWrite(j) \/ RevalidateEnqueue(j)
  <2>1. RevalidationHand(j)'
    BY <1>2, BeginsRevalidation, MovesRevalidation, JudgesRevalidation
  <2>2. j.type = "run_deepsec_revalidation"
    BY <1>2, FixPlaceTypes DEF RevalidateAssert, RevalidateStart, RevalidateLookup, RevalidateFinishAssert,
     RevalidateFinishWrite, RevalidateJudge, RevalidateRunAssert, RevalidateRunWrite, RevalidateEnqueue,
     RevalidationPlaces, At
  <2>3. frame'[j].at # "complete_write"
    <3>1. CASE Throw(j)
      BY <1>0, <3>1 DEF Throw, IdleFrame
    <3>2. CASE RevalidateLookup(j)
      BY <1>0, <3>2 DEF RevalidateLookup, Frames
    <3>4. CASE RevalidateJudge(j)
      <4>1. PICK source \in CheckVerdicts :
              \/ frame' = [frame EXCEPT ![j].at = "complete_read",
                                        ![j].decided = SourceOutcome(source)]
              \/ Goto(j, "run_read")
        BY <3>4 DEF RevalidateJudge
      <4> QED BY <1>0, <4>1, GotoFrames DEF Frames, Labels
    <3>3. CASE ~Throw(j) /\ ~RevalidateLookup(j) /\ ~RevalidateJudge(j)
      BY <1>0, <1>2, <3>3, GotoFrames
         DEF RevalidateAssert, RevalidateStart, RevalidateFinishAssert, RevalidateFinishWrite,
             RevalidateRunAssert, RevalidateRunWrite, RevalidateEnqueue, AssertRunTransition,
             WriteRunStatus, Labels
    <3> QED BY <3>1, <3>2, <3>3, <3>4
  <2> QED BY <2>1, <2>2, <2>3 DEF FixHand, PrepareHand, RetestHand, CompletionHand
<1>3. CASE RetestMission(j) \/ RetestPersist(j)
  <2>1. j.type = "run_strix_retest" /\ RetestHand(j)'
    BY <1>3, MovesRetest
  <2>2. frame'[j].at # "complete_write"
    BY <1>0, <1>3 DEF RetestMission, RetestPersist, Throw, IdleFrame, Frames
  <2> QED BY <2>1, <2>2 DEF FixHand, PrepareHand, RevalidationHand, CompletionHand
<1>4. CASE CompleteAssert(j)
  BY <1>4, AssertsCompletion
<1>5. CASE CompleteWrite(j)
  <2>1. frame'[j].at = "finalize"
    BY <1>0, <1>5, GotoFrames DEF CompleteWrite, Labels
  <2>2. jobState' = jobState /\ j.type \in VerificationTypes /\ j.finding \in Findings
    BY <1>5, CompletionRow DEF CompleteWrite
  <2> QED BY <1>0, <2>1, <2>2, FixWorkRest DEF FixHand, PrepareHand, RevalidationHand, RetestHand, CompletionHand,
                     Revalidating, CompletionPlaces, VerificationTypes
<1> QED BY <1>1, <1>2, <1>3, <1>4, <1>5, FixActions

\* A fix that a verification has judged stays vouched for, and a completion
\* vouches for the one it marks.
LEMMA FixWorkVouched ==
  ASSUME FixTyping, FixInv, NEW j \in Jobs, FixWork(j), Local(j)
  PROVE  FixedIsVouchedFor'
<1> SUFFICES ASSUME NEW g \in Findings, findingStatus'[g] = "verified_fixed"
             PROVE  \E r \in FixRuns : VouchedBy(g, r)'
  BY DEF FixedIsVouchedFor
<1>0. /\ remediation'[g].fix = remediation[g].fix /\ verifies' = verifies
      /\ validations \subseteq validations' /\ (RuntimeConfirmed(g)' <=> RuntimeConfirmed(g))
  BY FixWriters, FixWorkRest DEF Local, Grows
<1>1. CASE /\ CompleteWrite(j) /\ g = j.finding /\ frame[j].decided # "verification_failed"
  <2>1. /\ j.type \in VerificationTypes /\ jobState[j] = "active" /\ frame[j].at = "complete_write"
        /\ frame[j].decided \in VerificationOutcomes
        /\ remediation'[g].source = held[j].source
        /\ held[j].runtime # "not_applicable" <=> RuntimeConfirmed(g)
    BY <1>1, CompletionRow
  <2>2. frame[j].decided = "verified_fixed"
    <3>1. findingStatus'[g] = FindingStatusOf(frame[j].decided)
      BY <1>1 DEF CompleteWrite, FixTyping, Typing, PipelineTypeOK, TypeOK
    <3> QED BY <2>1, <3>1 DEF FindingStatusOf, VerificationOutcomes
  <2>3. j.run \in FixRuns /\ g = verifies[j.run] /\ Head[j.run] = remediation[g].fix
    BY <1>1, <2>1, InHandFinding
  <2>4. FixHand(j)
    BY DEF FixInv, Repaired
  <2>5. held[j].source = "passed" /\
        (RuntimeConfirmed(g) => \E v \in validations :
           v.finding = g /\ v.run = j.run /\ v.verdict = "not_reproduced")
    <3>1. CASE j.type = "run_deepsec_revalidation"
      BY <2>1, <2>2, <2>4, <3>1 DEF FixHand, RevalidationHand, CompletionPlaces
    <3>2. CASE j.type = "run_strix_retest"
      BY <1>1, <2>1, <2>2, <2>4, <3>2 DEF FixHand, RetestHand, CompletionPlaces
    <3> QED BY <2>1, <3>1, <3>2 DEF VerificationTypes
  <2>6. VouchedBy(g, j.run)'
    BY <1>0, <2>1, <2>3, <2>5 DEF VouchedBy
  <2> QED BY <2>3, <2>6
<1>2. CASE ~(CompleteWrite(j) /\ g = j.finding /\ frame[j].decided # "verification_failed")
  <2>1. findingStatus[g] = "verified_fixed"
    BY <1>2, FixWriters DEF CompleteWrite
  <2>2. PICK r \in FixRuns : VouchedBy(g, r)
    BY <2>1 DEF FixInv, FixedIsVouchedFor
  <2>3. remediation'[g].source = "passed"
    <3>1. CASE remediation'[g] = remediation[g]
      BY <2>2, <3>1 DEF VouchedBy
    <3>2. CASE g = j.finding /\ RevalidateJudge(j)
      <4>1. j.type = "run_deepsec_revalidation" /\ frame[j].at = "judge"
        BY <3>2, FixPlaceTypes DEF RevalidateJudge, At, RevalidationPlaces
      <4>2. findingStatus[g] = "retesting"
        BY <3>2, <4>1 DEF FixInv, Repaired, FixHand, RevalidationHand, Revalidating
      <4> QED BY <2>1, <4>2
    <3>3. CASE g = j.finding /\ CompleteWrite(j)
      <4>0. /\ j.type \in VerificationTypes /\ frame[j].at = "complete_write"
            /\ remediation'[g].source = held[j].source
        BY <3>3, CompletionRow
      <4>1. CASE j.type = "run_deepsec_revalidation"
        <5>1. findingStatus[g] = "retesting"
          BY <3>3, <4>0, <4>1
             DEF FixInv, Repaired, FixHand, RevalidationHand, Revalidating, CompletionPlaces
        <5> QED BY <2>1, <5>1
      <4>2. CASE j.type = "run_strix_retest"
        <5>1. held[j].source # remediation[g].source => remediation[g].source = "pending"
          BY <3>3, <4>0, <4>2 DEF FixInv, Repaired, FixHand, RetestHand, CompletionPlaces
        <5> QED BY <2>2, <4>0, <5>1 DEF VouchedBy
      <4> QED BY <4>0, <4>1, <4>2 DEF VerificationTypes
    <3> QED BY <3>1, <3>2, <3>3, FixWriters
  <2> QED BY <1>0, <2>2, <2>3 DEF VouchedBy
<1> QED BY <1>1, <1>2

LEMMA FixWorkKeeps ==
  ASSUME FixTyping, FixInv, NEW j \in Jobs, FixWork(j)
  PROVE  FixInv'
<1>1. Local(j)
  BY FixWorkLocal DEF FixInv
<1>2. QueueShape'
  BY <1>1, LocalShape DEF FixInv
<1>3. \A k \in Jobs : FixHand(k)'
  BY <1>1, FixWorkOwn, FixWorkOthers
<1> QED BY <1>1, <1>2, <1>3, FixWorkReviews, FixWorkFindings, FixWorkRuns, FixWorkVouched DEF FixInv, Repaired

-----------------------------------------------------------------------------
(* The theorems.                                                           *)

LEMMA FixInitInv == FixInit => FixInv
<1> SUFFICES ASSUME FixInit PROVE FixInv
  OBVIOUS
<1> USE DEF FixInit, Init, ControlPlaneInit, IdleFrame, NoRemediation
<1>1. QueueShape
  BY JobFacts DEF QueueShape, PlacesLive, LiveFrame, JobFits, RunFits
<1>2. ReviewsApart
  BY DEF ReviewsApart, ReviewHand
<1>3. \A f \in Findings : FindingFixed(f)
  BY DEF FindingFixed, Fixing, FixStatuses
<1>4. /\ \A r \in Runs : Called(r)
      /\ \A r \in FixRuns : Verified(r) /\ Trail(r)
  BY RunsAssumption DEF Called, Verified, Trail, LiveRun, JobsOf
<1>5. \A j \in Jobs : FixHand(j)
  BY DEF FixHand, PrepareHand, RevalidationHand, RetestHand, CompletionHand, Revalidating, CompletionPlaces
<1>6. FixedIsVouchedFor
  BY DEF FixedIsVouchedFor
<1> QED BY <1>1, <1>2, <1>3, <1>4, <1>5, <1>6 DEF FixInv, Repaired

LEMMA FixStutter ==
  ASSUME FixInv, UNCHANGED allVars
  PROVE  FixInv'
<1> USE DEF allVars, vars, storeVars, queueVars, apiVars, fixVars
<1>1. QueueShape'
  BY DEF FixInv, QueueShape, PlacesLive, LiveFrame, JobFits, RunFits
<1>2. ReviewsApart'
  BY DEF FixInv, ReviewsApart, ReviewHand, Exists
<1>3. \A f \in Findings : FindingFixed(f)'
  BY DEF FixInv, Repaired, FindingFixed, Fixing, AtRest, LiveRun, Exists, RuntimeConfirmed
<1>4. /\ \A r \in Runs : Called(r)'
      /\ \A r \in FixRuns : Verified(r)' /\ Trail(r)'
  BY DEF FixInv, Repaired, Called, Verified, Trail, AtRest, LiveRun
<1>5. \A j \in Jobs : FixHand(j)'
  BY DEF FixInv, Repaired, FixHand, PrepareHand, RevalidationHand, RetestHand, CompletionHand, RuntimeConfirmed
<1>6. FixedIsVouchedFor'
  BY DEF FixInv, FixedIsVouchedFor, VouchedBy, RuntimeConfirmed
<1> QED BY <1>1, <1>2, <1>3, <1>4, <1>5, <1>6 DEF FixInv, Repaired

LEMMA FixStepInv ==
  ASSUME Awaited = Runs
  PROVE  FixTyping /\ FixInv /\ OneVerifyCall /\ [FixNext]_allVars => FixInv'
BY ReviewKeepsFixes, CallKeepsFixes, FixWorkKeeps, FixStutter DEF FixNext

\* The invariant that fixes rest on: one party at a time, a call or one
\* verification run, acts on a finding under repair.
THEOREM FixInvariant ==
  ASSUME Awaited = Runs
  PROVE  FixSpec /\ []OneVerifyCall => []FixInv
<1>1. FixInit => FixInv
  BY FixInitInv
<1>2. FixTyping /\ FixInv /\ OneVerifyCall /\ [FixNext]_allVars => FixInv'
  BY FixStepInv
<1> QED BY <1>1, <1>2, FixTypingInvariant, PTL DEF FixSpec

\* determineVerificationOutcome and its callers: for clients who await a
\* finding's runs, a finding is verified_fixed only when a verification of the
\* commit on record passed its source check and, if the finding was ever
\* confirmed at runtime, the exploit did not reproduce.
THEOREM FixesAreVouchedFor ==
  ASSUME Awaited = Runs
  PROVE  FixSpec /\ []OneVerifyCall => []FixedIsVouchedFor
<1>1. FixInv => FixedIsVouchedFor
  BY DEF FixInv
<1> QED BY <1>1, FixInvariant, PTL

\* The path of a verification follows from what is known of the finding: the
\* replay is queued only for one confirmed at runtime, and the source alone
\* decides only for the others.
THEOREM ReplayFollowsEvidence ==
  ASSUME Awaited = Runs
  PROVE  FixSpec /\ []OneVerifyCall => []ReplayedIffConfirmed
<1>1. FixTyping /\ FixInv => ReplayedIffConfirmed
  <2> SUFFICES ASSUME FixTyping, FixInv, NEW j \in Jobs
               PROVE  /\ (j.type = "run_strix_retest" /\ jobState[j] # "none") => RuntimeConfirmed(j.finding)
                      /\ (j.type = "run_deepsec_revalidation" /\ frame[j].at \in {"complete_read", "complete_write"})
                           => ~RuntimeConfirmed(j.finding)
    BY DEF ReplayedIffConfirmed
  <2>1. FixHand(j) /\ LiveFrame(j)
    BY DEF FixInv, Repaired, QueueShape, PlacesLive
  <2>2. ASSUME j.type = "run_deepsec_revalidation", frame[j].at \in CompletionPlaces
        PROVE  ~RuntimeConfirmed(j.finding)
    <3>1. held[j].runtime = "not_applicable" /\ held[j].runtime = remediation[j.finding].runtime
      BY <2>1, <2>2 DEF FixHand, RevalidationHand, Revalidating
    <3>2. jobState[j] = "active"
      BY <2>1, <2>2 DEF LiveFrame, CompletionPlaces
    <3> QED BY <2>2, <3>1, <3>2, InHandFinding DEF VerificationTypes
  <2> QED BY <2>1, <2>2 DEF FixHand, RetestHand, CompletionPlaces
<1> QED BY <1>1, FixInvariant, FixTypingInvariant, PTL

\* finding-state-machine.ts, over every writer of Finding.status: no write is
\* lost, for each finds the status it was decided from, although it is read and
\* written apart.
THEOREM FindingEdgesTaken ==
  ASSUME Awaited = Runs
  PROVE  FixSpec /\ []OneVerifyCall => FindingStepsLegal
<1> DEFINE Legal ==
      \A f \in Findings : findingStatus'[f] # findingStatus[f] =>
       \/ findingStatus[f] = "absent"
       \/ CanTransitionFinding(findingStatus[f], findingStatus'[f])
       \/ /\ CanTransitionFinding(findingStatus[f], "fix_pending")
          /\ findingStatus'[f] = "fix_submitted"
<1>1. FixTyping /\ FixInv /\ [FixNext]_allVars => [Legal]_allVars
  <2> SUFFICES ASSUME FixTyping, FixInv, FixNext PROVE Legal
    OBVIOUS
  <2>1. CASE UNCHANGED findingStatus
    BY <2>1
  <2>2. ASSUME NEW j \in Jobs, Work(j) PROVE Legal
    <3>1. ReviewMoves(j)
      BY <2>2, WorkReviewMoves DEF FixInv
    <3>2. CanTransitionFinding("source_confirmed", "validation_queued")
      BY DEF CanTransitionFinding, FindingEdges
    <3> QED BY <3>1, <3>2 DEF ReviewMoves, Exists
  <2>3. ASSUME NEW j \in Jobs, Fault(j) PROVE UNCHANGED findingStatus
    BY <2>3 DEF Fault, Interrupt, storeVars
  <2>4. ASSUME NEW r \in Runs, ApiStep(r) PROVE UNCHANGED findingStatus
    BY <2>4 DEF ApiStep, CreateReview, EnqueuePrepare, CreateInterrupted, CancelAssert, CancelWrite,
                FetchGather, FetchStore, storeVars
  <2>5. ASSUME NEW f \in Findings, SubmitWrite(f) PROVE Legal
    <3>1. findingStatus[f] \in HopToFixPendingFrom \cup {"fix_pending"}
      BY <2>5 DEF SubmitWrite, FixInv, Repaired, FindingFixed
    <3>2. \/ CanTransitionFinding(findingStatus[f], "fix_submitted")
          \/ CanTransitionFinding(findingStatus[f], "fix_pending")
      BY <3>1 DEF HopToFixPendingFrom, CanTransitionFinding, FindingEdges
    <3> QED BY <2>5, <3>2 DEF SubmitWrite, FixTyping, Typing, PipelineTypeOK, TypeOK
  <2>6. ASSUME NEW f \in Findings, NEW fix \in Fixes, SubmitAssert(f, fix) PROVE UNCHANGED findingStatus
    BY <2>6 DEF SubmitAssert, vars, storeVars
  <2>7. ASSUME NEW r \in FixRuns, VerifyWrite(r) PROVE Legal
    <3>1. findingStatus[verifying[r]] = "fix_submitted" /\ findingStatus'[verifying[r]] = "retesting"
          /\ \A g \in Findings \ {verifying[r]} : findingStatus'[g] = findingStatus[g]
      BY <2>7, VerifyWriteRows
    <3> QED BY <3>1 DEF CanTransitionFinding, FindingEdges
  <2>8. ASSUME NEW r \in FixRuns, NEW f \in Findings, VerifyAssert(f, r) PROVE UNCHANGED findingStatus
    BY <2>8 DEF VerifyAssert, vars, storeVars
  <2>9. ASSUME NEW j \in Jobs, FixWork(j) PROVE Legal
    <3>1. CASE CompleteWrite(j)
      <4>1. /\ \A g \in Findings : \/ findingStatus'[g] = findingStatus[g]
                                   \/ /\ g = j.finding /\ frame[j].decided # "verification_failed"
                                      /\ findingStatus'[g] = FindingStatusOf(frame[j].decided)
        BY <3>1 DEF CompleteWrite, FixTyping, Typing, PipelineTypeOK, TypeOK
      <4>2. FindingStatusOf(frame[j].decided) = "retesting" => frame[j].decided = "verification_failed"
        BY <3>1, CompletionRow DEF FindingStatusOf, VerificationOutcomes
      <4>3. FindingStatusOf(frame[j].decided) # "retesting" =>
              CanTransitionFinding(findingStatus[j.finding], FindingStatusOf(frame[j].decided))
        BY <3>1, CompletionRow DEF FixInv, Repaired, FixHand, CompletionHand
      <4> QED BY <4>1, <4>2, <4>3
    <3> QED BY <2>1, <2>9, <3>1, FixWriters
  <2> QED BY <2>1, <2>2, <2>3, <2>4, <2>5, <2>6, <2>7, <2>8, <2>9 DEF FixNext, ReviewStep, Next, FixCall
<1>2. FixSpec /\ []OneVerifyCall => [][Legal]_allVars
  BY <1>1, FixInvariant, FixTypingInvariant, PTL DEF FixSpec
<1> QED BY <1>2 DEF FindingStepsLegal

-----------------------------------------------------------------------------
(* Why a finding stays at retesting.                                       *)

\* A job that is still to lead to the completion of its verification.
Going(j) ==
  /\ j.type \in {"prepare_repository"} \cup VerificationTypes
  /\ \/ jobState[j] = "waiting"
     \/ jobState[j] = "active" /\ frame[j].at \notin FinalPlaces \cup {"return"}

\* The run's first job was never queued, a job of it is dead, or it failed
\* operationally.
Stuck(r, f) ==
  \/ \A j \in JobsOf(r) : jobState[j] = "none"
  \/ \E j \in JobsOf(r) : jobState[j] = "dead"
  \/ remediation[f].source = "inconclusive"
  \/ \E v \in validations : v.run = r /\ v.finding = f /\ v.verdict = "failed"

Accounted(f) ==
  \E r \in FixRuns :
    verifies[r] = f /\ (r \in creating \/ (\E j \in JobsOf(r) : Going(j)) \/ Stuck(r, f))

\* The preparation queues the revalidation once, and a verification that failed
\* operationally has left its trace.
CauseHand(j) ==
  /\ j.type = "prepare_repository" /\ j.run \in FixRuns /\ frame[j].at \in {"write", "snapshot", "enqueue"} =>
       \A k \in JobsOf(j.run) : k.type = "run_deepsec_revalidation" => jobState[k] = "none"
  /\ frame[j].at \in CompletionPlaces /\ frame[j].decided = "verification_failed" =>
       \/ held[j].source = "inconclusive"
       \/ \E v \in validations : v.run = j.run /\ v.finding = j.finding /\ v.verdict = "failed"

RetestInv ==
  /\ \A f \in Findings : findingStatus[f] = "retesting" => Accounted(f)
  /\ \A j \in Jobs : CauseHand(j)

\* The run of j is still on its way, or stuck, after the step.
Continues(j) ==
  \/ \E k \in JobsOf(j.run) : Going(k)'
  \/ Stuck(j.run, verifies[j.run])'

\* A step of job j leaves a finding at retesting accounted for, if it carries on
\* what j has begun and takes no failure back without a new attempt.
LEMMA LocalAccounted ==
  ASSUME FixTyping, NEW j \in Jobs, Local(j), NEW f \in Findings, Accounted(f),
         Going(j) /\ j.run \in FixRuns /\ verifies[j.run] = f => Continues(j),
         remediation[f].source = "inconclusive" /\ remediation'[f].source # "inconclusive" =>
           j.run \in FixRuns /\ verifies[j.run] = f /\ Continues(j)
  PROVE  Accounted(f)'
<1>0. UNCHANGED <<creating, verifies>> /\ validations \subseteq validations'
  BY DEF Local, apiVars, Grows
<1>1. PICK r \in FixRuns :
        verifies[r] = f /\ (r \in creating \/ (\E k \in JobsOf(r) : Going(k)) \/ Stuck(r, f))
  BY DEF Accounted
<1>2. ASSUME j.run \in FixRuns, verifies[j.run] = f, Continues(j) PROVE Accounted(f)'
  BY <1>0, <1>2 DEF Continues, Accounted, JobsOf
<1>3. ASSUME NEW k \in Jobs \ {j}, jobState[k] # "none"
      PROVE  jobState'[k] = jobState[k] /\ frame'[k] = frame[k]
  BY <1>3 DEF Local
<1>4. CASE r \in creating
  BY <1>0, <1>1, <1>4 DEF Accounted
<1>5. ASSUME NEW k \in JobsOf(r), Going(k) PROVE Accounted(f)'
  <2>1. CASE k = j
    BY <1>1, <1>2, <1>5, <2>1 DEF JobsOf
  <2>2. CASE k # j
    <3>1. k \in Jobs \ {j} /\ k \in JobsOf(r)' /\ jobState[k] # "none"
      BY <1>5, <2>2 DEF JobsOf, Going
    <3>2. Going(k)'
      BY <1>3, <1>5, <3>1 DEF Going
    <3> QED BY <1>0, <1>1, <3>1, <3>2 DEF Accounted
  <2> QED BY <2>1, <2>2
<1>6. CASE Stuck(r, f)
  <2>1. CASE \A k \in JobsOf(r) : jobState[k] = "none"
    <3>1. j.run # r
      BY <2>1 DEF Local, JobsOf
    <3>2. \A k \in JobsOf(r) : jobState'[k] = "none"
      BY <2>1, <3>1 DEF Local, Joins, JobsOf
    <3> QED BY <1>0, <1>1, <3>2 DEF Accounted, Stuck, JobsOf
  <2>2. ASSUME NEW k \in JobsOf(r), jobState[k] = "dead" PROVE Accounted(f)'
    <3>1. jobState'[k] = "dead"
      BY <1>3, <2>2 DEF Local, JobsOf
    <3> QED BY <1>0, <1>1, <3>1 DEF Accounted, Stuck, JobsOf
  <2>3. CASE remediation[f].source = "inconclusive"
    <3>1. CASE remediation'[f].source = "inconclusive"
      BY <1>0, <1>1, <3>1 DEF Accounted, Stuck
    <3> QED BY <1>2, <2>3, <3>1
  <2>4. CASE \E v \in validations : v.run = r /\ v.finding = f /\ v.verdict = "failed"
    BY <1>0, <1>1, <2>4 DEF Accounted, Stuck
  <2> QED BY <1>6, <2>1, <2>2, <2>3, <2>4 DEF Stuck
<1> QED BY <1>1, <1>4, <1>5, <1>6

\* A job that throws is tried again or is dead.
LEMMA ThrowContinues ==
  ASSUME FixTyping, NEW j \in Jobs, Throw(j), j.type \in {"prepare_repository"} \cup VerificationTypes
  PROVE  Continues(j)
<1>1. jobState'[j] \in {"waiting", "dead"}
  BY DEF Throw, FixTyping, Typing, PipelineTypeOK, TypeOK
<1> QED BY <1>1 DEF Continues, Going, Stuck, JobsOf

\* So does one that is at a place of its handler before the last ones.
LEMMA MoveContinues ==
  ASSUME NEW j \in Jobs, j.type \in {"prepare_repository"} \cup VerificationTypes,
         jobState'[j] = "active", frame'[j].at \notin FinalPlaces \cup {"return"}
  PROVE  Continues(j)
BY DEF Continues, Going, JobsOf

LEMMA WorkContinues ==
  ASSUME FixTyping, NEW j \in Jobs, Work(j), Going(j), j.run \in FixRuns
  PROVE  Continues(j)
<1>0. /\ frame \in [Jobs -> Frames] /\ jobState \in [Jobs -> JobStates]
      /\ j.type \in {"prepare_repository"} \cup VerificationTypes
  BY DEF Going, FixTyping, Typing, PipelineTypeOK, TypeOK
<1>1. CASE Throw(j)
  BY <1>0, <1>1, ThrowContinues
<1>2. CASE PickUp(j)
  <2>1. jobState'[j] = "active" /\ frame'[j].at = "begin"
    BY <1>0, <1>2, GotoFrames DEF PickUp, Labels
  <2> QED BY <1>0, <2>1, MoveContinues DEF FinalPlaces
<1>3. ~Return(j)
  BY DEF Return, At, Going
<1>4. CASE PrepareAssert(j) /\ ~Throw(j)
  <2>1. jobState'[j] = "active" /\ frame'[j].at = "write"
    BY <1>0, <1>4, GotoFrames DEF PrepareAssert, AssertRunTransition, At, Labels
  <2> QED BY <1>0, <2>1, MoveContinues DEF FinalPlaces
<1>5. CASE PrepareWrite(j) \/ PrepareSnapshot(j)
  <2>1. jobState'[j] = "active" /\ frame'[j].at \in {"snapshot", "enqueue"}
    BY <1>0, <1>5, GotoFrames DEF PrepareWrite, PrepareSnapshot, WriteRunStatus, At, Labels
  <2> QED BY <1>0, <2>1, MoveContinues DEF FinalPlaces
<1>6. ~PrepareEnqueue(j)
  BY DEF PrepareEnqueue
<1>7. CASE DeepSecPersist(j) /\ ~Throw(j)
  <2>1. jobState'[j] = "active" /\ frame'[j].at = "read"
    BY <1>0, <1>7 DEF DeepSecPersist, Reported, At, Frames
  <2> QED BY <1>0, <2>1, MoveContinues DEF FinalPlaces
<1>8. ~(\/ FinalizeDecide(j) \/ FinalizeAssert(j) \/ FinalizeWrite(j)
        \/ FinalizeReceipt(j) \/ FinalizeAnnounce(j))
  BY DEF FinalizeDecide, FinalizeAssert, FinalizeWrite, FinalizeReceipt, FinalizeAnnounce, At,
         FinalPlaces, Going
<1> QED BY <1>0, <1>1, <1>2, <1>3, <1>4, <1>5, <1>6, <1>7, <1>8, PrepareWork, VerificationWork

\* What the others hold, while the queue and the trail only grow.
LEMMA CauseHandStays ==
  ASSUME NEW k \in Jobs, CauseHand(k), frame'[k] = frame[k], validations \subseteq validations',
         frame[k].at \in CompletionPlaces => held'[k] = held[k],
         k.type = "prepare_repository" =>
           \A i \in JobsOf(k.run) : i.type = "run_deepsec_revalidation" /\ jobState[i] = "none" =>
                                     jobState'[i] = "none"
  PROVE  CauseHand(k)'
BY DEF CauseHand, JobsOf

\* A step of the pipeline queues no verification.
LEMMA WorkNoVerification ==
  ASSUME FixTyping, NEW j \in Jobs, Work(j), NEW i \in Jobs \ {j}, i.type \in VerificationTypes
  PROVE  jobState'[i] = jobState[i]
BY WorkQueues DEF FixTyping, VerificationTypes, StageJob, StrixJob, FindingJob

LEMMA WorkKeepsCauses ==
  ASSUME FixTyping, FixInv, FixInv', RetestInv, NEW j \in Jobs, Work(j), HeldByActive,
         UNCHANGED <<remediation, verifies, submitting, verifying>>
  PROVE  RetestInv'
<1>0. Local(j)
  BY WorkLocal DEF FixInv
<1>1. ASSUME NEW f \in Findings, findingStatus'[f] = "retesting" PROVE Accounted(f)'
  <2>1. findingStatus[f] = "retesting"
    BY <1>1, WorkReviewMoves DEF FixInv, ReviewMoves, Conclusive, Verdicts
  <2> QED BY <1>0, <2>1, LocalAccounted, WorkContinues DEF RetestInv
<1>2. ASSUME NEW k \in Jobs \ {j} PROVE CauseHand(k)'
  <2>1. CauseHand(k) /\ LiveFrame(k) /\ frame'[k] = frame[k] /\ validations \subseteq validations'
    BY <1>0 DEF RetestInv, FixInv, QueueShape, PlacesLive, Local, Grows
  <2>2. frame[k].at \in CompletionPlaces => held'[k] = held[k]
    <3>1. jobState[k] = "active" => jobState'[k] = "active"
      BY <1>0 DEF Local
    <3> QED BY <2>1, <3>1 DEF LiveFrame, CompletionPlaces, HeldByActive
  <2>3. \A i \in JobsOf(k.run) : i.type = "run_deepsec_revalidation" /\ jobState[i] = "none" =>
                                   jobState'[i] = "none"
    BY <1>0, WorkNoVerification DEF Local, JobsOf, VerificationTypes
  <2> QED BY <2>1, <2>2, <2>3, CauseHandStays
<1>4. frame \in [Jobs -> Frames]
  BY DEF FixTyping, Typing, PipelineTypeOK, TypeOK
<1>3. CauseHand(j)'
  <2>1. frame'[j].at \notin CompletionPlaces
    BY WorkPlaces DEF FixTyping, OwnPlaces
  <2>2. ASSUME j.type = "prepare_repository", j.run \in FixRuns,
               frame'[j].at \in {"write", "snapshot", "enqueue"},
               NEW k \in JobsOf(j.run), k.type = "run_deepsec_revalidation"
        PROVE  jobState'[k] = "none"
    <3>0. k \in Jobs /\ k # j /\ k.run = j.run /\ jobState'[k] = jobState[k]
      BY <2>2, WorkNoVerification DEF JobsOf, VerificationTypes
    <3>1. CASE frame'[j].at = "write"
      <4>1. FixHand(j)' /\ FixHand(k)'
        BY <3>0 DEF FixInv, Repaired
      <4> QED BY <2>2, <3>0, <3>1, <4>1 DEF FixHand, PrepareHand, RevalidationHand
    <3>2. CASE frame'[j].at \in {"snapshot", "enqueue"}
      <4>1. frame[j].at \in {"write", "snapshot"}
        <5>1. CASE PickUp(j)
          BY <1>4, <3>2, <5>1, GotoFrames DEF PickUp, Labels
        <5>2. CASE Return(j) \/ Throw(j)
          BY <1>4, <3>2, <5>2 DEF Return, Throw, IdleFrame
        <5>3. CASE PrepareAssert(j) /\ ~Throw(j)
          BY <1>4, <3>2, <5>3, GotoFrames DEF PrepareAssert, AssertRunTransition, Labels
        <5>4. CASE PrepareWrite(j) \/ PrepareSnapshot(j)
          BY <5>4 DEF PrepareWrite, PrepareSnapshot, At
        <5>5. ~PrepareEnqueue(j)
          BY <2>2 DEF PrepareEnqueue
        <5> QED BY <2>2, <5>1, <5>2, <5>3, <5>4, <5>5, PrepareWork
      <4> QED BY <2>2, <3>0, <4>1 DEF RetestInv, CauseHand
    <3> QED BY <2>2, <3>1, <3>2
  <2> QED BY <2>1, <2>2 DEF CauseHand
<1> QED BY <1>1, <1>2, <1>3 DEF RetestInv

LEMMA FaultKeepsCauses ==
  ASSUME FixTyping, FixInv, RetestInv, NEW j \in Jobs, Fault(j), HeldByActive,
         UNCHANGED <<remediation, verifies, submitting, verifying>>
  PROVE  RetestInv'
<1>0. /\ Local(j) /\ frame'[j].at = "idle" /\ UNCHANGED storeVars
      /\ \A k \in Jobs \ {j} : jobState'[k] = jobState[k] /\ frame'[k] = frame[k]
      /\ Throw(j) /\ jobState[j] = "active"
  BY FaultLocal DEF Fault, Interrupt, Throw, FixTyping, Typing, PipelineTypeOK, TypeOK
<1>1. ASSUME NEW f \in Findings, findingStatus'[f] = "retesting" PROVE Accounted(f)'
  <2>1. Accounted(f)
    BY <1>0, <1>1 DEF RetestInv, storeVars
  <2>2. Going(j) => Continues(j)
    BY <1>0, ThrowContinues DEF Going
  <2> QED BY <1>0, <2>1, <2>2, LocalAccounted
<1>2. ASSUME NEW k \in Jobs \ {j} PROVE CauseHand(k)'
  <2>1. CauseHand(k) /\ LiveFrame(k)
    BY DEF RetestInv, FixInv, QueueShape, PlacesLive
  <2>2. frame[k].at \in CompletionPlaces => held'[k] = held[k]
    BY <1>0, <2>1 DEF LiveFrame, CompletionPlaces, HeldByActive
  <2>3. \A i \in JobsOf(k.run) : i.type = "run_deepsec_revalidation" /\ jobState[i] = "none" =>
                                   jobState'[i] = "none"
    BY <1>0 DEF JobsOf
  <2> QED BY <1>0, <2>1, <2>2, <2>3, CauseHandStays DEF storeVars
<1>3. CauseHand(j)'
  BY <1>0 DEF CauseHand, CompletionPlaces
<1> QED BY <1>1, <1>2, <1>3 DEF RetestInv

\* A step outside the handlers takes no job from a run, and may give one to a
\* run that had none.
LEMMA OutsideAccounted ==
  ASSUME NEW f \in Findings, Accounted(f), UNCHANGED <<frame, validations>>,
         remediation'[f] = remediation[f],
         \A k \in Jobs : jobState[k] # "none" => jobState'[k] = jobState[k],
         \A r \in FixRuns : verifies[r] = f =>
           /\ verifies'[r] = f
           /\ r \in creating \/ (\A k \in JobsOf(r) : jobState[k] = "none") =>
                \/ r \in creating' \/ (\A k \in JobsOf(r) : jobState'[k] = "none")
                \/ \E k \in JobsOf(r) : Going(k)'
  PROVE  Accounted(f)'
<1>1. PICK r \in FixRuns :
        verifies[r] = f /\ (r \in creating \/ (\E k \in JobsOf(r) : Going(k)) \/ Stuck(r, f))
  BY DEF Accounted
<1>2. CASE r \in creating \/ \A k \in JobsOf(r) : jobState[k] = "none"
  BY <1>1, <1>2 DEF Accounted, Stuck, JobsOf
<1>3. ASSUME NEW k \in JobsOf(r), Going(k) PROVE Accounted(f)'
  <2>1. Going(k)'
    BY <1>3 DEF Going, JobsOf
  <2> QED BY <1>1, <1>3, <2>1 DEF Accounted, JobsOf
<1>4. CASE Stuck(r, f) /\ ~(\A k \in JobsOf(r) : jobState[k] = "none")
  BY <1>1, <1>4 DEF Accounted, Stuck, JobsOf
<1> QED BY <1>1, <1>2, <1>3, <1>4

\* Nor does it change what the handlers hold.
LEMMA OutsideCauses ==
  ASSUME RetestInv, PlacesLive, UNCHANGED <<frame, validations>>,
         \A k \in Jobs : jobState[k] = "active" => held'[k] = held[k],
         \A k \in Jobs : jobState'[k] = jobState[k] \/ k.type = "prepare_repository"
  PROVE  \A k \in Jobs : CauseHand(k)'
<1> SUFFICES ASSUME NEW k \in Jobs PROVE CauseHand(k)'
  OBVIOUS
<1>1. CauseHand(k) /\ LiveFrame(k)
  BY DEF RetestInv, PlacesLive
<1>2. frame[k].at \in CompletionPlaces => held'[k] = held[k]
  BY <1>1 DEF LiveFrame, CompletionPlaces
<1>3. \A i \in JobsOf(k.run) : i.type = "run_deepsec_revalidation" /\ jobState[i] = "none" =>
                                 jobState'[i] = "none"
  BY DEF JobsOf
<1> QED BY <1>1, <1>2, <1>3, CauseHandStays

LEMMA ApiKeepsCauses ==
  ASSUME FixTyping, FixInv, RetestInv, NEW r \in Runs, ApiStep(r), HeldByActive,
         UNCHANGED <<remediation, verifies, submitting, verifying>>
  PROVE  RetestInv'
<1>0. /\ UNCHANGED <<findingStatus, validations, frame>>
      /\ \A k \in Jobs : jobState'[k] = jobState[k] \/ k.type = "prepare_repository"
      /\ \A k \in Jobs : jobState[k] = "active" => jobState'[k] = "active"
  BY ApiShape DEF FixInv
<1>1. /\ \A k \in Jobs : jobState[k] # "none" => jobState'[k] = jobState[k]
      /\ \A s \in FixRuns :
           s \in creating \/ (\A k \in JobsOf(s) : jobState[k] = "none") =>
             \/ s \in creating' \/ (\A k \in JobsOf(s) : jobState'[k] = "none")
             \/ \E k \in JobsOf(s) : Going(k)'
  <2> USE DEF FixTyping, Typing, PipelineTypeOK, TypeOK
  <2>0. \A s \in Runs : s \in creating => \A k \in JobsOf(s) : jobState[k] = "none"
    BY DEF FixInv, QueueShape, RunFits
  <2>1. CASE EnqueuePrepare(r)
    <3> DEFINE first == StageJob("prepare_repository", r)
    <3>1. first \in Jobs /\ first.run = r /\ first.type = "prepare_repository"
      BY JobFacts DEF StageJob, StageTypes
    <3>2. jobState[first] = "none"
      BY <2>0, <2>1, <3>1 DEF EnqueuePrepare, JobsOf
    <3>3. /\ jobState'[first] = "waiting" /\ \A k \in Jobs \ {first} : jobState'[k] = jobState[k]
          /\ creating' = creating \ {r}
      BY <2>1, <3>1, <3>2 DEF EnqueuePrepare, Enqueue
    <3>4. Going(first)' /\ first \in JobsOf(r)
      BY <3>1, <3>3 DEF Going, JobsOf
    <3>5. \A k \in Jobs : jobState[k] # "none" => jobState'[k] = jobState[k]
      BY <3>2, <3>3
    <3> HIDE DEF first
    <3>6. \A s \in FixRuns \ {r} : \A k \in JobsOf(s) : jobState'[k] = jobState[k]
      BY <3>1, <3>3 DEF JobsOf
    <3> QED BY <3>3, <3>4, <3>5, <3>6
  <2>2. CASE CreateInterrupted(r)
    BY <2>0, <2>2 DEF CreateInterrupted
  <2>3. CASE CreateReview(r) \/ CancelAssert(r) \/ CancelWrite(r) \/ FetchGather(r) \/ FetchStore(r)
    BY <2>3 DEF CreateReview, CancelAssert, CancelWrite, FetchGather, FetchStore, queueVars
  <2> QED BY <2>1, <2>2, <2>3 DEF ApiStep
<1>2. ASSUME NEW f \in Findings, findingStatus'[f] = "retesting" PROVE Accounted(f)'
  BY <1>0, <1>1, <1>2, OutsideAccounted DEF RetestInv
<1>3. \A k \in Jobs : CauseHand(k)'
  BY <1>0, OutsideCauses DEF FixInv, QueueShape, HeldByActive
<1> QED BY <1>2, <1>3 DEF RetestInv

LEMMA CallKeepsCauses ==
  ASSUME FixTyping, FixInv, RetestInv, FixCall
  PROVE  RetestInv'
<1> USE DEF vars, storeVars, queueVars, apiVars
<1>1. /\ UNCHANGED <<frame, jobState, validations, held>>
      /\ \A s \in FixRuns : s \in creating => s \in creating'
  BY DEF FixCall, SubmitAssert, SubmitWrite, VerifyAssert, VerifyWrite
<1>2. \A k \in Jobs : CauseHand(k)'
  BY <1>1, OutsideCauses DEF FixInv, QueueShape
<1>3. ASSUME NEW f \in Findings, Accounted(f), remediation'[f] = remediation[f],
             \A s \in FixRuns : verifies[s] = f => verifies'[s] = f
      PROVE  Accounted(f)'
  BY <1>1, <1>3, OutsideAccounted
<1>4. ASSUME NEW f \in Findings, SubmitWrite(f) PROVE RetestInv'
  <2>1. \A g \in Findings : findingStatus'[g] = "retesting" =>
          g # f /\ findingStatus[g] = "retesting" /\ remediation'[g] = remediation[g]
    BY <1>4 DEF SubmitWrite, FixTyping, Typing, PipelineTypeOK, TypeOK
  <2> QED BY <1>2, <1>3, <1>4, <2>1 DEF SubmitWrite, RetestInv
<1>5. ASSUME NEW f \in Findings, NEW fix \in Fixes, SubmitAssert(f, fix) PROVE RetestInv'
  BY <1>2, <1>3, <1>5 DEF SubmitAssert, RetestInv
<1>6. ASSUME NEW r \in FixRuns, NEW f \in Findings, VerifyAssert(f, r) PROVE RetestInv'
  BY <1>2, <1>3, <1>6 DEF VerifyAssert, RetestInv
<1>7. ASSUME NEW r \in FixRuns, VerifyWrite(r) PROVE RetestInv'
  <2>1. /\ verifying[r] \in Findings /\ r \in creating' /\ verifies'[r] = verifying[r]
        /\ remediation' = remediation /\ verifies[r] = NoFinding
        /\ \A s \in FixRuns \ {r} : verifies'[s] = verifies[s]
        /\ \A g \in Findings \ {verifying[r]} : findingStatus'[g] = findingStatus[g]
    <3>1. r \in Runs /\ Called(r) /\ RunFits(r)
      BY RunsAssumption DEF FixInv, Repaired, QueueShape
    <3> QED BY <1>7, <3>1, RunsAssumption
            DEF VerifyWrite, Called, RunFits, FixTyping, Typing, PipelineTypeOK, TypeOK
  <2>2. ASSUME NEW f \in Findings, findingStatus'[f] = "retesting" PROVE Accounted(f)'
    <3>1. CASE f = verifying[r]
      BY <2>1, <3>1 DEF Accounted
    <3>2. CASE f # verifying[r]
      BY <1>3, <2>1, <2>2, <3>2, NoFindingAssumption DEF RetestInv
    <3> QED BY <3>1, <3>2
  <2> QED BY <1>2, <2>2 DEF RetestInv
<1> QED BY <1>4, <1>5, <1>6, <1>7 DEF FixCall

\* A verification's handler carries on, unless it completes one that did not
\* fail operationally.
LEMMA FixWorkContinues ==
  ASSUME FixTyping, FixInv, RetestInv, NEW j \in Jobs, FixWork(j), Local(j)
  PROVE  \/ Continues(j)
         \/ CompleteWrite(j) /\ frame[j].decided # "verification_failed"
<1>0. /\ jobState[j] = "active" /\ j.type \in {"prepare_repository"} \cup VerificationTypes
      /\ frame \in [Jobs -> Frames] /\ frame[j] \in Frames /\ j.run \in Runs
      /\ jobState \in [Jobs -> JobStates] /\ verifies' = verifies
  BY FixWriters, JobFacts DEF Local, FixTyping, Typing, PipelineTypeOK, TypeOK
<1>1. CASE Throw(j)
  BY <1>0, <1>1, ThrowContinues
<1>2. CASE FixPrepareEnqueue(j)
  <2> DEFINE next == FindingJob("run_deepsec_revalidation", j.run, verifies[j.run])
  <2>1. j.run \in FixRuns /\ j.type = "prepare_repository" /\ frame[j].at = "enqueue" /\ Enqueue(next)
    BY <1>2 DEF FixPrepareEnqueue, At
  <2>2. verifies[j.run] \in Findings
    BY <1>0, <2>1 DEF FixTyping, VerifiesKnown, JobsOf
  <2>3. next \in JobsOf(j.run) /\ next.type = "run_deepsec_revalidation"
    BY <1>0, <2>2, FindingJobs DEF FindingTypes, FindingJob, JobsOf
  <2>4. jobState[next] = "none"
    BY <2>1, <2>3 DEF RetestInv, CauseHand
  <2>5. jobState'[next] = "waiting"
    BY <1>0, <2>1, <2>3, <2>4 DEF Enqueue, JobsOf
  <2> QED BY <2>3, <2>5 DEF Continues, Going, VerificationTypes
<1>3. CASE RevalidateEnqueue(j)
  <2> DEFINE next == FindingJob("run_strix_retest", j.run, j.finding)
  <2>1. j.type = "run_deepsec_revalidation" /\ frame[j].at = "enqueue" /\ Enqueue(next)
    BY <1>3 DEF RevalidateEnqueue, At
  <2>2. j.finding \in Findings
    BY <2>1, FixPlaceTypes DEF VerificationTypes
  <2>3. next \in JobsOf(j.run) /\ next.type = "run_strix_retest"
    BY <1>0, <2>2, FindingJobs DEF FindingTypes, FindingJob, JobsOf
  <2>4. jobState[next] = "none"
    BY <2>1 DEF FixInv, Repaired, FixHand, RevalidationHand, Revalidating
  <2>5. jobState'[next] = "waiting"
    BY <1>0, <2>1, <2>3, <2>4 DEF Enqueue, JobsOf
  <2> QED BY <2>3, <2>5 DEF Continues, Going, VerificationTypes
<1>4. CASE CompleteWrite(j) /\ frame[j].decided = "verification_failed"
  <2>1. /\ frame[j].at = "complete_write" /\ j.finding = verifies[j.run] /\ CauseHand(j)
        /\ remediation'[j.finding].source = held[j].source
        /\ validations' = validations
    BY <1>4, CompletionRow, InHandFinding DEF RetestInv, CompleteWrite
  <2> QED BY <1>0, <1>4, <2>1 DEF CauseHand, CompletionPlaces, Continues, Stuck
<1>5. CASE \/ RevalidateAssert(j) /\ ~Throw(j)
           \/ RevalidateStart(j)
           \/ RevalidateFinishAssert(j) /\ ~Throw(j)
           \/ RevalidateFinishWrite(j)
           \/ RevalidateRunAssert(j) /\ ~Throw(j)
           \/ RevalidateRunWrite(j)
           \/ CompleteAssert(j) /\ ~Throw(j)
  <2>1. PICK label \in {"start", "review", "write", "judge", "run_write", "enqueue", "complete_write"} :
          Goto(j, label) /\ UNCHANGED jobState
    BY <1>5 DEF RevalidateAssert, RevalidateStart, RevalidateFinishAssert, RevalidateFinishWrite,
       RevalidateRunAssert, RevalidateRunWrite, CompleteAssert, AssertRunTransition, WriteRunStatus
  <2>2. frame'[j].at = label
    BY <1>0, <2>1, GotoFrames DEF Labels
  <2> QED BY <1>0, <2>1, <2>2, MoveContinues DEF FinalPlaces
<1>6. CASE RevalidateLookup(j) \/ (RetestMission(j) /\ ~Throw(j)) \/ RetestPersist(j)
  <2>1. jobState' = jobState /\ frame'[j].at \in {"persist", "replayed", "complete_read"}
    BY <1>0, <1>6 DEF RevalidateLookup, RetestMission, RetestPersist, Frames
  <2> QED BY <1>0, <2>1, MoveContinues DEF FinalPlaces
<1>7. CASE RevalidateJudge(j)
  <2>1. PICK source \in CheckVerdicts :
          \/ frame' = [frame EXCEPT ![j].at = "complete_read", ![j].decided = SourceOutcome(source)]
          \/ Goto(j, "run_read")
    BY <1>7 DEF RevalidateJudge
  <2>2. jobState' = jobState /\ frame'[j].at \in {"run_read", "complete_read"}
    BY <1>0, <1>7, <2>1, GotoFrames DEF RevalidateJudge, Frames, Labels
  <2> QED BY <1>0, <2>2, MoveContinues DEF FinalPlaces
<1> QED BY <1>1, <1>2, <1>3, <1>4, <1>5, <1>6, <1>7, FixActions

\* A completion for an operational failure has the failure on record.
LEMMA FixWorkOwnCause ==
  ASSUME FixTyping, FixInv, RetestInv, NEW j \in Jobs, FixWork(j), Local(j)
  PROVE  CauseHand(j)'
<1>0. /\ frame \in [Jobs -> Frames] /\ frame[j] \in Frames /\ jobState[j] = "active"
      /\ held \in [Jobs -> Remediations] /\ held[j] \in Remediations
      /\ CauseHand(j)
  BY FixWriters, JobFacts DEF RetestInv, FixTyping, Typing, PipelineTypeOK, TypeOK
<1>1. CASE Throw(j)
  <2>1. frame'[j].at = "idle"
    BY <1>0, <1>1 DEF Throw, IdleFrame
  <2> QED BY <2>1 DEF CauseHand, CompletionPlaces
<1>2. CASE FixPrepareEnqueue(j) \/ CompleteWrite(j)
  <2>1. frame'[j].at \in {"return", "finalize"}
    BY <1>0, <1>2, GotoFrames DEF FixPrepareEnqueue, CompleteWrite, Labels
  <2> QED BY <2>1 DEF CauseHand, CompletionPlaces
<1>3. CASE \/ RevalidateAssert(j) \/ RevalidateStart(j) \/ RevalidateLookup(j)
           \/ RevalidateFinishAssert(j) \/ RevalidateFinishWrite(j)
           \/ RevalidateRunAssert(j) \/ RevalidateRunWrite(j) \/ RevalidateEnqueue(j)
  <2>1. j.type = "run_deepsec_revalidation"
    BY <1>3, FixPlaceTypes DEF RevalidateAssert, RevalidateStart, RevalidateLookup, RevalidateFinishAssert,
     RevalidateFinishWrite, RevalidateRunAssert, RevalidateRunWrite, RevalidateEnqueue,
     RevalidationPlaces, At
  <2>2. frame'[j].at \notin CompletionPlaces
    <3>1. CASE RevalidateLookup(j)
      BY <1>0, <3>1 DEF RevalidateLookup, Frames, CompletionPlaces
    <3>2. CASE ~RevalidateLookup(j) /\ ~Throw(j)
      <4>1. PICK label \in {"start", "review", "write", "judge", "run_write", "enqueue", "return"} :
              Goto(j, label)
        BY <1>3, <3>2 DEF RevalidateAssert, RevalidateStart, RevalidateFinishAssert, RevalidateFinishWrite,
           RevalidateRunAssert, RevalidateRunWrite, RevalidateEnqueue, AssertRunTransition, WriteRunStatus
      <4> QED BY <1>0, <4>1, GotoFrames DEF Labels, CompletionPlaces
    <3>3. CASE Throw(j)
      BY <1>0, <3>3 DEF Throw, IdleFrame, CompletionPlaces
    <3> QED BY <3>1, <3>2, <3>3
  <2> QED BY <2>1, <2>2 DEF CauseHand
<1>4. CASE RevalidateJudge(j)
  <2>0. j.type = "run_deepsec_revalidation"
    BY <1>4, FixPlaceTypes DEF RevalidateJudge, At, RevalidationPlaces
  <2>1. PICK source \in CheckVerdicts :
          \/ /\ held' = [held EXCEPT ![j].source = source]
             /\ frame' = [frame EXCEPT ![j].at = "complete_read", ![j].decided = SourceOutcome(source)]
          \/ Goto(j, "run_read")
    BY <1>4 DEF RevalidateJudge
  <2>2. CASE Goto(j, "run_read")
    BY <1>0, <2>0, <2>2, GotoFrames DEF Labels, CauseHand, CompletionPlaces
  <2>3. CASE /\ held' = [held EXCEPT ![j].source = source]
             /\ frame' = [frame EXCEPT ![j].at = "complete_read", ![j].decided = SourceOutcome(source)]
    <3>1. held'[j].source = source /\ frame'[j].decided = SourceOutcome(source)
      BY <1>0, <2>3 DEF Frames, Remediations
    <3>2. SourceOutcome(source) = "verification_failed" => source = "inconclusive"
      BY DEF SourceOutcome, CheckVerdicts
    <3> QED BY <2>0, <3>1, <3>2 DEF CauseHand
  <2> QED BY <2>1, <2>2, <2>3
<1>5. CASE RetestMission(j) /\ ~Throw(j)
  <2>1. j.type = "run_strix_retest" /\ frame'[j].at = "replayed"
    BY <1>0, <1>5 DEF RetestMission, Frames
  <2> QED BY <2>1 DEF CauseHand, CompletionPlaces
<1>6. CASE RetestPersist(j)
  <2> DEFINE verdict == frame[j].decided
             row == [finding |-> j.finding, run |-> j.run, verdict |-> verdict, attempt |-> attempts[j]]
  <2>1. j.type = "run_strix_retest" /\ verdict \in Verdicts
    BY <1>6, FixPlaceTypes DEF RetestPersist, At
  <2>2. /\ row \in validations'
        /\ held' = [held EXCEPT ![j].runtime = ReplayVerdict(verdict),
                                ![j].source = IF @ = "pending" THEN "inconclusive" ELSE @]
        /\ frame' = [frame EXCEPT ![j].at = "complete_read",
                                  ![j].decided = RetestOutcome(held[j], j.run, verdict)]
    BY <1>6 DEF RetestPersist
  <2>3. frame'[j].decided = RetestOutcome(held[j], j.run, verdict)
    BY <1>0, <2>2 DEF Frames
  <2>4. held'[j].source = IF held[j].source = "pending" THEN "inconclusive" ELSE held[j].source
    BY <1>0, <2>2 DEF Remediations
  <2>5. row.run = j.run /\ row.finding = j.finding /\ row.verdict = verdict
    OBVIOUS
  <2> HIDE DEF row, verdict
  <2>6. RetestOutcome(held[j], j.run, verdict) = "verification_failed" =>
          verdict = "failed" \/ held[j].source \in {"pending", "inconclusive"}
    BY <1>0, <2>1 DEF RetestOutcome, ReplayOutcome, Remediations, CheckVerdicts
  <2> QED BY <2>1, <2>2, <2>3, <2>4, <2>5, <2>6 DEF CauseHand
<1>7. CASE CompleteAssert(j) /\ ~Throw(j)
  <2>1. Goto(j, "complete_write") /\ UNCHANGED <<jobState, validations>>
    BY <1>7 DEF CompleteAssert, storeVars
  <2>2. /\ frame'[j].at = "complete_write" /\ frame'[j].decided = frame[j].decided
        /\ held'[j] = held[j] /\ frame[j].at = "complete_read"
    BY <1>0, <1>7, <2>1, GotoFrames DEF CompleteAssert, HeldByActive, Labels, At
  <2> QED BY <1>0, <2>1, <2>2 DEF CauseHand, CompletionPlaces
<1> QED BY <1>1, <1>2, <1>3, <1>4, <1>5, <1>6, <1>7, FixActions

LEMMA FixWorkKeepsCauses ==
  ASSUME FixTyping, FixInv, RetestInv, NEW j \in Jobs, FixWork(j)
  PROVE  RetestInv'
<1>0. Local(j) /\ jobState[j] = "active"
  BY FixWorkLocal, FixWriters DEF FixInv
<1>1. ASSUME NEW f \in Findings, findingStatus'[f] = "retesting" PROVE Accounted(f)'
  <2>0. CompleteWrite(j) =>
          /\ j.finding \in Findings /\ j.run \in FixRuns /\ verifies[j.run] = j.finding
          /\ frame[j].decided # "verification_failed" => findingStatus'[j.finding] # "retesting"
    <3> SUFFICES ASSUME CompleteWrite(j)
                 PROVE  /\ j.finding \in Findings /\ j.run \in FixRuns /\ verifies[j.run] = j.finding
                        /\ frame[j].decided # "verification_failed" => findingStatus'[j.finding] # "retesting"
      OBVIOUS
    <3>1. /\ j.finding \in Findings /\ j.run \in FixRuns /\ verifies[j.run] = j.finding
          /\ frame[j].decided \in VerificationOutcomes
      BY CompletionRow, InHandFinding
    <3>2. frame[j].decided # "verification_failed" =>
            findingStatus'[j.finding] = FindingStatusOf(frame[j].decided)
      BY <3>1 DEF CompleteWrite, FixTyping, Typing, PipelineTypeOK, TypeOK
    <3> QED BY <3>1, <3>2 DEF FindingStatusOf, VerificationOutcomes
  <2>1. findingStatus[f] = "retesting"
    <3>1. CASE CompleteWrite(j)
      BY <1>1, <2>0, <3>1 DEF CompleteWrite, FixTyping, Typing, PipelineTypeOK, TypeOK
    <3> QED BY <1>1, <3>1, FixWriters
  <2>2. verifies[j.run] = f => Continues(j)
    BY <1>0, <1>1, <2>0, FixWorkContinues
  <2>3. remediation'[f].source # remediation[f].source => j.run \in FixRuns /\ verifies[j.run] = f
    <3>1. CASE CompleteWrite(j)
      BY <2>0, <3>1, FixWriters
    <3>2. CASE RevalidateJudge(j)
      <4>1. j.type \in VerificationTypes
        BY <3>2, FixPlaceTypes DEF RevalidateJudge, At, RevalidationPlaces, VerificationTypes
      <4> QED BY <1>0, <4>1, InHandFinding, FixWriters
    <3> QED BY <3>1, <3>2, FixWriters
  <2>4. Accounted(f)
    BY <2>1 DEF RetestInv
  <2> QED BY <1>0, <2>2, <2>3, <2>4, LocalAccounted
<1>2. ASSUME NEW k \in Jobs \ {j} PROVE CauseHand(k)'
  <2>1. CauseHand(k) /\ LiveFrame(k) /\ frame'[k] = frame[k] /\ validations \subseteq validations'
    BY <1>0 DEF RetestInv, FixInv, QueueShape, PlacesLive, Local, Grows
  <2>2. frame[k].at \in CompletionPlaces => held'[k] = held[k]
    <3>1. jobState[k] = "active" => jobState'[k] = "active"
      BY <1>0 DEF Local
    <3> QED BY <2>1, <3>1, FixWriters DEF LiveFrame, CompletionPlaces
  <2>3. k.type = "prepare_repository" =>
          \A i \in JobsOf(k.run) : i.type = "run_deepsec_revalidation" /\ jobState[i] = "none" =>
                                    jobState'[i] = "none"
    <3> SUFFICES ASSUME k.type = "prepare_repository", NEW i \in JobsOf(k.run),
                        i.type = "run_deepsec_revalidation", jobState'[i] # jobState[i], i # j
                 PROVE  FALSE
      BY <1>0
    <3>1. i \in Jobs \ {j} /\ i.run = k.run
      BY DEF JobsOf
    <3>2. j.type = "prepare_repository" /\ i.run = j.run
      BY <3>1, FixWorkQueues DEF FindingJob
    <3> QED BY <3>1, <3>2, JobIdentity DEF StageTypes
  <2> QED BY <2>1, <2>2, <2>3, CauseHandStays
<1> QED BY <1>0, <1>1, <1>2, FixWorkOwnCause DEF RetestInv

LEMMA CauseStep ==
  FixTyping /\ FixInv /\ FixInv' /\ RetestInv /\ [FixNext]_allVars => RetestInv'
<1> SUFFICES ASSUME FixTyping, FixInv, FixInv', RetestInv, [FixNext]_allVars PROVE RetestInv'
  OBVIOUS
<1>1. CASE ReviewStep
  BY <1>1, WorkKeepsCauses, FaultKeepsCauses, ApiKeepsCauses DEF ReviewStep, Next
<1>2. CASE UNCHANGED allVars
  BY <1>2 DEF allVars, vars, storeVars, queueVars, apiVars, fixVars, RetestInv, Accounted, Going, Stuck, CauseHand
<1> QED BY <1>1, <1>2, CallKeepsCauses, FixWorkKeepsCauses DEF FixNext

LEMMA CauseInit == FixInit => RetestInv
<1> SUFFICES ASSUME FixInit PROVE RetestInv
  OBVIOUS
<1>1. /\ \A f \in Findings : findingStatus[f] = "absent"
      /\ \A j \in Jobs : frame[j].at = "idle"
  BY DEF FixInit, Init, ControlPlaneInit, IdleFrame
<1> QED BY <1>1 DEF RetestInv, CauseHand, CompletionPlaces

\* completeFixVerification leaves a finding at retesting after an operational
\* failure, and nothing else forgets one there: with no job and no call left
\* about it, its run was never queued, a job of it is dead, or the failure is on
\* record.
THEOREM NoVerificationForgotten ==
  ASSUME Awaited = Runs
  PROVE  FixSpec /\ []OneVerifyCall => []RetestingHasACause
<1>1. FixTyping /\ FixInv /\ FixInv' /\ RetestInv /\ [FixNext]_allVars => RetestInv'
  BY CauseStep
<1>2. FixInit => RetestInv
  BY CauseInit
<1>3. RetestInv => RetestingHasACause
  <2> SUFFICES ASSUME RetestInv, NEW f \in Findings, findingStatus[f] = "retesting",
                      \A r \in FixRuns : verifies[r] = f =>
                        r \notin creating /\ \A j \in JobsOf(r) : jobState[j] \notin {"waiting", "active"}
               PROVE  \E r \in FixRuns : verifies[r] = f /\ Stuck(r, f)
    BY DEF RetestingHasACause, Stuck
  <2>1. Accounted(f)
    BY DEF RetestInv
  <2> QED BY <2>1 DEF Accounted, Going
<1> QED BY <1>1, <1>2, <1>3, FixInvariant, FixTypingInvariant, PTL DEF FixSpec

-----------------------------------------------------------------------------
(* Without a word on the timing of the calls.                              *)

\* When no commit is the fix of two verification runs, the unique key of a run
\* is enough: a second call for the finding is a call for the same run.
FixesApart == \A r, s \in FixRuns : Head[r] = Head[s] => r = s

\* What the fixes rest on, with nothing asked of the calls' timing beyond
\* Awaited, for verifications told apart by the commit they verify.
THEOREM FixesApartSafe ==
  ASSUME Awaited = Runs, FixesApart
  PROVE  FixSpec => /\ [](/\ OneVerifyCall /\ FixedIsVouchedFor
                         /\ ReplayedIffConfirmed /\ RetestingHasACause)
                    /\ FindingStepsLegal
<1>1. FixInit => FixInv
  BY FixInitInv
<1>2. FixInv => OneVerifyCall
  BY RunsAssumption DEF FixInv, Repaired, Called, OneVerifyCall, FixesApart
<1>3. FixTyping /\ FixInv /\ OneVerifyCall /\ [FixNext]_allVars => FixInv'
  BY FixStepInv
<1>4. FixSpec => []OneVerifyCall
  BY <1>1, <1>2, <1>3, FixTypingInvariant, PTL DEF FixSpec
<1>5. FixSpec => []FixedIsVouchedFor
  BY <1>4, FixesAreVouchedFor, PTL
<1>6. FixSpec => []ReplayedIffConfirmed
  BY <1>4, ReplayFollowsEvidence, PTL
<1>7. FixSpec => FindingStepsLegal
  BY <1>4, FindingEdgesTaken, PTL
<1>8. FixSpec => []RetestingHasACause
  BY <1>4, NoVerificationForgotten, PTL
<1> QED BY <1>4, <1>5, <1>6, <1>7, <1>8, PTL
=============================================================================
