----------------------------- MODULE ReviewTyping -----------------------------
(***************************************************************************)
(* Type correctness of the review pipeline, for any runs, findings, number *)
(* of workers, attempts and faults.                                        *)
(*                                                                         *)
(* PipelineTypeOK is not inductive: a counter stays in its range because   *)
(* of the states in which it is advanced, and a status is a status because *)
(* the handler that writes it holds a decision of the right kind.          *)
(***************************************************************************)
EXTENDS ReviewProperties, TLAPS

\* A job still has an attempt left exactly while it may be picked up.
AttemptsCounted ==
  \A j \in Jobs :
    /\ jobState[j] \in {"none", "waiting"} => attempts[j] < MaxAttempts
    /\ jobState[j] = "active" => attempts[j] > 0

\* A place in a handler belongs to the handlers that have it, and what the
\* handler holds there is of the kind the place needs.
PlaceFits(j, at, finding, decided) ==
  /\ at = "snapshot" => j.type = "prepare_repository"
  /\ at = "persist" => j.type \in {"run_deepsec", "run_deepsec_revalidation"}
  /\ at = "route" => j.type = "apply_routing_policy"
  /\ at = "count" => j.type = "run_strix_validation"
  /\ at = "store" => j.type = "generate_receipt" /\ decided \in ReceiptStatuses
  /\ at \in {"settle_read", "settle_write", "receipt", "announce"} => decided \in Dispositions
  /\ at \in {"write_finding", "enqueue"} /\ j.type = "apply_routing_policy"
       => finding \in Findings
  /\ at = "write_finding" /\ j.type = "run_strix_validation" => decided \in Verdicts

PlaceOK(j) == PlaceFits(j, frame[j].at, frame[j].finding, frame[j].decided)

PlacesOK == \A j \in Jobs : PlaceOK(j)

Typing == PipelineTypeOK /\ AttemptsCounted /\ PlacesOK

-----------------------------------------------------------------------------

\* What a job's parts are, and that the two ways to name a job name one.
LEMMA JobFacts ==
  /\ \A j \in Jobs : j.run \in Runs
  /\ \A j \in Jobs : j.type = "run_strix_validation" => j.finding \in Findings
  /\ \A type \in StageTypes, r \in Runs : StageJob(type, r) \in Jobs
  /\ \A r \in Runs, f \in Findings : StrixJob(r, f) \in Jobs
BY DEF Jobs, StageTypes, FindingTypes, FindingJob, StageJob, StrixJob

\* Moving a job to another place of its handler keeps every frame a frame, and
\* touches no other job.
LEMMA GotoFrames ==
  ASSUME frame \in [Jobs -> Frames], NEW j \in Jobs, NEW label \in Labels, Goto(j, label)
  PROVE  /\ frame' \in [Jobs -> Frames]
         /\ frame'[j].at = label
         /\ frame'[j].decided = frame[j].decided
         /\ frame'[j].finding = frame[j].finding
         /\ \A k \in Jobs \ {j} : frame'[k] = frame[k]
BY DEF Goto, Frames

\* A throw leaves a job waiting with an attempt left, or dead.
LEMMA ThrowTyping ==
  ASSUME Typing, NEW j \in Jobs, jobState[j] = "active", Throw(j), UNCHANGED attempts
  PROVE  /\ jobState' \in [Jobs -> JobStates]
         /\ frame' \in [Jobs -> Frames]
         /\ AttemptsCounted'
         /\ PlacesOK'
<1> USE DEF Typing, PipelineTypeOK, TypeOK
<1>1. jobState' \in [Jobs -> JobStates]
  BY DEF Throw, JobStates
<1>2. IdleFrame \in Frames
  BY DEF IdleFrame, Frames, Labels
<1>3. frame' \in [Jobs -> Frames]
  BY <1>2 DEF Throw
<1>4. AttemptsCounted'
  BY BoundsAssumption DEF AttemptsCounted, Throw, JobStates
<1>5. PlacesOK'
  BY DEF PlacesOK, PlaceOK, PlaceFits, Throw, IdleFrame
<1> QED BY <1>1, <1>3, <1>4, <1>5

\* Adding a job keeps the counters in step: an added job has not been tried.
LEMMA EnqueueTyping ==
  ASSUME Typing, NEW j \in Jobs, Enqueue(j), UNCHANGED attempts
  PROVE  jobState' \in [Jobs -> JobStates] /\ AttemptsCounted'
BY DEF Enqueue, Typing, PipelineTypeOK, TypeOK, JobStates, AttemptsCounted

\* A step that only moves job j keeps the typing when the new place fits j.
LEMMA GotoTyping ==
  ASSUME Typing, NEW j \in Jobs, NEW label \in Labels, Goto(j, label),
         PlaceFits(j, label, frame[j].finding, frame[j].decided)
  PROVE  frame' \in [Jobs -> Frames] /\ PlacesOK'
<1>1. frame \in [Jobs -> Frames]
  BY DEF Typing, PipelineTypeOK, TypeOK
<1>2. PlaceOK(j)'
  BY <1>1, GotoFrames DEF PlaceOK
<1>3. \A k \in Jobs \ {j} : PlaceOK(k)'
  BY <1>1, GotoFrames DEF PlaceOK, Typing, PlacesOK
<1> QED BY <1>1, <1>2, <1>3, GotoFrames DEF PlacesOK

\* A step that leaves every variable alone but the frame of j.
LEMMA FrameTyping ==
  ASSUME Typing, NEW j \in Jobs, NEW fr \in Frames,
         PlaceFits(j, fr.at, fr.finding, fr.decided),
         frame' = [frame EXCEPT ![j] = fr],
         UNCHANGED <<storeVars, jobState, attempts, interrupts, apiVars>>
  PROVE  Typing'
<1>1. frame' \in [Jobs -> Frames]
  BY DEF Typing, PipelineTypeOK, TypeOK
<1>2. PlacesOK'
  BY DEF PlacesOK, PlaceOK, Typing, PipelineTypeOK, TypeOK
<1> QED
  BY <1>1, <1>2 DEF Typing, PipelineTypeOK, TypeOK, storeVars, apiVars, AttemptsCounted

\* The first half of a run transition.
LEMMA AssertRunTyping ==
  ASSUME Typing, NEW j \in Jobs, jobState[j] = "active", NEW to, NEW label \in Labels,
         PlaceFits(j, label, frame[j].finding, frame[j].decided),
         AssertRunTransition(j, to, label), UNCHANGED apiVars
  PROVE  Typing'
<1>1. CASE Throw(j)
  BY <1>1, ThrowTyping DEF AssertRunTransition, Typing, PipelineTypeOK, TypeOK, storeVars, apiVars
<1>2. CASE Goto(j, label) /\ UNCHANGED jobState
  <2>1. frame' \in [Jobs -> Frames] /\ PlacesOK'
    BY <1>2, GotoTyping
  <2> QED
    BY <1>2, <2>1 DEF AssertRunTransition, Typing, PipelineTypeOK, TypeOK, storeVars, apiVars,
                      AttemptsCounted
<1> QED BY <1>1, <1>2 DEF AssertRunTransition

\* The second half.
LEMMA WriteRunTyping ==
  ASSUME Typing, NEW j \in Jobs, NEW to \in RunStatuses, NEW label \in Labels,
         PlaceFits(j, label, frame[j].finding, frame[j].decided),
         WriteRunStatus(j, to, label), UNCHANGED apiVars
  PROVE  Typing'
<1>1. frame' \in [Jobs -> Frames] /\ PlacesOK'
  BY GotoTyping DEF WriteRunStatus
<1> QED
  BY <1>1, JobFacts DEF WriteRunStatus, Typing, PipelineTypeOK, TypeOK, apiVars, AttemptsCounted

\* Moving on, with or without another job added.
LEMMA MoveTyping ==
  ASSUME Typing, NEW j \in Jobs, NEW label \in Labels, Goto(j, label),
         PlaceFits(j, label, frame[j].finding, frame[j].decided),
         UNCHANGED jobState \/ \E k \in Jobs : Enqueue(k),
         UNCHANGED <<storeVars, attempts, interrupts, apiVars>>
  PROVE  Typing'
<1>1. frame' \in [Jobs -> Frames] /\ PlacesOK'
  BY GotoTyping
<1>2. jobState' \in [Jobs -> JobStates] /\ AttemptsCounted'
  BY EnqueueTyping DEF Typing, PipelineTypeOK, TypeOK, AttemptsCounted
<1> QED
  BY <1>1, <1>2 DEF Typing, PipelineTypeOK, TypeOK, storeVars, apiVars

-----------------------------------------------------------------------------

LEMMA InitTyping == Init => Typing
<1> SUFFICES ASSUME Init PROVE Typing
  OBVIOUS
<1> USE DEF Init, ControlPlaneInit
<1>1. IdleFrame \in Frames
  BY DEF IdleFrame, Frames, Labels
<1>2. PipelineTypeOK
  BY <1>1, BoundsAssumption DEF PipelineTypeOK, TypeOK, JobStates
<1>3. AttemptsCounted
  BY BoundsAssumption DEF AttemptsCounted
<1>4. PlacesOK
  BY DEF PlacesOK, PlaceOK, PlaceFits, IdleFrame
<1> QED BY <1>2, <1>3, <1>4 DEF Typing

\* The places any job may be in, whatever it holds.
FreePlaces == {"begin", "read", "write", "return", "finalize"}

LEMMA FreePlacesFit ==
  ASSUME NEW j \in Jobs, NEW label \in FreePlaces
  PROVE  label \in Labels /\ PlaceFits(j, label, frame[j].finding, frame[j].decided)
BY DEF FreePlaces, Labels, PlaceFits

LEMMA PickUpTyping ==
  ASSUME Typing, NEW j \in Jobs, PickUp(j), UNCHANGED apiVars
  PROVE  Typing'
<1>1. frame' \in [Jobs -> Frames] /\ PlacesOK'
  BY GotoTyping, FreePlacesFit DEF FreePlaces, PickUp
<1>2. attempts' \in [Jobs -> 0 .. MaxAttempts] /\ AttemptsCounted'
  BY BoundsAssumption DEF PickUp, Typing, PipelineTypeOK, TypeOK, AttemptsCounted
<1> QED
  BY <1>1, <1>2 DEF PickUp, Typing, PipelineTypeOK, TypeOK, storeVars, apiVars, JobStates

LEMMA ReturnTyping ==
  ASSUME Typing, NEW j \in Jobs, Return(j), UNCHANGED apiVars
  PROVE  Typing'
<1>1. IdleFrame \in Frames /\ PlaceFits(j, IdleFrame.at, IdleFrame.finding, IdleFrame.decided)
  BY DEF IdleFrame, Frames, Labels, PlaceFits
<1>2. frame' \in [Jobs -> Frames] /\ PlacesOK'
  BY <1>1 DEF Return, PlacesOK, PlaceOK, Typing, PipelineTypeOK, TypeOK
<1> QED
  BY <1>2 DEF Return, Typing, PipelineTypeOK, TypeOK, storeVars, apiVars, JobStates,
              AttemptsCounted

LEMMA InterruptTyping ==
  ASSUME Typing, NEW j \in Jobs, Interrupt(j), UNCHANGED apiVars
  PROVE  Typing'
<1>1. interrupts' \in 0 .. MaxInterrupts
  BY BoundsAssumption DEF Interrupt, Typing, PipelineTypeOK, TypeOK
<1> QED
  BY <1>1, ThrowTyping DEF Interrupt, Typing, PipelineTypeOK, TypeOK, storeVars, apiVars

LEMMA PrepareTyping ==
  ASSUME Typing, NEW j \in Jobs, Prepare(j), UNCHANGED apiVars
  PROVE  Typing'
<1>1. CASE PrepareAssert(j)
  BY <1>1, AssertRunTyping, FreePlacesFit DEF PrepareAssert, At, FreePlaces
<1>2. CASE PrepareWrite(j)
  <2>1. PlaceFits(j, "snapshot", frame[j].finding, frame[j].decided)
    BY <1>2 DEF PrepareWrite, PlaceFits
  <2> QED BY <1>2, <2>1, WriteRunTyping DEF PrepareWrite, Labels, RunStatuses
<1>3. CASE PrepareSnapshot(j)
  <2>1. PlaceFits(j, "enqueue", frame[j].finding, frame[j].decided)
    BY <1>3 DEF PrepareSnapshot, At, Typing, PlacesOK, PlaceOK, PlaceFits
  <2>2. frame' \in [Jobs -> Frames] /\ PlacesOK'
    BY <1>3, <2>1, GotoTyping DEF PrepareSnapshot, Labels
  <2> QED
    BY <1>3, <2>2, JobFacts DEF PrepareSnapshot, Typing, PipelineTypeOK, TypeOK, apiVars,
                                AttemptsCounted
<1>4. CASE PrepareEnqueue(j)
  <2>1. StageJob("classify_change", j.run) \in Jobs
    BY JobFacts DEF StageTypes
  <2> QED BY <1>4, <2>1, MoveTyping, FreePlacesFit DEF PrepareEnqueue, FreePlaces
<1> QED BY <1>1, <1>2, <1>3, <1>4 DEF Prepare

LEMMA ClassifyTyping ==
  ASSUME Typing, NEW j \in Jobs, Classify(j), UNCHANGED apiVars
  PROVE  Typing'
<1>1. CASE ClassifyCreate(j)
  <2>1. classified' \in SUBSET Runs
    BY <1>1, JobFacts DEF ClassifyCreate, Typing, PipelineTypeOK, TypeOK
  <2>2. /\ frame' \in [Jobs -> Frames] /\ PlacesOK'
        /\ jobState' \in [Jobs -> JobStates] /\ AttemptsCounted'
    <3>1. CASE Throw(j)
      BY <1>1, <3>1, ThrowTyping DEF ClassifyCreate, At
    <3>2. CASE Goto(j, "read") /\ UNCHANGED jobState
      BY <1>1, <3>2, GotoTyping, FreePlacesFit
         DEF ClassifyCreate, FreePlaces, AttemptsCounted, Typing, PipelineTypeOK, TypeOK
    <3> QED BY <1>1, <3>1, <3>2 DEF ClassifyCreate
  <2> QED BY <1>1, <2>1, <2>2 DEF ClassifyCreate, Typing, PipelineTypeOK, TypeOK, apiVars
<1>2. CASE ClassifyAssert(j)
  BY <1>2, AssertRunTyping, FreePlacesFit DEF ClassifyAssert, At, FreePlaces
<1>3. CASE ClassifyWrite(j)
  <2>1. PlaceFits(j, "enqueue", frame[j].finding, frame[j].decided)
    BY <1>3 DEF ClassifyWrite, PlaceFits
  <2> QED BY <1>3, <2>1, WriteRunTyping DEF ClassifyWrite, Labels, RunStatuses
<1>4. CASE ClassifyEnqueue(j)
  <2>1. StageJob("run_deepsec", j.run) \in Jobs
    BY JobFacts DEF StageTypes
  <2> QED BY <1>4, <2>1, MoveTyping, FreePlacesFit DEF ClassifyEnqueue, FreePlaces
<1> QED BY <1>1, <1>2, <1>3, <1>4 DEF Classify

LEMMA DeepSecTyping ==
  ASSUME Typing, NEW j \in Jobs, DeepSec(j), UNCHANGED apiVars
  PROVE  Typing'
<1>1. CASE DeepSecLookup(j)
  <2>1. CASE Throw(j)
    BY <1>1, <2>1, ThrowTyping
       DEF DeepSecLookup, At, Typing, PipelineTypeOK, TypeOK, storeVars, apiVars
  <2>2. ASSUME NEW new \in SUBSET {f \in Findings : ~Exists(f)},
               frame' = [frame EXCEPT ![j].at = "persist", ![j].todo = new],
               UNCHANGED jobState
        PROVE  Typing'
    <3> DEFINE fr == [frame[j] EXCEPT !.at = "persist", !.todo = new]
    <3>0. frame[j] \in Frames /\ new \in SUBSET Findings
      BY DEF Typing, PipelineTypeOK, TypeOK
    <3>1. fr \in Frames /\ PlaceFits(j, fr.at, fr.finding, fr.decided)
      BY <1>1, <3>0 DEF DeepSecLookup, Frames, Labels, PlaceFits
    <3>2. frame' = [frame EXCEPT ![j] = fr]
      BY <2>2 DEF Typing, PipelineTypeOK, TypeOK
    <3> QED BY <1>1, <2>2, <3>1, <3>2, FrameTyping DEF DeepSecLookup
  <2> QED BY <1>1, <2>1, <2>2 DEF DeepSecLookup
<1>2. CASE DeepSecPersist(j)
  <2>1. CASE Throw(j) /\ UNCHANGED <<findingStatus, linked, lastSeen, reported>>
    BY <1>2, <2>1, ThrowTyping
       DEF DeepSecPersist, At, Typing, PipelineTypeOK, TypeOK, apiVars
  <2>2. ASSUME NEW again \in SUBSET Findings, Reported(j, again),
               linked' = [linked EXCEPT ![j.run] = @ \cup frame[j].todo],
               UNCHANGED jobState
        PROVE  Typing'
    <3>1. frame[j].todo \in SUBSET Findings
      BY DEF Typing, PipelineTypeOK, TypeOK, Frames
    <3>2. findingStatus' \in [Findings -> FindingStatuses \cup {"absent"}]
      BY <2>2 DEF Reported, FirstStatus, FindingStatuses, Typing, PipelineTypeOK, TypeOK
    <3>3. linked' \in [Runs -> SUBSET Findings] /\ reported' \in [Runs -> SUBSET Findings]
      BY <2>2, <3>1, JobFacts DEF Reported, Typing, PipelineTypeOK, TypeOK
    <3>4. frame' \in [Jobs -> Frames]
      <4>1. [frame[j] EXCEPT !.at = "read", !.todo = {}] \in Frames
        <5>1. frame[j] \in Frames
          BY DEF Typing, PipelineTypeOK, TypeOK
        <5> QED BY <5>1 DEF Frames, Labels
      <4> QED BY <2>2, <4>1 DEF Reported, Typing, PipelineTypeOK, TypeOK
    <3>5. PlacesOK'
      BY <2>2 DEF Reported, Typing, PipelineTypeOK, TypeOK, Frames, PlacesOK, PlaceOK, PlaceFits
    <3>6. lastSeen' \in [Findings -> {Head[r] : r \in Runs} \cup {"none"}]
      BY <2>2, JobFacts DEF Reported, Typing, PipelineTypeOK, TypeOK
    <3> QED
      BY <1>2, <2>2, <3>2, <3>3, <3>4, <3>5, <3>6
         DEF DeepSecPersist, Typing, PipelineTypeOK, TypeOK, apiVars, AttemptsCounted
  <2> QED BY <1>2, <2>1, <2>2 DEF DeepSecPersist
<1>3. CASE DeepSecAssert(j)
  BY <1>3, AssertRunTyping, FreePlacesFit DEF DeepSecAssert, At, FreePlaces
<1>4. CASE DeepSecWrite(j)
  <2>1. PlaceFits(j, "enqueue", frame[j].finding, frame[j].decided)
    BY <1>4 DEF DeepSecWrite, PlaceFits
  <2> QED BY <1>4, <2>1, WriteRunTyping DEF DeepSecWrite, Labels, RunStatuses
<1>5. CASE DeepSecEnqueue(j)
  <2>1. StageJob("apply_routing_policy", j.run) \in Jobs
    BY JobFacts DEF StageTypes
  <2> QED BY <1>5, <2>1, MoveTyping, FreePlacesFit DEF DeepSecEnqueue, FreePlaces
<1> QED BY <1>1, <1>2, <1>3, <1>4, <1>5 DEF DeepSec

LEMMA RoutingTyping ==
  ASSUME Typing, NEW j \in Jobs, Routing(j), UNCHANGED apiVars
  PROVE  Typing'
<1>0. frame[j] \in Frames
  BY DEF Typing, PipelineTypeOK, TypeOK
<1>1. CASE RoutingBegin(j)
  <2>1. PICK authorized, affordable \in BOOLEAN :
          frame' = [frame EXCEPT
            ![j].at = "route",
            ![j].todo = {f \in linked[j.run] : findingStatus[f] = "source_confirmed"},
            ![j].decided = IF authorized /\ affordable THEN "open" ELSE "shut"]
    BY <1>1 DEF RoutingBegin
  <2> DEFINE todo == {f \in linked[j.run] : findingStatus[f] = "source_confirmed"}
             fr == [frame[j] EXCEPT !.at = "route", !.todo = todo,
                      !.decided = IF authorized /\ affordable THEN "open" ELSE "shut"]
  <2>2. todo \in SUBSET Findings
    BY JobFacts DEF Typing, PipelineTypeOK, TypeOK
  <2>3. fr \in Frames
    BY <1>0, <2>2 DEF Frames, Labels
  <2>4. PlaceFits(j, fr.at, fr.finding, fr.decided)
    BY <1>0, <1>1 DEF RoutingBegin, Frames, PlaceFits
  <2>5. frame' = [frame EXCEPT ![j] = fr]
    BY <2>1 DEF Typing, PipelineTypeOK, TypeOK
  <2> QED BY <1>1, <2>3, <2>4, <2>5, FrameTyping DEF RoutingBegin
<1>2. CASE RoutingDecide(j)
  <2>1. PICK f \in frame[j].todo :
          IF ~Escalates(RoutingInput(j, f))
            THEN frame' = [frame EXCEPT ![j].todo = @ \ {f}] /\ UNCHANGED jobState
            ELSE IF CanTransitionFinding(findingStatus[f], "validation_queued")
            THEN /\ frame' = [frame EXCEPT ![j].at = "write_finding", ![j].finding = f,
                                           ![j].todo = @ \ {f}]
                 /\ UNCHANGED jobState
            ELSE Throw(j)
    BY <1>2 DEF RoutingDecide
  <2>2. f \in Findings /\ frame[j].todo \ {f} \in SUBSET Findings
    BY <1>0 DEF Frames
  <2>3. CASE frame' = [frame EXCEPT ![j].todo = @ \ {f}] /\ UNCHANGED jobState
    <3> DEFINE fr == [frame[j] EXCEPT !.todo = @ \ {f}]
    <3>1. fr \in Frames
      BY <1>0, <2>2 DEF Frames
    <3>2. PlaceFits(j, fr.at, fr.finding, fr.decided)
      BY <1>0 DEF Typing, PlacesOK, PlaceOK, Frames
    <3>3. frame' = [frame EXCEPT ![j] = fr]
      BY <2>3 DEF Typing, PipelineTypeOK, TypeOK
    <3> QED BY <1>2, <2>3, <3>1, <3>2, <3>3, FrameTyping DEF RoutingDecide
  <2>4. CASE /\ frame' = [frame EXCEPT ![j].at = "write_finding", ![j].finding = f,
                                        ![j].todo = @ \ {f}]
             /\ UNCHANGED jobState
    <3> DEFINE fr == [frame[j] EXCEPT !.at = "write_finding", !.finding = f, !.todo = @ \ {f}]
    <3>1. fr \in Frames
      BY <1>0, <2>2 DEF Frames, Labels
    <3>2. j.type = "apply_routing_policy"
      BY <1>2 DEF RoutingDecide, At, Typing, PlacesOK, PlaceOK, PlaceFits
    <3>3. PlaceFits(j, fr.at, fr.finding, fr.decided)
      BY <1>0, <2>2, <3>2 DEF PlaceFits, Frames
    <3>4. frame' = [frame EXCEPT ![j] = fr]
      BY <2>4 DEF Typing, PipelineTypeOK, TypeOK
    <3> QED BY <1>2, <2>4, <3>1, <3>3, <3>4, FrameTyping DEF RoutingDecide
  <2>5. CASE Throw(j)
    BY <1>2, <2>5, ThrowTyping
       DEF RoutingDecide, At, Typing, PipelineTypeOK, TypeOK, storeVars, apiVars
  <2> QED BY <2>1, <2>3, <2>4, <2>5
<1>3. CASE RoutingEscalate(j)
  <2>1. frame[j].finding \in Findings
    BY <1>3 DEF RoutingEscalate, At, Typing, PlacesOK, PlaceOK, PlaceFits
  <2>2. frame' \in [Jobs -> Frames] /\ PlacesOK'
    BY <1>3, <2>1, GotoTyping DEF RoutingEscalate, Labels, PlaceFits
  <2>3. findingStatus' \in [Findings -> FindingStatuses \cup {"absent"}]
    BY <1>3 DEF RoutingEscalate, FindingStatuses, Typing, PipelineTypeOK, TypeOK
  <2>4. linked' \in [Runs -> SUBSET Findings]
    BY <1>3, <2>1 DEF RoutingEscalate, Typing, PipelineTypeOK, TypeOK
  <2> QED
    BY <1>3, <2>2, <2>3, <2>4
       DEF RoutingEscalate, Typing, PipelineTypeOK, TypeOK, apiVars, AttemptsCounted
<1>4. CASE RoutingEnqueue(j)
  <2>1. frame[j].finding \in Findings
    BY <1>4 DEF RoutingEnqueue, At, Typing, PlacesOK, PlaceOK, PlaceFits
  <2>2. StrixJob(j.run, frame[j].finding) \in Jobs
    BY <2>1, JobFacts
  <2>3. PlaceFits(j, "route", frame[j].finding, frame[j].decided)
    BY <1>4 DEF RoutingEnqueue, PlaceFits
  <2> QED BY <1>4, <2>2, <2>3, MoveTyping DEF RoutingEnqueue, Labels
<1>5. CASE RoutingCount(j)
  BY <1>5, MoveTyping, FreePlacesFit DEF RoutingCount, FreePlaces, storeVars
<1>6. CASE RoutingAssert(j)
  BY <1>6, AssertRunTyping, FreePlacesFit DEF RoutingAssert, At, FreePlaces
<1>7. CASE RoutingWrite(j)
  BY <1>7, WriteRunTyping, FreePlacesFit DEF RoutingWrite, FreePlaces, RunStatuses
<1> QED BY <1>1, <1>2, <1>3, <1>4, <1>5, <1>6, <1>7 DEF Routing

LEMMA StrixTyping ==
  ASSUME Typing, NEW j \in Jobs, Strix(j), UNCHANGED apiVars
  PROVE  Typing'
<1>0. frame[j] \in Frames
  BY DEF Typing, PipelineTypeOK, TypeOK
<1>1. CASE StrixMission(j)
  <2>1. CASE Throw(j)
    BY <1>1, <2>1, ThrowTyping
       DEF StrixMission, At, Typing, PipelineTypeOK, TypeOK, storeVars, apiVars
  <2>2. ASSUME NEW verdict \in Verdicts, UNCHANGED jobState,
               frame' = [frame EXCEPT ![j].at = "write_finding", ![j].decided = verdict]
        PROVE  Typing'
    <3> DEFINE fr == [frame[j] EXCEPT !.at = "write_finding", !.decided = verdict]
    <3>1. fr \in Frames
      BY <1>0 DEF Frames, Labels
    <3>2. PlaceFits(j, fr.at, fr.finding, fr.decided)
      BY <1>0, <1>1 DEF StrixMission, Frames, PlaceFits
    <3>3. frame' = [frame EXCEPT ![j] = fr]
      BY <2>2 DEF Typing, PipelineTypeOK, TypeOK
    <3> QED BY <1>1, <2>2, <3>1, <3>2, <3>3, FrameTyping DEF StrixMission
  <2> QED BY <1>1, <2>1, <2>2 DEF StrixMission
<1>2. CASE StrixPersist(j)
  <2> DEFINE verdict == frame[j].decided
             row == [finding |-> j.finding, run |-> j.run, verdict |-> verdict,
                     attempt |-> attempts[j]]
  <2>1. verdict \in Verdicts
    BY <1>2 DEF StrixPersist, At, Typing, PlacesOK, PlaceOK, PlaceFits
  <2>2. attempts[j] \in 1 .. MaxAttempts
    BY <1>2, BoundsAssumption
       DEF StrixPersist, At, Typing, PipelineTypeOK, TypeOK, AttemptsCounted
  <2>3. j.finding \in Findings /\ j.run \in Runs
    BY <1>2, JobFacts DEF StrixPersist
  <2>4. row \in ValidationRows
    BY <2>1, <2>2, <2>3 DEF ValidationRows
  <2>5. validations' \in SUBSET ValidationRows
    BY <1>2, <2>4 DEF StrixPersist, Judges, Typing, PipelineTypeOK, TypeOK
  <2>6. /\ findingStatus' \in [Findings -> FindingStatuses \cup {"absent"}]
        /\ linked' \in [Runs -> SUBSET Findings]
    BY <1>2, <2>1, <2>3
       DEF StrixPersist, Judges, Verdicts, FindingStatuses, Typing, PipelineTypeOK, TypeOK
  <2>7. frame' \in [Jobs -> Frames] /\ PlacesOK'
    BY <1>2, GotoTyping DEF StrixPersist, Labels, PlaceFits
  <2> QED
    BY <1>2, <2>5, <2>6, <2>7
       DEF StrixPersist, Judges, Typing, PipelineTypeOK, TypeOK, apiVars, AttemptsCounted
<1>3. CASE StrixCount(j)
  BY <1>3, MoveTyping, FreePlacesFit DEF StrixCount, FreePlaces, storeVars
<1> QED BY <1>1, <1>2, <1>3 DEF Strix

LEMMA FinalizeTyping ==
  ASSUME Typing, NEW j \in Jobs, Finalize(j), UNCHANGED apiVars
  PROVE  Typing'
<1>0. frame[j] \in Frames
  BY DEF Typing, PipelineTypeOK, TypeOK
<1>1. CASE FinalizeDecide(j)
  <2>1. CASE frame' = [frame EXCEPT ![j].at = "return"]
    BY <1>1, <2>1, MoveTyping, FreePlacesFit DEF FinalizeDecide, FreePlaces, Goto, storeVars
  <2>2. CASE frame' = [frame EXCEPT ![j].at = "settle_read", ![j].decided = Disposition(j.run)]
    <3> DEFINE fr == [frame[j] EXCEPT !.at = "settle_read", !.decided = Disposition(j.run)]
    <3>1. Disposition(j.run) \in Dispositions
      BY DEF Disposition, Dispositions
    <3>2. fr \in Frames
      BY <1>0, <3>1 DEF Frames, Labels
    <3>3. PlaceFits(j, fr.at, fr.finding, fr.decided)
      BY <1>0, <3>1 DEF Frames, PlaceFits
    <3>4. frame' = [frame EXCEPT ![j] = fr]
      BY <2>2 DEF Typing, PipelineTypeOK, TypeOK
    <3> QED BY <1>1, <3>2, <3>3, <3>4, FrameTyping DEF FinalizeDecide
  <2> QED BY <1>1, <2>1, <2>2 DEF FinalizeDecide
<1>2. CASE FinalizeAssert(j)
  <2>1. PlaceFits(j, "settle_write", frame[j].finding, frame[j].decided)
    BY <1>2 DEF FinalizeAssert, At, Typing, PlacesOK, PlaceOK, PlaceFits
  <2> QED BY <1>2, <2>1, AssertRunTyping DEF FinalizeAssert, At, Labels
<1>3. CASE FinalizeWrite(j)
  <2>1. frame[j].decided \in Dispositions
    BY <1>3 DEF FinalizeWrite, At, Typing, PlacesOK, PlaceOK, PlaceFits
  <2>2. frame[j].decided \in RunStatuses
    BY <2>1 DEF Dispositions, RunStatuses
  <2>3. PlaceFits(j, "receipt", frame[j].finding, frame[j].decided)
    BY <2>1 DEF PlaceFits
  <2> QED BY <1>3, <2>2, <2>3, WriteRunTyping DEF FinalizeWrite, Labels
<1>4. CASE FinalizeReceipt(j)
  <2>1. PlaceFits(j, "announce", frame[j].finding, frame[j].decided)
    BY <1>4 DEF FinalizeReceipt, At, Typing, PlacesOK, PlaceOK, PlaceFits
  <2>2. StageJob("generate_receipt", j.run) \in Jobs
    BY JobFacts DEF StageTypes
  <2> QED BY <1>4, <2>1, <2>2, MoveTyping DEF FinalizeReceipt, Labels
<1>5. CASE FinalizeAnnounce(j)
  <2>1. frame[j].decided \in Dispositions
    BY <1>5 DEF FinalizeAnnounce, At, Typing, PlacesOK, PlaceOK, PlaceFits
  <2>2. announced' \in [Runs -> SUBSET Dispositions]
    BY <1>5, <2>1 DEF FinalizeAnnounce, Typing, PipelineTypeOK, TypeOK
  <2>3. frame' \in [Jobs -> Frames] /\ PlacesOK'
    BY <1>5, GotoTyping, FreePlacesFit DEF FinalizeAnnounce, FreePlaces
  <2> QED
    BY <1>5, <2>2, <2>3
       DEF FinalizeAnnounce, Typing, PipelineTypeOK, TypeOK, apiVars, AttemptsCounted
<1> QED BY <1>1, <1>2, <1>3, <1>4, <1>5 DEF Finalize

LEMMA ReceiptStatusTyping ==
  ASSUME NEW r
  PROVE  ReceiptStatus(r) \in ReceiptStatuses
BY DEF ReceiptStatus, ReceiptStatuses

LEMMA ReceiptTyping ==
  ASSUME Typing, NEW j \in Jobs, ReceiptGather(j) \/ ReceiptStore(j), UNCHANGED apiVars
  PROVE  Typing'
<1>0. frame[j] \in Frames
  BY DEF Typing, PipelineTypeOK, TypeOK
<1>1. CASE ReceiptGather(j)
  <2> DEFINE fr == [frame[j] EXCEPT !.at = "store", !.decided = ReceiptStatus(j.run)]
  <2>1. fr \in Frames
    BY <1>0, ReceiptStatusTyping DEF Frames, Labels
  <2>2. PlaceFits(j, fr.at, fr.finding, fr.decided)
    BY <1>0, <1>1, ReceiptStatusTyping DEF ReceiptGather, Frames, PlaceFits
  <2>3. frame' = [frame EXCEPT ![j] = fr]
    BY <1>1 DEF ReceiptGather, Typing, PipelineTypeOK, TypeOK
  <2> QED BY <1>1, <2>1, <2>2, <2>3, FrameTyping DEF ReceiptGather
<1>2. CASE ReceiptStore(j)
  <2>1. frame[j].decided \in ReceiptStatuses
    BY <1>2 DEF ReceiptStore, At, Typing, PlacesOK, PlaceOK, PlaceFits
  <2>2. frame' \in [Jobs -> Frames] /\ PlacesOK'
    BY <1>2, GotoTyping, FreePlacesFit DEF ReceiptStore, FreePlaces
  <2> QED
    BY <1>2, <2>1, <2>2
       DEF ReceiptStore, Typing, PipelineTypeOK, TypeOK, apiVars, AttemptsCounted
<1> QED BY <1>1, <1>2

LEMMA ApiTyping ==
  ASSUME Typing, NEW r \in Runs, ApiStep(r)
  PROVE  Typing'
<1>0. UNCHANGED <<jobState, attempts>> => AttemptsCounted'
  BY DEF Typing, AttemptsCounted
<1>1. UNCHANGED frame => PlacesOK'
  BY DEF Typing, PlacesOK, PlaceOK
<1>2. CASE CreateReview(r)
  BY <1>0, <1>1, <1>2
     DEF CreateReview, Reviews, RunStatuses, Typing, PipelineTypeOK, TypeOK, storeVars, queueVars
<1>3. CASE EnqueuePrepare(r)
  <2>1. StageJob("prepare_repository", r) \in Jobs
    BY JobFacts DEF StageTypes
  <2>2. jobState' \in [Jobs -> JobStates] /\ AttemptsCounted'
    BY <1>3, <2>1, EnqueueTyping DEF EnqueuePrepare
  <2> QED
    BY <1>1, <1>3, <2>2 DEF EnqueuePrepare, Typing, PipelineTypeOK, TypeOK, storeVars
<1>4. CASE CreateInterrupted(r)
  <2>1. interrupts' \in 0 .. MaxInterrupts
    BY <1>4, BoundsAssumption DEF CreateInterrupted, Typing, PipelineTypeOK, TypeOK
  <2> QED
    BY <1>0, <1>1, <1>4, <2>1
       DEF CreateInterrupted, Typing, PipelineTypeOK, TypeOK, storeVars
<1>5. CASE CancelAssert(r)
  BY <1>0, <1>1, <1>5 DEF CancelAssert, Typing, PipelineTypeOK, TypeOK, storeVars, queueVars
<1>6. CASE CancelWrite(r)
  BY <1>0, <1>1, <1>6 DEF CancelWrite, RunStatuses, Typing, PipelineTypeOK, TypeOK, queueVars
<1>7. CASE FetchGather(r)
  BY <1>0, <1>1, <1>7, ReceiptStatusTyping
     DEF FetchGather, Typing, PipelineTypeOK, TypeOK, storeVars, queueVars
<1>8. CASE FetchStore(r)
  BY <1>0, <1>1, <1>8 DEF FetchStore, Typing, PipelineTypeOK, TypeOK, queueVars
<1> QED BY <1>2, <1>3, <1>4, <1>5, <1>6, <1>7, <1>8 DEF ApiStep

LEMMA StepTyping == Typing /\ [Next]_vars => Typing'
<1> SUFFICES ASSUME Typing, [Next]_vars PROVE Typing'
  OBVIOUS
<1>1. ASSUME NEW j \in Jobs, Work(j) PROVE Typing'
  BY <1>1, PickUpTyping, PrepareTyping, ClassifyTyping, DeepSecTyping, RoutingTyping,
     StrixTyping, FinalizeTyping, ReceiptTyping, ReturnTyping DEF Work, HandlerStep
<1>2. ASSUME NEW j \in Jobs, Fault(j) PROVE Typing'
  BY <1>2, InterruptTyping DEF Fault
<1>3. ASSUME NEW r \in Runs, ApiStep(r) PROVE Typing'
  BY <1>3, ApiTyping
<1>4. CASE UNCHANGED vars
  BY <1>4 DEF vars, storeVars, queueVars, apiVars, Typing, PipelineTypeOK, TypeOK,
              AttemptsCounted, PlacesOK, PlaceOK
<1> QED BY <1>1, <1>2, <1>3, <1>4 DEF Next

\* Every reachable state is well typed, with the counters and the places of
\* the handlers in step.
THEOREM TypingInvariant == Spec => []Typing
<1>1. Init => Typing
  BY InitTyping
<1>2. Typing /\ [Next]_vars => Typing'
  BY StepTyping
<1> QED BY <1>1, <1>2, PTL DEF Spec

\* The status columns only ever hold values of their enums, every job stays
\* within its attempts, and every validation row carries a verdict.
THEOREM TypeCorrect == Spec => []PipelineTypeOK
<1>1. Typing => PipelineTypeOK
  BY DEF Typing
<1> QED BY <1>1, TypingInvariant, PTL

=============================================================================
