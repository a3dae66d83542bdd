---------------------------- MODULE ValidationSafety ----------------------------
(***************************************************************************)
(* Client-requested validations beside the reviews: type correctness for   *)
(* any instance; with one worker, that only a request can have a finding   *)
(* judged again; and, as long as no job is cut short, what leaves a        *)
(* finding queued and what holds a review up.                              *)
(*                                                                         *)
(* ReviewSafety has the reviews alone and any number of workers; there a   *)
(* finding has one mission.  A request sends another, of another run, so   *)
(* the argument is a different one: a single worker runs one handler at a  *)
(* time, and what that handler is about to decide about a finding nobody   *)
(* asked for has not been decided yet.                                     *)
(***************************************************************************)
EXTENDS ValidationProperties, ReviewSafety

ValidateTyping ==
  /\ Typing
  /\ validating \in [Findings -> Calls]
  /\ requested \in SUBSET Findings

Unjudged(f) == findingStatus[f] \notin Conclusive

\* A handler about to decide about f finds it without a conclusive status.
HandUnjudged(j, f) ==
  /\ j.type = "run_strix_validation" /\ j.finding = f
       /\ frame[j].at = "write_finding" /\ frame[j].decided \in Conclusive
       => Unjudged(f)
  /\ j.type = "apply_routing_policy" /\ frame[j].at \in {"route", "write_finding", "enqueue"}
       /\ f \in frame[j].todo
       => Unjudged(f)
  /\ j.type = "apply_routing_policy" /\ frame[j].at = "write_finding" /\ frame[j].finding = f
       => Unjudged(f)

\* A conclusive verdict stays in the finding's status.
VerdictsShow(f) ==
  \A v \in validations : v.finding = f /\ v.verdict \in Conclusive => ~Unjudged(f)

JudgedOnceFor(f) ==
  \A v, w \in validations :
    (/\ v.finding = f /\ w.finding = f
     /\ {v.verdict, w.verdict} \subseteq Conclusive) => v = w

JudgedFor(f) ==
  VerdictsShow(f) /\ JudgedOnceFor(f) /\ \A j \in Jobs : HandUnjudged(j, f)

JudgedInv == \A f \in Findings \ requested : JudgedFor(f)

-----------------------------------------------------------------------------
(* Types.                                                                  *)

\* What a call does to the tables keeps every status a status.
LEMMA ValidateStepTyping ==
  ASSUME ValidateTyping, NEW f \in Findings, Validate(f)
  PROVE  ValidateTyping'
<1> USE DEF ValidateTyping, Calls, NoCall, CallAt, CallGoto, CallEnds
<1>0. lastSeen[f] \in Commits \cup {"none"}
  BY DEF Typing, PipelineTypeOK, TypeOK, Commits
<1>1. UNCHANGED vars => Typing'
  BY StepTyping DEF ValidateTyping
<1>2. CASE ValidateRead(f)
  BY <1>0, <1>1, <1>2 DEF ValidateRead
<1>3. CASE ValidateAssert(f)
  BY <1>1, <1>3 DEF ValidateAssert
<1>4. CASE ValidateWrite(f)
  <2>1. findingStatus' \in [Findings -> FindingStatuses \cup {"absent"}]
    BY <1>4 DEF ValidateWrite, FindingStatuses, Typing, PipelineTypeOK, TypeOK
  <2> QED
    BY <1>4, <2>1 DEF ValidateWrite, Typing, PipelineTypeOK, TypeOK, queueVars, apiVars,
                      AttemptsCounted, PlacesOK, PlaceOK
<1>5. CASE ValidateCreate(f)
  <2>1. runStatus' \in [Runs -> RunStatuses \cup {"absent"}]
    BY <1>5 DEF ValidateCreate, RunStatuses, Typing, PipelineTypeOK, TypeOK
  <2>2. validating' \in [Findings -> Calls]
    BY <1>5 DEF ValidateCreate
  <2> QED
    BY <1>5, <2>1, <2>2 DEF ValidateCreate, Typing, PipelineTypeOK, TypeOK, queueVars, apiVars,
                            AttemptsCounted, PlacesOK, PlaceOK
<1>6. CASE ValidateEnqueue(f)
  <2>1. PICK r \in RunsOfKey(validating[f].commit) : Enqueue(StrixJob(r, f))
    BY <1>6 DEF ValidateEnqueue
  <2>2. StrixJob(r, f) \in Jobs
    BY ValidationRunsAssumption, RunsAssumption, JobFacts DEF RunsOfKey
  <2>3. jobState' \in [Jobs -> JobStates] /\ AttemptsCounted'
    BY <1>6, <2>1, <2>2, EnqueueTyping DEF ValidateEnqueue
  <2> QED
    BY <1>6, <2>3 DEF ValidateEnqueue, Typing, PipelineTypeOK, TypeOK, storeVars, apiVars,
                      PlacesOK, PlaceOK
<1>7. CASE ValidateInterrupted(f)
  BY <1>1, <1>7 DEF ValidateInterrupted
<1> QED BY <1>2, <1>3, <1>4, <1>5, <1>6, <1>7 DEF Validate

LEMMA ValidateNextTyping == ValidateTyping /\ [ValidateNext]_lifeVars => ValidateTyping'
<1> SUFFICES ASSUME ValidateTyping, [ValidateNext]_lifeVars PROVE ValidateTyping'
  OBVIOUS
<1>1. CASE ReviewStep \/ UNCHANGED lifeVars
  BY <1>1, StepTyping DEF ReviewStep, lifeVars, validateVars, ValidateTyping
<1>2. ASSUME NEW f \in Findings, Validate(f) PROVE ValidateTyping'
  BY <1>2, ValidateStepTyping
<1> QED BY <1>1, <1>2 DEF ValidateNext

THEOREM ValidateTypingInvariant == ValidateSpec => []ValidateTyping
<1>1. ValidateInit => ValidateTyping
  BY InitTyping DEF ValidateInit, ValidateTyping, Calls, NoCall
<1>2. ValidateTyping /\ [ValidateNext]_lifeVars => ValidateTyping'
  BY ValidateNextTyping
<1> QED BY <1>1, <1>2, PTL DEF ValidateSpec

\* With requests beside the reviews, statuses stay statuses, jobs stay within
\* their attempts, and a call only ever carries a commit a run is for.
THEOREM ValidateTypeCorrect == ValidateSpec => []ValidateTypeOK
<1>1. ValidateTyping => ValidateTypeOK
  BY DEF ValidateTyping, ValidateTypeOK, Typing
<1> QED BY <1>1, ValidateTypingInvariant, PTL

-----------------------------------------------------------------------------
(* What the handler in hand is about to decide.                            *)

\* A place that decides about no finding.
LEMMA ElsewhereUnjudged ==
  ASSUME NEW j \in Jobs, NEW f \in Findings,
         \/ frame'[j].at \notin {"route", "write_finding", "enqueue"}
         \/ frame'[j].at = "enqueue" /\ j.type # "apply_routing_policy"
  PROVE  HandUnjudged(j, f)'
BY DEF HandUnjudged

\* The verdicts a status admits lead out of the statuses without one.
LEMMA VerdictsFromUnjudged ==
  ASSUME NEW s, NEW verdict \in Conclusive, CanTransitionFinding(s, verdict)
  PROVE  s \notin Conclusive
BY DEF CanTransitionFinding, FindingEdges, Conclusive, Verdicts

\* Handlers that decide about no finding.
LEMMA StageHand ==
  ASSUME Typing, NEW j \in Jobs, NEW f \in Findings,
         \/ PickUp(j) \/ Return(j) \/ Throw(j)
         \/ Prepare(j) \/ Classify(j) \/ DeepSec(j) \/ Finalize(j)
         \/ ReceiptGather(j) \/ ReceiptStore(j)
  PROVE  HandUnjudged(j, f)'
<1> SUFFICES \/ frame'[j].at \notin {"route", "write_finding", "enqueue"}
             \/ frame'[j].at = "enqueue" /\ j.type # "apply_routing_policy"
  BY ElsewhereUnjudged
<1>0. frame \in [Jobs -> Frames]
  BY DEF Typing, PipelineTypeOK, TypeOK
<1> USE <1>0 DEF Frames, Goto, At
<1>1. CASE PickUp(j) \/ Return(j) \/ Throw(j)
  BY <1>1 DEF PickUp, Return, Throw, IdleFrame
<1>2. CASE Prepare(j)
  <2>1. CASE PrepareSnapshot(j)
    BY <2>1 DEF PrepareSnapshot, Typing, PlacesOK, PlaceOK, PlaceFits
  <2>2. CASE PrepareAssert(j) \/ PrepareWrite(j) \/ PrepareEnqueue(j)
    BY <2>2 DEF PrepareAssert, PrepareWrite, PrepareEnqueue, AssertRunTransition,
       WriteRunStatus, Throw, IdleFrame
  <2> QED BY <1>2, <2>1, <2>2 DEF Prepare
<1>3. CASE Classify(j)
  BY <1>3 DEF Classify, ClassifyCreate, ClassifyAssert, ClassifyWrite,
     ClassifyEnqueue, AssertRunTransition, WriteRunStatus, Throw, IdleFrame
<1>4. CASE DeepSec(j)
  <2>1. CASE DeepSecLookup(j) \/ DeepSecPersist(j)
    BY <2>1 DEF DeepSecLookup, DeepSecPersist, Reported, Throw, IdleFrame
  <2>2. CASE DeepSecAssert(j) \/ DeepSecWrite(j) \/ DeepSecEnqueue(j)
    BY <2>2 DEF DeepSecAssert, DeepSecWrite, DeepSecEnqueue,
       AssertRunTransition, WriteRunStatus, Throw, IdleFrame
  <2> QED BY <1>4, <2>1, <2>2 DEF DeepSec
<1>5. CASE Finalize(j)
  BY <1>5 DEF Finalize, FinalizeDecide, FinalizeAssert, FinalizeWrite,
     FinalizeReceipt, FinalizeAnnounce, AssertRunTransition, WriteRunStatus, Throw, IdleFrame
<1>6. CASE ReceiptGather(j) \/ ReceiptStore(j)
  BY <1>6 DEF ReceiptGather, ReceiptStore
<1> QED BY <1>1, <1>2, <1>3, <1>4, <1>5, <1>6

\* Routing takes its candidates from the source-confirmed findings, and what it
\* escalates leaves the others as they are.
LEMMA RoutingHand ==
  ASSUME Typing, NEW j \in Jobs, NEW f \in Findings, HandUnjudged(j, f), Routing(j)
  PROVE  HandUnjudged(j, f)'
<1>0. /\ frame \in [Jobs -> Frames]
      /\ findingStatus \in [Findings -> FindingStatuses \cup {"absent"}]
  BY DEF Typing, PipelineTypeOK, TypeOK
<1> USE <1>0 DEF Frames, Goto, At, Unjudged
<1>1. j.type = "apply_routing_policy"
  BY DEF Routing, RoutingBegin, RoutingDecide, RoutingEscalate, RoutingEnqueue, RoutingCount,
         RoutingAssert, RoutingWrite, Typing, PlacesOK, PlaceOK, PlaceFits
<1>2. CASE RoutingBegin(j)
  <2> DEFINE candidates == {g \in linked[j.run] : findingStatus[g] = "source_confirmed"}
  <2>1. UNCHANGED findingStatus
    <3>1. UNCHANGED storeVars
      BY <1>2 DEF RoutingBegin
    <3> QED  BY <3>1 DEF storeVars
  <2>2. PICK gates : frame' = [frame EXCEPT ![j].at = "route", ![j].todo = candidates,
                                            ![j].decided = gates]
    BY <1>2 DEF RoutingBegin
  <2>3. frame'[j].at = "route" /\ frame'[j].todo = candidates
    BY <2>2
  <2> QED BY <1>1, <2>1, <2>3 DEF HandUnjudged, Conclusive, Verdicts
<1>3. CASE RoutingDecide(j)
  <2>1. CASE Throw(j)
    BY <2>1, StageHand
  <2>2. PICK g \in frame[j].todo :
          \/ frame' = [frame EXCEPT ![j].todo = @ \ {g}]
          \/ frame' = [frame EXCEPT ![j].at = "write_finding", ![j].finding = g, ![j].todo = @ \ {g}]
          \/ Throw(j)
    BY <1>3 DEF RoutingDecide
  <2>3. UNCHANGED findingStatus /\ frame[j].at = "route"
    BY <1>3 DEF RoutingDecide, storeVars
  <2> QED BY <1>1, <2>1, <2>2, <2>3 DEF HandUnjudged
<1>4. CASE RoutingEscalate(j)
  BY <1>1, <1>4 DEF RoutingEscalate, HandUnjudged, Conclusive, Verdicts
<1>5. CASE RoutingEnqueue(j)
  BY <1>1, <1>5 DEF RoutingEnqueue, storeVars, HandUnjudged
<1>6. CASE RoutingCount(j)
  BY <1>6, ElsewhereUnjudged DEF RoutingCount
<1>7. CASE RoutingAssert(j) \/ RoutingWrite(j)
  <2> SUFFICES frame'[j].at \notin {"route", "write_finding", "enqueue"}
    BY ElsewhereUnjudged
  <2> QED BY <1>7 DEF RoutingAssert, RoutingWrite, AssertRunTransition, WriteRunStatus, Throw, IdleFrame
<1> QED BY <1>2, <1>3, <1>4, <1>5, <1>6, <1>7 DEF Routing

\* A mission only goes on with a verdict its finding's status admits.
LEMMA StrixHand ==
  ASSUME Typing, NEW j \in Jobs, NEW f \in Findings, HandUnjudged(j, f), Strix(j)
  PROVE  HandUnjudged(j, f)'
<1>0. /\ frame \in [Jobs -> Frames]
      /\ findingStatus \in [Findings -> FindingStatuses \cup {"absent"}]
  BY DEF Typing, PipelineTypeOK, TypeOK
<1> USE <1>0 DEF Frames, Goto, At
<1>1. CASE StrixMission(j)
  <2>1. CASE Throw(j)
    BY <2>1, StageHand
  <2>2. CASE ~Throw(j)
    <3>1. PICK verdict \in Verdicts :
            /\ Judges(verdict) => CanTransitionFinding(findingStatus[j.finding], verdict)
            /\ frame' = [frame EXCEPT ![j].at = "write_finding", ![j].decided = verdict]
      BY <1>1, <2>2 DEF StrixMission
    <3>2. UNCHANGED findingStatus /\ j.type = "run_strix_validation"
      BY <1>1 DEF StrixMission, storeVars
    <3>3. verdict \in Conclusive => Unjudged(j.finding)
      BY <3>1, VerdictsFromUnjudged DEF Judges, Conclusive, Unjudged
    <3>4. frame'[j].decided = verdict
      BY <3>1
    <3> QED BY <3>2, <3>3, <3>4 DEF HandUnjudged, Unjudged
  <2> QED BY <2>1, <2>2
<1>2. CASE StrixPersist(j) \/ StrixCount(j)
  <2> SUFFICES frame'[j].at \notin {"route", "write_finding", "enqueue"}
    BY ElsewhereUnjudged
  <2> QED BY <1>2 DEF StrixPersist, StrixCount
<1> QED BY <1>1, <1>2 DEF Strix

-----------------------------------------------------------------------------
(* Verdicts.                                                               *)

\* A step that writes no verdict and takes none back.
LEMMA VerdictsKept ==
  ASSUME NEW f \in Findings, VerdictsShow(f), JudgedOnceFor(f), UNCHANGED validations,
         Unjudged(f)' => Unjudged(f)
  PROVE  VerdictsShow(f)' /\ JudgedOnceFor(f)'
BY DEF VerdictsShow, JudgedOnceFor

\* A mission writes its verdict to a finding without one.
LEMMA PersistJudges ==
  ASSUME Typing, NEW j \in Jobs, StrixPersist(j), NEW f \in Findings,
         VerdictsShow(f), JudgedOnceFor(f), HandUnjudged(j, f)
  PROVE  VerdictsShow(f)' /\ JudgedOnceFor(f)'
<1> USE DEF Typing, PipelineTypeOK, TypeOK
<1> DEFINE row == [finding |-> j.finding, run |-> j.run, verdict |-> frame[j].decided,
                   attempt |-> attempts[j]]
<1>1. /\ validations' = validations \cup {row}
      /\ j.type = "run_strix_validation" /\ frame[j].at = "write_finding"
      /\ j.finding \in Findings
      /\ frame[j].decided \in Verdicts
  BY JobFacts DEF StrixPersist, At, PlacesOK, PlaceOK, PlaceFits
<1>2. CASE j.finding # f
  <2>1. findingStatus'[f] = findingStatus[f]
    BY <1>2 DEF StrixPersist
  <2> QED BY <1>1, <1>2, <2>1 DEF VerdictsShow, JudgedOnceFor, Unjudged
<1>3. CASE j.finding = f /\ frame[j].decided = "failed"
  <2>1. findingStatus'[f] = findingStatus[f]
    BY <1>3 DEF StrixPersist, Judges
  <2> QED BY <1>1, <1>3, <2>1 DEF VerdictsShow, JudgedOnceFor, Unjudged, Conclusive
<1>4. CASE j.finding = f /\ frame[j].decided # "failed"
  <2>1. frame[j].decided \in Conclusive
    BY <1>1, <1>4 DEF Conclusive
  <2>2. Unjudged(f)
    BY <1>1, <1>4, <2>1 DEF HandUnjudged
  <2>3. \A v \in validations : ~(v.finding = f /\ v.verdict \in Conclusive)
    BY <2>2 DEF VerdictsShow
  <2>4. findingStatus'[f] = frame[j].decided
    BY <1>4 DEF StrixPersist, Judges
  <2>5. ~Unjudged(f)'
    BY <2>1, <2>4 DEF Unjudged
  <2> QED BY <1>1, <2>3, <2>5 DEF VerdictsShow, JudgedOnceFor
<1> QED BY <1>2, <1>3, <1>4

\* What a handler does to a finding nobody asked for.
LEMMA WorkJudges ==
  ASSUME Workers = 1, Typing, AloneInv, NEW j \in Jobs, Work(j) \/ Fault(j),
         NEW f \in Findings, JudgedFor(f)
  PROVE  JudgedFor(f)'
<1>1. \A k \in Jobs \ {j} : HandUnjudged(k, f)'
  BY OthersIdle, ElsewhereUnjudged
<1>2. HandUnjudged(j, f)'
  BY StageHand, RoutingHand, StrixHand DEF Work, HandlerStep, Fault, Interrupt, JudgedFor
<1>3. VerdictsShow(f)' /\ JudgedOnceFor(f)'
  <2>1. CASE StrixPersist(j)
    BY <2>1, PersistJudges DEF JudgedFor
  <2>2. CASE UNCHANGED validations /\ findingStatus'[f] = findingStatus[f]
    BY <2>2, VerdictsKept DEF JudgedFor, Unjudged
  <2>3. CASE DeepSecPersist(j) /\ UNCHANGED validations
    <3>1. findingStatus'[f] = findingStatus[f] \/ findingStatus[f] = "absent"
      BY <2>3 DEF DeepSecPersist, Reported, Exists, Typing, PipelineTypeOK, TypeOK
    <3>2. Unjudged(f)' => Unjudged(f)
      BY <3>1 DEF Unjudged, Conclusive, Verdicts
    <3> QED BY <2>3, <3>2, VerdictsKept DEF JudgedFor
  <2>4. CASE RoutingEscalate(j) /\ UNCHANGED validations
    <3>1. CASE frame[j].finding = f
      <4>1. Unjudged(f)
        BY <2>4, <3>1 DEF JudgedFor, HandUnjudged, RoutingEscalate, At
      <4> QED BY <2>4, <4>1, VerdictsKept DEF JudgedFor
    <3>2. CASE frame[j].finding # f
      <4>1. findingStatus'[f] = findingStatus[f]
        BY <2>4, <3>2 DEF RoutingEscalate, Typing, PipelineTypeOK, TypeOK
      <4> QED BY <2>4, <4>1, VerdictsKept DEF JudgedFor, Unjudged
    <3> QED BY <3>1, <3>2
  <2>5. Fault(j) => UNCHANGED validations /\ findingStatus'[f] = findingStatus[f]
    BY DEF Fault, Interrupt, storeVars
  <2> QED BY <2>1, <2>2, <2>3, <2>4, <2>5, Writers
<1> QED BY <1>1, <1>2, <1>3 DEF JudgedFor

\* Whoever else steps leaves the findings nobody asked for alone.
LEMMA OutsideJudges ==
  ASSUME NEW f \in Findings, JudgedFor(f), UNCHANGED <<frame, validations>>,
         findingStatus'[f] = findingStatus[f]
  PROVE  JudgedFor(f)'
BY DEF JudgedFor, VerdictsShow, JudgedOnceFor, HandUnjudged, Unjudged

LEMMA ValidateJudges ==
  ASSUME Typing, AloneInv, JudgedInv, NEW f \in Findings, Validate(f)
  PROVE  AloneInv' /\ JudgedInv'
<1>1. UNCHANGED vars /\ UNCHANGED requested => AloneInv' /\ JudgedInv'
  <2> SUFFICES ASSUME UNCHANGED vars, UNCHANGED requested PROVE AloneInv' /\ JudgedInv'
    OBVIOUS
  <2>1. AloneInv'
    BY OutsideAlone DEF vars, queueVars
  <2>2. JudgedInv'
    BY OutsideJudges DEF vars, queueVars, storeVars, JudgedInv
  <2> QED BY <2>1, <2>2
<1>2. CASE ValidateRead(f) \/ ValidateAssert(f) \/ ValidateInterrupted(f)
  BY <1>1, <1>2 DEF ValidateRead, ValidateAssert, ValidateInterrupted
<1>3. CASE ValidateWrite(f)
  <2>1. AloneInv'
    BY <1>3, OutsideAlone DEF ValidateWrite, queueVars
  <2>2. ASSUME NEW g \in Findings \ requested' PROVE JudgedFor(g)'
    <3>1. g # f /\ g \notin requested
      BY <1>3, <2>2 DEF ValidateWrite
    <3>2. findingStatus'[g] = findingStatus[g]
      BY <1>3, <3>1 DEF ValidateWrite, Typing, PipelineTypeOK, TypeOK
    <3> QED BY <1>3, <3>1, <3>2, OutsideJudges DEF ValidateWrite, queueVars, JudgedInv
  <2> QED BY <2>1, <2>2 DEF JudgedInv
<1>4. CASE ValidateCreate(f)
  <2>1. AloneInv'
    BY <1>4, OutsideAlone DEF ValidateCreate, queueVars
  <2>2. JudgedInv'
    BY <1>4, OutsideJudges DEF ValidateCreate, queueVars, JudgedInv
  <2> QED BY <2>1, <2>2
<1>5. CASE ValidateEnqueue(f)
  <2>1. AloneInv'
    BY <1>5, OutsideAlone DEF ValidateEnqueue
  <2>2. JudgedInv'
    BY <1>5, OutsideJudges DEF ValidateEnqueue, storeVars, JudgedInv
  <2> QED BY <2>1, <2>2
<1> QED BY <1>2, <1>3, <1>4, <1>5 DEF Validate

\* The other calls of a client touch no finding.
LEMMA ApiJudges ==
  ASSUME Typing, AloneInv, JudgedInv, NEW r \in Runs, ApiStep(r), UNCHANGED requested
  PROVE  AloneInv' /\ JudgedInv'
<1>1. /\ UNCHANGED <<frame, validations, findingStatus>>
      /\ UNCHANGED jobState \/ \E k : Enqueue(k)
  BY DEF ApiStep, CreateReview, EnqueuePrepare, CreateInterrupted, CancelAssert, CancelWrite,
         FetchGather, FetchStore, storeVars, queueVars
<1>2. AloneInv'
  BY <1>1, OutsideAlone
<1>3. JudgedInv'
  BY <1>1, OutsideJudges DEF JudgedInv
<1> QED BY <1>2, <1>3

LEMMA StepJudges ==
  ASSUME Workers = 1, ValidateTyping, AloneInv, JudgedInv, [ValidateNext]_lifeVars
  PROVE  AloneInv' /\ JudgedInv'
<1>0. Typing
  BY DEF ValidateTyping
<1>1. ASSUME NEW j \in Jobs, Work(j) \/ Fault(j), UNCHANGED validateVars
      PROVE  AloneInv' /\ JudgedInv'
  <2>1. AloneInv'
    BY <1>0, <1>1, WorkAlone
  <2>2. JudgedInv'
    BY <1>0, <1>1, WorkJudges DEF JudgedInv, validateVars
  <2> QED BY <2>1, <2>2
<1>2. ASSUME NEW r \in Runs, ApiStep(r), UNCHANGED validateVars
      PROVE  AloneInv' /\ JudgedInv'
  BY <1>0, <1>2, ApiJudges DEF validateVars
<1>3. ASSUME NEW f \in Findings, Validate(f) PROVE AloneInv' /\ JudgedInv'
  BY <1>0, <1>3, ValidateJudges
<1>4. CASE UNCHANGED lifeVars
  <2>1. AloneInv'
    BY <1>0, <1>4, OutsideAlone DEF lifeVars, vars, queueVars
  <2>2. JudgedInv'
    BY <1>4, OutsideJudges DEF lifeVars, validateVars, vars, queueVars, storeVars, JudgedInv
  <2> QED BY <2>1, <2>2
<1> QED BY <1>1, <1>2, <1>3, <1>4 DEF ValidateNext, ReviewStep, Next

\* With one worker one handler works at a time, and what it is about to decide
\* about a finding nobody asked for has not been decided yet.
THEOREM JudgedInvariant ==
  ASSUME Workers = 1
  PROVE  ValidateSpec => [](AloneInv /\ JudgedInv)
<1>1. ValidateInit => AloneInv /\ JudgedInv
  BY DEF ValidateInit, Init, ControlPlaneInit, IdleFrame, AloneInv, OneActive, PlacesLive,
         LiveFrame, JudgedInv, JudgedFor, VerdictsShow, JudgedOnceFor, HandUnjudged
<1>2. ValidateTyping /\ AloneInv /\ JudgedInv /\ [ValidateNext]_lifeVars
        => AloneInv' /\ JudgedInv'
  BY StepJudges
<1> QED BY <1>1, <1>2, ValidateTypingInvariant, PTL DEF ValidateSpec

\* A finding nobody asked about is judged conclusively once.
JudgedOnceUnlessRequested ==
  \A v, w \in validations :
    (/\ v.finding = w.finding /\ v.finding \notin requested
     /\ {v.verdict, w.verdict} \subseteq Conclusive) => v = w

\* With one worker a finding is judged conclusively at most once, whatever is
\* retried, cancelled or cut short and whatever clients ask for, unless a request
\* moved it to validation_queued.  With two workers it is false: the mission of a
\* request and one the review sends may judge a finding at the same time.
THEOREM RequestedOrJudgedOnce ==
  ASSUME Workers = 1
  PROVE  ValidateSpec => []JudgedOnceUnlessRequested
<1>1. ValidateTyping /\ JudgedInv => JudgedOnceUnlessRequested
  <2> SUFFICES ASSUME ValidateTyping, JudgedInv,
                      NEW v \in validations, NEW w \in validations,
                      v.finding = w.finding, v.finding \notin requested,
                      {v.verdict, w.verdict} \subseteq Conclusive
               PROVE  v = w
    BY DEF JudgedOnceUnlessRequested
  <2>1. v.finding \in Findings
    BY DEF ValidateTyping, Typing, PipelineTypeOK, TypeOK, ValidationRows
  <2> QED BY <2>1 DEF JudgedInv, JudgedFor, JudgedOnceFor
<1> QED BY <1>1, ValidateTypingInvariant, JudgedInvariant, PTL

-----------------------------------------------------------------------------
(* What leaves a finding queued: while no job is cut short.                *)

\* Which jobs there are: those of the reviews' pipelines, and for a requested
\* validation its mission, and the receipt its mission would ask for.
KindOK(j) ==
  /\ jobState[j] # "none" =>
       \/ /\ j.run \in Reviews /\ runStatus[j.run] # "absent"
          /\ j.type \notin {"run_deepsec_revalidation", "run_strix_retest"}
       \/ j.run \in ValidationRuns /\ j.type \in {"run_strix_validation", "generate_receipt"}
  /\ frame[j].at \in Settling => j.type \in Finalizers

KindsOK ==
  /\ \A r \in creating : r \in Reviews /\ runStatus[r] # "absent"
  /\ \A j \in Jobs : KindOK(j)

\* Routing will never again take the finding for a candidate.
PastRouting(f) == findingStatus[f] \notin {"absent", "source_confirmed"}

\* A call that is to move its finding found it before anyone had asked for it.
CallFits(f) ==
  /\ validating[f].at \in {"assert", "write"}
       => \A r \in ValidationRuns : jobState[StrixJob(r, f)] = "none"
  /\ validating[f].at \in {"create", "enqueue"} => PastRouting(f)

MissionFits(j) ==
  j.type = "run_strix_validation" /\ jobState[j] # "none" =>
    PastRouting(j.finding) /\ (j.run \in Reviews => j.finding \in linked[j.run])

\* A finding that routing is about to send a mission for is one no mission has
\* begun to test.
RoutingFits(j) ==
  j.type = "apply_routing_policy" =>
    /\ frame[j].at \in {"route", "write_finding", "enqueue"} =>
         /\ frame[j].todo \subseteq linked[j.run]
         /\ \A f \in frame[j].todo : findingStatus[f] \in {"source_confirmed", "validation_queued"}
    /\ frame[j].at \in {"write_finding", "enqueue"} =>
         /\ frame[j].finding \in linked[j.run]
         /\ \A r \in Runs : jobState[StrixJob(r, frame[j].finding)] \in {"none", "waiting"}
         /\ findingStatus[frame[j].finding] \in {"source_confirmed", "validation_queued"}
    /\ frame[j].at = "enqueue" => findingStatus[frame[j].finding] = "validation_queued"

LinksFit ==
  /\ \A r, s \in Reviews : r # s => linked[r] \cap linked[s] = {}
  /\ \A r \in Runs : \A f \in linked[r] : Exists(f)

\* A mission that has not yet recorded what it found.
Waits(k) == jobState[k] = "waiting" \/ (jobState[k] = "active" /\ frame[k].at \in {"begin", "write_finding"})

Sending(r, f) == At(RoutingJob(r), "enqueue") /\ frame[RoutingJob(r)].finding = f

QueuedFits(f) ==
  findingStatus[f] = "validation_queued" =>
    \/ \E r \in Runs : f \in linked[r] /\ Sending(r, f)
    \/ \E k \in Missions(f) : Waits(k) \/ jobState[k] = "dead"
    \/ FailedOn(f)
    \/ f \in requested /\ \A r \in ValidationRuns : jobState[StrixJob(r, f)] = "none"

QueueInv ==
  /\ KindsOK /\ LinksFit
  /\ \A j \in Jobs : MissionFits(j) /\ RoutingFits(j)
  /\ \A f \in Findings : CallFits(f) /\ QueuedFits(f)

\* What a handler does to the status of a finding, whoever asked for what.
LEMMA FindingSteps ==
  ASSUME Typing, NEW j \in Jobs, Work(j), NEW f \in Findings
  PROVE  \/ findingStatus'[f] = findingStatus[f]
         \/ /\ findingStatus[f] = "absent"
            /\ findingStatus'[f] \in {"suspected", "source_confirmed"}
         \/ RoutingEscalate(j) /\ f = frame[j].finding /\ findingStatus'[f] = "validation_queued"
         \/ /\ StrixPersist(j) /\ f = j.finding
            /\ frame[j].decided \in Conclusive /\ findingStatus'[f] = frame[j].decided
<1> USE DEF Typing, PipelineTypeOK, TypeOK
<1>1. CASE DeepSecPersist(j)
  <2>1. CASE UNCHANGED findingStatus
    BY <2>1
  <2>2. CASE /\ ~ \E g \in frame[j].todo : Exists(g)
             /\ \E again \in SUBSET {g \in Findings : Exists(g)} : Reported(j, again)
    BY <2>2 DEF Reported, FirstStatus, Exists
  <2> QED BY <1>1, <2>1, <2>2 DEF DeepSecPersist
<1>2. CASE RoutingEscalate(j)
  BY <1>2 DEF RoutingEscalate
<1>3. CASE StrixPersist(j)
  BY <1>3 DEF StrixPersist, Judges, Conclusive, At, PlacesOK, PlaceOK, PlaceFits
<1> QED BY <1>1, <1>2, <1>3, Writers

\* Nothing brings a finding back before its first routing decision.
LEMMA PastRoutingStays ==
  ASSUME Typing, NEW j \in Jobs, Work(j), NEW f \in Findings
  PROVE  /\ PastRouting(f) => PastRouting(f)'
         /\ Exists(f) => Exists(f)'
         /\ f \in linked'[j.run] \ linked[j.run] => \/ ~Exists(f) /\ Exists(f)'
                                                    \/ RoutingEscalate(j) /\ f = frame[j].finding
                                                    \/ StrixPersist(j) /\ f = j.finding
<1>1. /\ PastRouting(f) => PastRouting(f)'
      /\ Exists(f) => Exists(f)'
  BY FindingSteps DEF PastRouting, Exists, Conclusive, Verdicts
<1>2. ASSUME f \in linked'[j.run] \ linked[j.run], ~RoutingEscalate(j), ~StrixPersist(j)
      PROVE  ~Exists(f) /\ Exists(f)'
  <2>1. DeepSecPersist(j) /\ j.run \in Runs
    BY <1>2, Writers, JobFacts
  <2>2. /\ ~ \E g \in frame[j].todo : Exists(g)
        /\ \E again \in SUBSET {g \in Findings : Exists(g)} : Reported(j, again)
        /\ f \in frame[j].todo
    BY <1>2, <2>1 DEF DeepSecPersist, Typing, PipelineTypeOK, TypeOK
  <2> QED BY <2>2 DEF Reported, FirstStatus, Exists
<1>3. RoutingEscalate(j) /\ f \in linked'[j.run] \ linked[j.run] => f = frame[j].finding
  BY JobFacts DEF RoutingEscalate, Typing, PipelineTypeOK, TypeOK
<1>4. StrixPersist(j) /\ f \in linked'[j.run] \ linked[j.run] => f = j.finding
  BY JobFacts DEF StrixPersist, Typing, PipelineTypeOK, TypeOK
<1> QED BY <1>1, <1>2, <1>3, <1>4

LEMMA KindsFit ==
  ASSUME KindsOK, NEW j \in Jobs
  PROVE  FitsType(j)
BY DEF KindsOK, KindOK, FitsType

LEMMA WorkKindsOK ==
  ASSUME Workers = 1, Typing, AloneInv, KindsOK, NEW j \in Jobs, Work(j)
  PROVE  KindsOK'
<1>1. /\ KindOK(j) /\ FitsType(j) /\ j.run \in Runs /\ jobState[j] # "none"
      /\ \A r \in Runs : runStatus[r] # "absent" => runStatus'[r] # "absent"
  BY WorkKeeps, KindsFit, JobFacts, WorkKinds DEF KindsOK, PickUp
<1>2. \A r \in creating' : r \in Reviews /\ runStatus'[r] # "absent"
  BY <1>1 DEF Work, apiVars, KindsOK, Reviews
<1>3. KindOK(j)'
  <2>1. \/ jobState'[j] = "none"
        \/ /\ j.run \in Reviews /\ runStatus'[j.run] # "absent"
           /\ j.type \notin {"run_deepsec_revalidation", "run_strix_retest"}
        \/ j.run \in ValidationRuns /\ j.type \in {"run_strix_validation", "generate_receipt"}
    BY <1>1 DEF KindOK
  <2>2. frame'[j].at \in Settling => j.type \in Finalizers
    BY <1>1, ActionsOfType, NextPlace DEF Thrown, MovedTo, Settling, Finalizers
  <2> QED BY <2>1, <2>2 DEF KindOK
<1>4. ASSUME NEW k \in Jobs \ {j} PROVE KindOK(k)'
  <2>1. frame'[k].at = "idle" /\ KindOK(k) /\ k.run \in Runs
    BY OthersIdle, JobFacts DEF KindsOK
  <2>2. CASE jobState[k] # "none"
    BY <1>1, <2>1, <2>2 DEF KindOK, Settling
  <2>3. CASE jobState[k] = "none" /\ jobState'[k] # "none"
    <3>1. /\ k.run = j.run
          /\ \/ PrepareEnqueue(j) /\ k.type = "classify_change"
             \/ ClassifyEnqueue(j) /\ k.type = "run_deepsec"
             \/ DeepSecEnqueue(j) /\ k.type = "apply_routing_policy"
             \/ RoutingEnqueue(j) /\ k.type = "run_strix_validation"
             \/ FinalizeReceipt(j) /\ k.type = "generate_receipt"
      BY <2>3, Adders
    <3>2. \/ k.type = "generate_receipt"
          \/ j.type \in StageTypes \ {"generate_receipt"} /\ k.type \in StageTypes \cup {"run_strix_validation"}
      BY <3>1 DEF PrepareEnqueue, ClassifyEnqueue, DeepSecEnqueue, RoutingEnqueue, StageTypes
    <3> QED BY <1>1, <2>1, <3>1, <3>2 DEF KindOK, Settling, StageTypes
  <2>4. CASE jobState'[k] = "none"
    BY <2>1, <2>4 DEF KindOK, Settling
  <2> QED BY <2>2, <2>3, <2>4
<1> QED BY <1>2, <1>3, <1>4 DEF KindsOK

LEMMA WorkLinksFit ==
  ASSUME Typing, QueueInv, NEW j \in Jobs, Work(j)
  PROVE  LinksFit'
<1>1. /\ j.run \in Runs /\ linked \in [Runs -> SUBSET Findings] /\ linked' \in [Runs -> SUBSET Findings]
      /\ LinksFit /\ MissionFits(j) /\ RoutingFits(j)
  BY JobFacts, StepTyping DEF Next, QueueInv, Typing, PipelineTypeOK, TypeOK
<1>2. \A r \in Runs \ {j.run} : linked'[r] = linked[r]
  BY <1>1, Writers DEF DeepSecPersist, RoutingEscalate, StrixPersist
<1>3. ASSUME NEW f \in linked'[j.run] \ linked[j.run]
      PROVE  Exists(f)' /\ (j.run \in Reviews => ~Exists(f))
  <2>1. f \in Findings
    BY <1>1
  <2>2. CASE ~Exists(f) /\ Exists(f)'
    BY <2>2
  <2>3. CASE RoutingEscalate(j) /\ f = frame[j].finding
    BY <1>1, <1>3, <2>3 DEF RoutingEscalate, At, RoutingFits
  <2>4. CASE StrixPersist(j) /\ f = j.finding
    <3>1. PastRouting(f) /\ j.run \notin Reviews
      BY <1>1, <1>3, <2>4 DEF StrixPersist, At, MissionFits
    <3> QED BY <2>1, <3>1, PastRoutingStays DEF PastRouting, Exists
  <2> QED BY <1>3, <2>1, <2>2, <2>3, <2>4, PastRoutingStays
<1>4. \A r \in Runs : \A f \in linked'[r] : Exists(f)'
  BY <1>1, <1>2, <1>3, PastRoutingStays DEF LinksFit
<1>5. ASSUME NEW r \in Reviews, NEW s \in Reviews, r # s, NEW f \in linked'[r] \cap linked'[s]
      PROVE  FALSE
  <2>1. r \in Runs /\ s \in Runs
    BY DEF Reviews
  <2>2. CASE f \in linked[r] /\ f \in linked[s]
    BY <1>1, <1>5, <2>2 DEF LinksFit
  <2>3. CASE r = j.run /\ f \notin linked[r]
    BY <1>1, <1>2, <1>3, <1>5, <2>1, <2>3 DEF LinksFit
  <2>4. CASE s = j.run /\ f \notin linked[s]
    BY <1>1, <1>2, <1>3, <1>5, <2>1, <2>4 DEF LinksFit
  <2> QED BY <1>2, <1>5, <2>1, <2>2, <2>3, <2>4
<1> QED BY <1>4, <1>5 DEF LinksFit

\* Which mission a handler adds.
LEMMA MissionAdders ==
  ASSUME Typing, NEW j \in Jobs, Work(j), NEW k \in Jobs, k.type = "run_strix_validation",
         jobState[k] = "none", jobState'[k] # "none"
  PROVE  /\ RoutingEnqueue(j) /\ k.run = j.run /\ k.finding = frame[j].finding
         /\ jobState'[k] = "waiting"
<1>1. RoutingEnqueue(j) /\ k.run = j.run
  BY Adders
<1>2. jobState' = [jobState EXCEPT ![StrixJob(j.run, frame[j].finding)] = "waiting"]
  BY <1>1 DEF RoutingEnqueue, Enqueue
<1>3. k = StrixJob(j.run, frame[j].finding)
  BY <1>2 DEF Typing, PipelineTypeOK, TypeOK
<1> QED BY <1>1, <1>2, <1>3 DEF StrixJob, FindingJob, Typing, PipelineTypeOK, TypeOK

LEMMA WorkMissionsFit ==
  ASSUME Typing, QueueInv, NEW j \in Jobs, Work(j), NEW k \in Jobs
  PROVE  MissionFits(k)'
<1>1. SUFFICES ASSUME k.type = "run_strix_validation", jobState'[k] # "none"
               PROVE  PastRouting(k.finding)' /\ (k.run \in Reviews => k.finding \in linked'[k.run])
  BY DEF MissionFits
<1>2. k.finding \in Findings /\ k.run \in Runs /\ Grows /\ MissionFits(k) /\ RoutingFits(j)
  BY <1>1, JobFacts, WorkGrows DEF QueueInv
<1>3. CASE jobState[k] # "none"
  BY <1>1, <1>2, <1>3, PastRoutingStays DEF MissionFits, Grows
<1>4. CASE jobState[k] = "none"
  <2>1. RoutingEnqueue(j) /\ k.run = j.run /\ k.finding = frame[j].finding
    BY <1>1, <1>4, MissionAdders
  <2>2. PastRouting(k.finding) /\ k.finding \in linked[k.run]
    BY <1>2, <2>1 DEF RoutingEnqueue, At, RoutingFits, PastRouting
  <2> QED BY <1>2, <2>2, PastRoutingStays DEF Grows
<1> QED BY <1>3, <1>4

\* A place where routing has nothing in hand.
LEMMA ElsewhereFits ==
  ASSUME NEW j \in Jobs,
         \/ frame'[j].at \notin {"route", "write_finding", "enqueue"}
         \/ j.type # "apply_routing_policy"
  PROVE  RoutingFits(j)'
BY DEF RoutingFits

LEMMA WorkRoutingFits ==
  ASSUME Workers = 1, Typing, AloneInv, QueueInv, NEW j \in Jobs, Work(j), NEW k \in Jobs
  PROVE  RoutingFits(k)'
<1>1. k # j => RoutingFits(k)'
  BY OthersIdle, ElsewhereFits
<1>2. CASE j.type # "apply_routing_policy"
  BY <1>1, <1>2, ElsewhereFits
<1>3. CASE j.type = "apply_routing_policy"
  <2>0. /\ frame \in [Jobs -> Frames] /\ frame[j] \in Frames /\ j.run \in Runs
        /\ findingStatus \in [Findings -> FindingStatuses \cup {"absent"}]
        /\ linked \in [Runs -> SUBSET Findings]
        /\ jobState \in [Jobs -> JobStates]
        /\ RoutingFits(j) /\ FitsType(j) /\ \A i \in Jobs : MissionFits(i)
    BY JobFacts, KindsFit DEF Typing, PipelineTypeOK, TypeOK, QueueInv
  <2>1. CASE RoutingBegin(j)
    <3> DEFINE candidates == {f \in linked[j.run] : findingStatus[f] = "source_confirmed"}
    <3>1. PICK gates : frame' = [frame EXCEPT ![j].at = "route", ![j].todo = candidates, ![j].decided = gates]
      BY <2>1 DEF RoutingBegin
    <3>2. frame'[j].at = "route" /\ frame'[j].todo = candidates /\ UNCHANGED <<findingStatus, linked>>
      BY <2>0, <2>1, <3>1 DEF RoutingBegin, storeVars, Frames
    <3> QED BY <1>1, <3>2 DEF RoutingFits
  <2>2. CASE RoutingDecide(j)
    <3>1. UNCHANGED <<findingStatus, linked>> /\ frame[j].at = "route" /\ jobState[j] = "active"
      BY <2>2 DEF RoutingDecide, storeVars, At
    <3>2. PICK f \in frame[j].todo :
            \/ frame' = [frame EXCEPT ![j].todo = @ \ {f}] /\ UNCHANGED jobState
            \/ /\ CanTransitionFinding(findingStatus[f], "validation_queued")
               /\ frame' = [frame EXCEPT ![j].at = "write_finding", ![j].finding = f, ![j].todo = @ \ {f}]
               /\ UNCHANGED jobState
            \/ Throw(j)
      BY <2>2 DEF RoutingDecide
    <3>3. CASE frame' = [frame EXCEPT ![j].todo = @ \ {f}]
      <4>1. frame'[j].at = "route" /\ frame'[j].todo = frame[j].todo \ {f}
        BY <2>0, <3>1, <3>3 DEF Frames
      <4> QED BY <1>1, <1>3, <2>0, <3>1, <4>1 DEF RoutingFits
    <3>4. CASE /\ CanTransitionFinding(findingStatus[f], "validation_queued")
               /\ frame' = [frame EXCEPT ![j].at = "write_finding", ![j].finding = f, ![j].todo = @ \ {f}]
               /\ UNCHANGED jobState
      <4>1. /\ frame'[j].at = "write_finding" /\ frame'[j].todo = frame[j].todo \ {f}
            /\ frame'[j].finding = f
        BY <2>0, <3>4 DEF Frames
      <4>2. f \in linked[j.run] /\ f \in Findings /\ findingStatus[f] \in {"source_confirmed", "validation_queued"}
        BY <1>3, <2>0, <3>1 DEF RoutingFits
      <4>3. findingStatus[f] = "source_confirmed"
        BY <3>4, <4>2 DEF CanTransitionFinding, FindingEdges
      <4>4. ASSUME NEW r \in Runs PROVE jobState[StrixJob(r, f)] = "none"
        <5>1. StrixJob(r, f) \in Jobs /\ StrixJob(r, f).type = "run_strix_validation"
              /\ StrixJob(r, f).finding = f
          BY <4>2, JobFacts DEF StrixJob, FindingJob
        <5> QED BY <2>0, <4>3, <5>1 DEF MissionFits, PastRouting
      <4> QED BY <1>1, <1>3, <2>0, <3>1, <3>4, <4>1, <4>2, <4>4 DEF RoutingFits
    <3>5. CASE Throw(j)
      BY <3>5, ThrowThrows, ElsewhereFits, <1>1 DEF Thrown
    <3> QED BY <1>1, <3>2, <3>3, <3>4, <3>5
  <2>3. CASE RoutingEscalate(j)
    <3>1. /\ frame'[j].at = "enqueue" /\ frame'[j].todo = frame[j].todo /\ frame'[j].finding = frame[j].finding
          /\ frame[j].at = "write_finding" /\ frame[j].finding \in Findings /\ UNCHANGED jobState
      BY <1>3, <2>0, <2>3 DEF RoutingEscalate, Goto, At, Frames, RoutingFits
    <3>2. /\ \A f \in Findings : findingStatus'[f] = IF f = frame[j].finding THEN "validation_queued" ELSE findingStatus[f]
          /\ linked[j.run] \subseteq linked'[j.run]
      BY <2>0, <2>3 DEF RoutingEscalate
    <3> QED BY <1>1, <1>3, <2>0, <3>1, <3>2 DEF RoutingFits, Frames
  <2>4. CASE RoutingEnqueue(j)
    <3>1. frame'[j].at = "route" /\ frame'[j].todo = frame[j].todo /\ frame[j].at = "enqueue"
          /\ UNCHANGED <<findingStatus, linked>>
      BY <2>0, <2>4 DEF RoutingEnqueue, Goto, At, Frames, storeVars
    <3> QED BY <1>1, <1>3, <2>0, <3>1 DEF RoutingFits
  <2>5. CASE \/ PickUp(j) \/ Return(j) \/ RoutingCount(j) \/ RoutingAssert(j) \/ RoutingWrite(j)
             \/ FinalizeDecide(j) \/ FinalizeAssert(j) \/ FinalizeWrite(j)
             \/ FinalizeReceipt(j) \/ FinalizeAnnounce(j)
    <3>1. frame'[j].at \notin {"route", "write_finding", "enqueue"}
      BY <2>5, NextPlace DEF Thrown, MovedTo
    <3> QED BY <1>1, <3>1, ElsewhereFits
  <2> QED BY <1>1, <1>3, <2>0, <2>1, <2>2, <2>3, <2>4, <2>5, ActionsOfType DEF Finalizers
<1> QED BY <1>2, <1>3

\* No handler sends a mission for a requested validation.
LEMMA RequestsAreAlone ==
  ASSUME Typing, KindsOK, NEW j \in Jobs, Work(j), NEW r \in ValidationRuns, NEW f \in Findings,
         jobState[StrixJob(r, f)] = "none"
  PROVE  jobState'[StrixJob(r, f)] = "none"
<1> DEFINE k == StrixJob(r, f)
<1>1. k \in Jobs /\ k.type = "run_strix_validation" /\ k.run = r /\ r \notin Reviews /\ r \in Runs
  BY JobFacts, ValidationRunsAssumption, RunsAssumption DEF StrixJob, FindingJob, Reviews
<1> HIDE DEF k
<1>2. SUFFICES ASSUME jobState'[k] # "none" PROVE FALSE
  BY DEF k
<1>3. RoutingEnqueue(j) /\ j.run = r
  BY <1>1, <1>2, MissionAdders DEF k
<1> QED BY <1>1, <1>3 DEF RoutingEnqueue, At, KindsOK, KindOK

LEMMA WorkCallsFit ==
  ASSUME Typing, QueueInv, NEW j \in Jobs, Work(j), UNCHANGED validateVars, NEW f \in Findings
  PROVE  CallFits(f)'
<1>1. CallFits(f) /\ KindsOK
  BY DEF QueueInv
<1>2. PastRouting(f) => PastRouting(f)'
  BY PastRoutingStays
<1>3. \A r \in ValidationRuns : jobState[StrixJob(r, f)] = "none" => jobState'[StrixJob(r, f)] = "none"
  BY <1>1, RequestsAreAlone
<1> QED BY <1>1, <1>2, <1>3 DEF CallFits, validateVars

\* A mission that waits goes on waiting until it has recorded what it found.
LEMMA WaitsUntilRecorded ==
  ASSUME Typing, KindsOK, NEW j \in Jobs, Work(j), NEW k \in Jobs, k.type = "run_strix_validation", Waits(k)
  PROVE  \/ Waits(k)' \/ jobState'[k] = "dead"
         \/ j = k /\ StrixPersist(k)
<1>1. FitsType(j)
  BY KindsFit
<1>2. CASE j # k
  BY <1>2, OnlyOwnJob DEF Waits
<1>3. CASE j = k
  <2>1. \/ PickUp(k) \/ Return(k) \/ StrixMission(k) \/ StrixPersist(k) \/ StrixCount(k)
        \/ FinalizeDecide(k) \/ FinalizeAssert(k) \/ FinalizeWrite(k)
        \/ FinalizeReceipt(k) \/ FinalizeAnnounce(k)
    BY <1>1, <1>3, ActionsOfType
  <2>2. PickUp(k) \/ StrixMission(k) => Waits(k)' \/ jobState'[k] = "dead"
    BY <1>3, NextPlace DEF Thrown, MovedTo, Waits
  <2>3. \/ PickUp(k) \/ StrixMission(k) \/ StrixPersist(k)
    BY <2>1 DEF Return, StrixCount, FinalizeDecide, FinalizeAssert, FinalizeWrite, FinalizeReceipt,
                FinalizeAnnounce, At, Waits
  <2> QED BY <1>3, <2>2, <2>3
<1> QED BY <1>2, <1>3

\* Routing sends the mission as the next thing it does.
LEMMA SendingSends ==
  ASSUME Workers = 1, Typing, AloneInv, QueueInv, NEW j \in Jobs, Work(j),
         NEW r \in Runs, NEW f \in Findings, Sending(r, f)
  PROVE  Waits(StrixJob(r, f))'
<1> DEFINE R == RoutingJob(r)
           k == StrixJob(r, f)
<1>1. /\ R \in Jobs /\ R.type = "apply_routing_policy" /\ R.run = r
      /\ k \in Jobs /\ RoutingFits(R) /\ FitsType(R)
      /\ At(R, "enqueue") /\ frame[R].finding = f
  BY RoutingJobFacts, JobFacts, KindsFit DEF QueueInv, Sending
<1>2. k = StrixJob(R.run, frame[R].finding)
  BY <1>1
<1> HIDE DEF R
<1>3. j = R
  <2>1. jobState[j] = "active"
    <3>1. CASE PickUp(j)
      BY <1>1, <3>1, PickUpAlone, Zenon DEF At
    <3>2. CASE ~PickUp(j)
      BY <3>2, WorkKinds, Zenon
    <3> QED BY <3>1, <3>2, Zenon
  <2> QED BY <1>1, <2>1 DEF At, AloneInv, OneActive
<1>4. RoutingEnqueue(R)
  BY <1>1, <1>3, ActionsOfType
     DEF At, PickUp, Return, RoutingBegin, RoutingDecide, RoutingEscalate, RoutingCount, RoutingAssert,
         RoutingWrite, FinalizeDecide, FinalizeAssert, FinalizeWrite, FinalizeReceipt, FinalizeAnnounce
<1>5. jobState[k] \in {"none", "waiting"}
  BY <1>1, <1>2 DEF At, RoutingFits
<1> HIDE DEF k
<1>6. jobState' = IF jobState[k] = "none" THEN [jobState EXCEPT ![k] = "waiting"] ELSE jobState
  BY <1>2, <1>4 DEF RoutingEnqueue, Enqueue
<1>7. jobState'[k] = "waiting"
  BY <1>1, <1>5, <1>6 DEF Typing, PipelineTypeOK, TypeOK
<1> QED BY <1>7 DEF Waits, k

LEMMA WorkQueuedFits ==
  ASSUME Workers = 1, Typing, AloneInv, QueueInv, NEW j \in Jobs, Work(j), UNCHANGED validateVars,
         NEW f \in Findings
  PROVE  QueuedFits(f)'
<1>1. SUFFICES ASSUME findingStatus'[f] = "validation_queued" PROVE QueuedFits(f)'
  BY DEF QueuedFits
<1>2. /\ Grows /\ KindsOK /\ QueuedFits(f) /\ RoutingFits(j) /\ j.run \in Runs
      /\ \A k \in Missions(f) : k \in Jobs /\ k.type = "run_strix_validation" /\ k.finding = f
      /\ \A r \in Runs : StrixJob(r, f) \in Missions(f)
  BY WorkGrows, JobFacts DEF QueueInv, Missions, StrixJob, FindingJob
<1>3. CASE findingStatus[f] # "validation_queued"
  <2>1. RoutingEscalate(j) /\ f = frame[j].finding
    BY <1>1, <1>3, FindingSteps DEF Conclusive, Verdicts
  <2>2. j.type = "apply_routing_policy" /\ frame[j].at = "write_finding" /\ f \in linked[j.run]
    BY <1>2, <2>1 DEF RoutingEscalate, At, RoutingFits
  <2>3. j = RoutingJob(j.run)
    BY <1>2, <2>2, RoutingJobFacts
  <2>4. At(j, "enqueue")' /\ frame'[j].finding = f
    <3>1. MovedTo(j, {"enqueue"})
      BY <2>1, NextPlace
    <3>2. frame'[j].finding = frame[j].finding
      BY <2>1 DEF RoutingEscalate, Goto, Typing, PipelineTypeOK, TypeOK, Frames
    <3> QED BY <2>1, <3>1, <3>2 DEF MovedTo, At
  <2> QED BY <1>2, <2>2, <2>3, <2>4 DEF QueuedFits, Sending, Grows, At, RoutingJob
<1>4. ASSUME NEW r \in Runs, Sending(r, f) PROVE QueuedFits(f)'
  BY <1>2, <1>4, SendingSends DEF QueuedFits, Missions
<1>5. ASSUME NEW k \in Missions(f), Waits(k) PROVE QueuedFits(f)'
  <2>1. CASE Waits(k)' \/ jobState'[k] = "dead"
    BY <2>1 DEF QueuedFits, Missions
  <2>2. CASE j = k /\ StrixPersist(k)
    <3>1. frame[k].decided = "failed"
      <4>1. frame[k].decided \in Verdicts
        BY <1>2, <2>2 DEF StrixPersist, At, Typing, PlacesOK, PlaceOK, PlaceFits
      <4>2. frame[k].decided # "failed" => findingStatus'[f] = frame[k].decided
        BY <1>2, <2>2 DEF StrixPersist, Judges, Typing, PipelineTypeOK, TypeOK
      <4> QED BY <1>1, <4>1, <4>2 DEF Verdicts
    <3>2. FailedOn(f)'
      <4> DEFINE row == [finding |-> k.finding, run |-> k.run, verdict |-> frame[k].decided,
                         attempt |-> attempts[k]]
      <4>1. row \in validations' /\ row.finding = f /\ row.verdict = "failed"
        BY <1>2, <2>2, <3>1 DEF StrixPersist
      <4> HIDE DEF row
      <4> QED BY <4>1 DEF FailedOn
    <3> QED BY <3>2 DEF QueuedFits
  <2> QED BY <1>2, <1>5, <2>1, <2>2, WaitsUntilRecorded
<1>6. ASSUME NEW k \in Missions(f), jobState[k] = "dead" PROVE QueuedFits(f)'
  <2>1. k # j
    BY <1>6, WorkKinds DEF PickUp
  <2>2. jobState'[k] = "dead"
    BY <1>2, <1>6, <2>1, OnlyOwnJob
  <2> QED BY <2>2 DEF QueuedFits, Missions
<1>7. CASE FailedOn(f)
  BY <1>2, <1>7 DEF QueuedFits, FailedOn, Grows
<1>8. CASE f \in requested /\ \A r \in ValidationRuns : jobState[StrixJob(r, f)] = "none"
  <2>1. f \in requested' /\ \A r \in ValidationRuns : jobState'[StrixJob(r, f)] = "none"
    BY <1>2, <1>8, RequestsAreAlone DEF validateVars
  <2> QED BY <2>1 DEF QueuedFits
<1> QED BY <1>2, <1>3, <1>4, <1>5, <1>6, <1>7, <1>8 DEF QueuedFits

LEMMA WorkQueue ==
  ASSUME Workers = 1, Typing, AloneInv, QueueInv, NEW j \in Jobs, Work(j), UNCHANGED validateVars
  PROVE  QueueInv'
<1>1. KindsOK' /\ LinksFit'
  BY WorkKindsOK, WorkLinksFit DEF QueueInv
<1>2. \A k \in Jobs : MissionFits(k)' /\ RoutingFits(k)'
  BY WorkMissionsFit, WorkRoutingFits
<1>3. \A f \in Findings : CallFits(f)' /\ QueuedFits(f)'
  BY WorkCallsFit, WorkQueuedFits
<1> QED BY <1>1, <1>2, <1>3 DEF QueueInv

\* Missions and what is in hand depend on the jobs that test and that route, and
\* on the findings.
LEMMA MissionsUntouched ==
  ASSUME Typing, QueueInv, UNCHANGED <<linked, frame, validations, findingStatus>>,
         \A k \in Jobs : k.type \in {"run_strix_validation", "apply_routing_policy"} =>
            jobState'[k] = jobState[k]
  PROVE  /\ LinksFit'
         /\ \A k \in Jobs : MissionFits(k)' /\ RoutingFits(k)'
         /\ \A f \in Findings : validating'[f] = validating[f] => CallFits(f)'
         /\ \A f \in Findings : UNCHANGED requested => QueuedFits(f)'
<1>0. /\ linked \in [Runs -> SUBSET Findings] /\ frame \in [Jobs -> Frames]
      /\ ValidationRuns \subseteq Runs
  BY ValidationRunsAssumption, RunsAssumption DEF Typing, PipelineTypeOK, TypeOK
<1>1. LinksFit'
  BY DEF QueueInv, LinksFit, Exists
<1>2. \A r \in Runs, f \in Findings : jobState'[StrixJob(r, f)] = jobState[StrixJob(r, f)]
  BY JobFacts DEF StrixJob, FindingJob
<1>3. ASSUME NEW k \in Jobs PROVE MissionFits(k)' /\ RoutingFits(k)'
  <2>1. MissionFits(k) /\ RoutingFits(k) /\ k.run \in Runs
    BY JobFacts DEF QueueInv
  <2>2. MissionFits(k)'
    BY <2>1 DEF MissionFits, PastRouting
  <2>3. RoutingFits(k)'
    BY <1>0, <1>2, <2>1 DEF RoutingFits
  <2> QED BY <2>2, <2>3
<1>4. ASSUME NEW f \in Findings, validating'[f] = validating[f] PROVE CallFits(f)'
  BY <1>0, <1>2, <1>4 DEF QueueInv, CallFits, PastRouting
<1>5. ASSUME NEW f \in Findings, UNCHANGED requested PROVE QueuedFits(f)'
  <2>1. QueuedFits(f)
    BY DEF QueueInv
  <2>2. \A r \in Runs : Sending(r, f)' <=> Sending(r, f)
    BY RoutingJobFacts DEF Sending, At, RoutingJob
  <2>3. \A k \in Missions(f) : k \in Jobs /\ k.type = "run_strix_validation"
    BY <1>5, JobFacts DEF Missions, StrixJob, FindingJob
  <2>4. \A k \in Missions(f) : Waits(k)' = Waits(k) /\ jobState'[k] = jobState[k]
    BY <2>3 DEF Waits
  <2>5. \A k : k \in Missions(f)' <=> k \in Missions(f)
    BY DEF Missions
  <2>6. FailedOn(f)' <=> FailedOn(f)
    BY DEF FailedOn
  <2> QED BY <1>0, <1>2, <1>5, <2>1, <2>2, <2>4, <2>5, <2>6 DEF QueuedFits
<1> QED BY <1>1, <1>3, <1>4, <1>5

LEMMA ApiQueue ==
  ASSUME Typing, QueueInv, NEW r \in Runs, ApiStep(r), UNCHANGED validateVars
  PROVE  QueueInv'
<1>1. /\ UNCHANGED <<linked, frame, validations, findingStatus>>
      /\ UNCHANGED jobState \/ Enqueue(StageJob("prepare_repository", r))
      /\ runStatus \in [Runs -> RunStatuses \cup {"absent"}] /\ jobState \in [Jobs -> JobStates]
  BY DEF ApiStep, CreateReview, EnqueuePrepare, CreateInterrupted, CancelAssert, CancelWrite,
         FetchGather, FetchStore, storeVars, queueVars, Typing, PipelineTypeOK, TypeOK
<1>2. \A k \in Jobs : \/ jobState'[k] = jobState[k]
                      \/ k.type = "prepare_repository" /\ k.run = r /\ EnqueuePrepare(r)
  BY <1>1 DEF ApiStep, CreateReview, EnqueuePrepare, CreateInterrupted, CancelAssert, CancelWrite,
              FetchGather, FetchStore, queueVars, Enqueue, StageJob
<1>3. \A q \in Runs : runStatus[q] # "absent" => runStatus'[q] # "absent"
  BY <1>1 DEF ApiStep, CreateReview, EnqueuePrepare, CreateInterrupted, CancelAssert, CancelWrite,
              FetchGather, FetchStore, storeVars
<1>4. KindsOK'
  <2>1. \A q \in creating' : q \in creating \/ (q = r /\ CreateReview(r))
    BY DEF ApiStep, CreateReview, EnqueuePrepare, CreateInterrupted, CancelAssert, CancelWrite,
           FetchGather, FetchStore
  <2>2. CreateReview(r) => r \in Reviews /\ runStatus'[r] # "absent"
    BY <1>1 DEF CreateReview
  <2>3. \A q \in creating' : q \in Reviews /\ runStatus'[q] # "absent"
    BY <1>3, <2>1, <2>2 DEF QueueInv, KindsOK, Reviews
  <2>4. ASSUME NEW k \in Jobs PROVE KindOK(k)'
    <3>1. KindOK(k) /\ k.run \in Runs
      BY JobFacts DEF QueueInv, KindsOK
    <3>2. CASE jobState'[k] = jobState[k]
      BY <1>1, <1>3, <3>1, <3>2 DEF KindOK
    <3>3. CASE k.type = "prepare_repository" /\ k.run = r /\ EnqueuePrepare(r)
      <4>1. r \in Reviews /\ runStatus[r] # "absent"
        BY <3>3 DEF EnqueuePrepare, QueueInv, KindsOK
      <4> QED BY <1>1, <1>3, <3>1, <3>3, <4>1 DEF KindOK
    <3> QED BY <1>2, <3>2, <3>3
  <2> QED BY <2>3, <2>4 DEF KindsOK
<1>5. /\ LinksFit'
      /\ \A k \in Jobs : MissionFits(k)' /\ RoutingFits(k)'
      /\ \A f \in Findings : CallFits(f)' /\ QueuedFits(f)'
  BY <1>1, <1>2, MissionsUntouched DEF validateVars
<1> QED BY <1>4, <1>5 DEF QueueInv

LEMMA CallQueue ==
  ASSUME ValidateTyping, QueueInv, NEW f \in Findings, Validate(f)
  PROVE  QueueInv'
<1>0. /\ Typing /\ validating \in [Findings -> Calls]
      /\ findingStatus \in [Findings -> FindingStatuses \cup {"absent"}]
      /\ runStatus \in [Runs -> RunStatuses \cup {"absent"}]
      /\ jobState \in [Jobs -> JobStates] /\ ValidationRuns \subseteq Runs
      /\ CallFits(f) /\ KindsOK
  BY ValidationRunsAssumption, RunsAssumption
     DEF ValidateTyping, Typing, PipelineTypeOK, TypeOK, QueueInv
<1>1. \A g \in Findings \ {f} : validating'[g] = validating[g]
  BY <1>0 DEF Validate, ValidateRead, ValidateAssert, ValidateWrite, ValidateCreate, ValidateEnqueue,
              ValidateInterrupted, CallGoto, CallEnds
<1>2. \A place : CallGoto(f, place) => validating'[f].at = place
  BY <1>0 DEF CallGoto, Calls
<1>3. CallEnds(f) => validating'[f].at = "none"
  BY <1>0 DEF CallEnds, NoCall
<1>4. CASE ValidateRead(f) \/ ValidateAssert(f) \/ ValidateInterrupted(f)
  <2>1. UNCHANGED vars /\ UNCHANGED requested
    BY <1>4 DEF ValidateRead, ValidateAssert, ValidateInterrupted
  <2>2. /\ LinksFit'
        /\ \A k \in Jobs : MissionFits(k)' /\ RoutingFits(k)'
        /\ \A g \in Findings \ {f} : CallFits(g)'
        /\ \A g \in Findings : QueuedFits(g)'
    BY <1>0, <1>1, <2>1, MissionsUntouched DEF vars, storeVars, queueVars
  <2>3. KindsOK'
    BY <1>0, <2>1 DEF vars, storeVars, queueVars, apiVars, KindsOK, KindOK
  <2>4. UNCHANGED <<findingStatus, jobState>>
    BY <2>1 DEF vars, storeVars, queueVars
  <2>5. CASE ValidateRead(f)
    <3>1. Exists(f) /\ validating'[f].at = IF findingStatus[f] = "source_confirmed" THEN "assert" ELSE "create"
      BY <1>0, <2>5 DEF ValidateRead
    <3>2. findingStatus[f] = "source_confirmed" =>
             \A r \in ValidationRuns : jobState[StrixJob(r, f)] = "none"
      <4>1. \A r \in ValidationRuns : /\ StrixJob(r, f) \in Jobs
                                      /\ StrixJob(r, f).type = "run_strix_validation"
                                      /\ StrixJob(r, f).finding = f
        BY <1>0, JobFacts DEF StrixJob, FindingJob
      <4> QED BY <4>1 DEF QueueInv, MissionFits, PastRouting
    <3>3. CallFits(f)'
      BY <2>4, <3>1, <3>2 DEF CallFits, PastRouting, Exists
    <3> QED BY <2>2, <2>3, <3>3 DEF QueueInv
  <2>6. CASE ValidateAssert(f) \/ ValidateInterrupted(f)
    <3>1. \/ validating'[f].at = "write" /\ validating[f].at = "assert"
          \/ validating'[f].at = "none"
      BY <1>2, <1>3, <2>6 DEF ValidateAssert, ValidateInterrupted, CallAt
    <3>2. CallFits(f)'
      BY <1>0, <2>4, <3>1 DEF CallFits
    <3> QED BY <2>2, <2>3, <3>2 DEF QueueInv
  <2> QED BY <1>4, <2>5, <2>6
<1>5. CASE ValidateCreate(f)
  <2>1. /\ UNCHANGED <<linked, frame, validations, findingStatus, jobState, creating, requested>>
        /\ \A r \in Runs : runStatus[r] # "absent" => runStatus'[r] # "absent"
    BY <1>0, <1>5 DEF ValidateCreate, queueVars, apiVars
  <2>2. /\ LinksFit'
        /\ \A k \in Jobs : MissionFits(k)' /\ RoutingFits(k)'
        /\ \A g \in Findings \ {f} : CallFits(g)'
        /\ \A g \in Findings : QueuedFits(g)'
    BY <1>0, <1>1, <2>1, MissionsUntouched
  <2>3. KindsOK'
    BY <1>0, <2>1, JobFacts DEF KindsOK, KindOK, Reviews
  <2>4. CallFits(f)'
    <3>1. validating[f].at = "create" /\ validating'[f].at \in {"enqueue", "none"}
      BY <1>2, <1>3, <1>5 DEF ValidateCreate, CallAt
    <3> QED BY <1>0, <2>1, <3>1 DEF CallFits, PastRouting
  <2> QED BY <2>2, <2>3, <2>4 DEF QueueInv
<1>6. CASE ValidateWrite(f)
  <2>1. /\ UNCHANGED <<linked, frame, validations, jobState, creating, runStatus>>
        /\ findingStatus'[f] = "validation_queued" /\ requested' = requested \cup {f}
        /\ \A g \in Findings \ {f} : findingStatus'[g] = findingStatus[g]
        /\ validating[f].at = "write" /\ validating'[f].at = "create"
    BY <1>0, <1>2, <1>6 DEF ValidateWrite, queueVars, apiVars, CallAt
  <2>2. KindsOK'
    BY <1>0, <2>1 DEF KindsOK, KindOK
  <2>3. LinksFit'
    <3>1. \A g \in Findings : Exists(g) => Exists(g)'
      BY <2>1 DEF Exists
    <3>2. \A r \in Runs : linked[r] \subseteq Findings
      BY <1>0 DEF Typing, PipelineTypeOK, TypeOK
    <3> QED BY <2>1, <3>1, <3>2 DEF QueueInv, LinksFit
  <2>4. ASSUME NEW k \in Jobs PROVE MissionFits(k)' /\ RoutingFits(k)'
    <3>1. MissionFits(k) /\ RoutingFits(k) /\ PlaceOK(k) /\ frame[k] \in Frames
          /\ (k.type = "run_strix_validation" => k.finding \in Findings)
      BY <1>0, JobFacts DEF QueueInv, Typing, PlacesOK, PipelineTypeOK, TypeOK
    <3>2. \A g \in Findings : findingStatus'[g] \in {findingStatus[g], "validation_queued"}
      BY <2>1
    <3>3. MissionFits(k)'
      BY <2>1, <3>1, <3>2 DEF MissionFits, PastRouting
    <3>4. RoutingFits(k)'
      BY <2>1, <3>1, <3>2 DEF RoutingFits, PlaceOK, PlaceFits, Frames
    <3> QED BY <3>3, <3>4
  <2>5. ASSUME NEW g \in Findings PROVE CallFits(g)' /\ QueuedFits(g)'
    <3>1. CASE g = f
      <4>1. CallFits(g)'
        BY <2>1, <3>1 DEF CallFits, PastRouting
      <4>2. f \in requested' /\ \A r \in ValidationRuns : jobState'[StrixJob(r, f)] = "none"
        BY <1>0, <2>1 DEF CallFits
      <4> QED BY <3>1, <4>1, <4>2 DEF QueuedFits
    <3>2. CASE g # f
      <4>1. findingStatus'[g] = findingStatus[g] /\ validating'[g] = validating[g]
            /\ (g \in requested <=> g \in requested') /\ CallFits(g) /\ QueuedFits(g)
        BY <1>1, <2>1, <3>2 DEF QueueInv
      <4>2. CallFits(g)'
        BY <2>1, <4>1 DEF CallFits, PastRouting
      <4>3. QueuedFits(g)'
        BY <2>1, <4>1 DEF QueuedFits, Sending, At, RoutingJob, Missions, Waits, FailedOn
      <4> QED BY <4>2, <4>3
    <3> QED BY <3>1, <3>2
  <2> QED BY <2>2, <2>3, <2>4, <2>5 DEF QueueInv
<1>7. CASE ValidateEnqueue(f)
  <2>1. PICK r \in RunsOfKey(validating[f].commit) : Enqueue(StrixJob(r, f))
    BY <1>7 DEF ValidateEnqueue
  <2> DEFINE k == StrixJob(r, f)
  <2>2. /\ r \in ValidationRuns /\ r \in Runs /\ r \notin Reviews
        /\ k \in Jobs /\ k.type = "run_strix_validation" /\ k.run = r /\ k.finding = f
    BY <1>0, <2>1, JobFacts DEF RunsOfKey, StrixJob, FindingJob, Reviews
  <2>3. /\ UNCHANGED <<linked, frame, validations, findingStatus, creating, runStatus, requested>>
        /\ validating[f].at = "enqueue" /\ validating'[f].at = "none"
    BY <1>3, <1>7 DEF ValidateEnqueue, storeVars, apiVars, CallAt
  <2>4. jobState' = IF jobState[k] = "none" THEN [jobState EXCEPT ![k] = "waiting"] ELSE jobState
    BY <2>1 DEF Enqueue
  <2>5. CASE jobState[k] # "none"
    <3>1. UNCHANGED jobState
      BY <2>4, <2>5
    <3>2. /\ LinksFit'
          /\ \A i \in Jobs : MissionFits(i)' /\ RoutingFits(i)'
          /\ \A g \in Findings \ {f} : CallFits(g)'
          /\ \A g \in Findings : QueuedFits(g)'
      BY <1>0, <1>1, <2>3, <3>1, MissionsUntouched
    <3>3. KindsOK'
      BY <1>0, <2>3, <3>1 DEF KindsOK, KindOK
    <3>4. CallFits(f)'
      BY <2>3 DEF CallFits
    <3> QED BY <3>2, <3>3, <3>4 DEF QueueInv
  <2>6. CASE jobState[k] = "none"
    <3>1. jobState'[k] = "waiting" /\ \A i \in Jobs \ {k} : jobState'[i] = jobState[i]
      BY <1>0, <2>2, <2>4, <2>6
    <3>2. PastRouting(f)
      BY <1>0, <2>3 DEF CallFits
    <3> HIDE DEF k
    <3>3. KindsOK'
      BY <1>0, <2>2, <2>3, <3>1 DEF KindsOK, KindOK
    <3>4. LinksFit'
      BY <2>3 DEF QueueInv, LinksFit, Exists
    <3>5. ASSUME NEW i \in Jobs PROVE MissionFits(i)' /\ RoutingFits(i)'
      <4>1. MissionFits(i) /\ RoutingFits(i) /\ PlaceOK(i)
        BY <1>0 DEF QueueInv, Typing, PlacesOK
      <4>2. MissionFits(i)'
        BY <2>2, <2>3, <3>1, <3>2, <4>1 DEF MissionFits, PastRouting
      <4>3. \A q \in Runs, g \in Findings :
              jobState[StrixJob(q, g)] \in {"none", "waiting"} => jobState'[StrixJob(q, g)] \in {"none", "waiting"}
        BY <3>1, JobFacts
      <4>4. RoutingFits(i)'
        BY <2>3, <4>1, <4>3 DEF RoutingFits, PlaceOK, PlaceFits
      <4> QED BY <4>2, <4>4
    <3>6. ASSUME NEW g \in Findings PROVE CallFits(g)' /\ QueuedFits(g)'
      <4>1. CallFits(g) /\ QueuedFits(g)
        BY DEF QueueInv
      <4>2. \A i \in Missions(g) : i \in Jobs /\ i.finding = g
        BY <3>6, JobFacts DEF Missions, StrixJob, FindingJob
      <4>3. CASE g = f
        <5>1. CallFits(g)'
          BY <2>3, <4>3 DEF CallFits
        <5>2. k \in Missions(g) /\ Waits(k)'
          BY <2>2, <3>1, <4>3 DEF k, Missions, Waits
        <5> QED BY <5>1, <5>2 DEF QueuedFits, Missions
      <4>4. CASE g # f
        <5>1. \A q \in Runs : StrixJob(q, g) \in Jobs \ {k}
          BY <2>2, <3>6, <4>4, JobFacts DEF StrixJob, FindingJob
        <5>2. CallFits(g)'
          BY <1>0, <1>1, <2>3, <3>1, <4>1, <4>4, <5>1 DEF CallFits, PastRouting
        <5>3. \A i \in Missions(g) : jobState'[i] = jobState[i]
          BY <3>1, <5>1 DEF Missions
        <5>4. \A q \in Runs : Sending(q, g)' <=> Sending(q, g)
          <6>1. \A q \in Runs : RoutingJob(q) \in Jobs \ {k}
            BY <2>2, RoutingJobFacts
          <6> QED BY <2>3, <3>1, <6>1 DEF Sending, At, RoutingJob
        <5>5. /\ \A i \in Missions(g) : Waits(i)' = Waits(i)
              /\ FailedOn(g)' = FailedOn(g)
              /\ \A i : i \in Missions(g)' <=> i \in Missions(g)
          BY <2>3, <5>3 DEF Waits, FailedOn, Missions
        <5>6. QueuedFits(g)'
          BY <1>0, <2>3, <3>1, <4>1, <5>1, <5>3, <5>4, <5>5 DEF QueuedFits
        <5> QED BY <5>2, <5>6
      <4> QED BY <4>3, <4>4
    <3> QED BY <3>3, <3>4, <3>5, <3>6 DEF QueueInv
  <2> QED BY <2>5, <2>6
<1> QED BY <1>4, <1>5, <1>6, <1>7 DEF Validate

LEMMA InitQueue ==
  ASSUME ValidateInit
  PROVE  QueueInv
<1> USE DEF ValidateInit, Init, ControlPlaneInit, IdleFrame, NoCall
<1>1. KindsOK /\ LinksFit
  BY DEF KindsOK, KindOK, LinksFit, Settling, Reviews
<1>2. \A j \in Jobs : MissionFits(j) /\ RoutingFits(j)
  BY DEF MissionFits, RoutingFits
<1>3. \A f \in Findings : CallFits(f) /\ QueuedFits(f)
  BY DEF CallFits, QueuedFits
<1> QED BY <1>1, <1>2, <1>3 DEF QueueInv

\* A step that leaves the count of faults at zero is none.
LEMMA StepQueue ==
  ASSUME Workers = 1, ValidateTyping, AloneInv, interrupts = 0 => QueueInv, [ValidateNext]_lifeVars
  PROVE  interrupts' = 0 => interrupts = 0 /\ QueueInv'
<1>0. Typing /\ interrupts \in Nat
  BY BoundsAssumption DEF ValidateTyping, Typing, PipelineTypeOK, TypeOK
<1>1. ASSUME NEW j \in Jobs, Work(j), UNCHANGED validateVars, interrupts' = 0
      PROVE  interrupts = 0 /\ QueueInv'
  BY <1>0, <1>1, WorkIsNoFault, WorkQueue
<1>2. ASSUME NEW j \in Jobs, Fault(j) PROVE interrupts' # 0
  BY <1>0, <1>2 DEF Fault, Interrupt
<1>3. ASSUME NEW r \in Runs, ApiStep(r), UNCHANGED validateVars, interrupts' = 0
      PROVE  interrupts = 0 /\ QueueInv'
  <2>1. interrupts = 0
    BY <1>0, <1>3 DEF ApiStep, CreateReview, EnqueuePrepare, CreateInterrupted, CancelAssert, CancelWrite,
                      FetchGather, FetchStore, queueVars
  <2> QED BY <1>0, <1>3, <2>1, ApiQueue
<1>4. ASSUME NEW f \in Findings, Validate(f), interrupts' = 0
      PROVE  interrupts = 0 /\ QueueInv'
  <2>1. interrupts = 0
    BY <1>4 DEF Validate, ValidateRead, ValidateAssert, ValidateWrite, ValidateCreate, ValidateEnqueue,
                ValidateInterrupted, vars, queueVars
  <2> QED BY <1>4, <2>1, CallQueue
<1>5. CASE UNCHANGED lifeVars
  <2>1. /\ UNCHANGED <<linked, frame, validations, findingStatus, jobState, creating, runStatus, interrupts>>
        /\ UNCHANGED <<validating, requested>>
    BY <1>5 DEF lifeVars, vars, storeVars, queueVars, apiVars, validateVars
  <2>2. QueueInv => KindsOK'
    BY <2>1 DEF QueueInv, KindsOK, KindOK
  <2>3. QueueInv => QueueInv'
    <3> SUFFICES ASSUME QueueInv PROVE QueueInv'
      OBVIOUS
    <3>1. /\ LinksFit'
          /\ \A k \in Jobs : MissionFits(k)' /\ RoutingFits(k)'
          /\ \A f \in Findings : CallFits(f)' /\ QueuedFits(f)'
      BY <1>0, <2>1, MissionsUntouched
    <3> QED BY <2>2, <3>1 DEF QueueInv
  <2> QED BY <2>1, <2>3
<1> QED BY <1>1, <1>2, <1>3, <1>4, <1>5 DEF ValidateNext, ReviewStep, Next

\* While no job is cut short, and with one worker, a finding only stays queued
\* for validation with nothing under way when its mission is in the dead letters,
\* failed operationally, or was never sent for the request that queued it.
THEOREM QueuedFindingsHaveACause ==
  ASSUME Workers = 1
  PROVE  ValidateSpec => [](interrupts = 0 => QueuedHasACause)
<1>1. ValidateInit => (interrupts = 0 => QueueInv)
  BY InitQueue
<1>2. ValidateTyping /\ AloneInv /\ (interrupts = 0 => QueueInv) /\ [ValidateNext]_lifeVars
        => (interrupts = 0 => QueueInv)'
  BY StepQueue
<1>3. ValidateTyping /\ QueueInv => QueuedHasACause
  <2>1. SUFFICES ASSUME ValidateTyping, QueueInv, NEW f \in Findings,
                        findingStatus[f] = "validation_queued", AtRest(f)
                 PROVE  \/ \E j \in Missions(f) : jobState[j] = "dead"
                        \/ FailedOn(f)
                        \/ /\ f \in requested
                           /\ \A r \in RunsOfKey(lastSeen[f]) : jobState[StrixJob(r, f)] = "none"
    BY DEF QueuedHasACause, FailedOn
  <2>2. \A r \in Runs : ~(f \in linked[r] /\ Sending(r, f))
    BY <2>1 DEF AtRest, Sending, At, RoutingJob
  <2>3. \A k \in Missions(f) : ~Waits(k)
    BY <2>1 DEF AtRest, Waits
  <2>4. QueuedFits(f)
    BY <2>1 DEF QueueInv
  <2> QED BY <2>1, <2>2, <2>3, <2>4 DEF QueuedFits, RunsOfKey
<1> QED BY <1>1, <1>2, <1>3, ValidateTypingInvariant, JudgedInvariant, PTL DEF ValidateSpec

-----------------------------------------------------------------------------
(* What holds a review up: while no job is cut short and nobody cancels.   *)

\* What keeps a review from settling, for good.
Excused(r) ==
  \/ \E j \in JobsOf(r) : jobState[j] = "dead"
  \/ \E v \in validations : v.run = r /\ v.verdict = "failed"
  \/ linked[r] \cap requested # {}

\* A mission of the review itself is to judge the finding.
Owed(r, f) == Sending(r, f) \/ Waits(StrixJob(r, f))

HandedOver(r) ==
  runStatus[r] \in Disposed \/ StillQueued(r) # {} \/ \E f \in Findings : Carries(StrixJob(r, f))

\* Each stage that is done has queued the next.
ChainOK(r) ==
  /\ runStatus[r] # "absent" => r \in creating \/ jobState[StageJob("prepare_repository", r)] # "none"
  /\ Left(StageJob("prepare_repository", r)) => jobState[StageJob("classify_change", r)] # "none"
  /\ Left(StageJob("classify_change", r)) => jobState[StageJob("run_deepsec", r)] # "none"
  /\ Left(StageJob("run_deepsec", r)) => jobState[RoutingJob(r)] # "none"

\* Routing leaves the review to its disposition or to its missions.
RoutingHands(r) ==
  /\ frame[RoutingJob(r)].at \in {"read", "write"} => StillQueued(r) # {}
  /\ Left(RoutingJob(r)) => HandedOver(r) \/ Excused(r)

MissionsOwed(r) == \A f \in StillQueued(r) : Owed(r, f) \/ Excused(r)

ReviewInv == \A r \in Reviews : ChainOK(r) /\ RoutingHands(r) /\ MissionsOwed(r)

\* The jobs of a review's stages.
LEMMA StageJobFacts ==
  ASSUME NEW r \in Reviews, NEW type \in StageTypes
  PROVE  /\ r \in Runs /\ StageJob(type, r) \in Jobs /\ StageJob(type, r) \in JobsOf(r)
         /\ StageJob(type, r).type = type /\ StageJob(type, r).run = r
         /\ \A j \in Jobs : j.type = type /\ j.run = r => j = StageJob(type, r)
BY DEF Reviews, JobsOf, StageJob, Jobs, StageTypes, FindingTypes

LEMMA MissionFacts ==
  ASSUME NEW r \in Runs, NEW f \in Findings
  PROVE  /\ StrixJob(r, f) \in Jobs /\ StrixJob(r, f) \in JobsOf(r)
         /\ StrixJob(r, f).type = "run_strix_validation"
         /\ StrixJob(r, f).run = r /\ StrixJob(r, f).finding = f
         /\ \A j \in Jobs : j.type = "run_strix_validation" /\ j.run = r /\ j.finding = f
              => j = StrixJob(r, f)
BY DEF JobsOf, StrixJob, FindingJob, Jobs, StageTypes, FindingTypes

\* The steps with which a handler is done.
LEMMA NewlyLeft ==
  ASSUME Typing, KindsOK, NEW j \in Jobs, Work(j), NEW k \in Jobs, Left(k)', ~Left(k)
  PROVE  /\ k = j
         /\ \/ PrepareEnqueue(j) \/ ClassifyEnqueue(j) \/ DeepSecEnqueue(j)
            \/ RoutingWrite(j) /\ j.type = "apply_routing_policy"
            \/ StrixCount(j) /\ j.type = "run_strix_validation"
            \/ FinalizeDecide(j) /\ IsRunTerminal(runStatus[j.run])
            \/ FinalizeAnnounce(j) \/ ReceiptStore(j)
<1>1. k = j
  <2>1. SUFFICES ASSUME k # j PROVE FALSE
    OBVIOUS
  <2>2. frame'[k] = frame[k] /\ (jobState'[k] = jobState[k] \/ jobState[k] = "none")
    BY <2>1, OnlyOwnJob
  <2>3. jobState[k] = "none" => jobState'[k] \in {"none", "waiting"}
    BY <2>1, WorkKeeps
  <2> QED BY <2>2, <2>3 DEF Left, At
<1>2. Left(j)' /\ ~Left(j)
  BY <1>1
<1>3. ~Thrown(j)
  BY <1>2 DEF Thrown, Left, At
<1>4. \A places : MovedTo(j, places) => "return" \in places
  BY <1>2 DEF MovedTo, Left, At
<1>5. ~Return(j)
  BY <1>2 DEF Return, Left
<1>6. ~(\/ PickUp(j) \/ PrepareAssert(j) \/ PrepareWrite(j) \/ PrepareSnapshot(j)
        \/ ClassifyCreate(j) \/ ClassifyAssert(j) \/ ClassifyWrite(j)
        \/ DeepSecLookup(j) \/ DeepSecPersist(j) \/ DeepSecAssert(j) \/ DeepSecWrite(j)
        \/ RoutingBegin(j) \/ RoutingDecide(j) \/ RoutingEscalate(j) \/ RoutingEnqueue(j)
        \/ RoutingCount(j) \/ RoutingAssert(j) \/ StrixMission(j) \/ StrixPersist(j)
        \/ FinalizeAssert(j) \/ FinalizeWrite(j) \/ FinalizeReceipt(j) \/ ReceiptGather(j))
  BY <1>3, <1>4, NextPlace
<1>7. FinalizeDecide(j) => IsRunTerminal(runStatus[j.run])
  BY <1>4, NextPlace
<1>8. FitsType(j)
  BY KindsFit
<1> QED BY <1>1, <1>5, <1>6, <1>7, <1>8, ActionsOfType

\* The job at work is one of a run that exists.
LEMMA WorkerRuns ==
  ASSUME Typing, KindsOK, NEW j \in Jobs, Work(j), j.run \in Reviews
  PROVE  j.run \in Runs /\ runStatus[j.run] # "absent"
<1>1. KindOK(j) /\ jobState[j] # "none" /\ j.run \in Runs
  BY WorkKinds, JobFacts DEF KindsOK, PickUp
<1>2. j.run \notin ValidationRuns
  BY DEF Reviews
<1> QED BY <1>1, <1>2 DEF KindOK

LEMMA WorkChain ==
  ASSUME Typing, LifeInv, KindsOK, NEW j \in Jobs, Work(j), NEW r \in Reviews, ChainOK(r)
  PROVE  ChainOK(r)'
<1> DEFINE P == StageJob("prepare_repository", r)
           C == StageJob("classify_change", r)
           D == StageJob("run_deepsec", r)
           R == RoutingJob(r)
<1>1. /\ P \in Jobs /\ P.type = "prepare_repository" /\ P.run = r
      /\ C \in Jobs /\ C.type = "classify_change" /\ C.run = r
      /\ D \in Jobs /\ D.type = "run_deepsec" /\ D.run = r
      /\ R \in Jobs /\ R.type = "apply_routing_policy" /\ R.run = r
      /\ r \in Runs /\ jobState \in [Jobs -> JobStates]
  BY StageJobFacts, RoutingJobFacts DEF StageTypes, Typing, PipelineTypeOK, TypeOK
<1>2. \A k \in Jobs : jobState[k] # "none" => jobState'[k] # "none"
  BY WorkKeeps
<1>3. UNCHANGED creating
  BY DEF Work, apiVars
<1>4. runStatus'[r] # "absent" => runStatus[r] # "absent"
  <2>1. SUFFICES ASSUME runStatus'[r] # runStatus[r] PROVE runStatus[r] # "absent"
    OBVIOUS
  <2>2. FitsType(j)
    BY KindsFit
  <2>3. j.run = r
    BY <1>1, <2>1, <2>2, StatusWriters
  <2> QED BY <2>3, WorkerRuns
<1>5. /\ PrepareEnqueue(j) /\ j = P => jobState'[C] # "none"
      /\ ClassifyEnqueue(j) /\ j = C => jobState'[D] # "none"
      /\ DeepSecEnqueue(j) /\ j = D => jobState'[R] # "none"
  <2>1. PrepareEnqueue(j) /\ j = P => Enqueue(C)
    BY <1>1 DEF PrepareEnqueue
  <2>2. ClassifyEnqueue(j) /\ j = C => Enqueue(D)
    BY <1>1 DEF ClassifyEnqueue
  <2>3. DeepSecEnqueue(j) /\ j = D => Enqueue(R)
    BY <1>1 DEF DeepSecEnqueue, RoutingJob
  <2>4. \A k \in Jobs : Enqueue(k) => jobState'[k] # "none"
    BY <1>1 DEF Enqueue
  <2> HIDE DEF P, C, D, R
  <2> QED BY <1>1, <2>1, <2>2, <2>3, <2>4
<1>6. /\ Left(P)' /\ ~Left(P) => PrepareEnqueue(j) /\ j = P
      /\ Left(C)' /\ ~Left(C) => ClassifyEnqueue(j) /\ j = C
      /\ Left(D)' /\ ~Left(D) => DeepSecEnqueue(j) /\ j = D
  <2>1. ASSUME NEW k \in {P, C, D}, Left(k)', ~Left(k)
        PROVE  /\ j = k
               /\ \/ PrepareEnqueue(k) /\ k.type = "prepare_repository"
                  \/ ClassifyEnqueue(k) /\ k.type = "classify_change"
                  \/ DeepSecEnqueue(k) /\ k.type = "run_deepsec"
    <3>1. k \in Jobs /\ k.type \in {"prepare_repository", "classify_change", "run_deepsec"}
      BY <1>1
    <3> HIDE DEF P, C, D, R
    <3>2. j = k
      BY <2>1, <3>1, NewlyLeft
    <3>3. FitsType(k) /\ PlaceOK(k)
      BY <3>1, KindsFit DEF Typing, PlacesOK
    <3>4. ~FinalizeDecide(k) /\ ~FinalizeAnnounce(k) /\ ~ReceiptStore(k)
      BY <3>1, <3>3 DEF FinalizeDecide, FinalizeAnnounce, ReceiptStore, At, FitsType, Settling, Finalizers,
                        PlaceOK, PlaceFits
    <3>5. PrepareEnqueue(k) \/ ClassifyEnqueue(k) \/ DeepSecEnqueue(k)
      BY <2>1, <3>1, <3>2, <3>4, NewlyLeft
    <3> QED BY <3>2, <3>5 DEF PrepareEnqueue, ClassifyEnqueue, DeepSecEnqueue
  <2> QED BY <1>1, <2>1
<1>7. /\ (jobState[P] # "none" => jobState'[P] # "none") /\ (jobState[C] # "none" => jobState'[C] # "none")
      /\ (jobState[D] # "none" => jobState'[D] # "none") /\ (jobState[R] # "none" => jobState'[R] # "none")
  BY <1>1, <1>2
<1> QED BY <1>3, <1>4, <1>5, <1>6, <1>7 DEF ChainOK, RoutingJob, StageJob

\* What holds a review up goes on holding it up.
LEMMA ExcusedStays ==
  ASSUME Typing, NEW j \in Jobs, Work(j), requested \subseteq requested', NEW r \in Runs, Excused(r)
  PROVE  Excused(r)'
<1>1. Grows
  BY WorkGrows
<1>2. ASSUME NEW k \in JobsOf(r), jobState[k] = "dead" PROVE jobState'[k] = "dead" /\ k \in JobsOf(r)'
  <2>1. k \in Jobs /\ k # j
    BY <1>2, WorkKinds DEF JobsOf, PickUp
  <2> QED BY <1>2, <2>1, OnlyOwnJob DEF JobsOf
<1>3. \A v \in validations : v \in validations'
  BY <1>1 DEF Grows
<1>4. linked[r] \cap requested \subseteq linked'[r] \cap requested'
  BY <1>1 DEF Grows
<1> QED BY <1>2, <1>3, <1>4 DEF Excused

\* A finding that joins those of a review that are to be tested was escalated by
\* its routing.
LEMMA JoinsQueued ==
  ASSUME Typing, QueueInv, NEW j \in Jobs, Work(j), NEW r \in Reviews,
         NEW f \in StillQueued(r)', f \notin StillQueued(r)
  PROVE  f \in linked[r] /\ RoutingEscalate(j) /\ f = frame[j].finding /\ j = RoutingJob(r)
<1>1. /\ r \in Runs /\ j.run \in Runs /\ linked \in [Runs -> SUBSET Findings] /\ linked' \in [Runs -> SUBSET Findings]
      /\ LinksFit /\ MissionFits(j) /\ RoutingFits(j) /\ KindOK(j)
  BY JobFacts, StepTyping DEF Next, QueueInv, KindsOK, Typing, PipelineTypeOK, TypeOK, Reviews
<1>2. f \in linked'[r] /\ findingStatus'[f] = "validation_queued" /\ f \in Findings
  BY <1>1 DEF StillQueued
<1>3. f \in linked[r]
  <2>1. SUFFICES ASSUME f \notin linked[r] PROVE FALSE
    OBVIOUS
  <2>2. j.run = r
    BY <1>1, <1>2, <2>1, Writers DEF DeepSecPersist, RoutingEscalate, StrixPersist
  <2>3. CASE ~Exists(f) /\ Exists(f)'
    BY <1>1, <1>2, <2>3, FindingSteps DEF Exists, RoutingEscalate, At, RoutingFits, Conclusive, Verdicts
  <2>4. CASE RoutingEscalate(j) /\ f = frame[j].finding
    BY <1>1, <2>1, <2>2, <2>4 DEF RoutingEscalate, At, RoutingFits
  <2>5. CASE StrixPersist(j) /\ f = j.finding
    BY <1>1, <2>1, <2>2, <2>5 DEF StrixPersist, At, MissionFits
  <2> QED BY <1>2, <2>1, <2>2, <2>3, <2>4, <2>5, PastRoutingStays
<1>4. findingStatus[f] # "validation_queued"
  BY <1>3 DEF StillQueued
<1>5. RoutingEscalate(j) /\ f = frame[j].finding
  BY <1>2, <1>4, FindingSteps DEF Conclusive, Verdicts
<1>6. f \in linked[j.run] /\ j.type = "apply_routing_policy" /\ jobState[j] # "none"
  BY <1>1, <1>5 DEF RoutingEscalate, At, RoutingFits
<1>7. j.run \in Reviews
  BY <1>1, <1>6 DEF KindOK
<1>8. j.run = r
  BY <1>1, <1>3, <1>6, <1>7 DEF LinksFit
<1> QED BY <1>1, <1>3, <1>5, <1>6, <1>8, RoutingJobFacts

LEMMA WorkOwed ==
  ASSUME Workers = 1, Typing, AloneInv, QueueInv, NEW j \in Jobs, Work(j), UNCHANGED validateVars,
         NEW r \in Reviews, MissionsOwed(r)
  PROVE  MissionsOwed(r)'
<1>1. SUFFICES ASSUME NEW f \in StillQueued(r)' PROVE Owed(r, f)' \/ Excused(r)'
  BY DEF MissionsOwed
<1>2. /\ r \in Runs /\ f \in Findings /\ KindsOK /\ Grows
      /\ findingStatus'[f] = "validation_queued" /\ requested \subseteq requested'
      /\ findingStatus \in [Findings -> FindingStatuses \cup {"absent"}]
  BY WorkGrows, StepTyping DEF Next, StillQueued, Reviews, QueueInv, validateVars, Typing, PipelineTypeOK, TypeOK
<1>3. CASE f \notin StillQueued(r)
  <2>1. RoutingEscalate(j) /\ f = frame[j].finding /\ j = RoutingJob(r)
    BY <1>3, JoinsQueued
  <2>2. MovedTo(j, {"enqueue"})
    BY <2>1, NextPlace
  <2>3. frame'[j].finding = frame[j].finding
    BY <2>1 DEF RoutingEscalate, Goto, Typing, PipelineTypeOK, TypeOK, Frames
  <2> QED BY <2>1, <2>2, <2>3 DEF MovedTo, Owed, Sending, At, RoutingJob
<1>4. CASE Excused(r)
  BY <1>2, <1>4, ExcusedStays
<1>5. CASE Sending(r, f)
  BY <1>2, <1>5, SendingSends DEF Owed
<1>6. CASE Waits(StrixJob(r, f))
  <2> DEFINE k == StrixJob(r, f)
  <2>1. k \in Jobs /\ k \in JobsOf(r) /\ k.type = "run_strix_validation" /\ k.run = r /\ k.finding = f
    BY <1>2, MissionFacts
  <2>2. CASE Waits(k)'
    BY <2>2 DEF Owed, StrixJob, FindingJob
  <2>3. CASE jobState'[k] = "dead"
    BY <2>1, <2>3 DEF Excused, JobsOf
  <2>4. CASE j = k /\ StrixPersist(k)
    <3> HIDE DEF k
    <3>1. frame[k].decided = "failed"
      <4>1. frame[k].decided \in Verdicts
        BY <2>1, <2>4 DEF StrixPersist, At, Typing, PlacesOK, PlaceOK, PlaceFits
      <4>2. frame[k].decided # "failed" => findingStatus'[f] = frame[k].decided
        BY <1>2, <2>1, <2>4 DEF StrixPersist, Judges
      <4> QED BY <1>2, <4>1, <4>2 DEF Verdicts
    <3> DEFINE row == [finding |-> k.finding, run |-> k.run, verdict |-> frame[k].decided,
                       attempt |-> attempts[k]]
    <3>2. row \in validations' /\ row.run = r /\ row.verdict = "failed"
      BY <2>1, <2>4, <3>1 DEF StrixPersist
    <3> HIDE DEF row
    <3> QED BY <3>2 DEF Excused
  <2> QED BY <1>2, <1>6, <2>1, <2>2, <2>3, <2>4, WaitsUntilRecorded
<1>7. f \in StillQueued(r) => Owed(r, f) \/ Excused(r)
  BY DEF MissionsOwed
<1> QED BY <1>3, <1>4, <1>5, <1>6, <1>7 DEF Owed

\* A disposition is not given up.
LEMMA DisposedStays ==
  ASSUME Typing, LifeInv, KindsOK, NEW j \in Jobs, Work(j), NEW r \in Runs, runStatus[r] \in Disposed
  PROVE  runStatus'[r] \in Disposed
<1>1. SUFFICES ASSUME runStatus'[r] # runStatus[r] PROVE runStatus'[r] \in Disposed
  OBVIOUS
<1>2. FitsType(j) /\ PlaceOK(j) /\ runStatus \in [Runs -> RunStatuses \cup {"absent"}]
  BY KindsFit DEF Typing, PlacesOK, PipelineTypeOK, TypeOK
<1>3. CASE CanTransitionRun(runStatus[r], StageTarget(j))
  BY <1>3 DEF Disposed, Dispositions, StageTarget, CanTransitionRun, RunEdges, InProgress
<1>4. CASE FinalizeWrite(j) /\ j.run = r
  BY <1>2, <1>4 DEF FinalizeWrite, WriteRunStatus, At, PlaceOK, PlaceFits, Disposed
<1> QED BY <1>1, <1>2, <1>3, <1>4, StatusWriters

\* A handler that finds its run settled, or has announced it, has it in Disposed.
LEMMA FoundSettled ==
  ASSUME Typing, LifeInv, KindsOK, NEW j \in Jobs, Work(j), j.run \in Reviews,
         (FinalizeDecide(j) /\ IsRunTerminal(runStatus[j.run])) \/ FinalizeAnnounce(j)
  PROVE  runStatus'[j.run] \in Disposed
<1>1. j.run \in Runs /\ runStatus[j.run] # "absent" /\ runStatus[j.run] \in RunStatuses
  BY WorkerRuns DEF Typing, PipelineTypeOK, TypeOK
<1>2. UNCHANGED runStatus
  BY DEF FinalizeDecide, FinalizeAnnounce, storeVars
<1>3. CASE IsRunTerminal(runStatus[j.run])
  BY <1>1, <1>2, <1>3, TerminalStatuses DEF Disposed, Dispositions
<1>4. CASE FinalizeAnnounce(j)
  BY <1>2, <1>4 DEF FinalizeAnnounce, At, LifeInv, Asserted, Typing, PlacesOK, PlaceOK, PlaceFits, Disposed
<1> QED BY <1>3, <1>4

\* A mission of a review goes on until the review is settled, another is left, or
\* it is given up.
LEMMA MissionHandsOver ==
  ASSUME Typing, LifeInv, QueueInv, NEW j \in Jobs, Work(j), j.type = "run_strix_validation", Carries(j),
         j.run \in Reviews
  PROVE  Carries(j)' \/ HandedOver(j.run)'
<1>1. \/ PickUp(j) \/ Return(j) \/ StrixMission(j) \/ StrixPersist(j) \/ StrixCount(j)
      \/ FinalizeDecide(j) \/ FinalizeAssert(j) \/ FinalizeWrite(j)
      \/ FinalizeReceipt(j) \/ FinalizeAnnounce(j)
  BY KindsFit, ActionsOfType DEF QueueInv
<1>2. ~Return(j)
  BY DEF Return, At, Carries
<1>3. CASE \/ PickUp(j) \/ StrixMission(j) \/ StrixPersist(j) \/ FinalizeAssert(j) \/ FinalizeWrite(j)
           \/ FinalizeReceipt(j)
  BY <1>3, NextPlace DEF Thrown, MovedTo, Carries
<1>4. CASE StrixCount(j)
  <2>1. CASE StillQueued(j.run) = {}
    BY <1>4, <2>1, NextPlace DEF MovedTo, Carries
  <2>2. CASE StillQueued(j.run) # {}
    <3>1. StillQueued(j.run)' = StillQueued(j.run)
      BY <1>4 DEF StrixCount, storeVars, StillQueued
    <3> QED BY <2>2, <3>1 DEF HandedOver
  <2> QED BY <2>1, <2>2
<1>5. CASE FinalizeDecide(j)
  <2>1. CASE ~IsRunTerminal(runStatus[j.run])
    BY <1>5, <2>1, NextPlace DEF MovedTo, Carries
  <2>2. CASE IsRunTerminal(runStatus[j.run])
    BY <1>5, <2>2, FoundSettled DEF QueueInv, HandedOver
  <2> QED BY <2>1, <2>2
<1>6. CASE FinalizeAnnounce(j)
  BY <1>6, FoundSettled DEF QueueInv, HandedOver
<1> QED BY <1>1, <1>2, <1>3, <1>4, <1>5, <1>6

LEMMA HandedOverStays ==
  ASSUME Workers = 1, Typing, AloneInv, LifeInv, QueueInv, NEW j \in Jobs, Work(j), UNCHANGED validateVars,
         NEW r \in Reviews, MissionsOwed(r), HandedOver(r)
  PROVE  HandedOver(r)' \/ Excused(r)'
<1>1. /\ r \in Runs /\ Grows /\ KindsOK /\ LinksFit /\ MissionFits(j) /\ KindOK(j) /\ requested \subseteq requested'
      /\ linked \in [Runs -> SUBSET Findings]
  BY WorkGrows DEF Reviews, QueueInv, KindsOK, validateVars, Typing, PipelineTypeOK, TypeOK
<1>2. CASE runStatus[r] \in Disposed
  BY <1>1, <1>2, DisposedStays DEF HandedOver
<1>3. ASSUME NEW f \in Findings, Carries(StrixJob(r, f))
      PROVE  HandedOver(r)' \/ Excused(r)'
  <2> DEFINE k == StrixJob(r, f)
  <2>1. k \in Jobs /\ k.type = "run_strix_validation" /\ k.run = r
    BY <1>1, MissionFacts
  <2>2. Carries(k)' => HandedOver(r)'
    BY DEF HandedOver, StrixJob, FindingJob
  <2>3. Carries(k)
    BY <1>3
  <2> HIDE DEF k
  <2>4. CASE k = j
    BY <2>1, <2>2, <2>3, <2>4, MissionHandsOver
  <2>5. CASE k # j
    <3>1. frame'[k] = frame[k] /\ jobState'[k] = jobState[k]
      BY <2>1, <2>3, <2>5, OnlyOwnJob DEF Carries
    <3>2. Carries(k)'
      BY <2>3, <3>1 DEF Carries
    <3> QED BY <2>2, <3>2
  <2> QED BY <2>4, <2>5
<1>4. ASSUME NEW f \in StillQueued(r)
      PROVE  HandedOver(r)' \/ Excused(r)'
  <2>1. f \in Findings /\ f \in linked[r] /\ f \in linked'[r] /\ findingStatus[f] = "validation_queued"
    BY <1>1, <1>4 DEF Grows, StillQueued
  <2>2. CASE findingStatus'[f] = "validation_queued"
    BY <2>1, <2>2 DEF StillQueued, HandedOver
  <2>3. CASE Excused(r)
    BY <1>1, <2>3, ExcusedStays
  <2>4. CASE findingStatus'[f] # "validation_queued" /\ Owed(r, f)
    <3>1. StrixPersist(j) /\ f = j.finding /\ j.type = "run_strix_validation" /\ jobState[j] = "active"
      BY <2>1, <2>4, FindingSteps DEF StrixPersist, At
    <3>2. Waits(StrixJob(r, f))
      <4>1. RoutingJob(r) \in Jobs /\ RoutingJob(r).type = "apply_routing_policy"
        BY <1>1, RoutingJobFacts
      <4> QED BY <2>4, <3>1, <4>1 DEF Owed, Sending, At, AloneInv, OneActive
    <3>3. Carries(StrixJob(r, f))
      BY <3>2 DEF Waits, Carries
    <3> QED BY <1>3, <2>1, <3>3
  <2> QED BY <1>4, <2>2, <2>3, <2>4 DEF MissionsOwed
<1> QED BY <1>2, <1>3, <1>4 DEF HandedOver

LEMMA WorkRoutingHands ==
  ASSUME Workers = 1, Typing, AloneInv, LifeInv, QueueInv, NEW j \in Jobs, Work(j), UNCHANGED validateVars,
         NEW r \in Reviews, MissionsOwed(r), RoutingHands(r)
  PROVE  RoutingHands(r)'
<1> DEFINE R == RoutingJob(r)
<1>1. /\ R \in Jobs /\ R.type = "apply_routing_policy" /\ R.run = r /\ r \in Runs
      /\ KindsOK /\ requested \subseteq requested'
      /\ frame[R].at \in {"read", "write"} => StillQueued(r) # {}
      /\ Left(R) => HandedOver(r) \/ Excused(r)
  BY RoutingJobFacts DEF Reviews, QueueInv, validateVars, RoutingHands
<1>2. R' = R
  BY DEF RoutingJob, StageJob
<1> HIDE DEF R
<1>3. SUFFICES /\ frame'[R].at \in {"read", "write"} => StillQueued(r)' # {}
               /\ Left(R)' => HandedOver(r)' \/ Excused(r)'
  BY <1>2 DEF RoutingHands, R
<1>4. ASSUME frame'[R].at \in {"read", "write"} PROVE StillQueued(r)' # {}
  <2>1. j = R
    BY <1>1, <1>4, OthersIdle
  <2>2. \/ PickUp(j) \/ Return(j)
        \/ RoutingBegin(j) \/ RoutingDecide(j) \/ RoutingEscalate(j) \/ RoutingEnqueue(j)
        \/ RoutingCount(j) \/ RoutingAssert(j) \/ RoutingWrite(j)
        \/ FinalizeDecide(j) \/ FinalizeAssert(j) \/ FinalizeWrite(j)
        \/ FinalizeReceipt(j) \/ FinalizeAnnounce(j)
    BY <1>1, <2>1, KindsFit, ActionsOfType
  <2>3. RoutingCount(j) \/ RoutingAssert(j)
    BY <1>4, <2>1, <2>2, NextPlace DEF Thrown, MovedTo
  <2>4. UNCHANGED <<findingStatus, linked>>
    BY <2>3 DEF RoutingCount, RoutingAssert, AssertRunTransition, storeVars
  <2>5. RoutingCount(j) => StillQueued(r) # {}
    BY <1>1, <1>4, <2>1, NextPlace DEF MovedTo
  <2>6. RoutingAssert(j) => StillQueued(r) # {}
    BY <1>1, <2>1 DEF RoutingAssert, At
  <2> QED BY <2>3, <2>4, <2>5, <2>6 DEF StillQueued
<1>5. ASSUME Left(R)' PROVE HandedOver(r)' \/ Excused(r)'
  <2>1. CASE Left(R)
    BY <1>1, <2>1, HandedOverStays, ExcusedStays
  <2>2. CASE ~Left(R)
    <3>1. /\ j = R
          /\ \/ PrepareEnqueue(j) \/ ClassifyEnqueue(j) \/ DeepSecEnqueue(j)
             \/ RoutingWrite(j)
             \/ StrixCount(j) /\ j.type = "run_strix_validation"
             \/ FinalizeDecide(j) /\ IsRunTerminal(runStatus[j.run])
             \/ FinalizeAnnounce(j) \/ ReceiptStore(j)
      BY <1>1, <1>5, <2>2, NewlyLeft
    <3>2. ~PrepareEnqueue(j) /\ ~ClassifyEnqueue(j) /\ ~DeepSecEnqueue(j) /\ ~ReceiptStore(j)
      BY <1>1, <3>1 DEF PrepareEnqueue, ClassifyEnqueue, DeepSecEnqueue, ReceiptStore, At,
                        Typing, PlacesOK, PlaceOK, PlaceFits
    <3>3. CASE RoutingWrite(j)
      <4>1. StillQueued(r) # {}
        BY <1>1, <3>1, <3>3 DEF RoutingWrite, At
      <4>2. UNCHANGED <<findingStatus, linked>>
        BY <3>3 DEF RoutingWrite, WriteRunStatus
      <4> QED BY <4>1, <4>2 DEF StillQueued, HandedOver
    <3>4. CASE \/ FinalizeDecide(j) /\ IsRunTerminal(runStatus[j.run])
               \/ FinalizeAnnounce(j)
      BY <1>1, <3>1, <3>4, FoundSettled DEF HandedOver
    <3> QED BY <1>1, <3>1, <3>2, <3>3, <3>4
  <2> QED BY <2>1, <2>2
<1> QED BY <1>4, <1>5

LEMMA WorkReviews ==
  ASSUME Workers = 1, Typing, AloneInv, LifeInv, QueueInv, ReviewInv, NEW j \in Jobs, Work(j), UNCHANGED validateVars
  PROVE  ReviewInv'
<1>1. Reviews' = Reviews /\ KindsOK
  BY DEF Reviews, QueueInv
<1>2. ASSUME NEW r \in Reviews
      PROVE  ChainOK(r)' /\ RoutingHands(r)' /\ MissionsOwed(r)'
  BY <1>1, WorkChain, WorkRoutingHands, WorkOwed DEF ReviewInv
<1> QED BY <1>1, <1>2 DEF ReviewInv

\* A step that is no handler's: it takes nothing from a review, and where it moves
\* a finding of the review it is a request for that finding.
LEMMA OutsideReview ==
  ASSUME Typing, NEW r \in Reviews, ChainOK(r), RoutingHands(r), MissionsOwed(r),
         UNCHANGED <<frame, validations, linked>>, requested \subseteq requested',
         StillQueued(r) \subseteq StillQueued(r)', StillQueued(r)' \subseteq StillQueued(r) \/ Excused(r)',
         runStatus[r] \in Disposed => runStatus'[r] = runStatus[r],
         runStatus'[r] # "absent" =>
           r \in creating' \/ jobState'[StageJob("prepare_repository", r)] # "none",
         \A k \in JobsOf(r) :
           \/ jobState'[k] = jobState[k]
           \/ k.type = "prepare_repository" /\ jobState[k] = "none" /\ jobState'[k] = "waiting"
  PROVE  ChainOK(r)' /\ RoutingHands(r)' /\ MissionsOwed(r)'
<1> DEFINE P == StageJob("prepare_repository", r)
           C == StageJob("classify_change", r)
           D == StageJob("run_deepsec", r)
           R == StageJob("apply_routing_policy", r)
<1>1. /\ {P, C, D, R} \subseteq JobsOf(r) /\ r \in Runs
      /\ C.type # "prepare_repository" /\ D.type # "prepare_repository" /\ R.type # "prepare_repository"
  BY StageJobFacts DEF StageTypes
<1>2. \A f \in Findings : StrixJob(r, f) \in JobsOf(r) /\ StrixJob(r, f).type # "prepare_repository"
  BY <1>1, MissionFacts
<1>3. \A k \in JobsOf(r) : /\ Left(k)' => Left(k)
                           /\ jobState[k] = "dead" => jobState'[k] = "dead"
                           /\ jobState[k] # "none" => jobState'[k] # "none"
  BY DEF Left, At
<1>4. Excused(r) => Excused(r)'
  BY <1>3 DEF Excused, JobsOf
<1>5. /\ jobState'[R] = jobState[R]
      /\ \A f \in Findings : jobState'[StrixJob(r, f)] = jobState[StrixJob(r, f)]
  BY <1>1, <1>2
<1>6. \A f \in Findings : /\ Owed(r, f) => Owed(r, f)'
                          /\ Carries(StrixJob(r, f)) => Carries(StrixJob(r, f))'
  BY <1>5 DEF Owed, Sending, Waits, Carries, At, RoutingJob, StageJob, StrixJob, FindingJob
<1>7. ChainOK(r)'
  <2>1. /\ Left(P)' => jobState'[C] # "none"
        /\ Left(C)' => jobState'[D] # "none"
        /\ Left(D)' => jobState'[R] # "none"
    <3>1. {P, C, D, R} \subseteq JobsOf(r)
      BY <1>1
    <3>2. /\ Left(P) => jobState[C] # "none"
          /\ Left(C) => jobState[D] # "none"
          /\ Left(D) => jobState[R] # "none"
      BY DEF ChainOK, RoutingJob
    <3> HIDE DEF P, C, D, R
    <3> QED BY <1>3, <3>1, <3>2
  <2> QED BY <2>1 DEF ChainOK, RoutingJob, StageJob
<1>8. HandedOver(r) => HandedOver(r)'
  BY <1>6 DEF HandedOver
<1>9. RoutingHands(r)'
  <2>1. frame[R].at \in {"read", "write"} => StillQueued(r)' # {}
    BY DEF RoutingHands, RoutingJob
  <2>2. Left(R)' => HandedOver(r)' \/ Excused(r)'
    <3>1. R \in JobsOf(r)
      BY <1>1
    <3>2. Left(R) => HandedOver(r) \/ Excused(r)
      BY DEF RoutingHands, RoutingJob
    <3> HIDE DEF R
    <3> QED BY <1>3, <1>4, <1>8, <3>1, <3>2
  <2> QED BY <2>1, <2>2 DEF RoutingHands, RoutingJob, StageJob
<1>10. MissionsOwed(r)'
  <2>1. \A f \in StillQueued(r) : f \in Findings
    BY <1>1 DEF StillQueued, Typing, PipelineTypeOK, TypeOK
  <2> QED BY <1>4, <1>6, <2>1 DEF MissionsOwed
<1> QED BY <1>7, <1>9, <1>10

LEMMA ApiReviews ==
  ASSUME Cancellable = {}, Typing, AloneInv, LifeInv, QueueInv, ReviewInv, NEW q \in Runs, ApiStep(q),
         UNCHANGED validateVars, interrupts' = interrupts
  PROVE  ReviewInv'
<1>1. \/ CreateReview(q) \/ EnqueuePrepare(q) \/ FetchGather(q) \/ FetchStore(q)
  <2>1. CreateInterrupted(q) => interrupts' # interrupts
    BY BoundsAssumption DEF CreateInterrupted, Typing, PipelineTypeOK, TypeOK
  <2> QED BY <2>1, ApiLife
<1>2. /\ UNCHANGED <<frame, validations, linked, findingStatus, requested>>
      /\ runStatus \in [Runs -> RunStatuses \cup {"absent"}] /\ jobState \in [Jobs -> JobStates]
      /\ StageJob("prepare_repository", q) \in Jobs
  BY <1>1, JobFacts DEF CreateReview, EnqueuePrepare, FetchGather, FetchStore, storeVars, queueVars, validateVars,
                        Typing, PipelineTypeOK, TypeOK, StageTypes
<1>3. ASSUME NEW r \in Reviews
      PROVE  ChainOK(r)' /\ RoutingHands(r)' /\ MissionsOwed(r)'
  <2>1. r \in Runs /\ ChainOK(r) /\ RoutingHands(r) /\ MissionsOwed(r)
    BY DEF Reviews, ReviewInv
  <2>2. StillQueued(r)' = StillQueued(r)
    BY <1>2 DEF StillQueued
  <2>3. runStatus[r] \in Disposed => runStatus'[r] = runStatus[r]
    BY <1>1, <1>2, <2>1 DEF CreateReview, EnqueuePrepare, FetchGather, FetchStore, storeVars, Disposed, Dispositions
  <2>4. \A k \in JobsOf(r) :
          \/ jobState'[k] = jobState[k]
          \/ k.type = "prepare_repository" /\ jobState[k] = "none" /\ jobState'[k] = "waiting"
    <3>1. CASE EnqueuePrepare(q)
      BY <1>2, <3>1 DEF EnqueuePrepare, Enqueue, StageJob, JobsOf
    <3>2. CASE CreateReview(q) \/ FetchGather(q) \/ FetchStore(q)
      BY <3>2 DEF CreateReview, FetchGather, FetchStore, queueVars
    <3> QED BY <1>1, <3>1, <3>2
  <2>5. runStatus'[r] # "absent" =>
          r \in creating' \/ jobState'[StageJob("prepare_repository", r)] # "none"
    <3> DEFINE P == StageJob("prepare_repository", r)
    <3>1. /\ runStatus[r] # "absent" => r \in creating \/ jobState[P] # "none"
          /\ P \in Jobs
      BY <2>1, StageJobFacts DEF ChainOK, StageTypes
    <3>2. CASE EnqueuePrepare(q)
      <4>1. /\ UNCHANGED runStatus /\ creating' = creating \ {q}
            /\ Enqueue(StageJob("prepare_repository", q))
        BY <3>2 DEF EnqueuePrepare, storeVars
      <4>2. CASE r = q
        <5>1. Enqueue(P)
          BY <4>1, <4>2
        <5> HIDE DEF P
        <5>2. jobState'[P] # "none"
          BY <1>2, <3>1, <5>1 DEF Enqueue
        <5> QED BY <5>2 DEF P
      <4>3. CASE r # q
        <5>1. jobState[P] # "none" => jobState'[P] # "none"
          BY <1>2, <3>1, <4>1 DEF Enqueue
        <5> QED BY <3>1, <4>1, <4>3, <5>1
      <4> QED BY <4>2, <4>3
    <3>3. CASE CreateReview(q)
      BY <1>2, <2>1, <3>1, <3>3 DEF CreateReview, queueVars
    <3>4. CASE FetchGather(q) \/ FetchStore(q)
      BY <3>1, <3>4 DEF FetchGather, FetchStore, storeVars, queueVars
    <3> QED BY <1>1, <3>2, <3>3, <3>4
  <2> QED BY <1>2, <2>1, <2>2, <2>3, <2>4, <2>5, OutsideReview
<1> QED BY <1>3 DEF ReviewInv, Reviews

LEMMA CallReviews ==
  ASSUME ValidateTyping, ReviewInv, NEW f \in Findings, Validate(f)
  PROVE  ReviewInv'
<1>0. /\ Typing /\ ValidationRuns \subseteq Runs /\ \A r \in Reviews : r \in Runs /\ r \notin ValidationRuns
      /\ findingStatus \in [Findings -> FindingStatuses \cup {"absent"}]
      /\ linked \in [Runs -> SUBSET Findings]
      /\ runStatus \in [Runs -> RunStatuses \cup {"absent"}] /\ jobState \in [Jobs -> JobStates]
  BY ValidationRunsAssumption, RunsAssumption
     DEF ValidateTyping, Typing, PipelineTypeOK, TypeOK, Reviews
<1>1. /\ UNCHANGED <<frame, validations, linked, creating>> /\ requested \subseteq requested'
      /\ \A r \in Reviews : runStatus'[r] = runStatus[r]
  <2>1. CASE ValidateCreate(f)
    BY <1>0, <2>1 DEF ValidateCreate, RunsOfKey, queueVars, apiVars
  <2>2. CASE \/ ValidateRead(f) \/ ValidateAssert(f) \/ ValidateWrite(f)
             \/ ValidateEnqueue(f) \/ ValidateInterrupted(f)
    BY <2>2 DEF ValidateRead, ValidateAssert, ValidateWrite, ValidateEnqueue, ValidateInterrupted,
                vars, storeVars, queueVars, apiVars
  <2> QED BY <2>1, <2>2 DEF Validate
<1>2. ASSUME NEW k \in Jobs, k.run \in Reviews PROVE jobState'[k] = jobState[k]
  <2>1. CASE ValidateEnqueue(f)
    <3>1. PICK v \in RunsOfKey(validating[f].commit) : Enqueue(StrixJob(v, f))
      BY <2>1 DEF ValidateEnqueue
    <3>2. k # StrixJob(v, f)
      BY <1>0, <1>2 DEF RunsOfKey, StrixJob, FindingJob
    <3> QED BY <1>0, <3>1, <3>2 DEF Enqueue
  <2>2. CASE \/ ValidateRead(f) \/ ValidateAssert(f) \/ ValidateWrite(f)
             \/ ValidateCreate(f) \/ ValidateInterrupted(f)
    BY <2>2 DEF ValidateRead, ValidateAssert, ValidateWrite, ValidateCreate, ValidateInterrupted,
                vars, queueVars
  <2> QED BY <2>1, <2>2 DEF Validate
<1>3. ASSUME NEW r \in Reviews
      PROVE  ChainOK(r)' /\ RoutingHands(r)' /\ MissionsOwed(r)'
  <2>1. /\ r \in Runs /\ ChainOK(r) /\ RoutingHands(r) /\ MissionsOwed(r) /\ linked[r] \subseteq Findings
        /\ StageJob("prepare_repository", r) \in JobsOf(r)
    BY <1>0, StageJobFacts DEF ReviewInv, StageTypes
  <2>2. \A k \in JobsOf(r) : jobState'[k] = jobState[k]
    BY <1>2 DEF JobsOf
  <2>3. /\ StillQueued(r) \subseteq StillQueued(r)'
        /\ StillQueued(r)' \subseteq StillQueued(r) \/ Excused(r)'
    <3>1. CASE ValidateWrite(f)
      <4>1. /\ \A g \in Findings : findingStatus'[g] = IF g = f THEN "validation_queued" ELSE findingStatus[g]
            /\ f \in requested'
        BY <1>0, <3>1 DEF ValidateWrite
      <4>2. f \in linked[r] => Excused(r)'
        BY <1>1, <4>1 DEF Excused
      <4>3. f \notin linked[r] => StillQueued(r)' \subseteq StillQueued(r)
        BY <1>1, <2>1, <4>1 DEF StillQueued
      <4> QED BY <1>1, <2>1, <4>1, <4>2, <4>3 DEF StillQueued
    <3>2. CASE UNCHANGED findingStatus
      BY <1>1, <3>2 DEF StillQueued
    <3> QED
      BY <3>1, <3>2 DEF Validate, ValidateRead, ValidateAssert, ValidateCreate, ValidateEnqueue, ValidateInterrupted,
                        vars, storeVars
  <2>4. runStatus'[r] # "absent" =>
          r \in creating' \/ jobState'[StageJob("prepare_repository", r)] # "none"
    BY <1>1, <2>1, <2>2 DEF ChainOK
  <2> QED BY <1>0, <1>1, <2>1, <2>2, <2>3, <2>4, OutsideReview
<1> QED BY <1>3 DEF ReviewInv, Reviews

\* A call leaves the life of the runs alone: the run it makes is new.
LEMMA CallLife ==
  ASSUME ValidateTyping, AloneInv, LifeInv, NEW f \in Findings, Validate(f)
  PROVE  LifeInv'
<1>0. /\ Typing /\ ValidationRuns \subseteq Runs /\ jobState \in [Jobs -> JobStates]
      /\ \A q \in Runs : StageJob("generate_receipt", q) \in Jobs
  BY ValidationRunsAssumption, RunsAssumption, JobFacts
     DEF ValidateTyping, Typing, PipelineTypeOK, TypeOK, StageTypes
<1>1. CASE ValidateCreate(f)
  <2>1. PICK r \in RunsOfKey(validating[f].commit) :
          \/ runStatus[r] = "absent" /\ runStatus' = [runStatus EXCEPT ![r] = "queued"]
          \/ UNCHANGED runStatus
    BY <1>1 DEF ValidateCreate
  <2>2. r \in Runs /\ UNCHANGED <<jobState, frame, cancelling>>
    BY <1>0, <1>1 DEF ValidateCreate, RunsOfKey, queueVars, apiVars
  <2>3. CASE runStatus[r] = "absent" /\ runStatus' = [runStatus EXCEPT ![r] = "queued"]
    BY <1>0, <2>2, <2>3, NewRunLife
  <2>4. CASE UNCHANGED runStatus
    BY <2>2, <2>4, LifeUntouched
  <2> QED BY <2>1, <2>3, <2>4
<1>2. CASE ValidateEnqueue(f)
  <2>1. PICK r \in RunsOfKey(validating[f].commit) : Enqueue(StrixJob(r, f))
    BY <1>2 DEF ValidateEnqueue
  <2>2. \A q \in Runs : jobState'[StageJob("generate_receipt", q)] = jobState[StageJob("generate_receipt", q)]
    BY <1>0, <2>1 DEF Enqueue, StageJob, StrixJob, FindingJob
  <2>3. UNCHANGED <<runStatus, frame, cancelling>>
    BY <1>2 DEF ValidateEnqueue, storeVars, apiVars
  <2> QED BY <2>2, <2>3, LifeUntouched
<1>3. CASE ValidateRead(f) \/ ValidateAssert(f) \/ ValidateWrite(f) \/ ValidateInterrupted(f)
  <2>1. UNCHANGED <<runStatus, frame, cancelling, jobState>>
    BY <1>3 DEF ValidateRead, ValidateAssert, ValidateWrite, ValidateInterrupted, vars, storeVars, queueVars, apiVars
  <2> QED BY <2>1, LifeUntouched
<1> QED BY <1>1, <1>2, <1>3 DEF Validate

LEMMA StepReviews ==
  ASSUME Workers = 1, Cancellable = {}, ValidateTyping, AloneInv, LifeInv,
         interrupts = 0 => QueueInv /\ ReviewInv, [ValidateNext]_lifeVars
  PROVE  LifeInv' /\ (interrupts' = 0 => QueueInv' /\ ReviewInv')
<1>0. Typing /\ interrupts \in Nat
  BY BoundsAssumption DEF ValidateTyping, Typing, PipelineTypeOK, TypeOK
<1>1. LifeInv'
  <2>1. CASE [Next]_vars
    BY <1>0, <2>1, StepLife
  <2>2. ASSUME NEW f \in Findings, Validate(f) PROVE LifeInv'
    BY <2>2, CallLife
  <2> QED BY <2>1, <2>2 DEF ValidateNext, ReviewStep, lifeVars
<1>2. interrupts' = 0 => interrupts = 0 /\ QueueInv'
  BY StepQueue
<1>3. SUFFICES ASSUME interrupts' = 0, interrupts = 0, QueueInv, ReviewInv PROVE ReviewInv'
  BY <1>1, <1>2
<1>4. ASSUME NEW j \in Jobs, Work(j), UNCHANGED validateVars PROVE ReviewInv'
  BY <1>0, <1>3, <1>4, WorkReviews
<1>5. ASSUME NEW j \in Jobs, Fault(j) PROVE FALSE
  BY <1>0, <1>3, <1>5 DEF Fault, Interrupt
<1>6. ASSUME NEW r \in Runs, ApiStep(r), UNCHANGED validateVars PROVE ReviewInv'
  BY <1>0, <1>3, <1>6, ApiReviews
<1>7. ASSUME NEW f \in Findings, Validate(f) PROVE ReviewInv'
  BY <1>3, <1>7, CallReviews
<1>8. CASE UNCHANGED lifeVars
  BY <1>3, <1>8 DEF lifeVars, vars, storeVars, queueVars, apiVars, validateVars, ReviewInv, ChainOK, RoutingHands,
     MissionsOwed, HandedOver, Excused, Owed, Sending, Waits, Carries, Left, At, StillQueued, JobsOf
<1> QED BY <1>4, <1>5, <1>6, <1>7, <1>8 DEF ValidateNext, ReviewStep, Next

LEMMA InitReviews ==
  ASSUME ValidateInit
  PROVE  LifeInv /\ ReviewInv
<1>1. LifeInv
  BY InitLife DEF ValidateInit
<1>2. ASSUME NEW r \in Reviews PROVE ChainOK(r) /\ RoutingHands(r) /\ MissionsOwed(r)
  <2>1. /\ StageJob("prepare_repository", r) \in Jobs /\ StageJob("classify_change", r) \in Jobs
        /\ StageJob("run_deepsec", r) \in Jobs /\ RoutingJob(r) \in Jobs /\ r \in Runs
    BY StageJobFacts DEF StageTypes, RoutingJob
  <2> QED
    BY <2>1 DEF ValidateInit, Init, ControlPlaneInit, IdleFrame, ChainOK, RoutingHands, MissionsOwed,
                StillQueued, Left, At
<1> QED BY <1>1, <1>2 DEF ReviewInv

\* A review that stands still without a disposition has a cause.
LEMMA QuietIsExcused ==
  ASSUME Typing, ReviewInv, NEW r \in Reviews, Quiet(r), runStatus[r] \notin Disposed \cup {"absent"}
  PROVE  Excused(r)
<1> DEFINE P == StageJob("prepare_repository", r)
           C == StageJob("classify_change", r)
           D == StageJob("run_deepsec", r)
           R == RoutingJob(r)
<1>1. SUFFICES ASSUME ~Excused(r) PROVE FALSE
  OBVIOUS
<1>2. r \in Runs /\ ChainOK(r) /\ RoutingHands(r) /\ MissionsOwed(r)
  BY DEF ReviewInv, Reviews
<1>3. \A k \in JobsOf(r) : jobState[k] \in {"none", "done"}
  BY <1>1 DEF Quiet, Excused, JobsOf, Typing, PipelineTypeOK, TypeOK, JobStates
<1>4. {P, C, D, R} \subseteq JobsOf(r) /\ \A f \in Findings : StrixJob(r, f) \in JobsOf(r)
  BY <1>2, StageJobFacts, MissionFacts DEF StageTypes, RoutingJob
<1>5. \A k \in JobsOf(r) : jobState[k] # "none" => Left(k)
  BY <1>3 DEF Left
<1>6. Left(R)
  <2>1. /\ jobState[P] # "none"
        /\ Left(P) => jobState[C] # "none"
        /\ Left(C) => jobState[D] # "none"
        /\ Left(D) => jobState[R] # "none"
    BY <1>2 DEF ChainOK, Quiet
  <2> HIDE DEF P, C, D, R
  <2> QED BY <1>4, <1>5, <2>1
<1>7. HandedOver(r)
  BY <1>1, <1>2, <1>6 DEF RoutingHands
<1>8. ASSUME NEW f \in Findings
      PROVE  ~Carries(StrixJob(r, f)) /\ ~Waits(StrixJob(r, f)) /\ ~Sending(r, f)
  <2>1. StrixJob(r, f) \in JobsOf(r) /\ R \in JobsOf(r)
    BY <1>4
  <2>2. ~Carries(StrixJob(r, f)) /\ ~Waits(StrixJob(r, f))
    BY <1>3, <2>1 DEF Carries, Waits
  <2>3. jobState[R] # "active"
    BY <1>3, <2>1
  <2> QED BY <2>2, <2>3 DEF Sending, At
<1>9. ASSUME NEW f \in StillQueued(r) PROVE FALSE
  <2>1. f \in Findings
    BY <1>2 DEF StillQueued, Typing, PipelineTypeOK, TypeOK
  <2> QED BY <1>1, <1>2, <1>8, <1>9, <2>1 DEF MissionsOwed, Owed
<1> QED BY <1>7, <1>8, <1>9 DEF HandedOver

\* While no job is cut short and nobody cancels, and with one worker, a review
\* only stands still without a disposition when a job of it is in the dead
\* letters, a mission of it failed operationally, or a request took one of its
\* findings.
THEOREM HeldUpReviewsHaveACause ==
  ASSUME Workers = 1, Cancellable = {}
  PROVE  ValidateSpec => [](interrupts = 0 => HeldUpHasACause)
<1>1. ValidateInit => LifeInv /\ (interrupts = 0 => QueueInv /\ ReviewInv)
  BY InitReviews, InitQueue
<1>2. /\ ValidateTyping /\ AloneInv /\ LifeInv /\ (interrupts = 0 => QueueInv /\ ReviewInv)
      /\ [ValidateNext]_lifeVars
      => LifeInv' /\ (interrupts = 0 => QueueInv /\ ReviewInv)'
  BY StepReviews
<1>3. ValidateTyping /\ ReviewInv => HeldUpHasACause
  <2>1. SUFFICES ASSUME ValidateTyping, ReviewInv, NEW r \in Reviews,
                        runStatus[r] \notin Disposed \cup {"absent"}, Quiet(r)
                 PROVE  Excused(r)
    BY DEF HeldUpHasACause, Excused
  <2> QED BY <2>1, QuietIsExcused DEF ValidateTyping
<1> QED BY <1>1, <1>2, <1>3, ValidateTypingInvariant, JudgedInvariant, PTL DEF ValidateSpec
=============================================================================
