----------------------------- MODULE ReviewSafety -----------------------------
(***************************************************************************)
(* The properties of the review pipeline, proved for any instance.  First  *)
(* those that hold under every fault and interleaving, then those of one   *)
(* worker whom no cancellation disturbs.                                   *)
(*                                                                         *)
(* The first hold together: who answers for a finding decides which        *)
(* mission may judge it, the verdict decides what evidence there is, and   *)
(* the evidence decides the gate.  Safe is their conjunction with what the *)
(* handlers hold between two steps, and is inductive on top of Typing;     *)
(* ProgressInv adds what carries a run until it has ended.                 *)
(*                                                                         *)
(* With one worker what a handler asserted of its run still holds when it  *)
(* writes (LifeInv).  So the pipeline implements ReviewLifecycle, nothing  *)
(* settles before its last verdict (SettleInv), and terminal statuses are  *)
(* final.                                                                  *)
(***************************************************************************)
EXTENDS ReviewTyping, FiniteSetTheorems

\* Statuses of a finding no mission has been sent for.
Early == {"absent", "suspected", "source_confirmed"}
\* The statuses a review can give a finding.
Reached == Early \cup {"validation_queued"} \cup Conclusive

LinkedApart == \A r, s \in Runs : r # s => linked[r] \cap linked[s] = {}

\* Findings, who answers for them, and how they were judged.
FindingsSafe ==
  /\ \A f \in Findings : findingStatus[f] \in Reached
  /\ \A r \in Runs : \A f \in linked[r] : Exists(f)
  /\ LinkedApart
  /\ \A v \in validations :
       /\ v.finding \in linked[v.run]
       /\ findingStatus[v.finding] \notin Early
       /\ v.verdict \in Conclusive => findingStatus[v.finding] \in Conclusive
  /\ \A f \in Findings : findingStatus[f] = "confirmed" =>
       \E v \in validations : v.finding = f /\ v.verdict = "confirmed"
  /\ OneConclusiveVerdict

\* Gates of runs and receipts rest on evidence and on the audit trail.
GatesSafe ==
  /\ \A r \in Runs : runStatus[r] = "blocked" => ConfirmedEvidence(r)
  /\ \A r \in Runs : "blocked" \in announced[r] => ConfirmedEvidence(r)
  /\ \A r \in Runs : runStatus[r] \notin {"absent", "queued"} => runStatus[r] \in recorded[r]
  /\ GateReceiptsRecorded

\* What the handler of job j may rely on at its place.
LiveFrame(j) == frame[j].at # "idle" => jobState[j] = "active"

StageInHand(j) ==
  /\ j.type = "prepare_repository" /\ frame[j].at = "enqueue" => j.run \in snapshots
  /\ j.type = "classify_change" /\ frame[j].at \in {"read", "write", "enqueue"}
       => j.run \in snapshots /\ j.run \in classified

RoutingInHand(j) ==
  j.type = "apply_routing_policy" =>
    /\ frame[j].at \in {"route", "write_finding", "enqueue"} =>
         /\ frame[j].todo \subseteq linked[j.run]
         /\ \A f \in frame[j].todo : findingStatus[f] = "source_confirmed"
         /\ frame[j].decided = "open" => j.run \in Targets
    /\ frame[j].at \in {"write_finding", "enqueue"} =>
         /\ j.run \in Targets
         /\ frame[j].finding \in linked[j.run] \ frame[j].todo
    /\ frame[j].at = "write_finding" => findingStatus[frame[j].finding] = "source_confirmed"
    /\ frame[j].at = "enqueue" => findingStatus[frame[j].finding] \notin Early

StrixInHand(j) ==
  j.type = "run_strix_validation" /\ frame[j].at = "write_finding"
    /\ frame[j].decided \in Conclusive
    => findingStatus[j.finding] = "validation_queued"

GateInHand(j) ==
  /\ frame[j].at \in {"settle_read", "settle_write", "receipt", "announce"}
       /\ frame[j].decided = "blocked" => ConfirmedEvidence(j.run)
  /\ frame[j].at = "store" /\ frame[j].decided \in {"blocked", "awaiting_fix"}
       => frame[j].decided \in recorded[j.run]

InHand(j) ==
  LiveFrame(j) /\ StageInHand(j) /\ RoutingInHand(j) /\ StrixInHand(j) /\ GateInHand(j)

HandlersSafe == \A j \in Jobs : InHand(j)

Safe == FindingsSafe /\ GatesSafe /\ StageInputsExist /\ HandlersSafe

-----------------------------------------------------------------------------
(* What a step of a handler may touch.                                     *)

\* Every action of a handler, named once.
LEMMA WorkActions ==
  ASSUME NEW j \in Jobs, Work(j)
  PROVE  /\ UNCHANGED apiVars
         /\ \/ PickUp(j) \/ Return(j)
            \/ PrepareAssert(j) \/ PrepareWrite(j) \/ PrepareSnapshot(j) \/ PrepareEnqueue(j)
            \/ ClassifyCreate(j) \/ ClassifyAssert(j) \/ ClassifyWrite(j) \/ ClassifyEnqueue(j)
            \/ DeepSecLookup(j) \/ DeepSecPersist(j)
            \/ DeepSecAssert(j) \/ DeepSecWrite(j) \/ DeepSecEnqueue(j)
            \/ RoutingBegin(j) \/ RoutingDecide(j) \/ RoutingEscalate(j) \/ RoutingEnqueue(j)
            \/ RoutingCount(j) \/ RoutingAssert(j) \/ RoutingWrite(j)
            \/ StrixMission(j) \/ StrixPersist(j) \/ StrixCount(j)
            \/ FinalizeDecide(j) \/ FinalizeAssert(j) \/ FinalizeWrite(j)
            \/ FinalizeReceipt(j) \/ FinalizeAnnounce(j)
            \/ ReceiptGather(j) \/ ReceiptStore(j)
BY DEF Work, HandlerStep, Prepare, Classify, DeepSec, Routing, Strix, Finalize

\* Each table has few writers.
LEMMA Writers ==
  ASSUME NEW j \in Jobs, Work(j)
  PROVE  /\ \/ UNCHANGED <<findingStatus, linked>>
            \/ DeepSecPersist(j) \/ RoutingEscalate(j) \/ StrixPersist(j)
         /\ UNCHANGED validations \/ StrixPersist(j)
         /\ \/ UNCHANGED <<runStatus, recorded>>
            \/ PrepareWrite(j) \/ ClassifyWrite(j) \/ DeepSecWrite(j) \/ RoutingWrite(j)
            \/ FinalizeWrite(j)
         /\ UNCHANGED snapshots \/ PrepareSnapshot(j)
         /\ UNCHANGED classified \/ ClassifyCreate(j)
         /\ UNCHANGED announced \/ FinalizeAnnounce(j)
         /\ UNCHANGED receipt \/ ReceiptStore(j)
<1> USE DEF storeVars
<1>1. CASE PickUp(j) \/ Return(j)
  BY <1>1 DEF PickUp, Return
<1>2. CASE PrepareAssert(j) \/ PrepareWrite(j) \/ PrepareSnapshot(j) \/ PrepareEnqueue(j)
  BY <1>2 DEF PrepareAssert, PrepareWrite, PrepareSnapshot, PrepareEnqueue,
              AssertRunTransition, WriteRunStatus
<1>3. CASE ClassifyCreate(j) \/ ClassifyAssert(j) \/ ClassifyWrite(j) \/ ClassifyEnqueue(j)
  BY <1>3 DEF ClassifyCreate, ClassifyAssert, ClassifyWrite, ClassifyEnqueue,
              AssertRunTransition, WriteRunStatus
<1>4. CASE \/ DeepSecLookup(j) \/ DeepSecPersist(j)
           \/ DeepSecAssert(j) \/ DeepSecWrite(j) \/ DeepSecEnqueue(j)
  BY <1>4 DEF DeepSecLookup, DeepSecPersist, DeepSecAssert, DeepSecWrite, DeepSecEnqueue,
              AssertRunTransition, WriteRunStatus
<1>5. CASE \/ RoutingBegin(j) \/ RoutingDecide(j) \/ RoutingEscalate(j) \/ RoutingEnqueue(j)
           \/ RoutingCount(j) \/ RoutingAssert(j) \/ RoutingWrite(j)
  BY <1>5 DEF RoutingBegin, RoutingDecide, RoutingEscalate, RoutingEnqueue,
              RoutingCount, RoutingAssert, RoutingWrite, AssertRunTransition, WriteRunStatus
<1>6. CASE StrixMission(j) \/ StrixPersist(j) \/ StrixCount(j)
  BY <1>6 DEF StrixMission, StrixPersist, StrixCount
<1>7. CASE \/ FinalizeDecide(j) \/ FinalizeAssert(j) \/ FinalizeWrite(j)
           \/ FinalizeReceipt(j) \/ FinalizeAnnounce(j)
  BY <1>7 DEF FinalizeDecide, FinalizeAssert, FinalizeWrite, FinalizeReceipt, FinalizeAnnounce,
              AssertRunTransition, WriteRunStatus
<1>8. CASE ReceiptGather(j) \/ ReceiptStore(j)
  BY <1>8 DEF ReceiptGather, ReceiptStore
<1> QED BY <1>1, <1>2, <1>3, <1>4, <1>5, <1>6, <1>7, <1>8, WorkActions

\* A handler moves its own job, and at most adds others to the queue.
LEMMA OnlyOwnJob ==
  ASSUME Typing, NEW j \in Jobs, Work(j), NEW k \in Jobs \ {j}
  PROVE  /\ frame'[k] = frame[k]
         /\ jobState'[k] = jobState[k] \/ jobState[k] = "none"
<1> USE DEF Typing, PipelineTypeOK, TypeOK, Goto, Throw, Enqueue, storeVars
<1>1. CASE PickUp(j) \/ Return(j)
  BY <1>1 DEF PickUp, Return
<1>2. CASE PrepareAssert(j) \/ PrepareWrite(j) \/ PrepareSnapshot(j) \/ PrepareEnqueue(j)
  BY <1>2 DEF PrepareAssert, PrepareWrite, PrepareSnapshot, PrepareEnqueue,
              AssertRunTransition, WriteRunStatus
<1>3. CASE ClassifyCreate(j) \/ ClassifyAssert(j) \/ ClassifyWrite(j) \/ ClassifyEnqueue(j)
  BY <1>3 DEF ClassifyCreate, ClassifyAssert, ClassifyWrite, ClassifyEnqueue,
              AssertRunTransition, WriteRunStatus
<1>4. CASE \/ DeepSecLookup(j) \/ DeepSecPersist(j)
           \/ DeepSecAssert(j) \/ DeepSecWrite(j) \/ DeepSecEnqueue(j)
  BY <1>4 DEF DeepSecLookup, DeepSecPersist, DeepSecAssert, DeepSecWrite, DeepSecEnqueue,
              AssertRunTransition, WriteRunStatus, Reported
<1>5. CASE \/ RoutingBegin(j) \/ RoutingDecide(j) \/ RoutingEscalate(j) \/ RoutingEnqueue(j)
           \/ RoutingCount(j) \/ RoutingAssert(j) \/ RoutingWrite(j)
  <2>1. CASE RoutingBegin(j)  BY <2>1 DEF RoutingBegin
  <2>2. CASE RoutingDecide(j)  BY <2>2 DEF RoutingDecide
  <2>3. CASE RoutingEscalate(j) \/ RoutingEnqueue(j) \/ RoutingCount(j)
    BY <2>3 DEF RoutingEscalate, RoutingEnqueue, RoutingCount
  <2>4. CASE RoutingAssert(j) \/ RoutingWrite(j)
    BY <2>4 DEF RoutingAssert, RoutingWrite, AssertRunTransition, WriteRunStatus
  <2> QED  BY <1>5, <2>1, <2>2, <2>3, <2>4, Zenon
<1>6. CASE StrixMission(j) \/ StrixPersist(j) \/ StrixCount(j)
  BY <1>6 DEF StrixMission, StrixPersist, StrixCount
<1>7. CASE \/ FinalizeDecide(j) \/ FinalizeAssert(j) \/ FinalizeWrite(j)
           \/ FinalizeReceipt(j) \/ FinalizeAnnounce(j)
  BY <1>7 DEF FinalizeDecide, FinalizeAssert, FinalizeWrite, FinalizeReceipt, FinalizeAnnounce,
              AssertRunTransition, WriteRunStatus
<1>8. CASE ReceiptGather(j) \/ ReceiptStore(j)
  BY <1>8 DEF ReceiptGather, ReceiptStore
<1> QED BY <1>1, <1>2, <1>3, <1>4, <1>5, <1>6, <1>7, <1>8, WorkActions

\* What the step of a handler does to the queue: nothing, a job more, or it
\* throws.
LEMMA WorkKinds ==
  ASSUME NEW j \in Jobs, Work(j), ~PickUp(j)
  PROVE  /\ jobState[j] = "active"
         /\ Return(j) \/ Throw(j) \/ UNCHANGED jobState \/ \E k : Enqueue(k)
<1> USE DEF At
<1>1. CASE Return(j)
  BY <1>1 DEF Return
<1>2. CASE PrepareAssert(j) \/ PrepareWrite(j) \/ PrepareSnapshot(j) \/ PrepareEnqueue(j)
  BY <1>2 DEF PrepareAssert, PrepareWrite, PrepareSnapshot, PrepareEnqueue,
              AssertRunTransition, WriteRunStatus
<1>3. CASE ClassifyCreate(j) \/ ClassifyAssert(j) \/ ClassifyWrite(j) \/ ClassifyEnqueue(j)
  BY <1>3 DEF ClassifyCreate, ClassifyAssert, ClassifyWrite, ClassifyEnqueue,
              AssertRunTransition, WriteRunStatus
<1>4. CASE \/ DeepSecLookup(j) \/ DeepSecPersist(j)
           \/ DeepSecAssert(j) \/ DeepSecWrite(j) \/ DeepSecEnqueue(j)
  BY <1>4 DEF DeepSecLookup, DeepSecPersist, DeepSecAssert, DeepSecWrite, DeepSecEnqueue,
              AssertRunTransition, WriteRunStatus
<1>5. CASE \/ RoutingBegin(j) \/ RoutingDecide(j) \/ RoutingEscalate(j) \/ RoutingEnqueue(j)
           \/ RoutingCount(j) \/ RoutingAssert(j) \/ RoutingWrite(j)
  BY <1>5 DEF RoutingBegin, RoutingDecide, RoutingEscalate, RoutingEnqueue,
              RoutingCount, RoutingAssert, RoutingWrite, AssertRunTransition, WriteRunStatus
<1>6. CASE StrixMission(j) \/ StrixPersist(j) \/ StrixCount(j)
  BY <1>6 DEF StrixMission, StrixPersist, StrixCount
<1>7. CASE \/ FinalizeDecide(j) \/ FinalizeAssert(j) \/ FinalizeWrite(j)
           \/ FinalizeReceipt(j) \/ FinalizeAnnounce(j)
  BY <1>7 DEF FinalizeDecide, FinalizeAssert, FinalizeWrite, FinalizeReceipt, FinalizeAnnounce,
              AssertRunTransition, WriteRunStatus
<1>8. CASE ReceiptGather(j) \/ ReceiptStore(j)
  BY <1>8 DEF ReceiptGather, ReceiptStore
<1> QED BY <1>1, <1>2, <1>3, <1>4, <1>5, <1>6, <1>7, <1>8, WorkActions

\* A handler starts no other job.
LEMMA HandlerStartsNone ==
  ASSUME Typing, NEW j \in Jobs, Work(j), ~PickUp(j), NEW k \in Jobs \ {j}, jobState'[k] = "active"
  PROVE  jobState[k] = "active"
BY WorkKinds DEF Return, Throw, Enqueue, Typing, PipelineTypeOK, TypeOK

\* What is recorded stays: snapshots, classifications, accountability, the
\* audit trail, validation rows.
Grows ==
  /\ snapshots \subseteq snapshots'
  /\ classified \subseteq classified'
  /\ \A r \in Runs : linked[r] \subseteq linked'[r]
  /\ \A r \in Runs : recorded[r] \subseteq recorded'[r]
  /\ validations \subseteq validations'

LEMMA WorkGrows ==
  ASSUME Typing, NEW j \in Jobs, Work(j)
  PROVE  Grows
<1> USE DEF Typing, PipelineTypeOK, TypeOK
<1>1. snapshots \subseteq snapshots' /\ classified \subseteq classified'
  BY Writers DEF PrepareSnapshot, ClassifyCreate
<1>2. \A r \in Runs : linked[r] \subseteq linked'[r]
  <2>1. CASE DeepSecPersist(j)
    BY <2>1 DEF DeepSecPersist
  <2>2. CASE RoutingEscalate(j) \/ StrixPersist(j)
    BY <2>2 DEF RoutingEscalate, StrixPersist
  <2> QED BY <2>1, <2>2, Writers
<1>3. \A r \in Runs : recorded[r] \subseteq recorded'[r]
  BY Writers DEF PrepareWrite, ClassifyWrite, DeepSecWrite, RoutingWrite, FinalizeWrite,
                 WriteRunStatus
<1>4. validations \subseteq validations'
  BY Writers DEF StrixPersist
<1> QED BY <1>1, <1>2, <1>3, <1>4 DEF Grows

-----------------------------------------------------------------------------
(* Findings.                                                               *)

\* A run has one job of each stage, and one mission per finding.
LEMMA JobIdentity ==
  /\ \A j, k \in Jobs : j.type = k.type /\ j.type \in StageTypes /\ j.run = k.run => j = k
  /\ \A j, k \in Jobs : /\ j.type = "run_strix_validation" /\ k.type = j.type
                        /\ j.run = k.run /\ j.finding = k.finding
                        => j = k
BY DEF Jobs, StageTypes, FindingTypes

\* Among the statuses a review reaches, only a queued finding may be judged.
LEMMA JudgedFromQueued ==
  ASSUME NEW s \in Reached \ Early, NEW verdict \in Conclusive,
         CanTransitionFinding(s, verdict)
  PROVE  s = "validation_queued"
BY DEF Reached, Early, Conclusive, Verdicts, CanTransitionFinding, FindingEdges

\* How the status of a finding changes in a step of job j.
FindingMoves(j) ==
  \A f \in Findings :
    \/ findingStatus'[f] = findingStatus[f]
    \/ ~Exists(f) /\ findingStatus'[f] \in {"suspected", "source_confirmed"}
    \/ /\ j.type = "apply_routing_policy" /\ frame[j].at = "write_finding"
       /\ f = frame[j].finding
       /\ findingStatus[f] = "source_confirmed" /\ findingStatus'[f] = "validation_queued"
    \/ /\ j.type = "run_strix_validation" /\ frame[j].at = "write_finding"
       /\ f = j.finding
       /\ frame[j].decided \in Conclusive
       /\ findingStatus[f] = "validation_queued" /\ findingStatus'[f] = frame[j].decided

LEMMA WorkMovesFindings ==
  ASSUME Typing, Safe, NEW j \in Jobs, Work(j)
  PROVE  FindingMoves(j)
<1> USE DEF Typing, PipelineTypeOK, TypeOK
<1>1. CASE UNCHANGED findingStatus
  BY <1>1 DEF FindingMoves
<1>2. CASE DeepSecPersist(j)
  <2>1. CASE UNCHANGED findingStatus
    BY <2>1 DEF FindingMoves
  <2>2. CASE /\ ~ \E f \in frame[j].todo : Exists(f)
             /\ \E again \in SUBSET {f \in Findings : Exists(f)} : Reported(j, again)
    BY <2>2 DEF FindingMoves, Reported, FirstStatus
  <2> QED BY <1>2, <2>1, <2>2 DEF DeepSecPersist
<1>3. CASE RoutingEscalate(j)
  <2>1. findingStatus[frame[j].finding] = "source_confirmed"
    BY <1>3 DEF RoutingEscalate, At, Safe, HandlersSafe, InHand, RoutingInHand
  <2> QED BY <1>3, <2>1 DEF RoutingEscalate, At, FindingMoves
<1>4. CASE StrixPersist(j)
  <2>1. frame[j].decided \in Verdicts
    BY <1>4 DEF StrixPersist, At, PlacesOK, PlaceOK, PlaceFits
  <2>2. CASE frame[j].decided = "failed"
    BY <1>4, <2>2 DEF StrixPersist, Judges, FindingMoves
  <2>3. CASE frame[j].decided \in Conclusive
    <3>1. findingStatus[j.finding] = "validation_queued"
      BY <1>4, <2>3 DEF StrixPersist, Judges, At, Safe, HandlersSafe, InHand, StrixInHand
    <3> QED BY <1>4, <2>3, <3>1 DEF StrixPersist, Judges, At, FindingMoves, Conclusive
  <2> QED BY <2>1, <2>2, <2>3 DEF Conclusive
<1> QED BY <1>1, <1>2, <1>3, <1>4, Writers

\* A finding that a mission was sent for never falls back, and none vanishes.
LEMMA FindingsAdvance ==
  ASSUME Typing, NEW j \in Jobs, FindingMoves(j)
  PROVE  /\ \A f \in Findings : Exists(f) => Exists(f)'
         /\ \A f \in Findings : findingStatus[f] \notin Early => findingStatus'[f] \notin Early
         /\ \A f \in Findings : findingStatus[f] \in Conclusive => findingStatus'[f] = findingStatus[f]
BY DEF FindingMoves, Exists, Early, Conclusive, Verdicts

\* A step that writes neither findings nor links nor validations.
LEMMA FindingsUntouched ==
  ASSUME Safe, UNCHANGED <<findingStatus, linked, validations>>
  PROVE  FindingsSafe'
BY DEF Safe, FindingsSafe, LinkedApart, OneConclusiveVerdict, Exists

LEMMA WorkFindings ==
  ASSUME Typing, Safe, NEW j \in Jobs, Work(j)
  PROVE  FindingsSafe'
<1> USE DEF Typing, PipelineTypeOK, TypeOK
<1>a. FindingsSafe
  BY DEF Safe
<1>b. FindingMoves(j)
  BY WorkMovesFindings
<1>c. frame[j] \in Frames /\ j.run \in Runs
  BY JobFacts
<1>1. \A f \in Findings : findingStatus'[f] \in Reached
  BY <1>a, <1>b DEF FindingsSafe, FindingMoves, Reached, Early
<1>2. CASE UNCHANGED <<findingStatus, linked>> /\ UNCHANGED validations
  BY <1>2, FindingsUntouched
<1>3. CASE DeepSecPersist(j)
  <2>0. UNCHANGED validations
    BY <1>3 DEF DeepSecPersist
  <2>1. CASE UNCHANGED <<findingStatus, linked>>
    BY <2>0, <2>1, FindingsUntouched
  <2>2. CASE /\ ~ \E f \in frame[j].todo : Exists(f)
             /\ \E again \in SUBSET {f \in Findings : Exists(f)} : Reported(j, again)
             /\ linked' = [linked EXCEPT ![j.run] = @ \cup frame[j].todo]
    <3>1. frame[j].todo \subseteq Findings
      BY <1>c DEF Frames
    <3>2. \A r \in Runs : \A f \in linked[r] : f \in Findings /\ f \notin frame[j].todo
      BY <1>a, <2>2 DEF FindingsSafe
    <3>3. \A f \in frame[j].todo : Exists(f)'
      BY <2>2, <3>1 DEF Reported, FirstStatus, Exists
    <3>4. \A r \in Runs : \A f \in linked'[r] : Exists(f)'
      BY <1>a, <1>b, <1>c, <2>2, <3>2, <3>3, FindingsAdvance DEF FindingsSafe
    <3>5. LinkedApart'
      BY <1>a, <1>c, <2>2, <3>2 DEF FindingsSafe, LinkedApart
    <3>6. \A v \in validations' :
            /\ v.finding \in linked'[v.run]
            /\ findingStatus'[v.finding] \notin Early
            /\ v.verdict \in Conclusive => findingStatus'[v.finding] \in Conclusive
      <4> SUFFICES ASSUME NEW v \in validations
                   PROVE  /\ v.finding \in linked'[v.run]
                          /\ findingStatus'[v.finding] \notin Early
                          /\ v.verdict \in Conclusive => findingStatus'[v.finding] \in Conclusive
        BY <2>0
      <4>1. v.run \in Runs /\ v.finding \in Findings
        BY DEF ValidationRows
      <4> QED BY <1>a, <1>b, <1>c, <2>2, <4>1, FindingsAdvance DEF FindingsSafe
    <3>7. \A f \in Findings : findingStatus'[f] = "confirmed" =>
            \E v \in validations' : v.finding = f /\ v.verdict = "confirmed"
      BY <1>a, <2>0, <2>2 DEF FindingsSafe, Reported, FirstStatus
    <3>8. OneConclusiveVerdict'
      BY <1>a, <2>0 DEF FindingsSafe, OneConclusiveVerdict
    <3> QED BY <1>1, <3>4, <3>5, <3>6, <3>7, <3>8 DEF FindingsSafe
  <2> QED BY <1>3, <2>1, <2>2 DEF DeepSecPersist
<1>4. CASE RoutingEscalate(j)
  <2> DEFINE f == frame[j].finding
  <2>1. f \in linked[j.run] /\ findingStatus[f] = "source_confirmed" /\ f \in Findings
    BY <1>4, <1>c DEF RoutingEscalate, At, Safe, HandlersSafe, InHand, RoutingInHand
  <2>2. linked' = linked /\ validations' = validations
    BY <1>4, <1>c, <2>1 DEF RoutingEscalate
  <2>3. findingStatus' = [findingStatus EXCEPT ![f] = "validation_queued"]
    BY <1>4 DEF RoutingEscalate
  <2>4. \A r \in Runs : \A g \in linked'[r] : Exists(g)'
    BY <1>a, <2>2, <2>3 DEF FindingsSafe, Exists
  <2>5. LinkedApart' /\ OneConclusiveVerdict'
    BY <1>a, <2>2 DEF FindingsSafe, LinkedApart, OneConclusiveVerdict
  <2>6. \A v \in validations' :
          /\ v.finding \in linked'[v.run]
          /\ findingStatus'[v.finding] \notin Early
          /\ v.verdict \in Conclusive => findingStatus'[v.finding] \in Conclusive
    <3> SUFFICES ASSUME NEW v \in validations
                 PROVE  /\ v.finding \in linked[v.run]
                        /\ findingStatus'[v.finding] \notin Early
                        /\ v.verdict \in Conclusive => findingStatus'[v.finding] \in Conclusive
      BY <2>2
    <3>1. v.finding \in Findings
      BY DEF ValidationRows
    <3> QED BY <1>a, <1>b, <3>1, FindingsAdvance DEF FindingsSafe
  <2>7. \A g \in Findings : findingStatus'[g] = "confirmed" =>
          \E v \in validations' : v.finding = g /\ v.verdict = "confirmed"
    BY <1>a, <2>2, <2>3 DEF FindingsSafe
  <2> QED BY <1>1, <2>4, <2>5, <2>6, <2>7 DEF FindingsSafe
<1>5. CASE StrixPersist(j)
  <2> DEFINE f == j.finding
             row == [finding |-> f, run |-> j.run, verdict |-> frame[j].decided,
                     attempt |-> attempts[j]]
  <2>1. f \in Findings /\ f \in linked[j.run] /\ findingStatus[f] \notin Early
    BY <1>5, JobFacts DEF StrixPersist, At, Safe, StageInputsExist, Early
  <2>2. linked' = linked /\ validations' = validations \cup {row}
    <3>1. linked' = linked \/ linked' = [linked EXCEPT ![j.run] = @ \cup {f}]
      BY <1>5 DEF StrixPersist
    <3>2. linked[j.run] \cup {f} = linked[j.run]
      BY <2>1
    <3>3. linked \in [Runs -> SUBSET Findings]
      OBVIOUS
    <3>4. [linked EXCEPT ![j.run] = @ \cup {f}] = linked
      <4> HIDE DEF Typing, PipelineTypeOK, TypeOK
      <4> QED BY <1>c, <3>2, <3>3
    <3>5. linked' = linked
      BY <3>1, <3>4
    <3> QED BY <1>5, <3>5 DEF StrixPersist, Judges
  <2>3. frame[j].decided \in Verdicts
    BY <1>5 DEF StrixPersist, At, PlacesOK, PlaceOK, PlaceFits
  <2>4. \/ frame[j].decided = "failed" /\ findingStatus' = findingStatus
        \/ /\ frame[j].decided \in Conclusive
           /\ findingStatus[f] = "validation_queued"
           /\ findingStatus' = [findingStatus EXCEPT ![f] = frame[j].decided]
    BY <1>5, <2>3 DEF StrixPersist, Judges, At, Safe, HandlersSafe, InHand, StrixInHand, Conclusive
  <2>5. \A r \in Runs : \A g \in linked'[r] : Exists(g)'
    <3>1. \A r \in Runs : \A g \in linked[r] : g \in Findings
      OBVIOUS
    <3> QED BY <1>a, <1>b, <2>2, <3>1, FindingsAdvance DEF FindingsSafe
  <2>6. LinkedApart'
    BY <1>a, <2>2 DEF FindingsSafe, LinkedApart
  <2>7. \A v \in validations : v.finding \in Findings /\ v.run \in Runs
    BY DEF ValidationRows
  <2>8. \A v \in validations' :
          /\ v.finding \in linked'[v.run]
          /\ findingStatus'[v.finding] \notin Early
          /\ v.verdict \in Conclusive => findingStatus'[v.finding] \in Conclusive
    <3>1. ASSUME NEW v \in validations
          PROVE  /\ v.finding \in linked'[v.run]
                 /\ findingStatus'[v.finding] \notin Early
                 /\ v.verdict \in Conclusive => findingStatus'[v.finding] \in Conclusive
      BY <1>a, <1>b, <2>2, <2>7, FindingsAdvance DEF FindingsSafe
    <3>2. /\ row.finding \in linked'[row.run]
          /\ findingStatus'[row.finding] \notin Early
          /\ row.verdict \in Conclusive => findingStatus'[row.finding] \in Conclusive
      BY <1>b, <2>1, <2>2, <2>4, FindingsAdvance DEF Conclusive
    <3> QED BY <2>2, <3>1, <3>2
  <2>9. \A g \in Findings : findingStatus'[g] = "confirmed" =>
          \E v \in validations' : v.finding = g /\ v.verdict = "confirmed"
    <3> SUFFICES ASSUME NEW g \in Findings, findingStatus'[g] = "confirmed"
                 PROVE  \E v \in validations' : v.finding = g /\ v.verdict = "confirmed"
      OBVIOUS
    <3>1. CASE findingStatus[g] = "confirmed"
      BY <1>a, <2>2, <3>1 DEF FindingsSafe
    <3>2. CASE findingStatus[g] # "confirmed"
      <4>1. g = f /\ row.verdict = "confirmed"
        BY <2>4, <3>2
      <4> QED BY <2>2, <4>1
    <3> QED BY <3>1, <3>2
  <2>10. OneConclusiveVerdict'
    <3>1. \A v \in validations : v.finding = f /\ row.verdict \in Conclusive
                                   => v.verdict \notin Conclusive
      BY <1>a, <2>4 DEF FindingsSafe, Conclusive, Verdicts
    <3> QED BY <1>a, <2>2, <3>1 DEF FindingsSafe, OneConclusiveVerdict
  <2> QED BY <1>1, <2>5, <2>6, <2>8, <2>9, <2>10 DEF FindingsSafe
<1> QED BY <1>2, <1>3, <1>4, <1>5, Writers

-----------------------------------------------------------------------------
(* The queue.                                                              *)

\* What must exist before job k may be queued.
Ready(k) ==
  /\ k.type \in {"classify_change", "run_deepsec", "apply_routing_policy",
                 "run_strix_validation"} => k.run \in snapshots
  /\ k.type \in {"run_deepsec", "apply_routing_policy", "run_strix_validation"}
       => k.run \in classified
  /\ k.type = "run_strix_validation" =>
       /\ k.run \in Targets
       /\ k.finding \in linked[k.run]
       /\ findingStatus[k.finding] \notin Early

LEMMA InputsAreReadiness ==
  StageInputsExist <=> \A k \in Jobs : jobState[k] # "none" => Ready(k)
BY DEF StageInputsExist, Ready, Early

\* Readiness is not lost.
LEMMA ReadyStays ==
  ASSUME Grows, NEW k \in Jobs, Ready(k),
         \A f \in Findings : findingStatus[f] \notin Early => findingStatus'[f] \notin Early
  PROVE  Ready(k)'
BY JobFacts DEF Ready, Grows

\* A handler only queues jobs that are ready.
LEMMA QueuedAreReady ==
  ASSUME Typing, Safe, NEW j \in Jobs, Work(j),
         NEW k \in Jobs, jobState[k] = "none", jobState'[k] # "none"
  PROVE  Ready(k)
<1> USE DEF Typing, PipelineTypeOK, TypeOK
<1>0. InHand(j) /\ (jobState[j] # "none" => Ready(j))
  BY InputsAreReadiness DEF Safe, HandlersSafe
<1>1. CASE PrepareEnqueue(j)
  <2>1. k = StageJob("classify_change", j.run)
    BY <1>1 DEF PrepareEnqueue, Enqueue
  <2>2. j.run \in snapshots
    BY <1>0, <1>1 DEF PrepareEnqueue, At, InHand, StageInHand
  <2> QED BY <2>1, <2>2 DEF StageJob, Ready
<1>2. CASE ClassifyEnqueue(j)
  <2>1. k = StageJob("run_deepsec", j.run)
    BY <1>2 DEF ClassifyEnqueue, Enqueue
  <2>2. j.run \in snapshots /\ j.run \in classified
    BY <1>0, <1>2 DEF ClassifyEnqueue, At, InHand, StageInHand
  <2> QED BY <2>1, <2>2 DEF StageJob, Ready
<1>3. CASE DeepSecEnqueue(j)
  <2>1. k = StageJob("apply_routing_policy", j.run)
    BY <1>3 DEF DeepSecEnqueue, Enqueue
  <2>2. j.run \in snapshots /\ j.run \in classified
    BY <1>0, <1>3 DEF DeepSecEnqueue, At, Ready
  <2> QED BY <2>1, <2>2 DEF StageJob, Ready
<1>4. CASE RoutingEnqueue(j)
  <2>1. k = StrixJob(j.run, frame[j].finding)
    BY <1>4 DEF RoutingEnqueue, Enqueue
  <2>2. j.run \in snapshots /\ j.run \in classified
    BY <1>0, <1>4 DEF RoutingEnqueue, At, Ready
  <2>3. /\ j.run \in Targets
        /\ frame[j].finding \in linked[j.run]
        /\ findingStatus[frame[j].finding] \notin Early
    BY <1>0, <1>4 DEF RoutingEnqueue, At, InHand, RoutingInHand
  <2> QED BY <2>1, <2>2, <2>3 DEF StrixJob, FindingJob, Ready
<1>5. CASE FinalizeReceipt(j)
  <2>1. k = StageJob("generate_receipt", j.run)
    BY <1>5 DEF FinalizeReceipt, Enqueue
  <2> QED BY <2>1 DEF StageJob, Ready
<1>6. CASE PickUp(j) \/ Return(j)
  BY <1>6 DEF PickUp, Return, At
<1>7. CASE \/ PrepareAssert(j) \/ ClassifyAssert(j) \/ DeepSecAssert(j)
           \/ RoutingAssert(j) \/ FinalizeAssert(j)
  BY <1>7 DEF PrepareAssert, ClassifyAssert, DeepSecAssert, RoutingAssert, FinalizeAssert,
              AssertRunTransition, Throw, At
<1>8. CASE ClassifyCreate(j) \/ DeepSecLookup(j) \/ DeepSecPersist(j)
           \/ RoutingDecide(j) \/ StrixMission(j)
  BY <1>8 DEF ClassifyCreate, DeepSecLookup, DeepSecPersist, RoutingDecide, StrixMission,
              Throw, At
<1>9. CASE UNCHANGED jobState
  BY <1>9
<1> QED
  BY <1>1, <1>2, <1>3, <1>4, <1>5, <1>6, <1>7, <1>8, <1>9, WorkActions
     DEF PrepareWrite, PrepareSnapshot, ClassifyWrite, DeepSecWrite, RoutingBegin,
         RoutingEscalate, RoutingCount, RoutingWrite, StrixPersist, StrixCount,
         FinalizeDecide, FinalizeWrite, FinalizeAnnounce, ReceiptGather, ReceiptStore,
         WriteRunStatus

LEMMA WorkInputs ==
  ASSUME Typing, Safe, NEW j \in Jobs, Work(j)
  PROVE  StageInputsExist'
<1>1. ASSUME NEW k \in Jobs, jobState'[k] # "none" PROVE Ready(k)'
  <2>1. Ready(k)
    BY <1>1, QueuedAreReady, InputsAreReadiness DEF Safe
  <2> QED BY <2>1, ReadyStays, WorkGrows, WorkMovesFindings, FindingsAdvance
<1>2. StageInputsExist' <=> \A k \in Jobs : jobState'[k] # "none" => Ready(k)'
  BY DEF StageInputsExist, Ready, Early
<1> QED BY <1>1, <1>2

-----------------------------------------------------------------------------
(* The handlers.                                                           *)

LEMMA EvidenceStays ==
  ASSUME Grows, NEW r \in Runs, ConfirmedEvidence(r)
  PROVE  ConfirmedEvidence(r)'
BY DEF Grows, ConfirmedEvidence

\* What another handler relies on is not taken from under it.
LEMMA OthersInHand ==
  ASSUME Typing, Safe, NEW j \in Jobs, Work(j), NEW k \in Jobs \ {j}
  PROVE  InHand(k)'
<1>0. InHand(k) /\ InHand(j) /\ FindingsSafe
  BY DEF Safe, HandlersSafe
<1>1. frame'[k] = frame[k] /\ (jobState'[k] = jobState[k] \/ jobState[k] = "none")
  BY OnlyOwnJob
<1>2. Grows /\ FindingMoves(j)
  BY WorkGrows, WorkMovesFindings
<1>3. k.run \in Runs /\ j.run \in Runs
  BY JobFacts
<1>4. LiveFrame(k)'
  BY <1>0, <1>1 DEF InHand, LiveFrame
<1>5. StageInHand(k)'
  BY <1>0, <1>1, <1>2 DEF InHand, StageInHand, Grows
<1>6. GateInHand(k)'
  BY <1>0, <1>1, <1>2, <1>3, EvidenceStays DEF InHand, GateInHand, Grows
<1>7. linked[k.run] \subseteq Findings /\ linked[k.run] \subseteq linked'[k.run]
  BY <1>2, <1>3 DEF Grows, Typing, PipelineTypeOK, TypeOK
<1>8. RoutingInHand(k)'
  <2> SUFFICES ASSUME k.type = "apply_routing_policy" PROVE RoutingInHand(k)'
    BY DEF RoutingInHand
  <2>1. ASSUME NEW f \in linked[k.run], findingStatus[f] = "source_confirmed"
        PROVE  findingStatus'[f] = "source_confirmed"
    <3>1. f \in Findings
      BY <1>7
    <3>2. ~(j.type = "apply_routing_policy" /\ frame[j].at = "write_finding"
              /\ f = frame[j].finding)
      <4> SUFFICES ASSUME j.type = "apply_routing_policy", frame[j].at = "write_finding",
                          f = frame[j].finding
                   PROVE  FALSE
        OBVIOUS
      <4>1. f \in linked[j.run]
        BY <1>0 DEF InHand, RoutingInHand
      <4>2. j.run = k.run
        BY <1>0, <1>3, <4>1 DEF FindingsSafe, LinkedApart
      <4> QED BY <4>2, JobIdentity DEF StageTypes
    <3> QED BY <1>2, <2>1, <3>1, <3>2 DEF FindingMoves, Exists
  <2>2. ASSUME frame[k].at = "enqueue" PROVE findingStatus'[frame[k].finding] \notin Early
    <3>1. frame[k].finding \in Findings /\ findingStatus[frame[k].finding] \notin Early
      BY <1>0, <1>7, <2>2 DEF InHand, RoutingInHand
    <3> QED BY <1>2, <3>1, FindingsAdvance
  <2> QED BY <1>0, <1>1, <1>7, <2>1, <2>2 DEF InHand, RoutingInHand
<1>9. StrixInHand(k)'
  <2> SUFFICES ASSUME k.type = "run_strix_validation", frame[k].at = "write_finding",
                      frame[k].decided \in Conclusive
               PROVE  findingStatus'[k.finding] = "validation_queued"
    BY <1>1 DEF StrixInHand
  <2> DEFINE f == k.finding
  <2>1. findingStatus[f] = "validation_queued" /\ f \in Findings
    BY <1>0, JobFacts DEF InHand, StrixInHand
  <2>2. f \in linked[k.run]
    BY <1>0 DEF InHand, LiveFrame, Safe, StageInputsExist
  <2>3. ~(j.type = "run_strix_validation" /\ frame[j].at = "write_finding" /\ f = j.finding)
    <3> SUFFICES ASSUME j.type = "run_strix_validation", frame[j].at = "write_finding",
                        f = j.finding
                 PROVE  FALSE
      OBVIOUS
    <3>1. f \in linked[j.run]
      BY <1>0 DEF InHand, LiveFrame, Safe, StageInputsExist
    <3>2. j.run = k.run
      BY <1>0, <1>3, <2>2, <3>1 DEF FindingsSafe, LinkedApart
    <3> QED BY <3>2, JobIdentity
  <2> QED BY <1>2, <2>1, <2>3 DEF FindingMoves, Exists
<1> QED BY <1>4, <1>5, <1>6, <1>8, <1>9 DEF InHand

\* A job that left its handler holds nothing.
LEMMA ThrownInHand ==
  ASSUME Typing, NEW j \in Jobs, Throw(j) \/ frame' = [frame EXCEPT ![j] = IdleFrame]
  PROVE  InHand(j)'
BY DEF Throw, IdleFrame, Typing, PipelineTypeOK, TypeOK, InHand, LiveFrame, StageInHand,
       RoutingInHand, StrixInHand, GateInHand

\* Places at which a handler relies on nothing.
LEMMA IdlePlaces ==
  ASSUME NEW j \in Jobs, jobState'[j] = "active",
         \/ frame'[j].at \in {"begin", "snapshot", "persist", "count", "finalize", "return"}
         \/ /\ frame'[j].at \in {"read", "write", "enqueue"}
            /\ j.type \in {"run_deepsec", "run_deepsec_revalidation"}
         \/ /\ frame'[j].at \in {"read", "write"}
            /\ j.type \in {"prepare_repository", "apply_routing_policy"}
  PROVE  InHand(j)'
BY DEF InHand, LiveFrame, StageInHand, RoutingInHand, StrixInHand, GateInHand

\* A worker that moves on stays active, whatever it queues meanwhile.
LEMMA StillActive ==
  ASSUME Typing, NEW j \in Jobs, jobState[j] = "active",
         UNCHANGED jobState \/ \E k : Enqueue(k)
  PROVE  jobState'[j] = "active"
BY DEF Enqueue, Typing, PipelineTypeOK, TypeOK

LEMMA StagesInHand ==
  ASSUME Typing, Safe, NEW j \in Jobs,
         \/ PickUp(j) \/ Return(j)
         \/ PrepareAssert(j) \/ PrepareWrite(j) \/ PrepareSnapshot(j) \/ PrepareEnqueue(j)
         \/ ClassifyCreate(j) \/ ClassifyAssert(j) \/ ClassifyWrite(j) \/ ClassifyEnqueue(j)
         \/ DeepSecLookup(j) \/ DeepSecPersist(j)
         \/ DeepSecAssert(j) \/ DeepSecWrite(j) \/ DeepSecEnqueue(j)
  PROVE  InHand(j)'
<1>0. frame \in [Jobs -> Frames] /\ InHand(j) /\ PlaceOK(j)
  BY DEF Typing, PipelineTypeOK, TypeOK, PlacesOK, Safe, HandlersSafe
<1>1. CASE PickUp(j)
  <2>1. jobState'[j] = "active"
    BY <1>1 DEF PickUp, Typing, PipelineTypeOK, TypeOK
  <2> QED BY <1>0, <1>1, <2>1, GotoFrames, IdlePlaces DEF PickUp, Labels
<1>2. CASE Return(j)
  BY <1>2, ThrownInHand DEF Return
<1>3. CASE \/ PrepareAssert(j) \/ PrepareWrite(j) \/ PrepareEnqueue(j)
           \/ DeepSecAssert(j) \/ DeepSecWrite(j) \/ DeepSecEnqueue(j)
  <2>1. CASE Throw(j)
    BY <2>1, ThrownInHand
  <2>2. CASE Goto(j, "write") /\ UNCHANGED jobState /\ jobState[j] = "active"
             /\ j.type \in {"prepare_repository", "run_deepsec"}
    BY <1>0, <2>2, GotoFrames, IdlePlaces DEF Labels
  <2>3. CASE PrepareWrite(j) \/ DeepSecWrite(j)
    BY <1>0, <2>3, GotoFrames, IdlePlaces DEF PrepareWrite, DeepSecWrite, WriteRunStatus, At, Labels
  <2>4. CASE PrepareEnqueue(j) \/ DeepSecEnqueue(j)
    BY <1>0, <2>4, StillActive, GotoFrames, IdlePlaces DEF PrepareEnqueue, DeepSecEnqueue, At, Labels
  <2> QED
    BY <1>3, <2>1, <2>2, <2>3, <2>4 DEF PrepareAssert, DeepSecAssert, AssertRunTransition, At
<1>4. CASE PrepareSnapshot(j)
  <2>1. j.type = "prepare_repository" /\ j.run \in snapshots'
    BY <1>0, <1>4 DEF PrepareSnapshot, At, PlaceOK, PlaceFits
  <2>2. frame'[j].at = "enqueue" /\ jobState'[j] = "active"
    BY <1>0, <1>4, GotoFrames DEF PrepareSnapshot, At, Labels
  <2> QED
    BY <2>1, <2>2 DEF InHand, LiveFrame, StageInHand, RoutingInHand, StrixInHand, GateInHand
<1>5. CASE ClassifyCreate(j)
  <2>1. CASE Throw(j)
    BY <2>1, ThrownInHand
  <2>2. CASE Goto(j, "read") /\ UNCHANGED jobState /\ j.run \in snapshots
             /\ classified' = classified \cup {j.run}
    <3>1. frame'[j].at = "read" /\ jobState'[j] = "active"
      BY <1>0, <1>5, <2>2, GotoFrames DEF ClassifyCreate, At, Labels
    <3> QED
      BY <1>5, <2>2, <3>1 DEF ClassifyCreate, InHand, LiveFrame, StageInHand, RoutingInHand,
                              StrixInHand, GateInHand
  <2> QED BY <1>5, <2>1, <2>2 DEF ClassifyCreate
<1>6. CASE ClassifyAssert(j) \/ ClassifyWrite(j)
  <2>1. CASE Throw(j)
    BY <2>1, ThrownInHand
  <2>2. CASE \E label \in {"write", "enqueue"} : Goto(j, label) /\ UNCHANGED jobState
    <3>1. frame'[j].at \in {"write", "enqueue"} /\ jobState'[j] = "active"
      BY <1>0, <1>6, <2>2, GotoFrames DEF ClassifyAssert, ClassifyWrite, At, Labels
    <3>2. j.run \in snapshots /\ j.run \in classified
      BY <1>0, <1>6 DEF ClassifyAssert, ClassifyWrite, At, InHand, StageInHand
    <3> QED
      BY <1>6, <3>1, <3>2 DEF ClassifyAssert, ClassifyWrite, AssertRunTransition, WriteRunStatus,
         storeVars, InHand, LiveFrame, StageInHand, RoutingInHand, StrixInHand, GateInHand
  <2> QED BY <1>6, <2>1, <2>2 DEF ClassifyAssert, ClassifyWrite, AssertRunTransition, WriteRunStatus
<1>7. CASE ClassifyEnqueue(j)
  BY <1>0, <1>7, StillActive, GotoFrames, IdlePlaces DEF ClassifyEnqueue, At, Labels
<1>8. CASE DeepSecLookup(j)
  <2>1. CASE Throw(j)
    BY <2>1, ThrownInHand
  <2>2. CASE UNCHANGED jobState /\
             \E new \in SUBSET {f \in Findings : ~Exists(f)} :
               frame' = [frame EXCEPT ![j].at = "persist", ![j].todo = new]
    <3>1. frame'[j].at = "persist" /\ jobState'[j] = "active"
      BY <1>0, <1>8, <2>2 DEF DeepSecLookup, At, Frames
    <3> QED BY <3>1, IdlePlaces
  <2> QED BY <1>8, <2>1, <2>2 DEF DeepSecLookup
<1>9. CASE DeepSecPersist(j)
  <2>1. CASE Throw(j)
    BY <2>1, ThrownInHand
  <2>2. CASE UNCHANGED jobState /\
             \E again \in SUBSET {f \in Findings : Exists(f)} : Reported(j, again)
    <3>1. /\ frame'[j].at = "read" /\ jobState'[j] = "active"
          /\ j.type \in {"run_deepsec", "run_deepsec_revalidation"}
      BY <1>0, <1>9, <2>2 DEF DeepSecPersist, Reported, At, Frames, PlaceOK, PlaceFits
    <3> QED BY <3>1, IdlePlaces
  <2> QED BY <1>9, <2>1, <2>2 DEF DeepSecPersist
<1> QED BY <1>1, <1>2, <1>3, <1>4, <1>5, <1>6, <1>7, <1>8, <1>9

\* A closed gate is closed: with the run-wide gates shut nothing is escalated.
LEMMA EscalationNeedsOpenGates ==
  ASSUME NEW j \in Jobs, NEW f, Escalates(RoutingInput(j, f))
  PROVE  frame[j].decided = "open"
BY DEF Escalates, GatesOpen, RoutingInput

LEMMA RoutingHandInHand ==
  ASSUME Typing, Safe, NEW j \in Jobs,
         \/ RoutingBegin(j) \/ RoutingDecide(j) \/ RoutingEscalate(j) \/ RoutingEnqueue(j)
         \/ RoutingCount(j) \/ RoutingAssert(j) \/ RoutingWrite(j)
  PROVE  InHand(j)'
<1>0. /\ frame \in [Jobs -> Frames] /\ frame[j] \in Frames
      /\ InHand(j) /\ PlaceOK(j) /\ j.run \in Runs
  BY JobFacts DEF Typing, PipelineTypeOK, TypeOK, PlacesOK, Safe, HandlersSafe
<1>1. CASE RoutingBegin(j)
  <2>1. PICK authorized, affordable \in BOOLEAN :
          /\ authorized => j.run \in Targets
          /\ frame' = [frame EXCEPT
               ![j].at = "route",
               ![j].todo = {f \in linked[j.run] : findingStatus[f] = "source_confirmed"},
               ![j].decided = IF authorized /\ affordable THEN "open" ELSE "shut"]
    BY <1>1 DEF RoutingBegin
  <2>2. /\ frame'[j].at = "route"
        /\ frame'[j].todo = {f \in linked[j.run] : findingStatus[f] = "source_confirmed"}
        /\ frame'[j].decided = IF authorized /\ affordable THEN "open" ELSE "shut"
    BY <1>0, <2>1 DEF Frames
  <2>3. frame'[j].decided = "open" => j.run \in Targets
    <3>1. CASE authorized /\ affordable
      BY <2>1, <3>1
    <3>2. CASE ~(authorized /\ affordable)
      <4>1. frame'[j].decided = "shut"
        BY <2>2, <3>2, Zenon
      <4> QED BY <4>1
    <3> QED BY <3>1, <3>2, Zenon
  <2>4. /\ j.type = "apply_routing_policy"
        /\ UNCHANGED <<linked, findingStatus, jobState>> /\ jobState[j] = "active"
    BY <1>1 DEF RoutingBegin, At, storeVars
  <2> QED
    BY <2>2, <2>3, <2>4 DEF InHand, LiveFrame, StageInHand, RoutingInHand, StrixInHand, GateInHand
<1>2. CASE RoutingDecide(j)
  <2>0. /\ j.type = "apply_routing_policy" /\ jobState[j] = "active"
        /\ frame[j].todo \subseteq linked[j.run]
        /\ \A f \in frame[j].todo : findingStatus[f] = "source_confirmed"
        /\ frame[j].decided = "open" => j.run \in Targets
        /\ UNCHANGED storeVars
    BY <1>0, <1>2 DEF RoutingDecide, At, PlaceOK, PlaceFits, InHand, RoutingInHand
  <2>1. PICK f \in frame[j].todo :
          IF ~Escalates(RoutingInput(j, f))
            THEN frame' = [frame EXCEPT ![j].todo = @ \ {f}] /\ UNCHANGED jobState
            ELSE IF CanTransitionFinding(findingStatus[f], "validation_queued")
            THEN /\ frame' = [frame EXCEPT ![j].at = "write_finding", ![j].finding = f,
                                           ![j].todo = @ \ {f}]
                 /\ UNCHANGED jobState
            ELSE Throw(j)
    BY <1>2 DEF RoutingDecide
  <2>2. CASE Throw(j)
    BY <2>2, ThrownInHand
  <2>3. CASE frame' = [frame EXCEPT ![j].todo = @ \ {f}] /\ UNCHANGED jobState
    <3>1. /\ frame'[j].at = "route" /\ frame'[j].todo = frame[j].todo \ {f}
          /\ frame'[j].decided = frame[j].decided
      BY <1>0, <1>2, <2>0, <2>3 DEF RoutingDecide, At, Frames
    <3> QED
      BY <2>0, <2>3, <3>1 DEF storeVars, InHand, LiveFrame, StageInHand, RoutingInHand,
                              StrixInHand, GateInHand
  <2>4. CASE /\ Escalates(RoutingInput(j, f))
             /\ CanTransitionFinding(findingStatus[f], "validation_queued")
             /\ frame' = [frame EXCEPT ![j].at = "write_finding", ![j].finding = f,
                                        ![j].todo = @ \ {f}]
             /\ UNCHANGED jobState
    <3>1. j.run \in Targets /\ f \in linked[j.run]
      BY <2>0, <2>4, EscalationNeedsOpenGates
    <3>2. findingStatus[f] = "source_confirmed"
      BY <2>0
    <3>3. /\ frame'[j].at = "write_finding" /\ frame'[j].finding = f
          /\ frame'[j].todo = frame[j].todo \ {f}
          /\ frame'[j].decided = frame[j].decided
      BY <1>0, <2>0, <2>4 DEF Frames
    <3> QED
      BY <2>0, <2>4, <3>1, <3>2, <3>3 DEF storeVars, InHand, LiveFrame, StageInHand,
         RoutingInHand, StrixInHand, GateInHand
  <2> QED BY <2>1, <2>2, <2>3, <2>4
<1>3. CASE RoutingEscalate(j)
  <2>1. frame'[j].at = "enqueue" /\ jobState'[j] = "active"
    BY <1>0, <1>3, GotoFrames DEF RoutingEscalate, At, Labels
  <2>2. frame'[j].todo = frame[j].todo /\ frame'[j].finding = frame[j].finding
        /\ frame'[j].decided = frame[j].decided
    BY <1>0, <1>3 DEF RoutingEscalate, Goto, Frames
  <2>3. /\ j.run \in Targets /\ frame[j].finding \in linked[j.run] \ frame[j].todo
        /\ frame[j].todo \subseteq linked[j.run]
        /\ \A f \in frame[j].todo : findingStatus[f] = "source_confirmed"
    BY <1>0, <1>3 DEF RoutingEscalate, At, InHand, RoutingInHand
  <2>4. linked[j.run] \subseteq linked'[j.run] /\ linked[j.run] \subseteq Findings
    BY <1>0, <1>3 DEF RoutingEscalate, Typing, PipelineTypeOK, TypeOK
  <2>5. /\ findingStatus'[frame[j].finding] = "validation_queued"
        /\ \A f \in frame[j].todo : findingStatus'[f] = "source_confirmed"
    BY <1>3, <2>3, <2>4 DEF RoutingEscalate, Typing, PipelineTypeOK, TypeOK
  <2> QED
    BY <1>3, <2>1, <2>2, <2>3, <2>4, <2>5 DEF RoutingEscalate, Early, InHand, LiveFrame,
       StageInHand, RoutingInHand, StrixInHand, GateInHand
<1>4. CASE RoutingEnqueue(j)
  <2>1. frame'[j].at = "route" /\ frame'[j].todo = frame[j].todo
        /\ frame'[j].decided = frame[j].decided
    BY <1>0, <1>4 DEF RoutingEnqueue, Goto, Frames
  <2>2. jobState'[j] = "active"
    BY <1>4, StillActive DEF RoutingEnqueue, At
  <2>3. /\ frame[j].todo \subseteq linked[j.run]
        /\ \A f \in frame[j].todo : findingStatus[f] = "source_confirmed"
        /\ frame[j].decided = "open" => j.run \in Targets
    BY <1>0, <1>4 DEF RoutingEnqueue, At, InHand, RoutingInHand
  <2> QED
    BY <1>4, <2>1, <2>2, <2>3 DEF RoutingEnqueue, storeVars, InHand, LiveFrame, StageInHand,
       RoutingInHand, StrixInHand, GateInHand
<1>5. CASE RoutingCount(j)
  <2>1. j.type = "apply_routing_policy" /\ jobState'[j] = "active"
    BY <1>0, <1>5 DEF RoutingCount, At, PlaceOK, PlaceFits
  <2>2. frame'[j].at \in {"read", "finalize"}
    BY <1>0, <1>5, GotoFrames DEF RoutingCount, Labels
  <2> QED BY <2>1, <2>2, IdlePlaces
<1>6. CASE RoutingAssert(j)
  <2>1. CASE Throw(j)
    BY <2>1, ThrownInHand
  <2>2. CASE Goto(j, "write") /\ UNCHANGED jobState
    BY <1>0, <1>6, <2>2, GotoFrames, IdlePlaces DEF RoutingAssert, At, Labels
  <2> QED BY <1>6, <2>1, <2>2 DEF RoutingAssert, AssertRunTransition
<1>7. CASE RoutingWrite(j)
  BY <1>0, <1>7, GotoFrames, IdlePlaces DEF RoutingWrite, WriteRunStatus, At, Labels
<1> QED BY <1>1, <1>2, <1>3, <1>4, <1>5, <1>6, <1>7

LEMMA StrixHandInHand ==
  ASSUME Typing, Safe, NEW j \in Jobs, StrixMission(j) \/ StrixPersist(j) \/ StrixCount(j)
  PROVE  InHand(j)'
<1>0. /\ frame \in [Jobs -> Frames] /\ frame[j] \in Frames
      /\ InHand(j) /\ PlaceOK(j) /\ FindingsSafe
  BY DEF Typing, PipelineTypeOK, TypeOK, PlacesOK, Safe, HandlersSafe
<1>1. CASE StrixMission(j)
  <2>1. CASE Throw(j)
    BY <2>1, ThrownInHand
  <2>2. ASSUME NEW verdict \in Verdicts,
               verdict = "failed" \/ CanTransitionFinding(findingStatus[j.finding], verdict),
               frame' = [frame EXCEPT ![j].at = "write_finding", ![j].decided = verdict],
               UNCHANGED jobState
        PROVE  InHand(j)'
    <3>1. /\ j.type = "run_strix_validation" /\ jobState'[j] = "active"
          /\ frame'[j].at = "write_finding" /\ frame'[j].decided = verdict
          /\ UNCHANGED findingStatus
      BY <1>0, <1>1, <2>2 DEF StrixMission, At, Frames, storeVars
    <3>2. findingStatus[j.finding] \in Reached \ Early
      BY <1>0, <1>1, JobFacts DEF StrixMission, At, FindingsSafe, Safe, StageInputsExist, Early
    <3>3. verdict \in Conclusive => findingStatus[j.finding] = "validation_queued"
      BY <2>2, <3>2, JudgedFromQueued DEF Conclusive
    <3> QED
      BY <3>1, <3>3 DEF InHand, LiveFrame, StageInHand, RoutingInHand, StrixInHand, GateInHand
  <2> QED BY <1>1, <2>1, <2>2 DEF StrixMission, Judges
<1>2. CASE StrixPersist(j)
  BY <1>0, <1>2, GotoFrames, IdlePlaces DEF StrixPersist, At, Labels
<1>3. CASE StrixCount(j)
  BY <1>0, <1>3, GotoFrames, IdlePlaces DEF StrixCount, At, Labels
<1> QED BY <1>1, <1>2, <1>3

\* finalizeRun decides on blocked only over a finding confirmed at runtime.
LEMMA BlockedDecision ==
  ASSUME Typing, Safe, NEW r \in Runs, Disposition(r) = "blocked"
  PROVE  ConfirmedEvidence(r)
<1>1. PICK f \in linked[r] : findingStatus[f] \in {"confirmed", "still_exploitable"}
  BY DEF Disposition
<1>2. f \in Findings /\ findingStatus[f] \in Reached
  BY DEF Typing, PipelineTypeOK, TypeOK, Safe, FindingsSafe
<1>3. findingStatus[f] = "confirmed"
  BY <1>1, <1>2 DEF Reached, Early, Conclusive, Verdicts
<1> QED BY <1>1, <1>2, <1>3 DEF ConfirmedEvidence, Safe, FindingsSafe

\* A receipt computed with a gate shows one the run had, and had recorded.
LEMMA ReceiptGate ==
  ASSUME Safe, NEW r \in Runs, ReceiptStatus(r) \in {"blocked", "awaiting_fix"}
  PROVE  ReceiptStatus(r) \in recorded[r]
BY DEF ReceiptStatus, Safe, GatesSafe

LEMMA SettlingInHand ==
  ASSUME Typing, Safe, NEW j \in Jobs,
         \/ FinalizeDecide(j) \/ FinalizeAssert(j) \/ FinalizeWrite(j)
         \/ FinalizeReceipt(j) \/ FinalizeAnnounce(j)
         \/ ReceiptGather(j) \/ ReceiptStore(j)
  PROVE  InHand(j)'
<1>0. /\ frame \in [Jobs -> Frames] /\ frame[j] \in Frames
      /\ InHand(j) /\ PlaceOK(j) /\ j.run \in Runs
  BY JobFacts DEF Typing, PipelineTypeOK, TypeOK, PlacesOK, Safe, HandlersSafe
<1> DEFINE settling == {"settle_read", "settle_write", "receipt", "announce"}
<1>1. ASSUME jobState'[j] = "active", frame'[j].at \in settling,
             frame'[j].decided = "blocked" => ConfirmedEvidence(j.run)'
      PROVE  InHand(j)'
  BY <1>1 DEF InHand, LiveFrame, StageInHand, RoutingInHand, StrixInHand, GateInHand
<1>2. ASSUME UNCHANGED <<validations, linked>>
      PROVE  ConfirmedEvidence(j.run)' <=> ConfirmedEvidence(j.run)
  BY <1>2 DEF ConfirmedEvidence
<1>3. CASE FinalizeDecide(j)
  <2>1. UNCHANGED <<validations, linked, jobState>> /\ jobState[j] = "active"
    BY <1>3 DEF FinalizeDecide, At, storeVars
  <2>2. CASE frame' = [frame EXCEPT ![j].at = "return"]
    BY <1>0, <2>1, <2>2, GotoFrames, IdlePlaces DEF Goto, Labels
  <2>3. CASE frame' = [frame EXCEPT ![j].at = "settle_read", ![j].decided = Disposition(j.run)]
    <3>1. frame'[j].at = "settle_read" /\ frame'[j].decided = Disposition(j.run)
      BY <1>0, <2>3 DEF Frames
    <3> QED BY <1>0, <1>1, <1>2, <2>1, <3>1, BlockedDecision
  <2> QED BY <1>3, <2>2, <2>3 DEF FinalizeDecide
<1>4. CASE FinalizeAssert(j) \/ FinalizeWrite(j) \/ FinalizeReceipt(j)
  <2>1. CASE Throw(j)
    BY <2>1, ThrownInHand
  <2>2. CASE ~Throw(j)
    <3>1. PICK label \in settling : Goto(j, label)
      BY <1>4, <2>2
         DEF FinalizeAssert, FinalizeWrite, FinalizeReceipt, AssertRunTransition, WriteRunStatus
    <3>2. frame'[j].at \in settling /\ frame'[j].decided = frame[j].decided
      BY <1>0, <3>1, GotoFrames DEF Labels
    <3>3. jobState'[j] = "active"
      BY <1>4, <2>2, StillActive
         DEF FinalizeAssert, FinalizeWrite, FinalizeReceipt, AssertRunTransition, WriteRunStatus, At
    <3>4. UNCHANGED <<validations, linked>>
      BY <1>4 DEF FinalizeAssert, FinalizeWrite, FinalizeReceipt, AssertRunTransition,
                  WriteRunStatus, storeVars
    <3>5. frame[j].decided = "blocked" => ConfirmedEvidence(j.run)
      BY <1>0, <1>4 DEF FinalizeAssert, FinalizeWrite, FinalizeReceipt, At, InHand, GateInHand
    <3> QED BY <1>1, <1>2, <3>2, <3>3, <3>4, <3>5
  <2> QED BY <2>1, <2>2
<1>5. CASE FinalizeAnnounce(j) \/ ReceiptStore(j)
  BY <1>0, <1>5, GotoFrames, IdlePlaces DEF FinalizeAnnounce, ReceiptStore, At, Labels
<1>6. CASE ReceiptGather(j)
  <2>1. /\ j.type = "generate_receipt" /\ jobState'[j] = "active"
        /\ frame'[j].at = "store" /\ frame'[j].decided = ReceiptStatus(j.run)
        /\ UNCHANGED recorded
    BY <1>0, <1>6 DEF ReceiptGather, At, Frames, storeVars
  <2> QED
    BY <1>0, <2>1, ReceiptGate DEF InHand, LiveFrame, StageInHand, RoutingInHand, StrixInHand,
                                   GateInHand
<1> QED BY <1>3, <1>4, <1>5, <1>6

LEMMA WorkHandlers ==
  ASSUME Typing, Safe, NEW j \in Jobs, Work(j)
  PROVE  HandlersSafe'
<1>1. InHand(j)'
  BY WorkActions, StagesInHand, RoutingHandInHand, StrixHandInHand, SettlingInHand
<1>2. \A k \in Jobs \ {j} : InHand(k)'
  BY OthersInHand
<1> QED BY <1>1, <1>2 DEF HandlersSafe

-----------------------------------------------------------------------------
(* The gates.                                                              *)

LEMMA WorkGates ==
  ASSUME Typing, Safe, NEW j \in Jobs, Work(j)
  PROVE  GatesSafe'
<1> USE DEF Typing, PipelineTypeOK, TypeOK
<1>0. /\ j.run \in Runs /\ GatesSafe /\ InHand(j) /\ PlaceOK(j) /\ Grows
      /\ UNCHANGED apiVars
  BY JobFacts, WorkGrows, WorkActions DEF Safe, HandlersSafe, PlacesOK
<1>1. \A r \in Runs : ConfirmedEvidence(r) => ConfirmedEvidence(r)'
  BY <1>0, EvidenceStays
<1>2. \A r \in Runs : runStatus'[r] = "blocked" => ConfirmedEvidence(r)'
  <2>1. CASE UNCHANGED runStatus
    BY <1>0, <1>1, <2>1 DEF GatesSafe
  <2>2. CASE PrepareWrite(j) \/ ClassifyWrite(j) \/ DeepSecWrite(j) \/ RoutingWrite(j)
    BY <1>0, <1>1, <2>2
       DEF GatesSafe, PrepareWrite, ClassifyWrite, DeepSecWrite, RoutingWrite, WriteRunStatus
  <2>3. CASE FinalizeWrite(j)
    <3>1. frame[j].decided = "blocked" => ConfirmedEvidence(j.run)
      BY <1>0, <2>3 DEF FinalizeWrite, At, InHand, GateInHand
    <3> QED BY <1>0, <1>1, <2>3, <3>1 DEF GatesSafe, FinalizeWrite, WriteRunStatus
  <2> QED BY <2>1, <2>2, <2>3, Writers
<1>3. \A r \in Runs : "blocked" \in announced'[r] => ConfirmedEvidence(r)'
  <2>1. CASE UNCHANGED announced
    BY <1>0, <1>1, <2>1 DEF GatesSafe
  <2>2. CASE FinalizeAnnounce(j)
    <3>1. frame[j].decided = "blocked" => ConfirmedEvidence(j.run)
      BY <1>0, <2>2 DEF FinalizeAnnounce, At, InHand, GateInHand
    <3> QED BY <1>0, <1>1, <2>2, <3>1 DEF GatesSafe, FinalizeAnnounce
  <2> QED BY <2>1, <2>2, Writers
<1>4. \A r \in Runs : runStatus'[r] \notin {"absent", "queued"} => runStatus'[r] \in recorded'[r]
  <2>1. CASE UNCHANGED <<runStatus, recorded>>
    BY <1>0, <2>1 DEF GatesSafe
  <2>2. ASSUME NEW to, NEW label, WriteRunStatus(j, to, label)
        PROVE  \A r \in Runs : runStatus'[r] \notin {"absent", "queued"}
                                 => runStatus'[r] \in recorded'[r]
    BY <1>0, <2>2 DEF GatesSafe, WriteRunStatus
  <2> QED
    BY <2>1, <2>2, Writers DEF PrepareWrite, ClassifyWrite, DeepSecWrite, RoutingWrite, FinalizeWrite
<1>5. GateReceiptsRecorded'
  <2>1. CASE UNCHANGED receipt
    BY <1>0, <2>1 DEF GatesSafe, GateReceiptsRecorded, Grows, apiVars
  <2>2. CASE ReceiptStore(j)
    <3>1. frame[j].decided \in {"blocked", "awaiting_fix"} => frame[j].decided \in recorded[j.run]
      BY <1>0, <2>2 DEF ReceiptStore, At, InHand, GateInHand
    <3> QED
      BY <1>0, <2>2, <3>1 DEF ReceiptStore, GatesSafe, GateReceiptsRecorded, Grows, apiVars
  <2> QED BY <2>1, <2>2, Writers
<1> QED BY <1>2, <1>3, <1>4, <1>5 DEF GatesSafe

-----------------------------------------------------------------------------
(* Clients, faults, and the whole.                                         *)

\* No step outside the handlers touches findings, and every handler keeps what
\* it relies on.
LEMMA ApiSafe ==
  ASSUME Typing, Safe, NEW r \in Runs, ApiStep(r)
  PROVE  Safe'
<1> USE DEF Typing, PipelineTypeOK, TypeOK
<1>1. /\ UNCHANGED <<findingStatus, linked, validations, snapshots, classified, announced, frame>>
      /\ \A q \in Runs : recorded[q] \subseteq recorded'[q]
  BY DEF ApiStep, CreateReview, EnqueuePrepare, CreateInterrupted, CancelAssert, CancelWrite,
         FetchGather, FetchStore, storeVars, queueVars
<1>2. FindingsSafe'
  BY <1>1, FindingsUntouched
<1>3. \A k \in Jobs : jobState'[k] = jobState[k]
                        \/ (jobState[k] = "none" /\ k = StageJob("prepare_repository", r))
  BY DEF ApiStep, CreateReview, EnqueuePrepare, CreateInterrupted, CancelAssert, CancelWrite,
         FetchGather, FetchStore, storeVars, queueVars, Enqueue
<1>4. StageInputsExist'
  BY <1>1, <1>3 DEF Safe, StageInputsExist, StageJob
<1>5. HandlersSafe'
  <2> SUFFICES ASSUME NEW k \in Jobs PROVE InHand(k)'
    BY DEF HandlersSafe
  <2>0. InHand(k) /\ k.run \in Runs
    BY JobFacts DEF Safe, HandlersSafe
  <2>1. LiveFrame(k)'
    BY <1>1, <1>3, <2>0 DEF InHand, LiveFrame
  <2>2. StageInHand(k)' /\ RoutingInHand(k)' /\ StrixInHand(k)'
    BY <1>1, <2>0 DEF InHand, StageInHand, RoutingInHand, StrixInHand
  <2>3. GateInHand(k)'
    BY <1>1, <2>0 DEF InHand, GateInHand, ConfirmedEvidence
  <2> QED BY <2>1, <2>2, <2>3 DEF InHand
<1>6. GatesSafe'
  <2>0. GatesSafe
    BY DEF Safe
  <2>1. \A q \in Runs : ConfirmedEvidence(q)' <=> ConfirmedEvidence(q)
    BY <1>1 DEF ConfirmedEvidence
  <2>2. \A q \in Runs : "blocked" \in announced'[q] => ConfirmedEvidence(q)'
    BY <1>1, <2>0, <2>1 DEF GatesSafe
  <2>3. \A q \in Runs : /\ runStatus'[q] = "blocked" => runStatus[q] = "blocked"
                        /\ runStatus'[q] \notin {"absent", "queued"}
                             => runStatus'[q] \in recorded'[q]
    BY <2>0 DEF GatesSafe, ApiStep, CreateReview, EnqueuePrepare, CreateInterrupted,
       CancelAssert, CancelWrite, FetchGather, FetchStore, storeVars, queueVars
  <2>4. GateReceiptsRecorded'
    <3>1. CASE FetchGather(r)
      <4>1. UNCHANGED <<receipt, recorded>> /\ fetching' = [fetching EXCEPT ![r] = ReceiptStatus(r)]
        BY <3>1 DEF FetchGather, storeVars
      <4> QED BY <2>0, <4>1, ReceiptGate DEF GatesSafe, GateReceiptsRecorded
    <3>2. CASE FetchStore(r)
      BY <2>0, <3>2 DEF FetchStore, GatesSafe, GateReceiptsRecorded
    <3>3. CASE UNCHANGED <<receipt, fetching>>
      BY <1>1, <2>0, <3>3 DEF GatesSafe, GateReceiptsRecorded
    <3> QED
      BY <3>1, <3>2, <3>3 DEF ApiStep, CreateReview, EnqueuePrepare, CreateInterrupted,
         CancelAssert, CancelWrite, storeVars
  <2> QED BY <2>0, <2>1, <2>2, <2>3, <2>4 DEF GatesSafe
<1> QED BY <1>2, <1>4, <1>5, <1>6 DEF Safe

\* A transient fault loses what a handler held, and nothing else.
LEMMA FaultSafe ==
  ASSUME Typing, Safe, NEW j \in Jobs, Fault(j)
  PROVE  Safe'
<1> USE DEF Typing, PipelineTypeOK, TypeOK
<1>1. UNCHANGED <<storeVars, apiVars>> /\ Throw(j) /\ jobState[j] = "active"
  BY DEF Fault, Interrupt
<1>2. FindingsSafe'
  BY <1>1, FindingsUntouched DEF storeVars
<1>3. GatesSafe'
  BY <1>1 DEF storeVars, apiVars, Safe, GatesSafe, GateReceiptsRecorded, ConfirmedEvidence
<1>4. StageInputsExist'
  BY <1>1 DEF storeVars, Throw, Safe, StageInputsExist
<1>5. HandlersSafe'
  <2>1. InHand(j)'
    BY <1>1, ThrownInHand
  <2>2. ASSUME NEW k \in Jobs \ {j} PROVE InHand(k)'
    <3>1. frame'[k] = frame[k] /\ jobState'[k] = jobState[k] /\ InHand(k)
      BY <1>1 DEF Throw, Safe, HandlersSafe
    <3> QED
      BY <1>1, <3>1 DEF storeVars, InHand, LiveFrame, StageInHand, RoutingInHand, StrixInHand,
                        GateInHand, ConfirmedEvidence
  <2> QED BY <2>1, <2>2 DEF HandlersSafe
<1> QED BY <1>2, <1>3, <1>4, <1>5 DEF Safe

LEMMA InitSafe == Init => Safe
<1> SUFFICES ASSUME Init PROVE Safe
  OBVIOUS
<1> USE DEF Init, ControlPlaneInit
<1>1. FindingsSafe
  BY DEF FindingsSafe, Reached, Early, LinkedApart, OneConclusiveVerdict
<1>2. GatesSafe
  BY DEF GatesSafe, GateReceiptsRecorded
<1>3. StageInputsExist
  BY DEF StageInputsExist
<1>4. HandlersSafe
  BY DEF HandlersSafe, InHand, LiveFrame, StageInHand, RoutingInHand, StrixInHand, GateInHand,
         IdleFrame
<1> QED BY <1>1, <1>2, <1>3, <1>4 DEF Safe

LEMMA StepSafe == Typing /\ Safe /\ [Next]_vars => Safe'
<1> SUFFICES ASSUME Typing, Safe, [Next]_vars PROVE Safe'
  OBVIOUS
<1>1. ASSUME NEW j \in Jobs, Work(j) PROVE Safe'
  BY <1>1, WorkFindings, WorkGates, WorkInputs, WorkHandlers DEF Safe
<1>2. ASSUME NEW j \in Jobs, Fault(j) PROVE Safe'
  BY <1>2, FaultSafe
<1>3. ASSUME NEW r \in Runs, ApiStep(r) PROVE Safe'
  BY <1>3, ApiSafe
<1>4. CASE UNCHANGED vars
  <2>1. UNCHANGED <<storeVars, queueVars, apiVars>>
    BY <1>4 DEF vars
  <2>2. FindingsSafe'
    BY <2>1, FindingsUntouched DEF storeVars
  <2>3. GatesSafe' /\ StageInputsExist'
    BY <2>1 DEF storeVars, queueVars, apiVars, Safe, GatesSafe, GateReceiptsRecorded,
                ConfirmedEvidence, StageInputsExist
  <2>4. HandlersSafe'
    BY <2>1 DEF storeVars, queueVars, Safe, HandlersSafe, InHand, LiveFrame, StageInHand,
                RoutingInHand, StrixInHand, GateInHand, ConfirmedEvidence
  <2> QED BY <2>2, <2>3, <2>4 DEF Safe
<1> QED BY <1>1, <1>2, <1>3, <1>4 DEF Next

\* The conjunction of the pipeline's safety properties with what its handlers
\* hold is an invariant.
THEOREM SafeInvariant == Spec => []Safe
<1>1. Init => Safe
  BY InitSafe
<1>2. Typing /\ Safe /\ [Next]_vars => Safe'
  BY StepSafe
<1> QED BY <1>1, <1>2, TypingInvariant, PTL DEF Spec

\* The hard gate is never raised on suspicion: a run that is blocked, about to
\* be, or announced as blocked has a finding confirmed at runtime.
THEOREM BlockedNeedsEvidence == Spec => []BlockedHasRuntimeEvidence
<1>1. Safe => BlockedHasRuntimeEvidence
  <2> SUFFICES ASSUME Safe, NEW r \in Runs,
                      \/ runStatus[r] = "blocked"
                      \/ "blocked" \in announced[r]
                      \/ \E j \in JobsOf(r) : At(j, "settle_write") /\ frame[j].decided = "blocked"
               PROVE  ConfirmedEvidence(r)
    BY DEF BlockedHasRuntimeEvidence
  <2>1. CASE runStatus[r] = "blocked" \/ "blocked" \in announced[r]
    BY <2>1 DEF Safe, GatesSafe
  <2>2. CASE \E j \in JobsOf(r) : At(j, "settle_write") /\ frame[j].decided = "blocked"
    BY <2>2 DEF JobsOf, At, Safe, HandlersSafe, InHand, GateInHand
  <2> QED BY <2>1, <2>2
<1> QED BY <1>1, SafeInvariant, PTL

\* A finding is judged conclusively at most once, whatever is retried or runs
\* side by side.
THEOREM JudgedOnce == Spec => []OneConclusiveVerdict
<1>1. Safe => OneConclusiveVerdict
  BY DEF Safe, FindingsSafe
<1> QED BY <1>1, SafeInvariant, PTL

\* Every queued job finds the inputs its handler reads first.
THEOREM InputsExist == Spec => []StageInputsExist
<1>1. Safe => StageInputsExist
  BY DEF Safe
<1> QED BY <1>1, SafeInvariant, PTL

\* A candidate for routing has no validation row.
THEOREM CandidatesAreUntested == Spec => []CandidatesUntested
<1>1. Safe => CandidatesUntested
  BY DEF Safe, FindingsSafe, CandidatesUntested, Early
<1> QED BY <1>1, SafeInvariant, PTL

\* At most one review answers for a finding.
OneAccountableRun ==
  \A r, s \in Reviews : r # s => linked[r] \cap linked[s] = {}

\* Only the review that first reported a finding counts it in its disposition and
\* its receipt and sends missions for it: nothing ties a later review to a finding
\* it reports again, the upsert records no audit event for that.  It is why a
\* confirmed finding that reappears blocks nothing (ReappearingIsGated).
THEOREM SingleAccountability == Spec => []OneAccountableRun
<1>1. Safe => OneAccountableRun
  BY DEF Safe, FindingsSafe, LinkedApart, OneAccountableRun, Reviews
<1> QED BY <1>1, SafeInvariant, PTL

\* A receipt never shows a gate the audit trail does not record.
THEOREM ReceiptsAreRecorded == Spec => []GateReceiptsRecorded
<1>1. Safe => GateReceiptsRecorded
  BY DEF Safe, GatesSafe
<1> QED BY <1>1, SafeInvariant, PTL

-----------------------------------------------------------------------------
(* Where each step of a handler leads.                                     *)

Thrown(j) == jobState'[j] \in {"waiting", "dead"} /\ frame'[j].at = "idle"
MovedTo(j, places) == jobState'[j] = "active" /\ frame'[j].at \in places

LEMMA ThrowThrows ==
  ASSUME Typing, NEW j \in Jobs, Throw(j)
  PROVE  Thrown(j)
BY DEF Throw, Thrown, IdleFrame, Typing, PipelineTypeOK, TypeOK

LEMMA GotoMoves ==
  ASSUME Typing, NEW j \in Jobs, NEW label \in Labels, Goto(j, label), jobState[j] = "active",
         UNCHANGED jobState \/ \E k : Enqueue(k)
  PROVE  MovedTo(j, {label})
BY GotoFrames, StillActive DEF MovedTo, Typing, PipelineTypeOK, TypeOK

LEMMA AssertMoves ==
  ASSUME Typing, NEW j \in Jobs, NEW to, NEW label \in Labels, AssertRunTransition(j, to, label),
         jobState[j] = "active"
  PROVE  Thrown(j) \/ MovedTo(j, {label})
BY ThrowThrows, GotoMoves DEF AssertRunTransition

LEMMA NextPlace ==
  ASSUME Typing, NEW j \in Jobs, Work(j)
  PROVE  /\ PickUp(j) => MovedTo(j, {"begin"})
         /\ Return(j) => jobState'[j] = "done" /\ frame'[j].at = "idle"
         /\ PrepareAssert(j) \/ ClassifyAssert(j) \/ DeepSecAssert(j) \/ RoutingAssert(j)
              => Thrown(j) \/ MovedTo(j, {"write"})
         /\ PrepareWrite(j) => MovedTo(j, {"snapshot"})
         /\ PrepareSnapshot(j) \/ ClassifyWrite(j) \/ DeepSecWrite(j) \/ RoutingEscalate(j)
              => MovedTo(j, {"enqueue"})
         /\ PrepareEnqueue(j) \/ ClassifyEnqueue(j) \/ DeepSecEnqueue(j) \/ RoutingWrite(j)
              \/ FinalizeAnnounce(j) \/ ReceiptStore(j)
              => MovedTo(j, {"return"})
         /\ ClassifyCreate(j) \/ DeepSecPersist(j) => Thrown(j) \/ MovedTo(j, {"read"})
         /\ DeepSecLookup(j) => Thrown(j) \/ MovedTo(j, {"persist"})
         /\ RoutingBegin(j) \/ RoutingEnqueue(j) => MovedTo(j, {"route"})
         /\ RoutingDecide(j) => Thrown(j) \/ MovedTo(j, {"route", "write_finding"})
         /\ RoutingCount(j) => MovedTo(j, {IF StillQueued(j.run) # {} THEN "read" ELSE "finalize"})
         /\ StrixMission(j) => Thrown(j) \/ MovedTo(j, {"write_finding"})
         /\ StrixPersist(j) => MovedTo(j, {"count"})
         /\ StrixCount(j) => MovedTo(j, {IF StillQueued(j.run) = {} THEN "finalize" ELSE "return"})
         /\ FinalizeDecide(j) =>
              MovedTo(j, {IF IsRunTerminal(runStatus[j.run]) THEN "return" ELSE "settle_read"})
         /\ FinalizeAssert(j) => Thrown(j) \/ MovedTo(j, {"settle_write"})
         /\ FinalizeWrite(j) => MovedTo(j, {"receipt"})
         /\ FinalizeReceipt(j) => MovedTo(j, {"announce"})
         /\ ReceiptGather(j) => MovedTo(j, {"store"})
<1>0. /\ frame \in [Jobs -> Frames] /\ jobState \in [Jobs -> JobStates] /\ frame[j] \in Frames
      /\ {"begin", "read", "write", "snapshot", "enqueue", "return", "route", "count", "finalize",
          "settle_write", "receipt", "announce", "persist", "write_finding", "settle_read", "store"}
           \subseteq Labels
  BY DEF Typing, PipelineTypeOK, TypeOK, Labels
<1>1. PickUp(j) => MovedTo(j, {"begin"})
  BY <1>0, GotoFrames DEF PickUp, MovedTo
<1>2. Return(j) => jobState'[j] = "done" /\ frame'[j].at = "idle"
  BY <1>0 DEF Return, IdleFrame
<1>3. PrepareAssert(j) \/ ClassifyAssert(j) \/ DeepSecAssert(j) \/ RoutingAssert(j)
        => Thrown(j) \/ MovedTo(j, {"write"})
  BY <1>0, AssertMoves DEF PrepareAssert, ClassifyAssert, DeepSecAssert, RoutingAssert, At
<1>4. PrepareWrite(j) => MovedTo(j, {"snapshot"})
  BY <1>0, GotoMoves DEF PrepareWrite, WriteRunStatus, At
<1>5. PrepareSnapshot(j) \/ ClassifyWrite(j) \/ DeepSecWrite(j) \/ RoutingEscalate(j)
        => MovedTo(j, {"enqueue"})
  BY <1>0, GotoMoves DEF PrepareSnapshot, ClassifyWrite, DeepSecWrite, RoutingEscalate, WriteRunStatus, At
<1>6. PrepareEnqueue(j) \/ ClassifyEnqueue(j) \/ DeepSecEnqueue(j) \/ RoutingWrite(j)
        \/ FinalizeAnnounce(j) \/ ReceiptStore(j)
        => MovedTo(j, {"return"})
  BY <1>0, GotoMoves DEF PrepareEnqueue, ClassifyEnqueue, DeepSecEnqueue, RoutingWrite, FinalizeAnnounce,
     ReceiptStore, WriteRunStatus, At
<1>7. ClassifyCreate(j) \/ DeepSecPersist(j) => Thrown(j) \/ MovedTo(j, {"read"})
  <2>1. CASE ClassifyCreate(j)
    BY <1>0, <2>1, GotoMoves, ThrowThrows DEF ClassifyCreate, At
  <2>2. CASE DeepSecPersist(j)
    BY <1>0, <2>2, ThrowThrows DEF DeepSecPersist, Reported, At, MovedTo, Frames
  <2> QED BY <2>1, <2>2
<1>8. DeepSecLookup(j) => Thrown(j) \/ MovedTo(j, {"persist"})
  BY <1>0, ThrowThrows DEF DeepSecLookup, At, MovedTo, Frames
<1>9. RoutingBegin(j) \/ RoutingEnqueue(j) => MovedTo(j, {"route"})
  <2>1. CASE RoutingBegin(j)
    <3>1. PICK todo, decided : frame' = [frame EXCEPT ![j].at = "route", ![j].todo = todo, ![j].decided = decided]
      BY <2>1 DEF RoutingBegin
    <3> QED BY <1>0, <2>1, <3>1 DEF RoutingBegin, At, MovedTo, Frames
  <2>2. CASE RoutingEnqueue(j)
    BY <1>0, <2>2, GotoMoves DEF RoutingEnqueue, At
  <2> QED BY <2>1, <2>2, Zenon
<1>10. RoutingDecide(j) => Thrown(j) \/ MovedTo(j, {"route", "write_finding"})
  BY <1>0, ThrowThrows DEF RoutingDecide, At, MovedTo, Frames
<1>11. RoutingCount(j) => MovedTo(j, {IF StillQueued(j.run) # {} THEN "read" ELSE "finalize"})
  BY <1>0, GotoMoves DEF RoutingCount, At
<1>12. StrixMission(j) => Thrown(j) \/ MovedTo(j, {"write_finding"})
  BY <1>0, ThrowThrows DEF StrixMission, At, MovedTo, Frames
<1>13. StrixPersist(j) => MovedTo(j, {"count"})
  BY <1>0, GotoMoves DEF StrixPersist, At
<1>14. StrixCount(j) => MovedTo(j, {IF StillQueued(j.run) = {} THEN "finalize" ELSE "return"})
  BY <1>0, GotoMoves DEF StrixCount, At
<1>15. FinalizeDecide(j) =>
         MovedTo(j, {IF IsRunTerminal(runStatus[j.run]) THEN "return" ELSE "settle_read"})
  BY <1>0 DEF FinalizeDecide, At, MovedTo, Frames
<1>16. FinalizeAssert(j) => Thrown(j) \/ MovedTo(j, {"settle_write"})
  BY <1>0, AssertMoves DEF FinalizeAssert, At
<1>17. FinalizeWrite(j) => MovedTo(j, {"receipt"})
  BY <1>0, GotoMoves DEF FinalizeWrite, WriteRunStatus, At
<1>18. FinalizeReceipt(j) => MovedTo(j, {"announce"})
  BY <1>0, GotoMoves DEF FinalizeReceipt, At
<1>19. ReceiptGather(j) => MovedTo(j, {"store"})
  BY <1>0 DEF ReceiptGather, At, MovedTo, Frames
<1> QED
  BY <1>1, <1>2, <1>3, <1>4, <1>5, <1>6, <1>7, <1>8, <1>9, <1>10, <1>11, <1>12, <1>13, <1>14, <1>15,
     <1>16, <1>17, <1>18, <1>19

-----------------------------------------------------------------------------
(* What carries a run to its disposition.                                  *)

RoutingJob(r) == StageJob("apply_routing_policy", r)

\* A job that a worker has or will take, or that waits for an operator in the
\* dead letters; and a job whose work is done.
Carries(j) == jobState[j] \in {"waiting", "dead"} \/ (jobState[j] = "active" /\ frame[j].at # "return")
Left(j) == jobState[j] = "done" \/ At(j, "return")

HasEnded(r) == recorded[r] \cap Disposed # {}

\* What routing may leave a run to: the end, a finding that is to be tested, or
\* a mission that will look whether it was the last.
Handed(r) == HasEnded(r) \/ StillQueued(r) # {} \/ \E f \in Findings : Carries(StrixJob(r, f))

\* What the job of a stage has passed the run on to when its work is done.
Passed(j) ==
  /\ j.type = "prepare_repository" => jobState[StageJob("classify_change", j.run)] # "none"
  /\ j.type = "classify_change" => jobState[StageJob("run_deepsec", j.run)] # "none"
  /\ j.type = "run_deepsec" => jobState[RoutingJob(j.run)] # "none"
  /\ j.type = "apply_routing_policy" => Handed(j.run)

\* Why a job is there.
Summoned(j) ==
  /\ j.type = "generate_receipt" => HasEnded(j.run)
  /\ j.type = "run_strix_validation" => jobState[RoutingJob(j.run)] # "none"
  /\ j.type \notin {"run_deepsec_revalidation", "run_strix_retest"}
  /\ runStatus[j.run] # "absent"

\* The places of finalizeRun, and the mission that has persisted its verdict.
Settling == {"finalize", "settle_read", "settle_write", "receipt", "announce"}
Finalizers == {"apply_routing_policy", "run_strix_validation"}
Tested(j) == Left(j) \/ frame[j].at \in Settling \cup {"count"}

FailedOn(f) == \E v \in validations : v.finding = f /\ v.verdict = "failed"

Progress(j) ==
  /\ Left(j) => Passed(j)
  /\ jobState[j] # "none" => Summoned(j)
  /\ j.type = "apply_routing_policy" /\ frame[j].at \in {"read", "write"} => Handed(j.run)
  /\ frame[j].at \in Settling => j.type \in Finalizers
  /\ frame[j].at \in {"receipt", "announce"} => HasEnded(j.run)
  /\ j.type = "run_strix_validation" /\ Tested(j) /\ findingStatus[j.finding] = "validation_queued"
       => FailedOn(j.finding)

ProgressInv ==
  /\ \A r \in creating : runStatus[r] # "absent"
  /\ \A j \in Jobs : Progress(j)

\* Which handler a step belongs to, by the type of its job: a review has no job of the
\* handlers of a fix, and only those that finalize a run are where runs are finalized.
FitsType(j) ==
  /\ jobState[j] # "none" => j.type \notin {"run_deepsec_revalidation", "run_strix_retest"}
  /\ frame[j].at \in Settling => j.type \in Finalizers

LEMMA ActionsOfType ==
  ASSUME Typing, NEW j \in Jobs, FitsType(j), Work(j)
  PROVE  \/ PickUp(j) \/ Return(j)
         \/ /\ j.type = "prepare_repository"
            /\ PrepareAssert(j) \/ PrepareWrite(j) \/ PrepareSnapshot(j) \/ PrepareEnqueue(j)
         \/ /\ j.type = "classify_change"
            /\ ClassifyCreate(j) \/ ClassifyAssert(j) \/ ClassifyWrite(j) \/ ClassifyEnqueue(j)
         \/ /\ j.type = "run_deepsec"
            /\ \/ DeepSecLookup(j) \/ DeepSecPersist(j)
               \/ DeepSecAssert(j) \/ DeepSecWrite(j) \/ DeepSecEnqueue(j)
         \/ /\ j.type = "apply_routing_policy"
            /\ \/ RoutingBegin(j) \/ RoutingDecide(j) \/ RoutingEscalate(j) \/ RoutingEnqueue(j)
               \/ RoutingCount(j) \/ RoutingAssert(j) \/ RoutingWrite(j)
         \/ /\ j.type = "run_strix_validation"
            /\ StrixMission(j) \/ StrixPersist(j) \/ StrixCount(j)
         \/ /\ j.type \in Finalizers
            /\ \/ FinalizeDecide(j) \/ FinalizeAssert(j) \/ FinalizeWrite(j)
               \/ FinalizeReceipt(j) \/ FinalizeAnnounce(j)
         \/ j.type = "generate_receipt" /\ (ReceiptGather(j) \/ ReceiptStore(j))
<1>1. PlaceOK(j) /\ FitsType(j)
  BY DEF Typing, PlacesOK
<1>2. PrepareSnapshot(j) => j.type = "prepare_repository"
  BY <1>1 DEF PrepareSnapshot, At, PlaceOK, PlaceFits
<1>3. DeepSecPersist(j) => j.type = "run_deepsec"
  BY <1>1 DEF DeepSecPersist, At, PlaceOK, PlaceFits, FitsType
<1>4. RoutingDecide(j) \/ RoutingCount(j) => j.type = "apply_routing_policy"
  BY <1>1 DEF RoutingDecide, RoutingCount, At, PlaceOK, PlaceFits
<1>5. StrixCount(j) => j.type = "run_strix_validation"
  BY <1>1 DEF StrixCount, At, PlaceOK, PlaceFits
<1>6. FinalizeDecide(j) \/ FinalizeAssert(j) \/ FinalizeWrite(j)
        \/ FinalizeReceipt(j) \/ FinalizeAnnounce(j)
        => j.type \in Finalizers
  BY <1>1 DEF FinalizeDecide, FinalizeAssert, FinalizeWrite, FinalizeReceipt, FinalizeAnnounce, At,
              FitsType, Settling
<1>7. ReceiptStore(j) => j.type = "generate_receipt"
  BY <1>1 DEF ReceiptStore, At, PlaceOK, PlaceFits
<1>8. /\ PrepareAssert(j) \/ PrepareWrite(j) \/ PrepareEnqueue(j) => j.type = "prepare_repository"
      /\ ClassifyCreate(j) \/ ClassifyAssert(j) \/ ClassifyWrite(j) \/ ClassifyEnqueue(j)
           => j.type = "classify_change"
      /\ DeepSecLookup(j) \/ DeepSecAssert(j) \/ DeepSecWrite(j) \/ DeepSecEnqueue(j)
           => j.type = "run_deepsec"
  BY DEF PrepareAssert, PrepareWrite, PrepareEnqueue, ClassifyCreate, ClassifyAssert, ClassifyWrite,
         ClassifyEnqueue, DeepSecLookup, DeepSecAssert, DeepSecWrite, DeepSecEnqueue
<1>9. /\ RoutingBegin(j) \/ RoutingEscalate(j) \/ RoutingEnqueue(j) \/ RoutingAssert(j) \/ RoutingWrite(j)
           => j.type = "apply_routing_policy"
      /\ StrixMission(j) \/ StrixPersist(j) => j.type = "run_strix_validation"
      /\ ReceiptGather(j) => j.type = "generate_receipt"
  BY DEF RoutingBegin, RoutingEscalate, RoutingEnqueue, RoutingAssert, RoutingWrite, StrixMission,
         StrixPersist, ReceiptGather
<1>10. CASE PrepareAssert(j) \/ PrepareWrite(j) \/ PrepareSnapshot(j) \/ PrepareEnqueue(j)
  BY <1>2, <1>8, <1>10
<1>11. CASE ClassifyCreate(j) \/ ClassifyAssert(j) \/ ClassifyWrite(j) \/ ClassifyEnqueue(j)
  BY <1>8, <1>11
<1>12. CASE \/ DeepSecLookup(j) \/ DeepSecPersist(j)
            \/ DeepSecAssert(j) \/ DeepSecWrite(j) \/ DeepSecEnqueue(j)
  BY <1>3, <1>8, <1>12
<1>13. CASE \/ RoutingBegin(j) \/ RoutingDecide(j) \/ RoutingEscalate(j) \/ RoutingEnqueue(j)
            \/ RoutingCount(j) \/ RoutingAssert(j) \/ RoutingWrite(j)
  BY <1>4, <1>9, <1>13
<1>14. CASE StrixMission(j) \/ StrixPersist(j) \/ StrixCount(j)
  BY <1>5, <1>9, <1>14
<1>15. CASE \/ FinalizeDecide(j) \/ FinalizeAssert(j) \/ FinalizeWrite(j)
            \/ FinalizeReceipt(j) \/ FinalizeAnnounce(j)
  <2>1. j.type \in Finalizers
    BY <1>6, <1>15
  <2> QED BY <1>15, <2>1
<1>16. CASE ReceiptGather(j) \/ ReceiptStore(j)
  BY <1>7, <1>9, <1>16
<1> QED BY <1>10, <1>11, <1>12, <1>13, <1>14, <1>15, <1>16, WorkActions

\* The jobs of the reviews are all of the pipeline's types.
LEMMA PipelineTypes ==
  ASSUME ProgressInv, NEW j \in Jobs
  PROVE  FitsType(j)
BY DEF ProgressInv, Progress, Summoned, FitsType

LEMMA ActionsByType ==
  ASSUME Typing, ProgressInv, NEW j \in Jobs, Work(j)
  PROVE  \/ PickUp(j) \/ Return(j)
         \/ /\ j.type = "prepare_repository"
            /\ PrepareAssert(j) \/ PrepareWrite(j) \/ PrepareSnapshot(j) \/ PrepareEnqueue(j)
         \/ /\ j.type = "classify_change"
            /\ ClassifyCreate(j) \/ ClassifyAssert(j) \/ ClassifyWrite(j) \/ ClassifyEnqueue(j)
         \/ /\ j.type = "run_deepsec"
            /\ \/ DeepSecLookup(j) \/ DeepSecPersist(j)
               \/ DeepSecAssert(j) \/ DeepSecWrite(j) \/ DeepSecEnqueue(j)
         \/ /\ j.type = "apply_routing_policy"
            /\ \/ RoutingBegin(j) \/ RoutingDecide(j) \/ RoutingEscalate(j) \/ RoutingEnqueue(j)
               \/ RoutingCount(j) \/ RoutingAssert(j) \/ RoutingWrite(j)
         \/ /\ j.type = "run_strix_validation"
            /\ StrixMission(j) \/ StrixPersist(j) \/ StrixCount(j)
         \/ /\ j.type \in Finalizers
            /\ \/ FinalizeDecide(j) \/ FinalizeAssert(j) \/ FinalizeWrite(j)
               \/ FinalizeReceipt(j) \/ FinalizeAnnounce(j)
         \/ j.type = "generate_receipt" /\ (ReceiptGather(j) \/ ReceiptStore(j))
BY PipelineTypes, ActionsOfType

\* What has ended stays so: the audit trail only grows.
LEMMA EndedStays ==
  ASSUME NEW r \in Runs, HasEnded(r), recorded[r] \subseteq recorded'[r]
  PROVE  HasEnded(r)'
BY DEF HasEnded

\* The statuses without a successor.
LEMMA TerminalStatuses ==
  ASSUME NEW s \in RunStatuses, IsRunTerminal(s)
  PROVE  s \in {"completed", "blocked", "failed", "cancelled"}
<1>1. \A t \in RunStatuses \ {"completed", "blocked", "failed", "cancelled"} :
         <<t, "cancelled">> \in RunEdges
  BY DEF RunStatuses, RunEdges, InProgress
<1> QED BY <1>1 DEF IsRunTerminal, CanTransitionRun, RunStatuses

\* A run in a terminal status has that status in its audit trail.
LEMMA TerminalHasEnded ==
  ASSUME Typing, Safe, NEW r \in Runs, runStatus[r] # "absent", IsRunTerminal(runStatus[r])
  PROVE  HasEnded(r)
<1>1. runStatus[r] \in {"completed", "blocked", "failed", "cancelled"}
  BY TerminalStatuses DEF Typing, PipelineTypeOK, TypeOK
<1> QED BY <1>1 DEF Safe, GatesSafe, HasEnded, Disposed, Dispositions

\* No step of a handler makes a run or a job vanish, or an added job begin.
LEMMA WorkKeeps ==
  ASSUME Typing, NEW j \in Jobs, Work(j)
  PROVE  /\ \A r \in Runs : runStatus[r] # "absent" => runStatus'[r] # "absent"
         /\ \A k \in Jobs : jobState[k] # "none" => jobState'[k] # "none"
         /\ \A k \in Jobs \ {j} : jobState[k] = "none" => jobState'[k] \in {"none", "waiting"}
<1> USE DEF Typing, PipelineTypeOK, TypeOK
<1>1. \A r \in Runs : runStatus[r] # "absent" => runStatus'[r] # "absent"
  <2>1. CASE PrepareWrite(j) \/ ClassifyWrite(j) \/ DeepSecWrite(j) \/ RoutingWrite(j)
    BY <2>1 DEF PrepareWrite, ClassifyWrite, DeepSecWrite, RoutingWrite, WriteRunStatus
  <2>2. CASE FinalizeWrite(j)
    <3>1. frame[j].decided # "absent"
      BY <2>2 DEF FinalizeWrite, At, PlacesOK, PlaceOK, PlaceFits, Dispositions
    <3> QED BY <2>2, <3>1 DEF FinalizeWrite, WriteRunStatus
  <2> QED BY <2>1, <2>2, Writers
<1>2. CASE PickUp(j)
  BY <1>1, <1>2 DEF PickUp
<1>3. CASE ~PickUp(j)
  BY <1>1, <1>3, WorkKinds DEF Return, Throw, Enqueue
<1> QED BY <1>2, <1>3

\* A mission at work on its run stays so until it has counted those left, or the
\* run has ended.
LEMMA MissionCarriesOn ==
  ASSUME Typing, Safe, ProgressInv, NEW j \in Jobs, Work(j), j.type = "run_strix_validation", Carries(j)
  PROVE  Carries(j)' \/ Handed(j.run)'
<1>1. \/ PickUp(j) \/ Return(j) \/ StrixMission(j) \/ StrixPersist(j) \/ StrixCount(j)
      \/ FinalizeDecide(j) \/ FinalizeAssert(j) \/ FinalizeWrite(j)
      \/ FinalizeReceipt(j) \/ FinalizeAnnounce(j)
  BY ActionsByType
<1>2. ~Return(j)
  BY DEF Return, At, Carries
<1>3. /\ j.run \in Runs /\ Grows /\ Progress(j)
      /\ \A r \in Runs : HasEnded(r) => HasEnded(r)'
  BY JobFacts, WorkGrows, EndedStays DEF Grows, ProgressInv
<1>5. CASE \/ PickUp(j) \/ StrixMission(j) \/ StrixPersist(j) \/ FinalizeAssert(j) \/ FinalizeWrite(j)
           \/ FinalizeReceipt(j)
  BY <1>5, NextPlace DEF Thrown, MovedTo, Carries
<1>6. CASE StrixCount(j)
  <2>1. CASE StillQueued(j.run) = {}
    BY <1>6, <2>1, NextPlace DEF MovedTo, Carries
  <2>2. CASE StillQueued(j.run) # {}
    <3>1. StillQueued(j.run)' = StillQueued(j.run)
      BY <1>6 DEF StrixCount, storeVars, StillQueued
    <3> QED BY <2>2, <3>1 DEF Handed
  <2> QED BY <2>1, <2>2
<1>7. CASE FinalizeDecide(j)
  <2>1. CASE ~IsRunTerminal(runStatus[j.run])
    BY <1>7, <2>1, NextPlace DEF MovedTo, Carries
  <2>2. CASE IsRunTerminal(runStatus[j.run])
    <3>1. runStatus[j.run] # "absent"
      BY <1>3, <1>7 DEF FinalizeDecide, At, Progress, Summoned
    <3> QED BY <1>3, <2>2, <3>1, TerminalHasEnded DEF Handed
  <2> QED BY <2>1, <2>2
<1>8. CASE FinalizeAnnounce(j)
  BY <1>3, <1>8 DEF FinalizeAnnounce, At, Progress, Handed
<1> QED BY <1>1, <1>2, <1>5, <1>6, <1>7, <1>8

\* A run that was handed to its missions stays in their hands until it ends.
LEMMA HandedStays ==
  ASSUME Typing, Safe, ProgressInv, NEW j \in Jobs, Work(j), NEW r \in Runs, Handed(r)
  PROVE  Handed(r)'
<1>1. Grows /\ FindingMoves(j)
  BY WorkGrows, WorkMovesFindings
<1>2. CASE HasEnded(r)
  BY <1>1, <1>2, EndedStays DEF Grows, Handed
<1>3. ASSUME NEW f \in StillQueued(r)
      PROVE  Handed(r)'
  <2>1. f \in Findings /\ f \in linked[r] /\ f \in linked'[r] /\ findingStatus[f] = "validation_queued"
    BY <1>1, <1>3 DEF Grows, StillQueued, Typing, PipelineTypeOK, TypeOK
  <2>2. CASE findingStatus'[f] = "validation_queued"
    BY <2>1, <2>2 DEF StillQueued, Handed
  <2>3. CASE findingStatus'[f] # "validation_queued"
    <3>1. /\ j.type = "run_strix_validation" /\ frame[j].at = "write_finding" /\ f = j.finding
      BY <1>1, <2>1, <2>3 DEF FindingMoves, Exists
    <3>2. StrixPersist(j)
      BY <2>1, <2>3, <3>1, Writers DEF DeepSecPersist, RoutingEscalate, At
    <3>3. j = StrixJob(r, f)
      <4>1. j.finding \in linked[j.run] /\ j.run \in Runs
        BY <3>1, <3>2, JobFacts DEF StrixPersist, At, Safe, StageInputsExist
      <4>2. j.run = r
        BY <2>1, <3>1, <4>1 DEF Safe, FindingsSafe, LinkedApart
      <4> QED BY <3>1, <4>2 DEF Jobs, StageTypes, FindingTypes, StrixJob, FindingJob
    <3>4. MovedTo(j, {"count"})
      BY <3>2, NextPlace
    <3> QED BY <2>1, <3>3, <3>4 DEF MovedTo, Carries, Handed
  <2> QED BY <2>2, <2>3
<1>4. ASSUME NEW f \in Findings, Carries(StrixJob(r, f))
      PROVE  Handed(r)'
  <2> DEFINE k == StrixJob(r, f)
  <2>1. k \in Jobs /\ k.type = "run_strix_validation" /\ k.run = r
    BY JobFacts DEF StrixJob, FindingJob
  <2>2. CASE k = j
    BY <1>4, <2>1, <2>2, MissionCarriesOn DEF Handed
  <2>3. CASE k # j
    <3>1. frame'[k] = frame[k] /\ jobState'[k] = jobState[k]
      BY <1>4, <2>1, <2>3, OnlyOwnJob DEF Carries
    <3> QED BY <1>4, <3>1 DEF Carries, Handed
  <2> QED BY <2>2, <2>3
<1> QED BY <1>2, <1>3, <1>4 DEF Handed

\* Who adds which job.
LEMMA Adders ==
  ASSUME Typing, NEW j \in Jobs, Work(j), NEW k \in Jobs, jobState[k] = "none", jobState'[k] # "none"
  PROVE  /\ k.run = j.run
         /\ \/ PrepareEnqueue(j) /\ k.type = "classify_change"
            \/ ClassifyEnqueue(j) /\ k.type = "run_deepsec"
            \/ DeepSecEnqueue(j) /\ k.type = "apply_routing_policy"
            \/ RoutingEnqueue(j) /\ k.type = "run_strix_validation"
            \/ FinalizeReceipt(j) /\ k.type = "generate_receipt"
<1>1. jobState \in [Jobs -> JobStates]
  BY DEF Typing, PipelineTypeOK, TypeOK
<1>2. CASE PrepareEnqueue(j) \/ ClassifyEnqueue(j) \/ DeepSecEnqueue(j)
  BY <1>1, <1>2 DEF PrepareEnqueue, ClassifyEnqueue, DeepSecEnqueue, Enqueue, StageJob
<1>3. CASE RoutingEnqueue(j)
  BY <1>1, <1>3 DEF RoutingEnqueue, Enqueue, StrixJob, FindingJob
<1>4. CASE FinalizeReceipt(j)
  BY <1>1, <1>4 DEF FinalizeReceipt, Enqueue, StageJob
<1>5. CASE PickUp(j) \/ Return(j)
  BY <1>1, <1>5 DEF PickUp, Return, At
<1>6. CASE \/ PrepareAssert(j) \/ ClassifyAssert(j) \/ DeepSecAssert(j)
           \/ RoutingAssert(j) \/ FinalizeAssert(j)
  BY <1>1, <1>6 DEF PrepareAssert, ClassifyAssert, DeepSecAssert, RoutingAssert, FinalizeAssert,
                    AssertRunTransition, Throw, At
<1>7. CASE ClassifyCreate(j) \/ DeepSecLookup(j) \/ DeepSecPersist(j)
           \/ RoutingDecide(j) \/ StrixMission(j)
  BY <1>1, <1>7 DEF ClassifyCreate, DeepSecLookup, DeepSecPersist, RoutingDecide, StrixMission, Throw, At
<1>8. CASE UNCHANGED jobState
  BY <1>8
<1> QED
  BY <1>2, <1>3, <1>4, <1>5, <1>6, <1>7, <1>8, WorkActions
     DEF PrepareWrite, PrepareSnapshot, ClassifyWrite, DeepSecWrite, RoutingBegin,
         RoutingEscalate, RoutingCount, RoutingWrite, StrixPersist, StrixCount,
         FinalizeDecide, FinalizeWrite, FinalizeAnnounce, ReceiptGather, ReceiptStore,
         WriteRunStatus

\* A job is only ever added by one whose run is where the job belongs.
LEMMA AddedAreSummoned ==
  ASSUME Typing, Safe, ProgressInv, NEW j \in Jobs, Work(j),
         NEW k \in Jobs, jobState[k] = "none", jobState'[k] # "none"
  PROVE  Summoned(k)'
<1>1. /\ j.run \in Runs /\ Progress(j)
      /\ \A r \in Runs : runStatus[r] # "absent" => runStatus'[r] # "absent"
      /\ \A r \in Runs : HasEnded(r) => HasEnded(r)'
      /\ \A i \in Jobs : jobState[i] # "none" => jobState'[i] # "none"
  BY JobFacts, WorkKeeps, WorkGrows, EndedStays DEF ProgressInv, Grows
<1>2. k.run = j.run /\ jobState[j] # "none"
  BY Adders, WorkKinds DEF PickUp
<1>3. runStatus'[k.run] # "absent"
  BY <1>1, <1>2 DEF Progress, Summoned
<1>4. CASE k.type \in {"classify_change", "run_deepsec", "apply_routing_policy"}
  BY <1>3, <1>4 DEF Summoned
<1>5. CASE RoutingEnqueue(j) /\ k.type = "run_strix_validation"
  <2>1. j = RoutingJob(j.run)
    BY <1>5 DEF RoutingEnqueue, RoutingJob, Jobs, StageTypes, FindingTypes, StageJob
  <2> QED BY <1>1, <1>2, <1>3, <1>5, <2>1 DEF Summoned
<1>6. CASE FinalizeReceipt(j) /\ k.type = "generate_receipt"
  BY <1>1, <1>2, <1>3, <1>6 DEF FinalizeReceipt, At, Progress, Summoned
<1> QED BY <1>4, <1>5, <1>6, Adders

\* A job that was there keeps its reason and what it has passed the run on to.
LEMMA ReasonsStay ==
  ASSUME NEW k \in Jobs,
         \A r \in Runs : runStatus[r] # "absent" => runStatus'[r] # "absent",
         \A r \in Runs : HasEnded(r) => HasEnded(r)',
         \A r \in Runs : Handed(r) => Handed(r)',
         \A i \in Jobs : jobState[i] # "none" => jobState'[i] # "none"
  PROVE  /\ Summoned(k) => Summoned(k)'
         /\ Passed(k) => Passed(k)'
<1>1. /\ k.run \in Runs /\ RoutingJob(k.run) \in Jobs
      /\ StageJob("classify_change", k.run) \in Jobs /\ StageJob("run_deepsec", k.run) \in Jobs
  BY JobFacts DEF StageTypes, RoutingJob
<1>2. Summoned(k) => Summoned(k)'
  BY <1>1 DEF Summoned, RoutingJob
<1>3. Passed(k) => Passed(k)'
  BY <1>1 DEF Passed, RoutingJob
<1> QED BY <1>2, <1>3

LEMMA WorkKeepsReasons ==
  ASSUME Typing, Safe, ProgressInv, NEW j \in Jobs, Work(j), NEW k \in Jobs
  PROVE  /\ Summoned(k) => Summoned(k)'
         /\ Passed(k) => Passed(k)'
<1>1. /\ \A r \in Runs : HasEnded(r) => HasEnded(r)'
      /\ \A r \in Runs : Handed(r) => Handed(r)'
  BY WorkGrows, EndedStays, HandedStays DEF Grows
<1>2. /\ \A r \in Runs : runStatus[r] # "absent" => runStatus'[r] # "absent"
      /\ \A i \in Jobs : jobState[i] # "none" => jobState'[i] # "none"
  BY WorkKeeps
<1> QED BY <1>1, <1>2, ReasonsStay

\* A mission that is over was for a finding it judged, or recorded as failed.
LEMMA TestedStays ==
  ASSUME Typing, Safe, ProgressInv, NEW j \in Jobs, Work(j), NEW k \in Jobs,
         k.type = "run_strix_validation", jobState[k] # "none",
         findingStatus[k.finding] = "validation_queued" => FailedOn(k.finding),
         findingStatus'[k.finding] = "validation_queued"
  PROVE  FailedOn(k.finding)'
<1>1. FindingMoves(j) /\ Grows /\ k.finding \in Findings
  BY WorkMovesFindings, WorkGrows, JobFacts
<1>2. findingStatus[k.finding] \notin {"absent", "suspected", "source_confirmed"}
  BY DEF Safe, StageInputsExist
<1>3. findingStatus[k.finding] = "validation_queued"
  BY <1>1, <1>2 DEF FindingMoves, Conclusive, Verdicts
<1> QED BY <1>1, <1>3 DEF FailedOn, Grows

LEMMA OthersProgress ==
  ASSUME Typing, Safe, ProgressInv, NEW j \in Jobs, Work(j), NEW k \in Jobs \ {j}
  PROVE  Progress(k)'
<1>1. /\ frame'[k] = frame[k] /\ Progress(k) /\ LiveFrame(k) /\ k.run \in Runs
      /\ jobState'[k] = jobState[k] \/ (jobState[k] = "none" /\ jobState'[k] = "waiting")
  BY OnlyOwnJob, WorkKeeps, JobFacts DEF ProgressInv, Safe, HandlersSafe, InHand
<1>2. Left(k)' => Left(k) /\ jobState[k] # "none"
  BY <1>1 DEF Left, At
<1>3. frame[k].at # "idle" => jobState[k] # "none"
  BY <1>1 DEF LiveFrame
<1>4. /\ Summoned(k) => Summoned(k)'
      /\ Passed(k) => Passed(k)'
      /\ HasEnded(k.run) => HasEnded(k.run)'
      /\ Handed(k.run) => Handed(k.run)'
  BY <1>1, WorkKeepsReasons, WorkGrows, EndedStays, HandedStays DEF Grows
<1>5. jobState'[k] # "none" => Summoned(k)'
  BY <1>1, <1>4, AddedAreSummoned DEF Progress
<1>6. k.type = "run_strix_validation" /\ Tested(k)' /\ findingStatus'[k.finding] = "validation_queued"
        => FailedOn(k.finding)'
  <2>1. Tested(k)' => Tested(k) /\ jobState[k] # "none"
    BY <1>1, <1>2, <1>3 DEF Tested, Settling
  <2> QED BY <1>1, <2>1, TestedStays DEF Progress
<1> QED BY <1>1, <1>2, <1>4, <1>5, <1>6 DEF Progress

\* A handler that is done has passed its run on.
LEMMA DoneHasPassed ==
  ASSUME Typing, Safe, ProgressInv, NEW j \in Jobs, Work(j), Left(j)'
  PROVE  Passed(j)'
<1>1. /\ j.run \in Runs /\ Progress(j) /\ Grows /\ jobState \in [Jobs -> JobStates]
      /\ \A r \in Runs : HasEnded(r) => HasEnded(r)'
      /\ \A r \in Runs : Handed(r) => Handed(r)'
  BY JobFacts, WorkGrows, EndedStays, HandedStays DEF Grows, ProgressInv, Typing, PipelineTypeOK, TypeOK
<1>2. ~Thrown(j)
  BY DEF Thrown, Left, At
<1>3. ~MovedTo(j, {"begin"}) /\ ~MovedTo(j, {"write"}) /\ ~MovedTo(j, {"snapshot"}) /\ ~MovedTo(j, {"enqueue"})
      /\ ~MovedTo(j, {"read"}) /\ ~MovedTo(j, {"persist"}) /\ ~MovedTo(j, {"route"})
      /\ ~MovedTo(j, {"route", "write_finding"}) /\ ~MovedTo(j, {"write_finding"}) /\ ~MovedTo(j, {"count"})
      /\ ~MovedTo(j, {"settle_write"}) /\ ~MovedTo(j, {"receipt"}) /\ ~MovedTo(j, {"announce"})
      /\ ~MovedTo(j, {"store"}) /\ ~MovedTo(j, {"finalize"}) /\ ~MovedTo(j, {"settle_read"})
  BY DEF MovedTo, Left, At
<1>4. CASE Return(j)
  <2>1. Left(j)
    BY <1>4 DEF Return, Left
  <2> QED BY <1>1, <2>1, WorkKeepsReasons DEF Progress
<1>5. ~(\/ PickUp(j) \/ PrepareAssert(j) \/ PrepareWrite(j) \/ PrepareSnapshot(j)
        \/ ClassifyCreate(j) \/ ClassifyAssert(j) \/ ClassifyWrite(j)
        \/ DeepSecLookup(j) \/ DeepSecPersist(j) \/ DeepSecAssert(j) \/ DeepSecWrite(j)
        \/ RoutingBegin(j) \/ RoutingDecide(j) \/ RoutingEscalate(j) \/ RoutingEnqueue(j)
        \/ RoutingCount(j) \/ RoutingAssert(j) \/ StrixMission(j) \/ StrixPersist(j)
        \/ FinalizeAssert(j) \/ FinalizeWrite(j) \/ FinalizeReceipt(j) \/ ReceiptGather(j))
  BY <1>2, <1>3, NextPlace
<1>6. CASE PrepareEnqueue(j) \/ ClassifyEnqueue(j) \/ DeepSecEnqueue(j)
  <2>1. /\ StageJob("classify_change", j.run) \in Jobs /\ StageJob("run_deepsec", j.run) \in Jobs
        /\ RoutingJob(j.run) \in Jobs
    BY <1>1, JobFacts DEF StageTypes, RoutingJob
  <2> QED
    BY <1>1, <1>6, <2>1 DEF PrepareEnqueue, ClassifyEnqueue, DeepSecEnqueue, Enqueue, RoutingJob, Passed
<1>7. CASE RoutingWrite(j)
  BY <1>1, <1>7 DEF RoutingWrite, At, Progress, Passed
<1>8. CASE StrixCount(j) \/ ReceiptStore(j)
  <2>1. j.type \in {"run_strix_validation", "generate_receipt"}
    BY <1>8 DEF StrixCount, ReceiptStore, At, Typing, PlacesOK, PlaceOK, PlaceFits
  <2> QED BY <2>1 DEF Passed
<1>9. CASE FinalizeDecide(j)
  <2>1. IsRunTerminal(runStatus[j.run])
    BY <1>3, <1>9, NextPlace
  <2>2. runStatus[j.run] # "absent"
    BY <1>1, <1>9 DEF FinalizeDecide, At, Progress, Summoned
  <2>3. j.type \in Finalizers
    BY <1>1, <1>9 DEF FinalizeDecide, At, Progress, Settling
  <2> QED BY <1>1, <2>1, <2>2, <2>3, TerminalHasEnded DEF Finalizers, Passed, Handed
<1>10. CASE FinalizeAnnounce(j)
  BY <1>1, <1>10 DEF FinalizeAnnounce, At, Progress, Settling, Finalizers, Passed, Handed
<1> QED BY <1>4, <1>5, <1>6, <1>7, <1>8, <1>9, <1>10, WorkActions

\* Routing leaves a run to its missions only when one is outstanding.
LEMMA RoutingHandsOver ==
  ASSUME Typing, Safe, ProgressInv, NEW j \in Jobs, Work(j),
         j.type = "apply_routing_policy", frame'[j].at \in {"read", "write"}
  PROVE  Handed(j.run)'
<1>1. /\ j.run \in Runs /\ Progress(j)
      /\ \A r \in Runs : Handed(r) => Handed(r)'
  BY JobFacts, HandedStays DEF ProgressInv
<1>2. \/ PickUp(j) \/ Return(j)
      \/ RoutingBegin(j) \/ RoutingDecide(j) \/ RoutingEscalate(j) \/ RoutingEnqueue(j)
      \/ RoutingCount(j) \/ RoutingAssert(j) \/ RoutingWrite(j)
      \/ FinalizeDecide(j) \/ FinalizeAssert(j) \/ FinalizeWrite(j)
      \/ FinalizeReceipt(j) \/ FinalizeAnnounce(j)
  BY ActionsByType
<1>3. CASE RoutingCount(j)
  <2>1. StillQueued(j.run) # {}
    BY <1>3, NextPlace DEF MovedTo
  <2> QED BY <1>1, <2>1 DEF Handed
<1>4. CASE RoutingAssert(j)
  BY <1>1, <1>4 DEF RoutingAssert, At, Progress
<1> QED BY <1>2, <1>3, <1>4, NextPlace DEF Thrown, MovedTo

\* What a handler finds in finalizeRun, and where its verdict has led to.
LEMMA FinalizeProgress ==
  ASSUME Typing, Safe, ProgressInv, NEW j \in Jobs, Work(j)
  PROVE  /\ frame'[j].at \in Settling => j.type \in Finalizers
         /\ frame'[j].at \in {"receipt", "announce"} => HasEnded(j.run)'
<1>1. /\ j.run \in Runs /\ Progress(j) /\ recorded \in [Runs -> SUBSET RunStatuses]
      /\ \A r \in Runs : HasEnded(r) => HasEnded(r)'
  BY JobFacts, WorkGrows, EndedStays DEF Grows, ProgressInv, Typing, PipelineTypeOK, TypeOK
<1>2. frame'[j].at \in Settling => j.type \in Finalizers
  <2>1. CASE j.type \in {"prepare_repository", "classify_change"}
    BY <2>1, ActionsByType, NextPlace DEF Thrown, MovedTo, Settling, Finalizers
  <2>2. CASE j.type = "run_deepsec"
    BY <2>2, ActionsByType, NextPlace DEF Thrown, MovedTo, Settling, Finalizers
  <2>3. CASE j.type = "generate_receipt"
    BY <2>3, ActionsByType, NextPlace DEF Thrown, MovedTo, Settling, Finalizers
  <2>4. CASE j.type \in {"run_deepsec_revalidation", "run_strix_retest"}
    BY <2>4, ActionsByType, NextPlace DEF Thrown, MovedTo, Settling, Finalizers
  <2> QED BY <2>1, <2>2, <2>3, <2>4 DEF Jobs, StageTypes, FindingTypes, Finalizers
<1>3. frame'[j].at \in {"receipt", "announce"} => FinalizeWrite(j) \/ FinalizeReceipt(j)
  BY WorkActions, NextPlace DEF Thrown, MovedTo
<1>4. CASE FinalizeWrite(j)
  <2>1. frame[j].decided \in Dispositions
    BY <1>4 DEF FinalizeWrite, At, Typing, PlacesOK, PlaceOK, PlaceFits
  <2>2. frame[j].decided \in recorded'[j.run]
    BY <1>1, <1>4 DEF FinalizeWrite, WriteRunStatus
  <2> QED BY <1>2, <2>1, <2>2 DEF HasEnded, Disposed
<1>5. CASE FinalizeReceipt(j)
  BY <1>1, <1>2, <1>5 DEF FinalizeReceipt, At, Progress
<1> QED BY <1>2, <1>3, <1>4, <1>5

LEMMA VerdictIsLeft ==
  ASSUME Typing, Safe, ProgressInv, NEW j \in Jobs, Work(j), j.type = "run_strix_validation",
         Tested(j)', findingStatus'[j.finding] = "validation_queued"
  PROVE  FailedOn(j.finding)'
<1>1. /\ jobState[j] # "none" /\ j.finding \in Findings /\ Progress(j)
      /\ findingStatus \in [Findings -> FindingStatuses \cup {"absent"}]
  BY JobFacts, WorkKinds DEF PickUp, ProgressInv, Typing, PipelineTypeOK, TypeOK
<1>2. \/ PickUp(j) \/ Return(j) \/ StrixMission(j) \/ StrixPersist(j) \/ StrixCount(j)
      \/ FinalizeDecide(j) \/ FinalizeAssert(j) \/ FinalizeWrite(j)
      \/ FinalizeReceipt(j) \/ FinalizeAnnounce(j)
  BY ActionsByType
<1>3. CASE StrixPersist(j)
  <2>1. frame[j].decided = "failed"
    <3>1. CASE Judges(frame[j].decided)
      <4>1. frame[j].decided = "validation_queued"
        BY <1>1, <1>3, <3>1 DEF StrixPersist
      <4> QED BY <1>3, <4>1 DEF StrixPersist, At, Typing, PlacesOK, PlaceOK, PlaceFits, Verdicts
    <3> QED BY <3>1 DEF Judges
  <2> DEFINE row == [finding |-> j.finding, run |-> j.run, verdict |-> "failed", attempt |-> attempts[j]]
  <2>2. row \in validations'
    BY <1>3, <2>1 DEF StrixPersist
  <2>3. row.finding = j.finding /\ row.verdict = "failed"
    OBVIOUS
  <2> HIDE DEF row
  <2> QED BY <2>2, <2>3 DEF FailedOn
<1>4. CASE ~StrixPersist(j) /\ Tested(j)
  BY <1>1, <1>4, TestedStays DEF Progress
<1>5. CASE ~StrixPersist(j) /\ ~Tested(j)
  <2>1. ~Return(j) /\ ~StrixCount(j) /\ ~FinalizeDecide(j) /\ ~FinalizeAssert(j) /\ ~FinalizeWrite(j)
        /\ ~FinalizeReceipt(j) /\ ~FinalizeAnnounce(j)
    BY <1>5 DEF Return, StrixCount, FinalizeDecide, FinalizeAssert, FinalizeWrite, FinalizeReceipt,
                FinalizeAnnounce, At, Tested, Left, Settling
  <2> QED BY <1>2, <1>5, <2>1, NextPlace DEF Thrown, MovedTo, Tested, Left, At, Settling
<1> QED BY <1>3, <1>4, <1>5

LEMMA WorkProgress ==
  ASSUME Typing, Safe, ProgressInv, NEW j \in Jobs, Work(j)
  PROVE  ProgressInv'
<1>1. \A r \in creating' : runStatus'[r] # "absent"
  BY WorkKeeps DEF Work, apiVars, ProgressInv, Typing, PipelineTypeOK
<1>2. jobState[j] # "none" /\ Progress(j)
  BY WorkKinds DEF PickUp, ProgressInv
<1>3. jobState'[j] # "none" => Summoned(j)'
  BY <1>2, WorkKeepsReasons DEF Progress
<1>4. Progress(j)'
  BY <1>3, DoneHasPassed, RoutingHandsOver, FinalizeProgress, VerdictIsLeft DEF Progress
<1> QED BY <1>1, <1>4, OthersProgress DEF ProgressInv

\* A fault sends a job back or to the dead letters, where it still carries its run.
LEMMA FaultProgress ==
  ASSUME Typing, Safe, ProgressInv, NEW j \in Jobs, Fault(j)
  PROVE  ProgressInv'
<1>1. /\ UNCHANGED storeVars /\ UNCHANGED apiVars /\ jobState[j] = "active" /\ Thrown(j)
      /\ \A k \in Jobs \ {j} : frame'[k] = frame[k] /\ jobState'[k] = jobState[k]
  BY ThrowThrows DEF Fault, Interrupt, Throw, Typing, PipelineTypeOK, TypeOK
<1>2. \A k \in Jobs : /\ Carries(k) => Carries(k)'
                      /\ Left(k)' => Left(k)
                      /\ Tested(k)' => Tested(k)
                      /\ jobState[k] # "none" <=> jobState'[k] # "none"
                      /\ frame'[k].at \in {frame[k].at, "idle"}
  BY <1>1 DEF Thrown, Carries, Left, Tested, At, Settling
<1>3. /\ \A r \in Runs : HasEnded(r) <=> HasEnded(r)'
      /\ \A r \in Runs : Handed(r) => Handed(r)'
  BY <1>1, <1>2, JobFacts DEF storeVars, HasEnded, Handed, StillQueued
<1>4. \A k \in Jobs : (Summoned(k) => Summoned(k)') /\ (Passed(k) => Passed(k)')
  BY <1>1, <1>2, <1>3, ReasonsStay DEF storeVars
<1>5. ASSUME NEW k \in Jobs PROVE Progress(k)'
  <2>1. Progress(k) /\ k.run \in Runs /\ (FailedOn(k.finding) <=> FailedOn(k.finding)')
        /\ findingStatus'[k.finding] = findingStatus[k.finding]
    BY <1>1, JobFacts DEF ProgressInv, storeVars, FailedOn
  <2> QED BY <1>2, <1>3, <1>4, <2>1 DEF Progress, Settling
<1>6. \A r \in creating' : runStatus'[r] # "absent"
  BY <1>1 DEF storeVars, apiVars, ProgressInv
<1> QED BY <1>5, <1>6 DEF ProgressInv

\* The calls of clients add runs and first jobs, and take nothing away.
LEMMA ApiProgress ==
  ASSUME Typing, Safe, ProgressInv, NEW r \in Runs, ApiStep(r)
  PROVE  ProgressInv'
<1> USE DEF ApiStep, CreateReview, EnqueuePrepare, CreateInterrupted, CancelAssert, CancelWrite, FetchGather,
            FetchStore
<1>1. UNCHANGED <<findingStatus, linked, validations, frame>>
  BY DEF storeVars, queueVars
<1>2. /\ runStatus \in [Runs -> RunStatuses \cup {"absent"}] /\ recorded \in [Runs -> SUBSET RunStatuses]
      /\ jobState \in [Jobs -> JobStates] /\ creating \subseteq Runs
  BY DEF Typing, PipelineTypeOK, TypeOK
<1>3. \A q \in Runs : (runStatus[q] # "absent" => runStatus'[q] # "absent") /\ recorded[q] \subseteq recorded'[q]
  BY <1>2 DEF storeVars
<1>4. /\ StageJob("prepare_repository", r) \in Jobs
      /\ jobState' = jobState \/ (r \in creating /\ Enqueue(StageJob("prepare_repository", r)) /\ UNCHANGED runStatus)
  BY JobFacts DEF StageTypes, queueVars, storeVars
<1>5. \A k \in Jobs : \/ jobState'[k] = jobState[k]
                      \/ /\ k = StageJob("prepare_repository", r) /\ r \in creating /\ UNCHANGED runStatus
                         /\ jobState[k] = "none" /\ jobState'[k] = "waiting"
  BY <1>2, <1>4 DEF Enqueue
<1>6. \A k \in Jobs : /\ Carries(k) => Carries(k)'
                      /\ Left(k)' => Left(k)
                      /\ Tested(k)' => Tested(k)
                      /\ jobState[k] # "none" => jobState'[k] # "none"
  BY <1>1, <1>5 DEF Carries, Left, Tested, At, Settling
<1>7. /\ \A q \in Runs : HasEnded(q) => HasEnded(q)'
      /\ \A q \in Runs : Handed(q) => Handed(q)'
  BY <1>1, <1>3, <1>6, JobFacts DEF HasEnded, Handed, StillQueued
<1>8. \A k \in Jobs : (Summoned(k) => Summoned(k)') /\ (Passed(k) => Passed(k)')
  BY <1>3, <1>6, <1>7, ReasonsStay
<1>9. \A q \in creating' : runStatus'[q] # "absent"
  <2>1. CASE creating' \subseteq creating
    BY <1>2, <1>3, <2>1 DEF ProgressInv
  <2>2. CASE CreateReview(r)
    BY <1>2, <1>3, <2>2 DEF ProgressInv
  <2> QED BY <2>1, <2>2
<1>10. ASSUME NEW k \in Jobs PROVE Progress(k)'
  <2>1. Progress(k) /\ k.run \in Runs /\ (FailedOn(k.finding) => FailedOn(k.finding)')
    BY <1>1, JobFacts DEF ProgressInv, FailedOn
  <2>2. jobState'[k] # "none" => Summoned(k)'
    <3>1. CASE jobState[k] # "none"
      BY <1>8, <2>1, <3>1 DEF Progress
    <3>2. CASE jobState[k] = "none" /\ jobState'[k] # "none"
      <4>1. k.type = "prepare_repository" /\ k.run = r /\ runStatus'[r] # "absent"
        BY <1>5, <3>2 DEF StageJob, ProgressInv
      <4> QED BY <4>1 DEF Summoned
    <3> QED BY <3>1, <3>2
  <2> QED BY <1>1, <1>6, <1>7, <1>8, <2>1, <2>2 DEF Progress
<1> QED BY <1>9, <1>10 DEF ProgressInv

LEMMA InitProgress ==
  ASSUME Init
  PROVE  ProgressInv
<1> USE DEF Init, ControlPlaneInit, IdleFrame
<1>1. ASSUME NEW j \in Jobs PROVE Progress(j)
  BY DEF Progress, Left, Tested, At, Settling
<1> QED BY <1>1 DEF ProgressInv

LEMMA StepProgress ==
  ASSUME Typing, Safe, ProgressInv, [Next]_vars
  PROVE  ProgressInv'
<1>1. CASE UNCHANGED vars
  BY <1>1 DEF vars, storeVars, queueVars, apiVars, ProgressInv, Progress, Left, At, Passed, Summoned, Handed,
     HasEnded, StillQueued, Carries, Tested, FailedOn
<1> QED BY <1>1, WorkProgress, FaultProgress, ApiProgress DEF Next

\* What carries a run is an invariant, for any number of workers, clients and
\* faults.
THEOREM ProgressInvariant == Spec => []ProgressInv
<1>1. Init => ProgressInv
  BY InitProgress
<1>2. Typing /\ Safe /\ ProgressInv /\ [Next]_vars => ProgressInv'
  BY StepProgress
<1> QED BY <1>1, <1>2, TypingInvariant, SafeInvariant, PTL DEF Spec

\* A run that nothing works on and that has jobs has passed through them all.
LEMMA QuietHasRouted ==
  ASSUME Typing, ProgressInv, NEW r \in Runs, Quiet(r), ~HeldUp(r)
  PROVE  HasEnded(r) \/ jobState[RoutingJob(r)] = "done"
<1>1. \A j \in JobsOf(r) : jobState[j] \in {"none", "done"}
  BY DEF Quiet, HeldUp, JobsOf, JobStates, Typing, PipelineTypeOK, TypeOK
<1>2. \A j \in JobsOf(r) : jobState[j] # "none" => Passed(j) /\ Summoned(j) /\ j.run = r
  BY <1>1 DEF JobsOf, ProgressInv, Progress, Left
<1>3. /\ StageJob("classify_change", r) \in JobsOf(r) /\ StageJob("run_deepsec", r) \in JobsOf(r)
      /\ RoutingJob(r) \in JobsOf(r)
  BY JobFacts DEF StageTypes, RoutingJob, JobsOf, StageJob
<1>4. jobState[RoutingJob(r)] # "none" => jobState[RoutingJob(r)] = "done"
  BY <1>1, <1>3
<1>5. jobState[StageJob("run_deepsec", r)] # "none" => jobState[RoutingJob(r)] # "none"
  BY <1>2, <1>3 DEF Passed, StageJob
<1>6. jobState[StageJob("classify_change", r)] # "none" => jobState[RoutingJob(r)] # "none"
  BY <1>2, <1>3, <1>5 DEF Passed, StageJob
<1>7. PICK j \in JobsOf(r) : jobState[j] # "none"
  BY DEF HeldUp
<1>8. Passed(j) /\ Summoned(j) /\ j.run = r
  BY <1>2, <1>7
<1>9. CASE j.type = "prepare_repository"
  BY <1>4, <1>6, <1>8, <1>9 DEF Passed
<1>10. CASE j.type \in {"classify_change", "run_deepsec"}
  BY <1>4, <1>5, <1>8, <1>10 DEF Passed
<1>11. CASE j.type = "apply_routing_policy"
  <2>1. j = RoutingJob(r)
    BY <1>3, <1>8, <1>11, JobIdentity DEF JobsOf, RoutingJob, StageJob, StageTypes
  <2> QED BY <1>4, <1>7, <2>1
<1>12. CASE j.type \in {"generate_receipt", "run_strix_validation"}
  BY <1>4, <1>8, <1>12 DEF Summoned
<1>13. j.type \in StageTypes \cup FindingTypes
  BY DEF JobsOf, Jobs
<1> QED BY <1>8, <1>9, <1>10, <1>11, <1>12, <1>13 DEF Summoned, StageTypes, FindingTypes

\* A run that stands still without a disposition is held up for one of the
\* causes listed, or its audit trail records a disposition that was overwritten.
THEOREM StandstillHasACause == Spec => []StallHasACause
<1>1. Typing /\ ProgressInv => StallHasACause
  <2> SUFFICES ASSUME Typing, ProgressInv, NEW r \in Runs, Quiet(r), ~HeldUp(r), ~HasEnded(r)
               PROVE  FALSE
    BY DEF StallHasACause, HasEnded
  <2>1. jobState[RoutingJob(r)] = "done" /\ RoutingJob(r) \in Jobs
    BY QuietHasRouted, JobFacts DEF RoutingJob, StageTypes
  <2>2. Handed(r)
    BY <2>1 DEF ProgressInv, Progress, Left, Passed, RoutingJob, StageJob
  <2>3. ASSUME NEW f \in Findings
        PROVE  jobState[StrixJob(r, f)] \in {"none", "done"} /\ StrixJob(r, f) \in Jobs
    <3>1. StrixJob(r, f) \in Jobs /\ StrixJob(r, f) \in JobsOf(r)
      BY JobFacts DEF JobsOf, StrixJob, FindingJob
    <3> QED BY <3>1 DEF Quiet, HeldUp, JobStates, Typing, PipelineTypeOK, TypeOK
  <2>4. PICK f \in StillQueued(r) : TRUE
    BY <2>2, <2>3 DEF Handed, Carries
  <2>5. f \in Findings /\ f \in linked[r] /\ findingStatus[f] = "validation_queued"
    BY <2>4 DEF StillQueued, Typing, PipelineTypeOK, TypeOK
  <2>6. jobState[StrixJob(r, f)] = "done" /\ ~FailedOn(f)
    BY <2>3, <2>5 DEF HeldUp, FailedOn
  <2>7. FailedOn(f)
    BY <2>3, <2>5, <2>6 DEF ProgressInv, Progress, Tested, Left, StrixJob, FindingJob
  <2> QED BY <2>6, <2>7
<1> QED BY <1>1, TypingInvariant, ProgressInvariant, PTL

-----------------------------------------------------------------------------
(* With one worker: one handler at a time.                                 *)

\* At most one job is active, and only an active job has a place.
OneActive == \A j, k \in Jobs : jobState[j] = "active" /\ jobState[k] = "active" => j = k
PlacesLive == \A j \in Jobs : LiveFrame(j)

AloneInv == OneActive /\ PlacesLive

\* The limit on active jobs is what PickUp tests, so with one worker nothing is
\* active when a job is picked up.
LEMMA PickUpAlone ==
  ASSUME Workers = 1, AloneInv, NEW j \in Jobs, PickUp(j)
  PROVE  \A k \in Jobs : jobState[k] # "active"
<1> DEFINE active == {k \in Jobs : jobState[k] = "active"}
<1>1. SUFFICES ASSUME NEW k \in Jobs, jobState[k] = "active" PROVE FALSE
  OBVIOUS
<1>2. active = {k}
  BY <1>1 DEF AloneInv, OneActive
<1>3. Cardinality(active) = 1
  BY <1>2, FS_Singleton
<1> QED BY <1>3 DEF PickUp

\* Whoever works is the only one with a place, before and after.
LEMMA OthersIdle ==
  ASSUME Workers = 1, Typing, AloneInv, NEW j \in Jobs, Work(j) \/ Fault(j),
         NEW k \in Jobs \ {j}
  PROVE  /\ frame'[k].at = "idle"
         /\ jobState'[k] # "active"
<1>1. jobState[k] # "active"
  <2>1. CASE PickUp(j)
    BY <2>1, PickUpAlone
  <2>2. CASE jobState[j] = "active"
    BY <2>2 DEF AloneInv, OneActive
  <2> QED BY <2>1, <2>2, WorkKinds DEF Fault, Interrupt
<1>2. frame[k].at = "idle"
  BY <1>1 DEF AloneInv, PlacesLive, LiveFrame
<1>3. CASE Work(j) /\ PickUp(j)
  BY <1>1, <1>2, <1>3 DEF PickUp, Goto, Typing, PipelineTypeOK, TypeOK
<1>4. CASE Work(j) /\ ~PickUp(j)
  BY <1>1, <1>2, <1>4, OnlyOwnJob, HandlerStartsNone
<1>5. CASE Fault(j)
  BY <1>1, <1>2, <1>5 DEF Fault, Interrupt, Throw, Typing, PipelineTypeOK, TypeOK
<1> QED BY <1>3, <1>4, <1>5

\* A job that has left its worker has left its place.
LEMMA OwnPlaceLive ==
  ASSUME Typing, NEW j \in Jobs, Work(j) \/ Fault(j)
  PROVE  LiveFrame(j)'
<1> USE DEF Typing, PipelineTypeOK, TypeOK, LiveFrame
<1>1. CASE Throw(j) \/ Return(j)
  BY <1>1 DEF Throw, Return, IdleFrame
<1>2. CASE PickUp(j)
  BY <1>2 DEF PickUp
<1>3. CASE jobState[j] = "active" /\ (UNCHANGED jobState \/ \E k : Enqueue(k))
  BY <1>3, StillActive
<1> QED BY <1>1, <1>2, <1>3, WorkKinds DEF Fault, Interrupt

LEMMA WorkAlone ==
  ASSUME Workers = 1, Typing, AloneInv, NEW j \in Jobs, Work(j) \/ Fault(j)
  PROVE  AloneInv'
<1>1. OneActive'
  BY OthersIdle DEF OneActive
<1>2. PlacesLive'
  BY OthersIdle, OwnPlaceLive DEF PlacesLive, LiveFrame
<1> QED BY <1>1, <1>2 DEF AloneInv

\* A call or a client adds at most a job that waits.
LEMMA OutsideAlone ==
  ASSUME Typing, AloneInv, UNCHANGED frame, UNCHANGED jobState \/ \E k : Enqueue(k)
  PROVE  AloneInv'
<1> USE DEF Typing, PipelineTypeOK, TypeOK, AloneInv
<1>1. \A k \in Jobs : jobState'[k] = "active" <=> jobState[k] = "active"
  BY DEF Enqueue
<1>2. OneActive'
  BY <1>1 DEF OneActive
<1>3. PlacesLive'
  BY <1>1 DEF PlacesLive, LiveFrame
<1> QED BY <1>2, <1>3

-----------------------------------------------------------------------------
(* With one worker, and clients who neither cancel nor fetch: the life     *)
(* cycle a client is promised.                                             *)

\* The status each stage moves its run to.
StageTarget(j) ==
  CASE j.type = "prepare_repository" -> "classifying"
    [] j.type = "classify_change"    -> "source_review_running"
    [] j.type = "run_deepsec"        -> "source_review_completed"
    [] OTHER                         -> "validation_running"

\* What a client is to read off the receipt of a run.
ToShow(s) == IF s \in Dispositions \ {"completed"} THEN s ELSE "clear"

\* What a handler asserted of its run still holds where it relies on it.
Asserted(j) ==
  /\ frame[j].at = "write" => CanTransitionRun(runStatus[j.run], StageTarget(j))
  /\ frame[j].at = "settle_write" => CanTransitionRun(runStatus[j.run], frame[j].decided)
  /\ frame[j].at \in {"receipt", "announce"} => runStatus[j.run] = frame[j].decided
  /\ frame[j].at = "store" => ShownAs(frame[j].decided) = ToShow(runStatus[j.run])

ReceiptsFollow ==
  \A r \in Runs :
    jobState[StageJob("generate_receipt", r)] # "none" => runStatus[r] \in Dispositions

LifeInv == cancelling = {} /\ ReceiptsFollow /\ \A j \in Jobs : Asserted(j)

NobodyFetches == \A r \in Runs : fetching[r] = "none"

\* Nothing is asserted at a place where no status was read.
CasualPlaces == Labels \ {"write", "settle_write", "receipt", "announce", "store"}

LEMMA FreelyAsserted ==
  ASSUME NEW j \in Jobs, frame'[j].at \in CasualPlaces
  PROVE  Asserted(j)'
BY DEF CasualPlaces, Asserted

\* The first half of a transition asserts what the second half relies on.
LEMMA AssertedTransition ==
  ASSUME Typing, NEW j \in Jobs, NEW to,
         AssertRunTransition(j, to, "write"), to = StageTarget(j)
  PROVE  Asserted(j)'
<1>1. frame \in [Jobs -> Frames] /\ UNCHANGED runStatus
  BY DEF Typing, PipelineTypeOK, TypeOK, AssertRunTransition, storeVars
<1>2. CASE Throw(j)
  <2>1. frame'[j].at = "idle"
    BY <1>1, <1>2 DEF Throw, IdleFrame
  <2> QED BY <2>1, FreelyAsserted DEF CasualPlaces, Labels
<1>3. CASE Goto(j, "write") /\ CanTransitionRun(runStatus[j.run], to)
  <2>1. frame'[j].at = "write"
    BY <1>1, <1>3, GotoFrames DEF Labels
  <2> QED BY <1>1, <1>3, <2>1 DEF Asserted, StageTarget
<1> QED BY <1>2, <1>3 DEF AssertRunTransition

LEMMA FreeStep ==
  ASSUME Typing, NEW j \in Jobs, NEW label \in CasualPlaces, Goto(j, label)
  PROVE  Asserted(j)'
<1>1. frame \in [Jobs -> Frames] /\ label \in Labels
  BY DEF Typing, PipelineTypeOK, TypeOK, CasualPlaces
<1>2. frame'[j].at = label
  BY <1>1, GotoFrames
<1> QED BY <1>2, FreelyAsserted

LEMMA WorkAsserted ==
  ASSUME Workers = 1, Typing, AloneInv, ReceiptsFollow, \A k \in Jobs : Asserted(k), NEW j \in Jobs, Work(j)
  PROVE  Asserted(j)'
<1>1. /\ frame \in [Jobs -> Frames] /\ j.run \in Runs /\ Asserted(j) /\ PlaceOK(j) /\ frame[j] \in Frames
      /\ runStatus \in [Runs -> RunStatuses \cup {"absent"}]
  BY JobFacts DEF Typing, PipelineTypeOK, TypeOK, PlacesOK
<1>2. ASSUME Throw(j) \/ frame' = [frame EXCEPT ![j] = IdleFrame]
      PROVE  Asserted(j)'
  <2>1. frame'[j].at = "idle"
    BY <1>1, <1>2 DEF Throw, IdleFrame
  <2> QED BY <2>1, FreelyAsserted DEF CasualPlaces, Labels
<1>a. CASE PickUp(j) \/ Return(j)
  BY <1>2, <1>a, FreeStep DEF PickUp, Return, CasualPlaces, Labels
<1>b. CASE PrepareAssert(j) \/ ClassifyAssert(j) \/ DeepSecAssert(j) \/ RoutingAssert(j)
  BY <1>b, AssertedTransition DEF PrepareAssert, ClassifyAssert, DeepSecAssert, RoutingAssert, StageTarget
<1>c. CASE PrepareWrite(j) \/ ClassifyWrite(j) \/ DeepSecWrite(j) \/ RoutingWrite(j)
  BY <1>c, FreeStep DEF PrepareWrite, ClassifyWrite, DeepSecWrite, RoutingWrite, WriteRunStatus, CasualPlaces, Labels
<1>d. CASE PrepareSnapshot(j) \/ PrepareEnqueue(j) \/ ClassifyEnqueue(j) \/ DeepSecEnqueue(j) \/ RoutingEnqueue(j)
  BY <1>d, FreeStep
  DEF PrepareSnapshot, PrepareEnqueue, ClassifyEnqueue, DeepSecEnqueue, RoutingEnqueue, CasualPlaces, Labels
<1>e. CASE ClassifyCreate(j)
  BY <1>2, <1>e, FreeStep DEF ClassifyCreate, CasualPlaces, Labels
<1>f. CASE DeepSecLookup(j)
  <2>1. frame'[j].at = "persist" \/ Throw(j)
    BY <1>1, <1>f DEF DeepSecLookup, Frames
  <2> QED BY <1>2, <2>1, FreelyAsserted DEF CasualPlaces, Labels
<1>g. CASE DeepSecPersist(j)
  <2>1. frame'[j].at = "read" \/ Throw(j)
    BY <1>1, <1>g DEF DeepSecPersist, Reported, Frames
  <2> QED BY <1>2, <2>1, FreelyAsserted DEF CasualPlaces, Labels
<1>h. CASE RoutingBegin(j)
  <2>1. PICK todo, decided : frame' = [frame EXCEPT ![j].at = "route", ![j].todo = todo, ![j].decided = decided]
    BY <1>h DEF RoutingBegin
  <2>2. frame'[j].at = "route"
    BY <1>1, <2>1 DEF Frames
  <2> QED BY <2>2, FreelyAsserted DEF CasualPlaces, Labels
<1>i. CASE RoutingDecide(j)
  <2>1. frame'[j].at \in {"route", "write_finding"} \/ Throw(j)
    BY <1>1, <1>i DEF RoutingDecide, Frames, At
  <2> QED BY <1>2, <2>1, FreelyAsserted DEF CasualPlaces, Labels
<1>j. CASE RoutingEscalate(j) \/ RoutingCount(j) \/ StrixPersist(j) \/ StrixCount(j)
  BY <1>j, FreeStep DEF RoutingEscalate, RoutingCount, StrixPersist, StrixCount, CasualPlaces, Labels
<1>k. CASE StrixMission(j)
  <2>1. frame'[j].at = "write_finding" \/ Throw(j)
    BY <1>1, <1>k DEF StrixMission, Frames
  <2> QED BY <1>2, <2>1, FreelyAsserted DEF CasualPlaces, Labels
<1>l. CASE FinalizeDecide(j)
  <2>1. frame'[j].at \in {"return", "settle_read"}
    BY <1>1, <1>l DEF FinalizeDecide, Frames
  <2> QED BY <2>1, FreelyAsserted DEF CasualPlaces, Labels
<1>m. CASE FinalizeAssert(j)
  <2>1. CASE Throw(j)
    BY <1>2, <2>1
  <2>2. CASE Goto(j, "settle_write") /\ CanTransitionRun(runStatus[j.run], frame[j].decided)
    <3>1. frame'[j].at = "settle_write" /\ frame'[j].decided = frame[j].decided /\ UNCHANGED runStatus
      BY <1>1, <1>m, <2>2, GotoFrames DEF Labels, FinalizeAssert, AssertRunTransition, storeVars
    <3> QED BY <2>2, <3>1 DEF Asserted
  <2> QED BY <1>m, <2>1, <2>2 DEF FinalizeAssert, AssertRunTransition
<1>n. CASE FinalizeWrite(j)
  <2>1. frame'[j].at = "receipt" /\ frame'[j].decided = frame[j].decided
    BY <1>1, <1>n, GotoFrames DEF FinalizeWrite, WriteRunStatus, Labels
  <2>2. runStatus'[j.run] = frame[j].decided
    BY <1>1, <1>n DEF FinalizeWrite, WriteRunStatus
  <2> QED BY <2>1, <2>2 DEF Asserted
<1>o. CASE FinalizeReceipt(j)
  <2>1. /\ frame'[j].at = "announce" /\ frame'[j].decided = frame[j].decided
        /\ UNCHANGED runStatus /\ frame[j].at = "receipt"
    BY <1>1, <1>o, GotoFrames DEF FinalizeReceipt, Labels, storeVars, At
  <2> QED BY <1>1, <2>1 DEF Asserted
<1>p. CASE FinalizeAnnounce(j) \/ ReceiptStore(j)
  BY <1>p, FreeStep DEF FinalizeAnnounce, ReceiptStore, CasualPlaces, Labels
<1>q. CASE ReceiptGather(j)
  <2>1. /\ frame'[j].at = "store" /\ frame'[j].decided = ReceiptStatus(j.run)
        /\ UNCHANGED runStatus
    BY <1>1, <1>q DEF ReceiptGather, Frames, storeVars
  <2>2. j = StageJob("generate_receipt", j.run)
    BY <1>q DEF ReceiptGather, Jobs, StageTypes, FindingTypes, StageJob
  <2>3. runStatus[j.run] \in Dispositions
    BY <1>1, <1>q, <2>2 DEF ReceiptsFollow, ReceiptGather, At
  <2>4. ShownAs(ReceiptStatus(j.run)) = ToShow(runStatus[j.run])
    BY <2>3 DEF ReceiptStatus, ToShow, ShownAs, Dispositions
  <2> QED BY <2>1, <2>4 DEF Asserted
<1> QED
  BY <1>a, <1>b, <1>c, <1>d, <1>e, <1>f, <1>g, <1>h, <1>i, <1>j, <1>k, <1>l, <1>m, <1>n, <1>o, <1>p, <1>q,
     WorkActions

\* Only finalizeRun queues a receipt, once the run has settled.
LEMMA WorkFollowed ==
  ASSUME Typing, LifeInv, NEW j \in Jobs, Work(j)
  PROVE  ReceiptsFollow'
<1> SUFFICES ASSUME NEW r \in Runs, jobState'[StageJob("generate_receipt", r)] # "none"
             PROVE  runStatus'[r] \in Dispositions
  BY DEF ReceiptsFollow
<1>1. /\ j.run \in Runs /\ Asserted(j) /\ PlaceOK(j) /\ runStatus \in [Runs -> RunStatuses \cup {"absent"}]
      /\ jobState \in [Jobs -> JobStates] /\ StageJob("generate_receipt", r) \in Jobs
  BY JobFacts DEF Typing, PipelineTypeOK, TypeOK, PlacesOK, LifeInv, StageTypes
<1>2. CASE jobState[StageJob("generate_receipt", r)] # "none"
  <2>1. runStatus[r] \in Dispositions
    BY <1>2 DEF LifeInv, ReceiptsFollow
  <2>2. ASSUME NEW to, NEW label, WriteRunStatus(j, to, label), CanTransitionRun(runStatus[j.run], to),
               to # "fix_verification_running", to # "cancelled"
        PROVE  runStatus'[r] = runStatus[r]
    <3>1. j.run # r
      BY <2>1, <2>2 DEF CanTransitionRun, RunEdges, InProgress, Dispositions
    <3> QED BY <1>1, <2>2, <3>1 DEF WriteRunStatus
  <2>3. CASE PrepareWrite(j) \/ ClassifyWrite(j) \/ DeepSecWrite(j) \/ RoutingWrite(j)
    BY <1>1, <2>1, <2>2, <2>3 DEF PrepareWrite, ClassifyWrite, DeepSecWrite, RoutingWrite, Asserted, StageTarget, At
  <2>4. CASE FinalizeWrite(j)
    <3>1. frame[j].decided \in Dispositions /\ CanTransitionRun(runStatus[j.run], frame[j].decided)
      BY <1>1, <2>4 DEF FinalizeWrite, At, Asserted, PlaceOK, PlaceFits
    <3> QED BY <2>1, <2>2, <2>4, <3>1 DEF FinalizeWrite, Dispositions
  <2> QED BY <2>1, <2>3, <2>4, Writers
<1>3. CASE jobState[StageJob("generate_receipt", r)] = "none"
  <2>1. ~PickUp(j) /\ ~Return(j) /\ ~Throw(j) /\ ~UNCHANGED jobState
    <3>1. jobState[j] # "none" => j # StageJob("generate_receipt", r)
      BY <1>3
    <3> QED BY <1>1, <1>3, <3>1, WorkKinds DEF PickUp, Return, Throw, At
  <2>2. ASSUME NEW k, Enqueue(k), k # StageJob("generate_receipt", r)
        PROVE  FALSE
    BY <1>1, <1>3, <2>2 DEF Enqueue
  <2>3. /\ \A q, f : StrixJob(q, f) # StageJob("generate_receipt", r)
        /\ \A type, q : StageJob(type, q) = StageJob("generate_receipt", r) => type = "generate_receipt" /\ q = r
    BY DEF StrixJob, FindingJob, StageJob
  <2>4. FinalizeReceipt(j) /\ j.run = r
    <3>1. CASE PrepareEnqueue(j) \/ ClassifyEnqueue(j) \/ DeepSecEnqueue(j)
      BY <2>2, <2>3, <3>1 DEF PrepareEnqueue, ClassifyEnqueue, DeepSecEnqueue
    <3>2. CASE RoutingEnqueue(j)
      BY <2>2, <2>3, <3>2 DEF RoutingEnqueue
    <3>3. CASE FinalizeReceipt(j)
      BY <2>2, <2>3, <3>3 DEF FinalizeReceipt
    <3>4. CASE \/ PrepareAssert(j) \/ PrepareWrite(j) \/ PrepareSnapshot(j)
               \/ ClassifyCreate(j) \/ ClassifyAssert(j) \/ ClassifyWrite(j)
               \/ DeepSecLookup(j) \/ DeepSecPersist(j) \/ DeepSecAssert(j) \/ DeepSecWrite(j)
      BY <2>1, <3>4 DEF PrepareAssert, PrepareWrite, PrepareSnapshot, ClassifyCreate, ClassifyAssert, ClassifyWrite,
         DeepSecLookup, DeepSecPersist, DeepSecAssert, DeepSecWrite, AssertRunTransition, WriteRunStatus
    <3>5. CASE \/ RoutingBegin(j) \/ RoutingDecide(j) \/ RoutingEscalate(j) \/ RoutingCount(j)
               \/ RoutingAssert(j) \/ RoutingWrite(j)
               \/ StrixMission(j) \/ StrixPersist(j) \/ StrixCount(j)
      BY <2>1, <3>5 DEF RoutingBegin, RoutingDecide, RoutingEscalate, RoutingCount, RoutingAssert, RoutingWrite,
         StrixMission, StrixPersist, StrixCount, AssertRunTransition, WriteRunStatus
    <3>6. CASE \/ FinalizeDecide(j) \/ FinalizeAssert(j) \/ FinalizeWrite(j) \/ FinalizeAnnounce(j)
               \/ ReceiptGather(j) \/ ReceiptStore(j)
      BY <2>1, <3>6 DEF FinalizeDecide, FinalizeAssert, FinalizeWrite, FinalizeAnnounce, ReceiptGather, ReceiptStore,
         AssertRunTransition, WriteRunStatus
    <3> QED BY <2>1, <3>1, <3>2, <3>3, <3>4, <3>5, <3>6, WorkActions
  <2>5. runStatus[r] \in Dispositions /\ UNCHANGED runStatus
    BY <1>1, <2>4 DEF FinalizeReceipt, At, Asserted, PlaceOK, PlaceFits, storeVars
  <2> QED BY <2>5
<1> QED BY <1>2, <1>3

LEMMA WorkLife ==
  ASSUME Workers = 1, Typing, AloneInv, LifeInv, NEW j \in Jobs, Work(j)
  PROVE  LifeInv'
<1>1. Asserted(j)'
  BY WorkAsserted DEF LifeInv
<1>2. \A k \in Jobs \ {j} : Asserted(k)'
  BY OthersIdle, FreelyAsserted DEF CasualPlaces, Labels
<1>3. cancelling' = {}
  BY DEF Work, apiVars, LifeInv
<1> QED BY <1>1, <1>2, <1>3, WorkFollowed DEF LifeInv

LEMMA FaultLife ==
  ASSUME Workers = 1, Typing, AloneInv, LifeInv, NEW j \in Jobs, Fault(j)
  PROVE  LifeInv'
<1>1. UNCHANGED runStatus /\ UNCHANGED apiVars /\ Throw(j) /\ jobState[j] = "active"
  BY DEF Fault, Interrupt, storeVars
<1>2. frame'[j].at = "idle"
  BY <1>1 DEF Throw, IdleFrame, Typing, PipelineTypeOK, TypeOK
<1>3. \A k \in Jobs : Asserted(k)'
  BY <1>2, OthersIdle, FreelyAsserted DEF CasualPlaces, Labels
<1>4. ReceiptsFollow'
  <2>1. \A k \in Jobs : jobState'[k] # "none" => jobState[k] # "none"
    BY <1>1 DEF Throw, Typing, PipelineTypeOK, TypeOK
  <2>2. \A r \in Runs : StageJob("generate_receipt", r) \in Jobs
    BY JobFacts DEF StageTypes
  <2> QED BY <1>1, <2>1, <2>2 DEF ReceiptsFollow, LifeInv
<1>5. cancelling' = {}
  BY <1>1 DEF apiVars, LifeInv
<1> QED BY <1>3, <1>4, <1>5 DEF LifeInv

\* A run that has just been asked for is nowhere in a handler's hands.
LEMMA NewRunLife ==
  ASSUME Typing, AloneInv, LifeInv, NEW r \in Runs, runStatus[r] = "absent",
         runStatus' = [runStatus EXCEPT ![r] = "queued"],
         UNCHANGED <<jobState, frame, cancelling>>
  PROVE  LifeInv'
<1>1. /\ \A q \in Runs \ {r} : runStatus'[q] = runStatus[q]
      /\ \A q \in Runs : StageJob("generate_receipt", q) \in Jobs
  BY JobFacts DEF Typing, PipelineTypeOK, TypeOK, StageTypes
<1>2. jobState[StageJob("generate_receipt", r)] = "none"
  BY DEF LifeInv, ReceiptsFollow, Dispositions
<1>3. ReceiptsFollow'
  BY <1>1, <1>2 DEF LifeInv, ReceiptsFollow
<1>4. ASSUME NEW j \in Jobs, j.run = r
      PROVE  frame[j].at \in CasualPlaces
  <2>1. Asserted(j) /\ PlaceOK(j) /\ LiveFrame(j) /\ frame[j].at \in Labels
    BY DEF LifeInv, AloneInv, PlacesLive, Typing, PlacesOK, PipelineTypeOK, TypeOK, Frames
  <2>2. frame[j].at # "write" /\ frame[j].at # "settle_write"
    BY <1>4, <2>1 DEF Asserted, CanTransitionRun, RunEdges, InProgress
  <2>3. frame[j].at \notin {"receipt", "announce"}
    BY <1>4, <2>1 DEF Asserted, PlaceOK, PlaceFits, Dispositions
  <2>4. frame[j].at # "store"
    <3>1. j.type = "generate_receipt" => j = StageJob("generate_receipt", r)
      BY <1>4 DEF Jobs, StageTypes, FindingTypes, StageJob
    <3> QED BY <1>2, <2>1, <3>1 DEF PlaceOK, PlaceFits, LiveFrame
  <2> QED BY <2>1, <2>2, <2>3, <2>4 DEF CasualPlaces
<1>5. ASSUME NEW j \in Jobs, j.run # r
      PROVE  Asserted(j)'
  <2>1. runStatus'[j.run] = runStatus[j.run]
    BY <1>1, <1>5, JobFacts
  <2> QED BY <2>1 DEF LifeInv, Asserted, StageTarget
<1>6. ASSUME NEW j \in Jobs
      PROVE  Asserted(j)'
  <2>1. CASE j.run = r
    <3>1. frame'[j].at \in CasualPlaces
      BY <1>4, <2>1
    <3> QED BY <3>1, FreelyAsserted
  <2> QED BY <1>5, <2>1
<1> QED BY <1>3, <1>6 DEF LifeInv

\* Nothing asserted of a run changes where neither the runs nor their receipts do.
LEMMA LifeUntouched ==
  ASSUME LifeInv, UNCHANGED <<runStatus, frame, cancelling>>,
         \A q \in Runs : jobState'[StageJob("generate_receipt", q)] = jobState[StageJob("generate_receipt", q)]
  PROVE  LifeInv'
<1>1. ASSUME NEW j \in Jobs PROVE Asserted(j)'
  BY DEF LifeInv, Asserted, StageTarget
<1>2. ReceiptsFollow'
  BY DEF LifeInv, ReceiptsFollow
<1> QED BY <1>1, <1>2 DEF LifeInv

LEMMA ApiLife ==
  ASSUME Cancellable = {}, Typing, AloneInv, LifeInv, NEW r \in Runs, ApiStep(r)
  PROVE  /\ LifeInv'
         /\ \/ CreateReview(r) \/ EnqueuePrepare(r) \/ CreateInterrupted(r)
            \/ FetchGather(r) \/ FetchStore(r)
<1>1. \/ CreateReview(r) \/ EnqueuePrepare(r) \/ CreateInterrupted(r)
      \/ FetchGather(r) \/ FetchStore(r)
  BY DEF ApiStep, CancelAssert, CancelWrite, LifeInv
<1>2. cancelling' = {}
  BY <1>1 DEF CreateReview, EnqueuePrepare, CreateInterrupted, FetchGather, FetchStore, LifeInv
<1>3. runStatus \in [Runs -> RunStatuses \cup {"absent"}] /\ jobState \in [Jobs -> JobStates]
      /\ \A q \in Runs : StageJob("generate_receipt", q) \in Jobs
  BY JobFacts DEF Typing, PipelineTypeOK, TypeOK, StageTypes
<1>4. CASE CreateReview(r)
  BY <1>1, <1>4, NewRunLife DEF CreateReview, queueVars
<1>5. CASE EnqueuePrepare(r) \/ CreateInterrupted(r) \/ FetchGather(r) \/ FetchStore(r)
  <2>1. UNCHANGED <<runStatus, frame, cancelling>>
    BY <1>5 DEF EnqueuePrepare, CreateInterrupted, FetchGather, FetchStore, storeVars, queueVars
  <2>2. \A q \in Runs : jobState'[StageJob("generate_receipt", q)] = jobState[StageJob("generate_receipt", q)]
    BY <1>3, <1>5
       DEF EnqueuePrepare, CreateInterrupted, FetchGather, FetchStore, queueVars, Enqueue, StageJob
  <2> QED BY <1>1, <2>1, <2>2, LifeUntouched
<1> QED BY <1>1, <1>4, <1>5

LEMMA InitLife ==
  ASSUME Init
  PROVE  AloneInv /\ LifeInv /\ NobodyFetches
<1> USE DEF Init, ControlPlaneInit
<1>1. AloneInv
  BY DEF AloneInv, OneActive, PlacesLive, LiveFrame, IdleFrame
<1>2. \A j \in Jobs : Asserted(j)
  BY DEF Asserted, IdleFrame
<1>3. ReceiptsFollow
  BY JobFacts DEF ReceiptsFollow, StageTypes
<1> QED BY <1>1, <1>2, <1>3 DEF LifeInv, NobodyFetches

LEMMA StepLife ==
  ASSUME Workers = 1, Cancellable = {}, Typing, AloneInv, LifeInv, [Next]_vars
  PROVE  AloneInv' /\ LifeInv'
<1>1. ASSUME NEW j \in Jobs, Work(j) \/ Fault(j) PROVE AloneInv' /\ LifeInv'
  BY <1>1, WorkAlone, WorkLife, FaultLife
<1>2. ASSUME NEW r \in Runs, ApiStep(r) PROVE AloneInv' /\ LifeInv'
  <2>1. /\ LifeInv'
        /\ \/ CreateReview(r) \/ EnqueuePrepare(r) \/ CreateInterrupted(r)
           \/ FetchGather(r) \/ FetchStore(r)
    BY <1>2, ApiLife
  <2>2. UNCHANGED frame /\ (UNCHANGED jobState \/ \E k : Enqueue(k))
    BY <2>1 DEF CreateReview, EnqueuePrepare, CreateInterrupted, FetchGather, FetchStore, queueVars
  <2> QED BY <2>1, <2>2, OutsideAlone
<1>3. CASE UNCHANGED vars
  <2>1. UNCHANGED <<runStatus, jobState, frame, cancelling>>
    BY <1>3 DEF vars, storeVars, queueVars, apiVars
  <2>2. AloneInv'
    BY <2>1 DEF AloneInv, OneActive, PlacesLive, LiveFrame
  <2>3. LifeInv'
    BY <2>1 DEF LifeInv, ReceiptsFollow, Asserted, StageTarget
  <2> QED BY <2>2, <2>3
<1> QED BY <1>1, <1>2, <1>3 DEF Next

\* Whoever may not ask for a receipt is not given one.
LEMMA StepUnfetched ==
  ASSUME Queried = {}, NobodyFetches, [Next]_vars
  PROVE  NobodyFetches'
<1>1. ASSUME NEW r \in Runs, ApiStep(r) PROVE NobodyFetches'
  <2>1. ~FetchGather(r) /\ ~FetchStore(r)
    BY DEF FetchGather, FetchStore, NobodyFetches
  <2>2. UNCHANGED fetching
    BY <1>1, <2>1 DEF ApiStep, CreateReview, EnqueuePrepare, CreateInterrupted, CancelAssert, CancelWrite
  <2> QED BY <2>2 DEF NobodyFetches
<1>2. CASE UNCHANGED fetching
  BY <1>2 DEF NobodyFetches
<1>3. ASSUME NEW j \in Jobs, Work(j) \/ Fault(j) PROVE UNCHANGED fetching
  BY <1>3 DEF Work, Fault, apiVars
<1>4. UNCHANGED vars => UNCHANGED fetching
  BY DEF vars, apiVars
<1> QED BY <1>1, <1>2, <1>3, <1>4 DEF Next

\* With one worker and no cancellation, one handler works at a time, and what it
\* asserted of its run holds until it has written it.
THEOREM LifeInvariant ==
  ASSUME Workers = 1, Cancellable = {}
  PROVE  Spec => [](AloneInv /\ LifeInv)
<1>1. Init => AloneInv /\ LifeInv
  BY InitLife
<1>2. Typing /\ AloneInv /\ LifeInv /\ [Next]_vars => (AloneInv /\ LifeInv)'
  BY StepLife
<1> QED BY <1>1, <1>2, TypingInvariant, PTL DEF Spec

-----------------------------------------------------------------------------
(* The refinement.                                                         *)

\* A step that touches neither the statuses of the runs nor what is published of
\* them is no step of the life cycle.
LEMMA StutterIsMapped ==
  ASSUME UNCHANGED <<runStatus, announced, receipt>>
  PROVE  UNCHANGED Lifecycle!lifecycleVars
BY DEF Lifecycle!lifecycleVars

\* The statuses a handler may move its run to.
Ahead == {"classifying", "source_review_running", "source_review_completed", "validation_running"}
           \cup Dispositions

\* A transition the run's machine allows is a step of the life cycle, or none.
LEMMA StatusIsMapped ==
  ASSUME Typing, NEW r \in Runs, NEW to \in Ahead, CanTransitionRun(runStatus[r], to),
         runStatus' = [runStatus EXCEPT ![r] = to], UNCHANGED <<announced, receipt>>
  PROVE  [Lifecycle!LifecycleNext]_Lifecycle!lifecycleVars
<1> DEFINE from == runStatus[r]
           stage == [q \in Reviews |-> StageOf(runStatus[q])]
           settlement == [q \in Reviews |-> SettledOn(runStatus[q])]
<1>1. runStatus \in [Runs -> RunStatuses \cup {"absent"}] /\ Reviews \subseteq Runs
  BY DEF Typing, PipelineTypeOK, TypeOK, Reviews
<1>2. /\ stage' = [q \in Reviews |-> IF q = r THEN StageOf(to) ELSE stage[q]]
      /\ settlement' = [q \in Reviews |-> IF q = r THEN SettledOn(to) ELSE settlement[q]]
  BY <1>1
<1>3. CASE r \notin Reviews \/ (StageOf(from) = StageOf(to) /\ SettledOn(from) = SettledOn(to))
  <2>1. stage' = stage /\ settlement' = settlement
    BY <1>2, <1>3
  <2> QED BY <2>1 DEF Lifecycle!lifecycleVars
<1>4. CASE /\ r \in Reviews /\ StageOf(from) = "source" /\ StageOf(to) = "target"
           /\ SettledOn(from) = SettledOn(to)
  <2>1. Lifecycle!Escalate(r)
    BY <1>2, <1>4 DEF Lifecycle!Escalate
  <2> QED BY <1>4, <2>1 DEF Lifecycle!LifecycleNext
<1>5. CASE /\ r \in Reviews /\ StageOf(from) \in {"source", "target"} /\ StageOf(to) = "settled"
           /\ SettledOn(to) \in Dispositions
  <2>1. Lifecycle!Settle(r)
    BY <1>2, <1>5 DEF Lifecycle!Settle
  <2> QED BY <1>5, <2>1 DEF Lifecycle!LifecycleNext
<1>6. from \in InProgress
  BY DEF CanTransitionRun, RunEdges, Ahead, Dispositions, InProgress
<1>7. /\ from # "validation_running" => StageOf(from) = "source"
      /\ StageOf(from) \in {"source", "target"} /\ SettledOn(from) = "none"
  BY <1>6 DEF StageOf, SettledOn, InProgress, Dispositions
<1>8. CASE to \in Dispositions
  BY <1>3, <1>5, <1>7, <1>8 DEF StageOf, SettledOn, Dispositions
<1>9. CASE to = "validation_running"
  <2>1. from # "validation_running"
    BY <1>9 DEF CanTransitionRun, RunEdges, InProgress
  <2> QED BY <1>3, <1>4, <1>7, <1>9, <2>1 DEF StageOf, SettledOn, Dispositions
<1>10. CASE to \in {"classifying", "source_review_running", "source_review_completed"}
  <2>1. from # "validation_running"
    BY <1>10 DEF CanTransitionRun, RunEdges, InProgress
  <2> QED BY <1>3, <1>7, <1>10, <2>1 DEF StageOf, SettledOn, Dispositions
<1> QED BY <1>8, <1>9, <1>10 DEF Ahead

\* finalizeRun tells subscribers what the run settled on.
LEMMA AnnounceIsMapped ==
  ASSUME Typing, LifeInv, NEW j \in Jobs, FinalizeAnnounce(j)
  PROVE  [Lifecycle!LifecycleNext]_Lifecycle!lifecycleVars
<1> DEFINE r == j.run
<1>1. /\ r \in Runs /\ announced \in [Runs -> SUBSET Dispositions]
      /\ runStatus[r] = frame[j].decided /\ runStatus[r] \in Dispositions
  BY JobFacts DEF Typing, PipelineTypeOK, TypeOK, LifeInv, Asserted, FinalizeAnnounce, At, PlacesOK,
                  PlaceOK, PlaceFits
<1>2. /\ announced' = [announced EXCEPT ![r] = @ \cup {runStatus[r]}]
      /\ UNCHANGED <<runStatus, receipt>>
  BY <1>1 DEF FinalizeAnnounce
<1>3. CASE r \in Reviews
  <2>1. Lifecycle!Tell(r)
    BY <1>1, <1>2, <1>3 DEF Lifecycle!Tell, StageOf, SettledOn, Dispositions, Reviews
  <2> QED BY <1>3, <2>1 DEF Lifecycle!LifecycleNext
<1>4. CASE r \notin Reviews
  BY <1>1, <1>2, <1>4 DEF Lifecycle!lifecycleVars, Reviews
<1> QED BY <1>3, <1>4

\* The receipt that is stored shows what the run settled on.
LEMMA StoreIsMapped ==
  ASSUME Typing, LifeInv, NEW j \in Jobs, ReceiptStore(j)
  PROVE  [Lifecycle!LifecycleNext]_Lifecycle!lifecycleVars
<1> DEFINE r == j.run
<1>1. /\ r \in Runs /\ receipt \in [Runs -> ReceiptStatuses \cup {"none"}]
      /\ ShownAs(frame[j].decided) = ToShow(runStatus[r])
  BY JobFacts DEF Typing, PipelineTypeOK, TypeOK, LifeInv, Asserted, ReceiptStore, At
<1>2. runStatus[r] \in Dispositions
  <2>1. j.type = "generate_receipt" /\ jobState[j] = "active"
    BY DEF ReceiptStore, At, Typing, PlacesOK, PlaceOK, PlaceFits
  <2>2. j = StageJob("generate_receipt", r)
    BY <2>1 DEF Jobs, StageTypes, FindingTypes, StageJob
  <2> QED BY <1>1, <2>1, <2>2 DEF LifeInv, ReceiptsFollow
<1>3. receipt' = [receipt EXCEPT ![r] = frame[j].decided] /\ UNCHANGED <<runStatus, announced>>
  BY DEF ReceiptStore
<1>4. CASE r \in Reviews
  <2>1. Lifecycle!Show(r)
    <3>1. StageOf(runStatus[r]) = "settled" /\ SettledOn(runStatus[r]) = runStatus[r]
      BY <1>2 DEF StageOf, SettledOn, Dispositions
    <3>2. ShownAs(receipt'[r]) = IF runStatus[r] \in Lifecycle!Gates THEN runStatus[r] ELSE "clear"
      BY <1>1, <1>3 DEF ToShow, Lifecycle!Gates
    <3>3. [q \in Reviews |-> ShownAs(receipt'[q])]
            = [[q \in Reviews |-> ShownAs(receipt[q])] EXCEPT ![r] = ShownAs(receipt'[r])]
      BY <1>1, <1>3, <1>4 DEF Reviews
    <3> QED BY <1>3, <1>4, <3>1, <3>2, <3>3 DEF Lifecycle!Show
  <2> QED BY <1>4, <2>1 DEF Lifecycle!LifecycleNext
<1>5. CASE r \notin Reviews
  BY <1>1, <1>3, <1>5 DEF Lifecycle!lifecycleVars, Reviews
<1> QED BY <1>4, <1>5

LEMMA WorkIsMapped ==
  ASSUME Typing, LifeInv, NEW j \in Jobs, Work(j)
  PROVE  [Lifecycle!LifecycleNext]_Lifecycle!lifecycleVars
<1>1. j.run \in Runs /\ Asserted(j) /\ PlaceOK(j)
  BY JobFacts DEF LifeInv, Typing, PlacesOK
<1>2. ASSUME NEW to \in Ahead, NEW label, WriteRunStatus(j, to, label), CanTransitionRun(runStatus[j.run], to)
      PROVE  [Lifecycle!LifecycleNext]_Lifecycle!lifecycleVars
  BY <1>1, <1>2, StatusIsMapped DEF WriteRunStatus
<1>3. CASE PrepareWrite(j) \/ ClassifyWrite(j) \/ DeepSecWrite(j) \/ RoutingWrite(j)
  BY <1>1, <1>2, <1>3
     DEF PrepareWrite, ClassifyWrite, DeepSecWrite, RoutingWrite, At, Asserted, StageTarget, Ahead
<1>4. CASE FinalizeWrite(j)
  BY <1>1, <1>2, <1>4 DEF FinalizeWrite, At, Asserted, PlaceOK, PlaceFits, Ahead
<1>5. CASE UNCHANGED runStatus
  BY <1>5, Writers, AnnounceIsMapped, StoreIsMapped, StutterIsMapped DEF FinalizeAnnounce, ReceiptStore
<1> QED BY <1>3, <1>4, <1>5, Writers

LEMMA OutsideIsMapped ==
  ASSUME Cancellable = {}, Queried = {}, Typing, AloneInv, LifeInv, NobodyFetches, NEW r \in Runs, ApiStep(r)
  PROVE  [Lifecycle!LifecycleNext]_Lifecycle!lifecycleVars
<1>1. CreateReview(r) \/ EnqueuePrepare(r) \/ CreateInterrupted(r)
  BY ApiLife DEF FetchGather, FetchStore, NobodyFetches
<1>2. CASE CreateReview(r)
  <2>1. /\ r \in Reviews /\ runStatus[r] = "absent" /\ runStatus' = [runStatus EXCEPT ![r] = "queued"]
        /\ UNCHANGED <<announced, receipt>> /\ runStatus \in [Runs -> RunStatuses \cup {"absent"}]
    BY <1>2 DEF CreateReview, Typing, PipelineTypeOK, TypeOK
  <2>2. /\ StageOf("absent") = "unasked" /\ StageOf("queued") = "source"
        /\ SettledOn("absent") = "none" /\ SettledOn("queued") = "none"
    BY DEF StageOf, SettledOn, Dispositions
  <2>3. Lifecycle!Ask(r)
    BY <2>1, <2>2 DEF Lifecycle!Ask, Reviews
  <2> QED BY <2>1, <2>3 DEF Lifecycle!LifecycleNext
<1>3. CASE EnqueuePrepare(r) \/ CreateInterrupted(r)
  BY <1>3, StutterIsMapped DEF EnqueuePrepare, CreateInterrupted, storeVars
<1> QED BY <1>1, <1>2, <1>3

LEMMA StepIsMapped ==
  ASSUME Cancellable = {}, Queried = {}, Typing, AloneInv, LifeInv, NobodyFetches, [Next]_vars
  PROVE  [Lifecycle!LifecycleNext]_Lifecycle!lifecycleVars
<1>1. ASSUME NEW j \in Jobs, Fault(j) PROVE [Lifecycle!LifecycleNext]_Lifecycle!lifecycleVars
  BY <1>1, StutterIsMapped DEF Fault, Interrupt, storeVars
<1>2. CASE UNCHANGED vars
  BY <1>2, StutterIsMapped DEF vars, storeVars
<1> QED BY <1>1, <1>2, WorkIsMapped, OutsideIsMapped DEF Next

\* With one worker, and clients who neither cancel nor ask for a receipt before
\* it is there, the pipeline implements the life cycle: a run that has settled
\* stays as it is, and what is told and shown of it is what it settled on.
THEOREM ReviewKeepsLifecycle ==
  ASSUME Workers = 1, Cancellable = {}, Queried = {}
  PROVE  Spec => ImplementsLifecycle
<1>1. Init => NobodyFetches /\ Lifecycle!LifecycleInit
  <2>1. Init => Lifecycle!LifecycleInit
    BY DEF Init, ControlPlaneInit, Lifecycle!LifecycleInit, StageOf, SettledOn, ShownAs, Dispositions, Reviews
  <2> QED BY <2>1, InitLife
<1>2. NobodyFetches /\ [Next]_vars => NobodyFetches'
  BY StepUnfetched
<1>3. Typing /\ AloneInv /\ LifeInv /\ NobodyFetches /\ [Next]_vars
        => [Lifecycle!LifecycleNext]_Lifecycle!lifecycleVars
  BY StepIsMapped
<1> QED
  BY <1>1, <1>2, <1>3, TypingInvariant, LifeInvariant, PTL
     DEF Spec, ImplementsLifecycle, Lifecycle!LifecycleSpec

-----------------------------------------------------------------------------
(* With one worker and no cancellation: a run settles when all is judged.  *)

\* Between the count that found no validation outstanding and the disposition,
\* nobody asks for another; and routing begins where DeepSec has left the run.
Drained(j) ==
  /\ j.type = "run_deepsec" /\ frame[j].at = "enqueue" => runStatus[j.run] = "source_review_completed"
  /\ frame[j].at \in {"finalize", "settle_read", "settle_write"} => StillQueued(j.run) = {}

DrainedInv == \A j \in Jobs : Drained(j)

\* Routing has not yet written where it leaves the run.
Routes(r) ==
  \/ jobState[RoutingJob(r)] = "waiting"
  \/ /\ jobState[RoutingJob(r)] = "active"
     /\ frame[RoutingJob(r)].at \notin {"receipt", "announce", "return"}

\* Without faults routing goes through a run once, before its missions.
RoutedOnce(r) ==
  /\ jobState[RoutingJob(r)] # "dead"
  /\ jobState[RoutingJob(r)] \in {"none", "waiting"}
       => \A f \in Findings : jobState[StrixJob(r, f)] = "none"
  /\ jobState[RoutingJob(r)] = "none" => runStatus[r] \notin Dispositions
  /\ Routes(r) => runStatus[r] = "source_review_completed"
  /\ runStatus[r] \in Dispositions => StillQueued(r) = {}

OneAtATime == Typing /\ Safe /\ ProgressInv /\ AloneInv /\ LifeInv

SettleInv == DrainedInv /\ (interrupts = 0 => \A r \in Runs : RoutedOnce(r))

\* Where no status was counted on, nothing is claimed.
LEMMA FreelyDrained ==
  ASSUME NEW j \in Jobs, frame'[j].at \notin {"enqueue", "finalize", "settle_read", "settle_write"}
  PROVE  Drained(j)'
BY DEF Drained

LEMMA WorkDrained ==
  ASSUME Workers = 1, OneAtATime, DrainedInv, NEW j \in Jobs, Work(j)
  PROVE  DrainedInv'
<1>1. \A k \in Jobs \ {j} : Drained(k)'
  BY OthersIdle, FreelyDrained DEF OneAtATime
<1> SUFFICES Drained(j)'
  BY <1>1 DEF DrainedInv
<1>2. /\ Typing /\ Safe /\ ProgressInv /\ Drained(j) /\ j.run \in Runs
      /\ runStatus \in [Runs -> RunStatuses \cup {"absent"}]
  BY JobFacts DEF OneAtATime, DrainedInv, Typing, PipelineTypeOK, TypeOK
<1>3. CASE RoutingCount(j) \/ StrixCount(j) \/ FinalizeDecide(j) \/ FinalizeAssert(j)
  <2>1. UNCHANGED storeVars
    BY <1>3 DEF RoutingCount, StrixCount, FinalizeDecide, FinalizeAssert, AssertRunTransition
  <2>2. StillQueued(j.run)' = StillQueued(j.run)
    BY <2>1 DEF storeVars, StillQueued
  <2>3. frame'[j].at \in {"finalize", "settle_read", "settle_write"} => StillQueued(j.run) = {}
    BY <1>2, <1>3, NextPlace DEF FinalizeDecide, FinalizeAssert, At, Drained, Thrown, MovedTo
  <2>4. frame'[j].at # "enqueue"
    BY <1>2, <1>3, NextPlace DEF Thrown, MovedTo
  <2> QED BY <2>2, <2>3, <2>4 DEF Drained
<1>4. CASE DeepSecWrite(j)
  <2>1. frame'[j].at = "enqueue"
    BY <1>2, <1>4, NextPlace DEF MovedTo
  <2>2. runStatus'[j.run] = "source_review_completed"
    BY <1>2, <1>4 DEF DeepSecWrite, WriteRunStatus
  <2> QED BY <2>1, <2>2 DEF Drained
<1>5. CASE PrepareSnapshot(j) \/ ClassifyWrite(j) \/ RoutingEscalate(j)
  <2>1. frame'[j].at = "enqueue"
    BY <1>2, <1>5, NextPlace DEF MovedTo
  <2>2. j.type # "run_deepsec"
    BY <1>2, <1>5 DEF PrepareSnapshot, ClassifyWrite, RoutingEscalate, At, Typing, PlacesOK, PlaceOK, PlaceFits
  <2> QED BY <2>1, <2>2 DEF Drained
<1>6. CASE \/ PickUp(j) \/ Return(j) \/ PrepareAssert(j) \/ PrepareWrite(j) \/ PrepareEnqueue(j)
           \/ ClassifyCreate(j) \/ ClassifyAssert(j) \/ ClassifyEnqueue(j)
           \/ DeepSecLookup(j) \/ DeepSecPersist(j) \/ DeepSecAssert(j) \/ DeepSecEnqueue(j)
  BY <1>2, <1>6, NextPlace, FreelyDrained DEF Thrown, MovedTo
<1>7. CASE \/ RoutingBegin(j) \/ RoutingDecide(j) \/ RoutingEnqueue(j) \/ RoutingAssert(j) \/ RoutingWrite(j)
           \/ StrixMission(j) \/ StrixPersist(j)
           \/ FinalizeWrite(j) \/ FinalizeReceipt(j) \/ FinalizeAnnounce(j)
           \/ ReceiptGather(j) \/ ReceiptStore(j)
  BY <1>2, <1>7, NextPlace, FreelyDrained DEF Thrown, MovedTo
<1> QED BY <1>3, <1>4, <1>5, <1>6, <1>7, WorkActions

LEMMA FaultDrained ==
  ASSUME Workers = 1, OneAtATime, DrainedInv, NEW j \in Jobs, Fault(j)
  PROVE  DrainedInv'
<1>1. frame'[j].at = "idle"
  BY ThrowThrows DEF OneAtATime, Fault, Interrupt, Thrown
<1> QED BY <1>1, OthersIdle, FreelyDrained DEF OneAtATime, DrainedInv

LEMMA ApiDrained ==
  ASSUME Cancellable = {}, OneAtATime, DrainedInv, NEW r \in Runs, ApiStep(r)
  PROVE  /\ DrainedInv'
         /\ UNCHANGED <<findingStatus, linked, frame>>
         /\ UNCHANGED runStatus \/ (runStatus[r] = "absent" /\ runStatus' = [runStatus EXCEPT ![r] = "queued"])
         /\ \/ UNCHANGED jobState
            \/ Enqueue(StageJob("prepare_repository", r))
<1>1. \/ CreateReview(r) \/ EnqueuePrepare(r) \/ CreateInterrupted(r)
      \/ FetchGather(r) \/ FetchStore(r)
  BY ApiLife DEF OneAtATime
<1>2. /\ UNCHANGED <<findingStatus, linked, frame>>
      /\ UNCHANGED runStatus \/ (runStatus[r] = "absent" /\ runStatus' = [runStatus EXCEPT ![r] = "queued"])
      /\ \/ UNCHANGED jobState
         \/ Enqueue(StageJob("prepare_repository", r))
  BY <1>1 DEF CreateReview, EnqueuePrepare, CreateInterrupted, FetchGather, FetchStore, storeVars, queueVars
<1>3. ASSUME NEW k \in Jobs PROVE Drained(k)'
  <2>1. /\ Drained(k) /\ k.run \in Runs /\ StillQueued(k.run)' = StillQueued(k.run)
        /\ runStatus \in [Runs -> RunStatuses \cup {"absent"}]
    BY <1>2, JobFacts DEF DrainedInv, StillQueued, OneAtATime, Typing, PipelineTypeOK, TypeOK
  <2>2. runStatus[k.run] = "source_review_completed" => runStatus'[k.run] = runStatus[k.run]
    BY <1>2, <2>1
  <2> QED BY <1>2, <2>1, <2>2 DEF Drained
<1> QED BY <1>2, <1>3 DEF DrainedInv

\* A handler counts no fault.
LEMMA WorkIsNoFault ==
  ASSUME NEW j \in Jobs, Work(j)
  PROVE  UNCHANGED interrupts
<1>1. CASE PickUp(j) \/ Return(j)
  BY <1>1 DEF PickUp, Return
<1>2. CASE PrepareAssert(j) \/ PrepareWrite(j) \/ PrepareSnapshot(j) \/ PrepareEnqueue(j)
  BY <1>2 DEF PrepareAssert, PrepareWrite, PrepareSnapshot, PrepareEnqueue,
              AssertRunTransition, WriteRunStatus
<1>3. CASE ClassifyCreate(j) \/ ClassifyAssert(j) \/ ClassifyWrite(j) \/ ClassifyEnqueue(j)
  BY <1>3 DEF ClassifyCreate, ClassifyAssert, ClassifyWrite, ClassifyEnqueue,
              AssertRunTransition, WriteRunStatus
<1>4. CASE \/ DeepSecLookup(j) \/ DeepSecPersist(j)
           \/ DeepSecAssert(j) \/ DeepSecWrite(j) \/ DeepSecEnqueue(j)
  BY <1>4 DEF DeepSecLookup, DeepSecPersist, DeepSecAssert, DeepSecWrite, DeepSecEnqueue,
              AssertRunTransition, WriteRunStatus
<1>5. CASE \/ RoutingBegin(j) \/ RoutingDecide(j) \/ RoutingEscalate(j) \/ RoutingEnqueue(j)
           \/ RoutingCount(j) \/ RoutingAssert(j) \/ RoutingWrite(j)
  BY <1>5 DEF RoutingBegin, RoutingDecide, RoutingEscalate, RoutingEnqueue,
              RoutingCount, RoutingAssert, RoutingWrite, AssertRunTransition, WriteRunStatus
<1>6. CASE StrixMission(j) \/ StrixPersist(j) \/ StrixCount(j)
  BY <1>6 DEF StrixMission, StrixPersist, StrixCount
<1>7. CASE \/ FinalizeDecide(j) \/ FinalizeAssert(j) \/ FinalizeWrite(j)
           \/ FinalizeReceipt(j) \/ FinalizeAnnounce(j)
  BY <1>7 DEF FinalizeDecide, FinalizeAssert, FinalizeWrite, FinalizeReceipt, FinalizeAnnounce,
              AssertRunTransition, WriteRunStatus
<1>8. CASE ReceiptGather(j) \/ ReceiptStore(j)
  BY <1>8 DEF ReceiptGather, ReceiptStore
<1> QED BY <1>1, <1>2, <1>3, <1>4, <1>5, <1>6, <1>7, <1>8, WorkActions

LEMMA RoutingJobFacts ==
  ASSUME NEW r \in Runs
  PROVE  /\ RoutingJob(r) \in Jobs
         /\ RoutingJob(r).type = "apply_routing_policy" /\ RoutingJob(r).run = r
         /\ \A j \in Jobs : j.type = "apply_routing_policy" /\ j.run = r => j = RoutingJob(r)
BY DEF RoutingJob, StageJob, Jobs, StageTypes, FindingTypes

\* Without faults nothing in routing throws: what it escalates waits for its
\* routing decision, and the run is where DeepSec left it.
LEMMA RoutingDoesNotThrow ==
  ASSUME OneAtATime, NEW r \in Runs, Routes(r), runStatus[r] = "source_review_completed", Work(RoutingJob(r))
  PROVE  ~Thrown(RoutingJob(r))
<1> DEFINE j == RoutingJob(r)
<1>1. /\ j \in Jobs /\ j.type = "apply_routing_policy" /\ j.run = r /\ Typing /\ Safe /\ ProgressInv
      /\ InHand(j) /\ PlaceOK(j)
  BY RoutingJobFacts DEF OneAtATime, Safe, HandlersSafe, Typing, PlacesOK
<1> HIDE DEF j
<1>2. SUFFICES ASSUME Thrown(j) PROVE FALSE
  BY DEF j
<1>3. Work(j)
  BY DEF j
<1>4. \/ PickUp(j) \/ Return(j)
      \/ RoutingBegin(j) \/ RoutingDecide(j) \/ RoutingEscalate(j) \/ RoutingEnqueue(j)
      \/ RoutingCount(j) \/ RoutingAssert(j) \/ RoutingWrite(j)
      \/ FinalizeDecide(j) \/ FinalizeAssert(j) \/ FinalizeWrite(j)
      \/ FinalizeReceipt(j) \/ FinalizeAnnounce(j)
  BY <1>1, <1>3, ActionsByType
<1>5. RoutingDecide(j) \/ RoutingAssert(j) \/ FinalizeAssert(j)
  BY <1>1, <1>2, <1>3, <1>4, NextPlace DEF Thrown, MovedTo
<1>6. jobState[j] = "active" /\ jobState'[j] # "active"
  BY <1>2, <1>5 DEF RoutingDecide, RoutingAssert, FinalizeAssert, At, Thrown
<1>7. CASE RoutingDecide(j)
  <2>1. PICK f \in frame[j].todo : ~CanTransitionFinding(findingStatus[f], "validation_queued")
    BY <1>6, <1>7 DEF RoutingDecide
  <2>2. findingStatus[f] = "source_confirmed"
    BY <1>1, <1>7, <2>1 DEF RoutingDecide, At, InHand, RoutingInHand
  <2> QED BY <2>1, <2>2 DEF CanTransitionFinding, FindingEdges
<1>8. CASE RoutingAssert(j)
  BY <1>1, <1>6, <1>8 DEF RoutingAssert, AssertRunTransition, CanTransitionRun, RunEdges
<1>9. CASE FinalizeAssert(j)
  <2>1. frame[j].decided \in Dispositions
    BY <1>1, <1>9 DEF FinalizeAssert, At, PlaceOK, PlaceFits
  <2>2. CanTransitionRun(runStatus[j.run], frame[j].decided)
    BY <1>1, <2>1 DEF CanTransitionRun, RunEdges, Dispositions
  <2> QED BY <1>6, <1>9, <2>2 DEF FinalizeAssert, AssertRunTransition
<1> QED BY <1>5, <1>7, <1>8, <1>9

\* Only its own handlers write the status of a run, along the edges of its machine.
LEMMA StatusWriters ==
  ASSUME Typing, LifeInv, NEW j \in Jobs, FitsType(j), Work(j),
         NEW r \in Runs, runStatus'[r] # runStatus[r]
  PROVE  /\ j.run = r /\ jobState[j] = "active"
         /\ \/ /\ PrepareWrite(j) \/ ClassifyWrite(j) \/ DeepSecWrite(j) \/ RoutingWrite(j)
               /\ CanTransitionRun(runStatus[r], StageTarget(j)) /\ runStatus'[r] = StageTarget(j)
            \/ FinalizeWrite(j) /\ j.type \in Finalizers
<1>1. runStatus \in [Runs -> RunStatuses \cup {"absent"}] /\ Asserted(j)
  BY DEF Typing, PipelineTypeOK, TypeOK, LifeInv
<1>2. CASE PrepareWrite(j) \/ ClassifyWrite(j) \/ DeepSecWrite(j) \/ RoutingWrite(j)
  BY <1>1, <1>2
     DEF PrepareWrite, ClassifyWrite, DeepSecWrite, RoutingWrite, WriteRunStatus, At, Asserted, StageTarget
<1>3. CASE FinalizeWrite(j)
  BY <1>1, <1>3 DEF FinalizeWrite, WriteRunStatus, At, FitsType, Settling
<1> QED BY <1>2, <1>3, Writers

\* A finding comes to a run as DeepSec has found it.
LEMMA NewFindings ==
  ASSUME OneAtATime, NEW j \in Jobs, Work(j), NEW r \in Runs, NEW f \in linked'[r] \ linked[r]
  PROVE  findingStatus'[f] # "validation_queued"
<1>1. /\ linked \in [Runs -> SUBSET Findings] /\ j.run \in Runs /\ InHand(j) /\ Safe /\ Typing
      /\ frame[j] \in Frames
  BY JobFacts DEF OneAtATime, Typing, PipelineTypeOK, TypeOK, Safe, HandlersSafe
<1>2. CASE DeepSecPersist(j)
  <2>1. f \in frame[j].todo /\ (\E again : Reported(j, again)) /\ frame[j].todo \subseteq Findings
    BY <1>1, <1>2 DEF DeepSecPersist, Frames
  <2> QED BY <2>1 DEF Reported, FirstStatus
<1>3. CASE RoutingEscalate(j)
  BY <1>1, <1>3 DEF RoutingEscalate, At, InHand, RoutingInHand
<1>4. CASE StrixPersist(j)
  <2>1. j.finding \in linked[j.run]
    BY <1>1, <1>4 DEF StrixPersist, At, Safe, StageInputsExist
  <2> QED BY <1>1, <1>4, <2>1 DEF StrixPersist
<1> QED BY <1>2, <1>3, <1>4, Writers

\* Without faults a routing job that works goes on to its end.
LEMMA RoutingGoesOn ==
  ASSUME OneAtATime, NEW r \in Runs, RoutedOnce(r), Work(RoutingJob(r))
  PROVE  /\ jobState'[RoutingJob(r)] \in {"active", "done"}
         /\ Routes(r)' => Routes(r)
<1> DEFINE j == RoutingJob(r)
<1>1. j \in Jobs /\ j.type = "apply_routing_policy" /\ Typing /\ Safe /\ ProgressInv /\ Work(j)
  BY RoutingJobFacts DEF OneAtATime
<1>2. Routes(r) => ~Thrown(j)
  BY RoutingDoesNotThrow DEF RoutedOnce
<1>3. /\ Routes(r) <=> \/ jobState[j] = "waiting"
                       \/ jobState[j] = "active" /\ frame[j].at \notin {"receipt", "announce", "return"}
      /\ Routes(r)' <=> \/ jobState'[j] = "waiting"
                        \/ jobState'[j] = "active" /\ frame'[j].at \notin {"receipt", "announce", "return"}
  BY DEF Routes
<1> HIDE DEF j
<1> SUFFICES jobState'[j] \in {"active", "done"} /\ (Routes(r)' => Routes(r))
  BY DEF j
<1>4. \/ PickUp(j) \/ Return(j)
      \/ RoutingBegin(j) \/ RoutingDecide(j) \/ RoutingEscalate(j) \/ RoutingEnqueue(j)
      \/ RoutingCount(j) \/ RoutingAssert(j) \/ RoutingWrite(j)
      \/ FinalizeDecide(j) \/ FinalizeAssert(j) \/ FinalizeWrite(j)
      \/ FinalizeReceipt(j) \/ FinalizeAnnounce(j)
  BY <1>1, ActionsByType
<1>5. CASE FinalizeReceipt(j) \/ FinalizeAnnounce(j) \/ Return(j)
  BY <1>1, <1>3, <1>5, NextPlace DEF MovedTo
<1>6. CASE PickUp(j)
  BY <1>1, <1>3, <1>6, NextPlace DEF MovedTo, PickUp
<1>7. CASE RoutingDecide(j) \/ RoutingAssert(j) \/ FinalizeAssert(j)
  <2>1. Routes(r)
    BY <1>3, <1>7 DEF RoutingDecide, RoutingAssert, FinalizeAssert, At
  <2> QED BY <1>1, <1>2, <1>7, <2>1, NextPlace DEF MovedTo
<1>8. CASE \/ RoutingBegin(j) \/ RoutingEscalate(j) \/ RoutingEnqueue(j) \/ RoutingCount(j)
           \/ RoutingWrite(j) \/ FinalizeDecide(j) \/ FinalizeWrite(j)
  <2>1. Routes(r)
    BY <1>3, <1>8 DEF RoutingBegin, RoutingEscalate, RoutingEnqueue, RoutingCount, RoutingWrite,
                      FinalizeDecide, FinalizeWrite, At
  <2> QED BY <1>1, <1>8, <2>1, NextPlace DEF MovedTo
<1> QED BY <1>4, <1>5, <1>6, <1>7, <1>8

\* Before routing there are no missions, and no disposition.
LEMMA MissionsFollowRouting ==
  ASSUME OneAtATime, NEW r \in Runs, RoutedOnce(r), NEW j \in Jobs, Work(j)
  PROVE  /\ jobState'[RoutingJob(r)] # "dead"
         /\ jobState'[RoutingJob(r)] \in {"none", "waiting"}
              => \A f \in Findings : jobState'[StrixJob(r, f)] = "none"
         /\ jobState'[RoutingJob(r)] = "none" => runStatus'[r] \notin Dispositions
<1> DEFINE R == RoutingJob(r)
<1>1. R \in Jobs /\ Typing /\ \A i \in Jobs : i.type = "apply_routing_policy" /\ i.run = r => i = R
  BY RoutingJobFacts DEF OneAtATime
<1>2. j = R => jobState'[R] \in {"active", "done"}
  BY RoutingGoesOn
<1>3. /\ jobState[R] # "dead"
      /\ jobState[R] \in {"none", "waiting"} => \A f \in Findings : jobState[StrixJob(r, f)] = "none"
      /\ jobState[R] = "none" => runStatus[r] \notin Dispositions
  BY DEF RoutedOnce
<1> HIDE DEF R
<1>4. j # R => \/ jobState'[R] = jobState[R]
               \/ jobState[R] = "none" /\ jobState'[R] \in {"none", "waiting"}
  BY <1>1, OnlyOwnJob, WorkKeeps
<1>5. jobState'[R] # "dead"
  BY <1>2, <1>3, <1>4
<1>6. ASSUME jobState'[R] \in {"none", "waiting"}, NEW f \in Findings
      PROVE  jobState'[StrixJob(r, f)] = "none"
  <2> DEFINE k == StrixJob(r, f)
  <2>1. k \in Jobs /\ k.run = r /\ k.type = "run_strix_validation"
    BY JobFacts DEF StrixJob, FindingJob
  <2>2. j # R /\ jobState[k] = "none"
    BY <1>2, <1>3, <1>4, <1>6
  <2> HIDE DEF k
  <2>3. SUFFICES ASSUME jobState'[k] # "none" PROVE FALSE
    BY DEF k
  <2>4. j.run = r /\ RoutingEnqueue(j)
    BY <1>1, <2>1, <2>2, <2>3, Adders
  <2> QED BY <1>1, <2>2, <2>4 DEF RoutingEnqueue
<1>7. ASSUME jobState'[R] = "none", runStatus'[r] \in Dispositions
      PROVE  FALSE
  <2>1. jobState[R] = "none" /\ runStatus'[r] # runStatus[r]
    BY <1>1, <1>2, <1>3, <1>4, <1>7
  <2>2. j.run = r /\ jobState[j] = "active" /\ j.type \in Finalizers
    BY <1>7, <2>1, PipelineTypes, StatusWriters DEF StageTarget, Dispositions, OneAtATime
  <2>3. j.type = "run_strix_validation"
    BY <1>1, <2>1, <2>2 DEF Finalizers
  <2>4. j.finding \in Findings /\ j = StrixJob(r, j.finding)
    BY <2>2, <2>3, JobFacts DEF Jobs, StageTypes, FindingTypes, StrixJob, FindingJob
  <2> QED BY <1>3, <2>1, <2>2, <2>4
<1> QED BY <1>5, <1>6, <1>7 DEF R

\* While routing is under way nobody else moves the run.
LEMMA RoutingFromReview ==
  ASSUME OneAtATime, DrainedInv, NEW r \in Runs, RoutedOnce(r), NEW j \in Jobs, Work(j), Routes(r)'
  PROVE  runStatus'[r] = "source_review_completed"
<1> DEFINE R == RoutingJob(r)
<1>1. /\ R \in Jobs /\ R.type = "apply_routing_policy" /\ R.run = r /\ Typing
      /\ \A i \in Jobs : i.type = "apply_routing_policy" /\ i.run = r => i = R
  BY RoutingJobFacts DEF OneAtATime
<1>2. j = R => Routes(r)
  BY RoutingGoesOn
<1>3. /\ Routes(r) <=> \/ jobState[R] = "waiting"
                       \/ jobState[R] = "active" /\ frame[R].at \notin {"receipt", "announce", "return"}
      /\ Routes(r)' <=> \/ jobState'[R] = "waiting"
                        \/ jobState'[R] = "active" /\ frame'[R].at \notin {"receipt", "announce", "return"}
  BY DEF Routes
<1>4. /\ Routes(r) => runStatus[r] = "source_review_completed"
      /\ jobState[R] \in {"none", "waiting"} => \A f \in Findings : jobState[StrixJob(r, f)] = "none"
  BY DEF RoutedOnce
<1> HIDE DEF R
<1>5. CASE ~Routes(r)
  <2>1. jobState[R] = "none" /\ jobState'[R] # "none"
    BY <1>1, <1>2, <1>3, <1>5, OnlyOwnJob
  <2>2. DeepSecEnqueue(j) /\ j.run = r
    BY <1>1, <2>1, Adders
  <2>3. runStatus[r] = "source_review_completed"
    BY <2>2 DEF DeepSecEnqueue, At, DrainedInv, Drained
  <2> QED BY <2>2, <2>3 DEF DeepSecEnqueue, storeVars
<1>6. CASE Routes(r)
  <2>1. SUFFICES ASSUME runStatus'[r] # runStatus[r] PROVE FALSE
    BY <1>4, <1>6
  <2>2. /\ j.run = r /\ jobState[j] = "active"
        /\ \/ /\ PrepareWrite(j) \/ ClassifyWrite(j) \/ DeepSecWrite(j) \/ RoutingWrite(j)
              /\ CanTransitionRun("source_review_completed", StageTarget(j))
           \/ FinalizeWrite(j) /\ j.type \in Finalizers
    BY <1>4, <1>6, <2>1, PipelineTypes, StatusWriters DEF OneAtATime
  <2>3. j # R
    <3>1. SUFFICES ASSUME j = R PROVE FALSE
      OBVIOUS
    <3>2. RoutingWrite(j) \/ FinalizeWrite(j)
      BY <1>1, <2>2, <3>1 DEF PrepareWrite, ClassifyWrite, DeepSecWrite
    <3>3. MovedTo(j, {"return"}) \/ MovedTo(j, {"receipt"})
      BY <1>1, <3>2, NextPlace
    <3> QED BY <1>3, <3>1, <3>3 DEF MovedTo
  <2>4. ~RoutingWrite(j)
    BY <1>1, <2>2, <2>3 DEF RoutingWrite
  <2>5. FinalizeWrite(j) /\ j.type = "run_strix_validation"
    <3>1. ~(PrepareWrite(j) /\ CanTransitionRun("source_review_completed", StageTarget(j)))
      BY DEF PrepareWrite, StageTarget, CanTransitionRun, RunEdges, InProgress
    <3>2. ~(ClassifyWrite(j) /\ CanTransitionRun("source_review_completed", StageTarget(j)))
      BY DEF ClassifyWrite, StageTarget, CanTransitionRun, RunEdges, InProgress
    <3>3. ~(DeepSecWrite(j) /\ CanTransitionRun("source_review_completed", StageTarget(j)))
      BY DEF DeepSecWrite, StageTarget, CanTransitionRun, RunEdges, InProgress
    <3> QED BY <1>1, <2>2, <2>3, <2>4, <3>1, <3>2, <3>3 DEF Finalizers
  <2>6. j.finding \in Findings /\ j = StrixJob(r, j.finding)
    BY <2>2, <2>5, JobFacts DEF Jobs, StageTypes, FindingTypes, StrixJob, FindingJob
  <2>7. jobState[R] = "active"
    BY <1>3, <1>4, <1>6, <2>2, <2>6
  <2> QED BY <1>1, <2>2, <2>3, <2>7 DEF OneAtATime, AloneInv, OneActive
<1> QED BY <1>5, <1>6

\* What has settled stays drained: nobody asks for another validation.
LEMMA SettledStaysDrained ==
  ASSUME OneAtATime, DrainedInv, NEW r \in Runs, \A q \in Runs : RoutedOnce(q), NEW j \in Jobs, Work(j),
         runStatus'[r] \in Dispositions
  PROVE  StillQueued(r)' = {}
<1>1. Typing /\ Safe /\ linked \in [Runs -> SUBSET Findings] /\ j.run \in Runs
  BY JobFacts DEF OneAtATime, Typing, PipelineTypeOK, TypeOK
<1>2. CASE runStatus'[r] # runStatus[r]
  <2>1. FinalizeWrite(j) /\ j.run = r
    BY <1>2, PipelineTypes, StatusWriters DEF StageTarget, Dispositions, OneAtATime
  <2>2. StillQueued(r) = {}
    BY <2>1 DEF FinalizeWrite, At, DrainedInv, Drained
  <2> QED BY <2>1, <2>2 DEF FinalizeWrite, WriteRunStatus, StillQueued
<1>3. CASE runStatus'[r] = runStatus[r]
  <2>1. StillQueued(r) = {}
    BY <1>3 DEF RoutedOnce
  <2>2. SUFFICES ASSUME NEW f \in StillQueued(r)' PROVE FALSE
    OBVIOUS
  <2>3. f \in linked'[r] /\ findingStatus'[f] = "validation_queued"
    BY <2>2 DEF StillQueued
  <2>4. f \in linked[r] /\ f \in Findings /\ findingStatus[f] # "validation_queued"
    BY <1>1, <2>1, <2>3, NewFindings DEF StillQueued
  <2>5. /\ j.type = "apply_routing_policy" /\ frame[j].at = "write_finding" /\ f = frame[j].finding
    BY <1>1, <2>3, <2>4, WorkMovesFindings DEF FindingMoves, Conclusive, Verdicts
  <2>6. f \in linked[j.run]
    BY <1>1, <2>5 DEF Safe, HandlersSafe, InHand, RoutingInHand
  <2>7. j.run = r
    BY <1>1, <2>4, <2>6 DEF Safe, FindingsSafe, LinkedApart
  <2>8. jobState[j] = "active" /\ j = RoutingJob(r)
    BY <1>1, <2>5, <2>7, RoutingJobFacts DEF Safe, HandlersSafe, InHand, LiveFrame
  <2>9. Routes(r)
    BY <2>5, <2>8 DEF Routes
  <2> QED BY <1>3, <2>9 DEF RoutedOnce, Dispositions
<1> QED BY <1>2, <1>3

LEMMA WorkRouted ==
  ASSUME OneAtATime, DrainedInv, \A q \in Runs : RoutedOnce(q), NEW j \in Jobs, Work(j), NEW r \in Runs
  PROVE  RoutedOnce(r)'
<1>1. /\ jobState'[RoutingJob(r)] # "dead"
      /\ jobState'[RoutingJob(r)] \in {"none", "waiting"}
           => \A f \in Findings : jobState'[StrixJob(r, f)] = "none"
      /\ jobState'[RoutingJob(r)] = "none" => runStatus'[r] \notin Dispositions
  BY MissionsFollowRouting
<1>2. Routes(r)' => runStatus'[r] = "source_review_completed"
  BY RoutingFromReview
<1>3. runStatus'[r] \in Dispositions => StillQueued(r)' = {}
  BY SettledStaysDrained
<1> QED BY <1>1, <1>2, <1>3 DEF RoutedOnce, RoutingJob

LEMMA ApiRouted ==
  ASSUME Cancellable = {}, OneAtATime, DrainedInv, NEW q \in Runs, ApiStep(q), NEW r \in Runs, RoutedOnce(r)
  PROVE  RoutedOnce(r)'
<1>1. /\ UNCHANGED <<findingStatus, linked, frame>>
      /\ UNCHANGED runStatus \/ (runStatus[q] = "absent" /\ runStatus' = [runStatus EXCEPT ![q] = "queued"])
      /\ \/ UNCHANGED jobState
         \/ Enqueue(StageJob("prepare_repository", q))
      /\ runStatus \in [Runs -> RunStatuses \cup {"absent"}] /\ jobState \in [Jobs -> JobStates]
  BY ApiDrained DEF OneAtATime, Typing, PipelineTypeOK, TypeOK
<1>2. \A k \in Jobs : k.type # "prepare_repository" => jobState'[k] = jobState[k]
  BY <1>1 DEF Enqueue, StageJob
<1>3. RoutingJob(r) \in Jobs /\ jobState'[RoutingJob(r)] = jobState[RoutingJob(r)]
  BY <1>2, RoutingJobFacts
<1>4. \A f \in Findings : jobState'[StrixJob(r, f)] = jobState[StrixJob(r, f)]
  BY <1>2, JobFacts DEF StrixJob, FindingJob
<1>5. /\ runStatus[r] = "source_review_completed" => runStatus'[r] = runStatus[r]
      /\ runStatus'[r] \in Dispositions => runStatus'[r] = runStatus[r]
  BY <1>1 DEF Dispositions
<1>6. Routes(r)' = Routes(r) /\ StillQueued(r)' = StillQueued(r)
  BY <1>1, <1>3 DEF Routes, StillQueued, RoutingJob
<1> QED BY <1>3, <1>4, <1>5, <1>6 DEF RoutedOnce, RoutingJob

LEMMA InitSettle ==
  ASSUME Init
  PROVE  SettleInv
<1>1. \A j \in Jobs : Drained(j)
  BY DEF Init, ControlPlaneInit, Drained, IdleFrame
<1>2. ASSUME NEW r \in Runs PROVE RoutedOnce(r)
  <2>1. jobState[RoutingJob(r)] = "none" /\ runStatus[r] = "absent"
        /\ \A f \in Findings : jobState[StrixJob(r, f)] = "none"
    BY RoutingJobFacts, JobFacts DEF Init, ControlPlaneInit
  <2> QED BY <2>1 DEF RoutedOnce, Routes, Dispositions
<1> QED BY <1>1, <1>2 DEF SettleInv, DrainedInv

LEMMA StepSettle ==
  ASSUME Workers = 1, Cancellable = {}, OneAtATime, SettleInv, [Next]_vars
  PROVE  SettleInv'
<1>1. DrainedInv /\ interrupts \in Nat
  BY BoundsAssumption DEF SettleInv, OneAtATime, Typing, PipelineTypeOK, TypeOK
<1>2. ASSUME NEW j \in Jobs, Work(j) PROVE SettleInv'
  BY <1>1, <1>2, WorkDrained, WorkIsNoFault, WorkRouted DEF SettleInv
<1>3. ASSUME NEW j \in Jobs, Fault(j) PROVE SettleInv'
  <2>1. interrupts' # 0
    BY <1>1, <1>3 DEF Fault, Interrupt
  <2> QED BY <1>1, <1>3, <2>1, FaultDrained DEF SettleInv
<1>4. ASSUME NEW q \in Runs, ApiStep(q) PROVE SettleInv'
  <2>1. DrainedInv'
    BY <1>1, <1>4, ApiDrained
  <2>2. \/ CreateReview(q) \/ EnqueuePrepare(q) \/ CreateInterrupted(q)
        \/ FetchGather(q) \/ FetchStore(q)
    BY <1>4, ApiLife DEF OneAtATime
  <2>3. interrupts' = 0 => interrupts = 0
    BY <1>1, <2>2 DEF CreateReview, EnqueuePrepare, CreateInterrupted, FetchGather, FetchStore, queueVars
  <2> QED BY <1>1, <1>4, <2>1, <2>3, ApiRouted DEF SettleInv
<1>5. CASE UNCHANGED vars
  <2>1. UNCHANGED <<runStatus, findingStatus, linked, jobState, frame, interrupts>>
    BY <1>5 DEF vars, storeVars, queueVars
  <2>2. DrainedInv'
    BY <1>1, <2>1 DEF DrainedInv, Drained, StillQueued
  <2>3. ASSUME NEW r \in Runs, RoutedOnce(r) PROVE RoutedOnce(r)'
    BY <2>1, <2>3 DEF RoutedOnce, Routes, StillQueued
  <2> QED BY <2>1, <2>2, <2>3 DEF SettleInv
<1> QED BY <1>2, <1>3, <1>4, <1>5 DEF Next

\* The disposition of a run comes after the last of its verdicts, or routing was
\* cut short.
SettledWhenAllJudged ==
  \A r \in Runs : runStatus[r] \in Dispositions => (StillQueued(r) = {} \/ interrupts > 0)

\* With one worker and no cancellation no run settles before the last validation
\* it asked for is judged.  With two workers it is false: a mission that ends while
\* routing still queues the next one finds nothing queued and settles the run.
THEOREM SettlesWhenJudged ==
  ASSUME Workers = 1, Cancellable = {}
  PROVE  Spec => []SettledWhenAllJudged
<1>1. Init => SettleInv
  BY InitSettle
<1>2. OneAtATime /\ SettleInv /\ [Next]_vars => SettleInv'
  BY StepSettle
<1>3. SettleInv /\ Typing => SettledWhenAllJudged
  <2>1. SUFFICES ASSUME SettleInv, Typing, NEW r \in Runs, runStatus[r] \in Dispositions, StillQueued(r) # {}
                 PROVE  interrupts > 0
    BY DEF SettledWhenAllJudged
  <2>2. interrupts \in Nat /\ interrupts # 0
    BY <2>1, BoundsAssumption DEF SettleInv, RoutedOnce, Typing, PipelineTypeOK, TypeOK
  <2> QED BY <2>2
<1>4. Typing /\ Safe /\ ProgressInv /\ (AloneInv /\ LifeInv) => OneAtATime
  BY DEF OneAtATime
<1> QED BY <1>1, <1>2, <1>3, <1>4, TypingInvariant, SafeInvariant, ProgressInvariant, LifeInvariant, PTL DEF Spec

-----------------------------------------------------------------------------
(* With one worker and no cancellation: a terminal status is final.        *)

\* With one worker and no cancellation nothing overwrites a terminal status: what
\* a handler asserts of its run's status still holds when it writes it, so the
\* lost update of two handlers, or of a cancellation, is the only way there is.
THEOREM TerminalStays ==
  ASSUME Workers = 1, Cancellable = {}
  PROVE  Spec => TerminalIsFinal
<1> DEFINE Final == \A r \in Runs : (runStatus[r] \in RunStatuses /\ IsRunTerminal(runStatus[r]))
                                      => runStatus'[r] = runStatus[r]
<1>1. OneAtATime /\ [Next]_vars => [Final]_vars
  <2>1. SUFFICES ASSUME OneAtATime, Next, NEW r \in Runs, runStatus[r] \in RunStatuses,
                        IsRunTerminal(runStatus[r]), runStatus'[r] # runStatus[r]
                 PROVE  FALSE
    OBVIOUS
  <2>2. ASSUME NEW j \in Jobs, Work(j) PROVE FALSE
    <3>1. \/ CanTransitionRun(runStatus[r], StageTarget(j)) /\ StageTarget(j) \in RunStatuses
          \/ FinalizeWrite(j) /\ j.run = r
      BY <2>1, <2>2, PipelineTypes, StatusWriters DEF StageTarget, RunStatuses, OneAtATime
    <3>2. CASE FinalizeWrite(j) /\ j.run = r
      <4>1. CanTransitionRun(runStatus[r], frame[j].decided)
        BY <2>1, <3>2 DEF FinalizeWrite, At, OneAtATime, LifeInv, Asserted
      <4>2. frame[j].decided \in RunStatuses
        BY <2>1, <3>2 DEF FinalizeWrite, At, OneAtATime, Typing, PlacesOK, PlaceOK, PlaceFits,
                          Dispositions, RunStatuses
      <4> QED BY <2>1, <4>1, <4>2 DEF IsRunTerminal
    <3> QED BY <2>1, <3>1, <3>2 DEF IsRunTerminal
  <2>3. ASSUME NEW j \in Jobs, Fault(j) PROVE FALSE
    BY <2>1, <2>3 DEF Fault, Interrupt, storeVars
  <2>4. ASSUME NEW q \in Runs, ApiStep(q) PROVE FALSE
    <3>1. \/ CreateReview(q) \/ EnqueuePrepare(q) \/ CreateInterrupted(q)
          \/ FetchGather(q) \/ FetchStore(q)
      BY <2>1, <2>4, ApiLife DEF OneAtATime
    <3>2. CreateReview(q) /\ runStatus[q] = "absent" /\ runStatus' = [runStatus EXCEPT ![q] = "queued"]
      BY <2>1, <3>1 DEF CreateReview, EnqueuePrepare, CreateInterrupted, FetchGather, FetchStore, storeVars
    <3> QED BY <2>1, <3>2 DEF RunStatuses, OneAtATime, Typing, PipelineTypeOK, TypeOK
  <2> QED BY <2>1, <2>2, <2>3, <2>4 DEF Next
<1>2. Typing /\ Safe /\ ProgressInv /\ (AloneInv /\ LifeInv) => OneAtATime
  BY DEF OneAtATime
<1> QED BY <1>1, <1>2, TypingInvariant, SafeInvariant, ProgressInvariant, LifeInvariant, PTL
     DEF Spec, TerminalIsFinal

=============================================================================
