----------------------------- MODULE DeliverySafety -----------------------------
(***************************************************************************)
(* Proofs about the delivery of webhooks over the job queue: for any rows, *)
(* any number of replays of each, and any jobs, tenants and workers.       *)
(*                                                                         *)
(* The queue below is the detailed one, so its own invariant is proved     *)
(* again first, for steps in which a handler of several parts holds a job. *)
(* A delivery whose job the tenant's limit refuses can be forgotten (the   *)
(* copy the "failed" listener adds has one attempt, the handler counts to  *)
(* three), so what is said of attempts is said while nothing is refused.   *)
(***************************************************************************)
EXTENDS WebhookDelivery, QueueSafety

USE TenantAssumption, WorkersAssumption, LimitAssumption, QueueBoundsAssumption, NoJobAssumption,
    DeliveryAssumption

\* The queue's part of the state, without the limiter.
Queue == QueueTypeOK /\ Worked /\ Counted

NothingRefused == refused = {}

\* Copies are made of refused jobs alone.
NoCopies == \A i \in Ids : state[i] # "absent" => i[2] = 0

\* A row comes before its jobs.
RowFirst ==
  \A j \in Jobs : (j \in owed \/ state[<<j, 0>>] # "absent") => status[DeliveryOf[j]] # "absent"

\* An attempt that was recorded as failed and has yet to be counted.
Uncounted(i) ==
  \E w \in Workers : at[w].job = i /\ at[w].label \in {"release", "settle"} /\ ~at[w].ok

\* Every attempt that was counted was recorded, the one being settled too.
Recorded ==
  losses = 0 => \A i \in Ids : made[i] + (IF Uncounted(i) THEN 1 ELSE 0) <= tried[Row(i)]

ExhaustedTried == ExhaustedWasTried /\ Recorded

\* What a job that goes on with a delivery may be doing.
WillPost(i) ==
  \/ state[i] = "waiting"
  \/ \E w \in Workers :
       /\ at[w].job = i
       /\ \/ at[w].label \in {"count", "add", "run", "post", "write"}
          \/ at[w].label \in {"release", "settle"} /\ ~at[w].ok /\ made[i] + 1 < MaxAttempts
WillAdd(j) == j \in owed /\ state[<<j, 0>>] = "absent"

Carried == 
  losses = 0 =>
    \A d \in Deliveries : status[d] = "pending" =>
       \E j \in JobsFor(d) : WillAdd(j) \/ WillPost(<<j, 0>>)

\* The only job that ever ran for a row.
Alone(i) == \A j \in JobsFor(Row(i)) \ {i[1]} : state[<<j, 0>>] = "absent"

\* A delivery that the only job of its row recorded still stands, and the job is
\* past its POST.
NotResent(i) ==
  /\ status[Row(i)] = "delivered"
  /\ \A w \in Workers : at[w].job = i => at[w].label \notin {"post", "write"}

VouchedStands == \A i \in vouched : i[2] = 0 /\ (Alone(i) => NotResent(i))

-----------------------------------------------------------------------------
(* The queue under the handler.                                            *)

\* A step inside the processor: the worker goes on with its job.
Proceeds(w) ==
  /\ at[w].job # NoJob
  /\ \E label \in Labels \ {"idle"}, ok \in BOOLEAN : at' = [at EXCEPT ![w].label = label, ![w].ok = ok]
  /\ cancelKeys' \subseteq cancelKeys
  /\ losses' \in {losses, losses + 1} /\ losses' <= MaxLosses
  /\ UNCHANGED <<storedVars, slots, refused, replays>>

\* A caller is lost.
OnlyLoses ==
  /\ losses' = losses + 1 /\ losses' <= MaxLosses
  /\ UNCHANGED <<storedVars, at, slots, refused, cancelKeys, replays>>

LEMMA ProceedsStays ==
  ASSUME Queue, NEW w \in Workers, Proceeds(w)
  PROVE  Queue'
<1>1. /\ at \in [Workers -> Ats] /\ QueueTypeOK /\ Worked /\ Counted
      /\ losses \in Nat /\ losses' \in 0 .. MaxLosses
  BY DEF Queue, QueueTypeOK, Ats, Proceeds
<1>2. PICK label \in Labels \ {"idle"}, ok \in BOOLEAN : at' = [at EXCEPT ![w].label = label, ![w].ok = ok]
  BY DEF Proceeds
<1>3. at' \in [Workers -> Ats]
  <2>1. at[w].job \in Ids
    BY <1>1 DEF Ats, Proceeds
  <2> QED  BY <1>1, <1>2, <2>1, AtTyped
<1>4. QueueTypeOK'
  BY <1>1, <1>3 DEF QueueTypeOK, Proceeds, Ats, storedVars
<1>5. at'[w].job = at[w].job /\ at'[w].label # "idle" /\ \A v \in Workers \ {w} : at'[v] = at[v]
  BY <1>1, <1>2 DEF Ats
<1>6. Idle.job = NoJob /\ Idle.label = "idle" /\ at[w].job # NoJob
  BY DEF Idle, Proceeds
<1>7. Worked'
  <2>1. UNCHANGED state /\ at'[w] # Idle
    BY <1>5, <1>6 DEF Proceeds, storedVars
  <2> QED  BY <1>1, <1>5, <1>6, <2>1 DEF Worked
<1>8. Counted'
  BY <1>1 DEF Counted, Proceeds, storedVars
<1> QED  BY <1>4, <1>7, <1>8 DEF Queue

LEMMA OnlyLosesStays ==
  ASSUME Queue, OnlyLoses
  PROVE  Queue'
<1>1. losses' \in 0 .. MaxLosses
  BY DEF Queue, QueueTypeOK, OnlyLoses
<1> QED  BY <1>1 DEF Queue, QueueTypeOK, Worked, Counted, OnlyLoses, storedVars

\* What a step of delivery does to the queue.
LEMMA QueueShapes ==
  ASSUME Queue, DeliveryNext
  PROVE  [Next]_queueVars \/ OnlyLoses \/ \E w \in Workers : Proceeds(w)
<1>1. /\ at \in [Workers -> Ats] /\ losses \in 0 .. MaxLosses
      /\ \A i \in Ids : i # NoJob
  BY DEF Queue, QueueTypeOK, Ats
<1>2. ASSUME NEW w \in Workers, NEW i \in Ids, at[w].job = i,
             NEW label \in Labels \ {"idle"}, NEW ok \in BOOLEAN,
             at' = [at EXCEPT ![w].label = label, ![w].ok = ok],
             cancelKeys' = cancelKeys \/ cancelKeys' = cancelKeys \ {i},
             losses' = losses \/ (losses < MaxLosses /\ losses' = losses + 1),
             UNCHANGED <<storedVars, slots, refused, replays>>
      PROVE  Proceeds(w)
  <2>1. losses' \in {losses, losses + 1} /\ losses' <= MaxLosses
    BY <1>1, <1>2
  <2>2. at[w].job # NoJob /\ cancelKeys' \subseteq cancelKeys
    BY <1>1, <1>2
  <2> QED  BY <1>2, <2>1, <2>2 DEF Proceeds
<1>a. CASE \E d \in Deliveries : Upsert(d)
  BY <1>a DEF Upsert, queueVars
<1>b. CASE \E j \in Jobs : Replay(j) \/ EnqueueOwed(j)
  BY <1>b DEF Replay, EnqueueOwed, Next
<1>c. CASE \E j \in Jobs : CallerLost(j)
  BY <1>1, <1>c DEF CallerLost, OnlyLoses
<1>d. CASE ClientStep \/ QueueStep
  BY <1>d DEF Next
<1>e. ASSUME NEW w \in Workers, NEW i \in Ids, ReadRow(w, i), status[Row(i)] = "delivered"
      PROVE  Next
  BY <1>e DEF ReadRow, Next, Run
<1>f. ASSUME NEW w \in Workers, NEW i \in Ids, ReadRow(w, i), status[Row(i)] # "delivered"
      PROVE  Proceeds(w)
  <2>1. at' = [at EXCEPT ![w].label = "post", ![w].ok = at[w].ok] /\ at[w].ok \in BOOLEAN
    BY <1>1, <1>f DEF ReadRow, Goto, Ats
  <2> QED  BY <1>2, <1>f, <2>1 DEF ReadRow, On, Labels
<1>g. ASSUME NEW w \in Workers, NEW i \in Ids, Post(w, i)
      PROVE  Proceeds(w)
  BY <1>2, <1>g DEF Post, On, Labels
<1>h. ASSUME NEW w \in Workers, NEW i \in Ids, RecordOutcome(w, i)
      PROVE  Proceeds(w)
  <2>1. at[w].ok \in BOOLEAN
    BY <1>1 DEF Ats
  <2> QED  BY <1>2, <1>h, <2>1 DEF RecordOutcome, HandlerEnds, On, Labels
<1>i. ASSUME NEW w \in Workers, NEW i \in Ids, RecordFails(w, i)
      PROVE  Proceeds(w)
  BY <1>2, <1>i DEF RecordFails, On, Labels
<1> QED
  BY <1>a, <1>b, <1>c, <1>d, <1>e, <1>f, <1>g, <1>h, <1>i DEF DeliveryNext, CallerStep, DeliverStep

LEMMA QueueStays == Queue /\ [DeliveryNext]_deliveryVars => Queue'
<1> SUFFICES ASSUME Queue, [DeliveryNext]_deliveryVars  PROVE Queue'
  OBVIOUS
<1>1. CASE [Next]_queueVars
  BY <1>1, TypeStep, WorkedStep, CountedStep DEF Queue
<1>2. CASE UNCHANGED deliveryVars
  BY <1>1, <1>2 DEF deliveryVars
<1> QED  BY <1>1, <1>2, QueueShapes, ProceedsStays, OnlyLosesStays

LEMMA QueueHolds == DeliverySpec => []Queue
<1>1. DeliveryInit => Queue
  BY InitInv DEF DeliveryInit, QueueInv, Queue
<1> QED  BY <1>1, QueueStays, PTL DEF DeliverySpec

LEMMA RowOf ==
  /\ \A i \in Ids : Row(i) \in Deliveries /\ i[1] \in Jobs /\ i \in JobsFor(Row(i)) \X (0 .. MaxCopies)
  /\ \A j \in Jobs : DeliveryOf[j] \in Deliveries /\ <<j, 0>> \in Ids /\ <<j, 0>>[1] = j
  /\ \A d \in Deliveries : First[d] \in JobsFor(d)
<1>1. \A i \in Ids : i[1] \in Jobs /\ i = <<i[1], i[2]>> /\ i[2] \in 0 .. MaxCopies
  BY DEF Ids
<1>2. \A j \in Jobs : <<j, 0>> \in Ids
  BY DEF Ids
<1> QED  BY <1>1, <1>2 DEF Row, JobsFor

LEMMA RowTypeStep == DeliveryTypeOK /\ [DeliveryNext]_deliveryVars => DeliveryTypeOK'
<1> SUFFICES ASSUME DeliveryTypeOK, [DeliveryNext]_deliveryVars  PROVE DeliveryTypeOK'
  OBVIOUS
<1> USE DEF DeliveryTypeOK, Statuses
<1>1. CASE UNCHANGED rowVars
  BY <1>1 DEF rowVars
<1>2. ASSUME NEW d \in Deliveries, Upsert(d)  PROVE DeliveryTypeOK'
  BY <1>2, RowOf DEF Upsert, JobsFor
<1>3. ASSUME NEW j \in Jobs, Replay(j) \/ EnqueueOwed(j) \/ CallerLost(j)  PROVE DeliveryTypeOK'
  BY <1>3 DEF Replay, EnqueueOwed, CallerLost
<1>4. ASSUME NEW w \in Workers, NEW i \in Ids, RecordOutcome(w, i)  PROVE DeliveryTypeOK'
  <2>1. Outcome(i, at[w].ok) \in Statuses
    BY DEF Outcome
  <2>2. tried' \in [Deliveries -> Nat]
    BY <1>4, RowOf DEF RecordOutcome
  <2> QED  BY <1>4, <2>1, <2>2, RowOf DEF RecordOutcome
<1>5. ASSUME NEW w \in Workers, NEW i \in Ids, ReadRow(w, i) \/ Post(w, i) \/ RecordFails(w, i)
      PROVE  UNCHANGED rowVars
  BY <1>5 DEF ReadRow, Post, RecordFails, rowVars
<1> QED
  BY <1>1, <1>2, <1>3, <1>4, <1>5 DEF DeliveryNext, CallerStep, DeliverStep, deliveryVars

\* The row of a delivery keeps its type: whatever the handler writes is one of
\* the statuses of the schema, and every job is about a row.
THEOREM DeliveryTypeCorrect == DeliverySpec => []DeliveryTypeOK
<1>1. DeliveryInit => DeliveryTypeOK
  BY DEF DeliveryInit, DeliveryTypeOK, Statuses
<1> QED  BY <1>1, RowTypeStep, PTL DEF DeliverySpec

-----------------------------------------------------------------------------
(* Attempts are recorded before they are counted.                          *)

\* What the updates of a worker do to its job, its label and its outcome.
LEMMA LabelMoves ==
  ASSUME Queue, NEW w \in Workers, NEW label, at' = [at EXCEPT ![w].label = label]
  PROVE  /\ at'[w].job = at[w].job /\ at'[w].label = label /\ at'[w].ok = at[w].ok
         /\ \A v \in Workers \ {w} : at'[v] = at[v]
<1>1. at \in [Workers -> Ats] /\ at[w] \in Ats
  BY DEF Queue, QueueTypeOK, Ats
<1> DEFINE r == [at[w] EXCEPT !.label = label]
<1>2. r.job = at[w].job /\ r.label = label /\ r.ok = at[w].ok
  BY <1>1 DEF Ats
<1>3. at' = [at EXCEPT ![w] = r]
  BY <1>1
<1> HIDE DEF r
<1>4. at'[w] = r /\ \A v \in Workers \ {w} : at'[v] = at[v]
  BY <1>1, <1>3
<1> QED  BY <1>2, <1>4

LEMMA OutcomeMoves ==
  ASSUME Queue, NEW w \in Workers, NEW label, NEW ok,
         at' = [at EXCEPT ![w].label = label, ![w].ok = ok]
  PROVE  /\ at'[w].job = at[w].job /\ at'[w].label = label /\ at'[w].ok = ok
         /\ \A v \in Workers \ {w} : at'[v] = at[v]
<1>1. at \in [Workers -> Ats] /\ at[w] \in Ats
  BY DEF Queue, QueueTypeOK, Ats
<1> DEFINE r == [at[w] EXCEPT !.label = label, !.ok = ok]
<1>2. r.job = at[w].job /\ r.label = label /\ r.ok = ok
  BY <1>1 DEF Ats
<1>3. at' = [at EXCEPT ![w] = r]
  BY <1>1
<1> HIDE DEF r
<1>4. at'[w] = r /\ \A v \in Workers \ {w} : at'[v] = at[v]
  BY <1>1, <1>3
<1> QED  BY <1>2, <1>4

LEMMA AtMoves ==
  ASSUME Queue, NEW w \in Workers, NEW i \in Ids, NEW label, NEW ok
  PROVE  /\ at' = [at EXCEPT ![w].label = label, ![w].ok = ok] =>
              /\ at'[w].job = at[w].job /\ at'[w].label = label /\ at'[w].ok = ok
              /\ \A v \in Workers \ {w} : at'[v] = at[v]
         /\ at' = [at EXCEPT ![w].label = label] =>
              /\ at'[w].job = at[w].job /\ at'[w].label = label /\ at'[w].ok = at[w].ok
              /\ \A v \in Workers \ {w} : at'[v] = at[v]
         /\ at' = [at EXCEPT ![w].aborted = TRUE] =>
              \A v \in Workers :
                at'[v].job = at[v].job /\ at'[v].label = at[v].label /\ at'[v].ok = at[v].ok
         /\ at' = [at EXCEPT ![w] = Idle] =>
              at'[w].job = NoJob /\ at'[w].label = "idle" /\ \A v \in Workers \ {w} : at'[v] = at[v]
         /\ at' = [at EXCEPT ![w] = [Idle EXCEPT !.job = i, !.label = "count"]] =>
              at'[w].job = i /\ at'[w].label = "count" /\ \A v \in Workers \ {w} : at'[v] = at[v]
<1>1. at \in [Workers -> Ats]
  BY DEF Queue, QueueTypeOK, Ats
<1>2. \A a \in Ats : /\ [a EXCEPT !.label = label, !.ok = ok].job = a.job
                     /\ [a EXCEPT !.label = label, !.ok = ok].label = label
                     /\ [a EXCEPT !.label = label, !.ok = ok].ok = ok
  BY DEF Ats
<1>3. \A a \in Ats : /\ [a EXCEPT !.label = label].job = a.job
                     /\ [a EXCEPT !.label = label].label = label
                     /\ [a EXCEPT !.label = label].ok = a.ok
  BY DEF Ats
<1>4. \A a \in Ats : /\ [a EXCEPT !.aborted = TRUE].job = a.job
                     /\ [a EXCEPT !.aborted = TRUE].label = a.label
                     /\ [a EXCEPT !.aborted = TRUE].ok = a.ok
  BY DEF Ats
<1>5. /\ Idle.job = NoJob /\ Idle.label = "idle"
      /\ [Idle EXCEPT !.job = i, !.label = "count"].job = i
      /\ [Idle EXCEPT !.job = i, !.label = "count"].label = "count"
  BY DEF Idle
<1>6. \A r : at' = [at EXCEPT ![w] = r] => at'[w] = r /\ \A v \in Workers \ {w} : at'[v] = at[v]
  BY <1>1
<1>7. at[w] \in Ats
  BY <1>1
<1>a. at' = [at EXCEPT ![w].label = label, ![w].ok = ok] =>
        at' = [at EXCEPT ![w] = [at[w] EXCEPT !.label = label, !.ok = ok]]
  BY <1>1
<1>b. at' = [at EXCEPT ![w].label = label] => at' = [at EXCEPT ![w] = [at[w] EXCEPT !.label = label]]
  BY <1>1
<1>c. at' = [at EXCEPT ![w].aborted = TRUE] => at' = [at EXCEPT ![w] = [at[w] EXCEPT !.aborted = TRUE]]
  BY <1>1
<1>d. at' = [at EXCEPT ![w].label = label, ![w].ok = ok] =>
        /\ at'[w].job = at[w].job /\ at'[w].label = label /\ at'[w].ok = ok
        /\ \A v \in Workers \ {w} : at'[v] = at[v]
  <2> DEFINE r == [at[w] EXCEPT !.label = label, !.ok = ok]
  <2>1. r.job = at[w].job /\ r.label = label /\ r.ok = ok
    BY <1>2, <1>7
  <2> HIDE DEF r
  <2>2. at' = [at EXCEPT ![w] = r] => at'[w] = r /\ \A v \in Workers \ {w} : at'[v] = at[v]
    BY <1>6
  <2>3. at' = [at EXCEPT ![w].label = label, ![w].ok = ok] => at' = [at EXCEPT ![w] = r]
    BY <1>a DEF r
  <2> QED  BY <2>1, <2>2, <2>3
<1>e. at' = [at EXCEPT ![w].label = label] =>
        /\ at'[w].job = at[w].job /\ at'[w].label = label /\ at'[w].ok = at[w].ok
        /\ \A v \in Workers \ {w} : at'[v] = at[v]
  <2> DEFINE r == [at[w] EXCEPT !.label = label]
  <2>1. r.job = at[w].job /\ r.label = label /\ r.ok = at[w].ok
    BY <1>3, <1>7
  <2> HIDE DEF r
  <2>2. at' = [at EXCEPT ![w] = r] => at'[w] = r /\ \A v \in Workers \ {w} : at'[v] = at[v]
    BY <1>6
  <2>3. at' = [at EXCEPT ![w].label = label] => at' = [at EXCEPT ![w] = r]
    BY <1>b DEF r
  <2> QED  BY <2>1, <2>2, <2>3
<1>f. at' = [at EXCEPT ![w].aborted = TRUE] =>
        \A v \in Workers : at'[v].job = at[v].job /\ at'[v].label = at[v].label /\ at'[v].ok = at[v].ok
  BY <1>c, <1>4, <1>6, <1>7
<1> QED  BY <1>d, <1>e, <1>f, <1>5, <1>6

LEMMA EndMoves ==
  ASSUME Queue, NEW w \in Workers, NEW i \in Ids, NEW ok,
         at' = [at EXCEPT ![w].label = "release", ![w].ok = ok]
  PROVE  at'[w].job = at[w].job /\ at'[w].label = "release" /\ at'[w].ok = ok
<1>1. at \in [Workers -> Ats] /\ at[w] \in Ats
  BY DEF Queue, QueueTypeOK, Ats
<1> DEFINE r == [at[w] EXCEPT !.label = "release", !.ok = ok]
<1>2. r.job = at[w].job /\ r.label = "release" /\ r.ok = ok
  BY <1>1 DEF Ats
<1>3. at' = [at EXCEPT ![w] = r]
  BY <1>1
<1> HIDE DEF r
<1>4. at'[w] = r
  BY <1>1, <1>3
<1> QED  BY <1>2, <1>4

LEMMA LossesCount ==
  ASSUME Queue, [DeliveryNext]_deliveryVars
  PROVE  losses \in Nat /\ losses' \in {losses, losses + 1} /\ (losses' = 0 => losses = 0)
<1>1. losses \in Nat
  BY DEF Queue, QueueTypeOK
<1>2. CASE [Next]_queueVars
  BY <1>1, <1>2, LossesGrow DEF queueVars
<1>3. CASE UNCHANGED deliveryVars
  BY <1>1, <1>3 DEF deliveryVars, queueVars
<1>4. CASE OnlyLoses \/ \E w \in Workers : Proceeds(w)
  BY <1>1, <1>4 DEF OnlyLoses, Proceeds
<1> QED  BY <1>2, <1>3, <1>4, QueueShapes

\* An id is worked on by one worker, and is active then.
LEMMA OneWorker ==
  ASSUME Queue, NEW w \in Workers, NEW i \in Ids, at[w].job = i
  PROVE  state[i] = "active" /\ \A v \in Workers : at[v].job = i => v = w
<1>1. i # NoJob
  OBVIOUS
<1> QED  BY <1>1 DEF Queue, Worked

LEMMA RecordedStep ==
  ASSUME Queue, DeliveryTypeOK, Recorded, NothingRefused', [DeliveryNext]_deliveryVars
  PROVE  Recorded'
<1> SUFFICES ASSUME losses' = 0, NEW k \in Ids
             PROVE  made'[k] + (IF Uncounted(k)' THEN 1 ELSE 0) <= tried'[Row(k)]
  BY DEF Recorded, Row
<1>1. losses = 0 /\ losses' = losses
  BY LossesCount
<1>2. /\ made[k] \in Nat /\ tried[Row(k)] \in Nat /\ Row(k) \in Deliveries
      /\ made \in [Ids -> Nat] /\ tried \in [Deliveries -> Nat]
  BY RowOf DEF Queue, QueueTypeOK, DeliveryTypeOK
<1>3. made[k] + (IF Uncounted(k) THEN 1 ELSE 0) <= tried[Row(k)]
  BY <1>1 DEF Recorded
<1>4. ASSUME made'[k] = made[k] \/ made'[k] = 0, tried'[Row(k)] = tried[Row(k)], Uncounted(k)' => Uncounted(k)
      PROVE  made'[k] + (IF Uncounted(k)' THEN 1 ELSE 0) <= tried'[Row(k)]
  <2>1. CASE Uncounted(k)
    BY <1>2, <1>3, <1>4, <2>1
  <2>2. CASE ~Uncounted(k)
    BY <1>2, <1>3, <1>4, <2>2
  <2> QED  BY <2>1, <2>2
<1>5. ASSUME UNCHANGED <<at, tried>>, made'[k] = made[k] \/ made'[k] = 0
      PROVE  made'[k] + (IF Uncounted(k)' THEN 1 ELSE 0) <= tried'[Row(k)]
  BY <1>4, <1>5 DEF Uncounted
<1>6. ASSUME NEW w \in Workers, \A v \in Workers \ {w} : at'[v] = at[v],
             ~(at'[w].label \in {"release", "settle"} /\ ~at'[w].ok),
             UNCHANGED <<made, tried>>
      PROVE  made'[k] + (IF Uncounted(k)' THEN 1 ELSE 0) <= tried'[Row(k)]
  BY <1>4, <1>6 DEF Uncounted
<1>a. CASE UNCHANGED deliveryVars \/ CallerStep
  BY <1>1, <1>2, <1>5, <1>a
  DEF deliveryVars, queueVars, storedVars, rowVars, CallerStep, Upsert, Replay, EnqueueOwed, CallerLost, Enqueue, Added
<1>b. CASE ClientStep /\ UNCHANGED rowVars
  BY <1>2, <1>5, <1>b
  DEF ClientStep, CancelWaiting, CancelFlag, CancelKeyExpires, ReplayDeadLetter, rowVars, storedVars
<1>c. CASE (\E i \in Ids : CopyRefused(i)) /\ UNCHANGED rowVars
  BY <1>5, <1>c DEF CopyRefused, Added, rowVars
<1>d. ASSUME NEW w \in Workers, NEW i \in Ids, PickUp(w, i), UNCHANGED rowVars
      PROVE  made'[k] + (IF Uncounted(k)' THEN 1 ELSE 0) <= tried'[Row(k)]
  <2>1. at'[w].label = "count" /\ \A v \in Workers \ {w} : at'[v] = at[v]
    BY <1>d, AtMoves DEF PickUp
  <2> QED  BY <1>6, <1>d, <2>1 DEF PickUp, rowVars
<1>e. ASSUME NEW w \in Workers, NEW i \in Ids, Admitted(w, i) \/ AddSlot(w, i), UNCHANGED rowVars
      PROVE  made'[k] + (IF Uncounted(k)' THEN 1 ELSE 0) <= tried'[Row(k)]
  <2>1. at'[w].label \in {"add", "run"} /\ \A v \in Workers \ {w} : at'[v] = at[v]
    <3>1. CASE at' = [at EXCEPT ![w].label = "add"]
      BY <3>1, LabelMoves
    <3>2. CASE at' = [at EXCEPT ![w].label = "run"]
      BY <3>2, LabelMoves
    <3> QED  BY <1>e, <3>1, <3>2 DEF Admitted, AddSlot, Goto
  <2> QED  BY <1>6, <1>e, <2>1 DEF Admitted, AddSlot, storedVars, rowVars
<1>f. ASSUME NEW w \in Workers, NEW i \in Ids, Refused(w, i)
      PROVE  FALSE
  BY <1>f DEF Refused, NothingRefused
<1>g. ASSUME NEW w \in Workers, NEW i \in Ids, Release(w, i), UNCHANGED rowVars
      PROVE  made'[k] + (IF Uncounted(k)' THEN 1 ELSE 0) <= tried'[Row(k)]
  <2>1. /\ at[w].job = i /\ at'[w].job = i /\ at[w].label = "release" /\ at'[w].ok = at[w].ok
        /\ \A v \in Workers \ {w} : at'[v] = at[v]
    BY <1>g, AtMoves DEF Release, On, Goto
  <2>2. Uncounted(k)' => Uncounted(k)
    BY <2>1 DEF Uncounted
  <2> QED  BY <1>4, <1>g, <2>2 DEF Release, storedVars, rowVars
<1>h. ASSUME NEW w \in Workers, NEW i \in Ids, Settle(w, i), UNCHANGED rowVars
      PROVE  made'[k] + (IF Uncounted(k)' THEN 1 ELSE 0) <= tried'[Row(k)]
  <2>1. /\ at[w].job = i /\ at[w].label = "settle" /\ at'[w].label = "idle" /\ at'[w].job = NoJob
        /\ \A v \in Workers \ {w} : at'[v] = at[v]
    BY <1>h, AtMoves DEF Settle, On
  <2>2. CASE at[w].ok
    BY <1>6, <1>h, <2>1, <2>2 DEF Settle, rowVars
  <2>3. CASE ~at[w].ok /\ k # i
    <3>1. made'[k] = made[k] /\ tried'[Row(k)] = tried[Row(k)]
      BY <1>2, <1>h, <2>3 DEF Settle, AttemptFails, rowVars
    <3>2. Uncounted(k)' => Uncounted(k)
      BY <2>1 DEF Uncounted
    <3> QED  BY <1>4, <3>1, <3>2
  <2>4. CASE ~at[w].ok /\ k = i
    <3>1. made'[k] = made[k] + 1 /\ tried'[Row(k)] = tried[Row(k)]
      BY <1>2, <1>h, <2>4 DEF Settle, AttemptFails, rowVars
    <3>2. Uncounted(k)
      BY <2>1, <2>4 DEF Uncounted
    <3>3. ~Uncounted(k)'
      BY <2>1, <2>4, OneWorker DEF Uncounted
    <3> QED  BY <1>2, <1>3, <3>1, <3>2, <3>3
  <2> QED  BY <2>2, <2>3, <2>4
<1>i. ASSUME NEW w \in Workers, NEW i \in Ids, PollCancel(w, i), UNCHANGED rowVars
      PROVE  made'[k] + (IF Uncounted(k)' THEN 1 ELSE 0) <= tried'[Row(k)]
  <2>1. \A v \in Workers : at'[v].job = at[v].job /\ at'[v].label = at[v].label /\ at'[v].ok = at[v].ok
    BY <1>i, AtMoves DEF PollCancel
  <2> QED  BY <1>4, <1>i, <2>1 DEF PollCancel, Uncounted, storedVars, rowVars
<1>j. ASSUME NEW w \in Workers, NEW i \in Ids, WorkerLost(w, i) \/ RecordFails(w, i)
      PROVE  FALSE
  BY <1>1, <1>j DEF WorkerLost, RecordFails
<1>k. ASSUME NEW w \in Workers, NEW i \in Ids, ReadRow(w, i)
      PROVE  made'[k] + (IF Uncounted(k)' THEN 1 ELSE 0) <= tried'[Row(k)]
  <2>1. /\ at'[w].label = "post" \/ at'[w].ok
        /\ \A v \in Workers \ {w} : at'[v] = at[v]
        /\ UNCHANGED <<made, tried>>
    <3>1. CASE status[Row(i)] = "delivered"
      <4>1. at' = [at EXCEPT ![w].label = "release", ![w].ok = TRUE] /\ UNCHANGED <<made, tried>>
        BY <1>k, <3>1 DEF ReadRow, HandlerEnds, storedVars, rowVars
      <4> QED  BY <4>1, AtMoves
    <3>2. CASE status[Row(i)] # "delivered"
      <4>1. at' = [at EXCEPT ![w].label = "post"] /\ UNCHANGED <<made, tried>>
        BY <1>k, <3>2 DEF ReadRow, Goto, storedVars, rowVars
      <4> QED  BY <4>1, LabelMoves
    <3> QED  BY <3>1, <3>2
  <2> QED  BY <1>6, <2>1
<1>l. ASSUME NEW w \in Workers, NEW i \in Ids, Post(w, i)
      PROVE  made'[k] + (IF Uncounted(k)' THEN 1 ELSE 0) <= tried'[Row(k)]
  <2>1. at'[w].label = "write" /\ \A v \in Workers \ {w} : at'[v] = at[v]
    <3>1. PICK ok \in BOOLEAN : at' = [at EXCEPT ![w].label = "write", ![w].ok = ok]
      BY <1>l DEF Post
    <3> QED  BY <3>1, OutcomeMoves
  <2> QED  BY <1>6, <1>l, <2>1 DEF Post, storedVars, rowVars
<1>m. ASSUME NEW w \in Workers, NEW i \in Ids, RecordOutcome(w, i)
      PROVE  made'[k] + (IF Uncounted(k)' THEN 1 ELSE 0) <= tried'[Row(k)]
  <2>1. /\ at[w].job = i /\ at[w].label = "write" /\ at'[w].job = i
        /\ \A v \in Workers \ {w} : at'[v] = at[v]
    BY <1>m, AtMoves DEF RecordOutcome, On, HandlerEnds
  <2>2. UNCHANGED made /\ tried' = [tried EXCEPT ![Row(i)] = @ + 1]
    BY <1>m DEF RecordOutcome, HandlerEnds, storedVars
  <2>3. tried'[Row(k)] >= tried[Row(k)] /\ tried'[Row(k)] \in Nat
    BY <1>2, <2>2, RowOf
  <2>4. CASE k # i
    <3>1. Uncounted(k)' => Uncounted(k)
      BY <2>1, <2>4 DEF Uncounted
    <3>2. CASE Uncounted(k)
      BY <1>2, <1>3, <2>2, <2>3, <3>2
    <3>3. CASE ~Uncounted(k)
      BY <1>2, <1>3, <2>2, <2>3, <3>1, <3>3
    <3> QED  BY <3>2, <3>3
  <2>5. CASE k = i
    <3>1. ~Uncounted(k)
      BY <2>1, <2>5, OneWorker DEF Uncounted
    <3>2. tried'[Row(k)] = tried[Row(k)] + 1
      BY <1>2, <2>2, <2>5
    <3> QED  BY <1>2, <1>3, <2>2, <3>1, <3>2
  <2> QED  BY <2>4, <2>5
<1> QED
  BY <1>a, <1>b, <1>c, <1>d, <1>e, <1>f, <1>g, <1>h, <1>i, <1>j, <1>k, <1>l, <1>m
  DEF DeliveryNext, DeliverStep, QueueStep, WorkerStep

\* "... once it's on its last attempt": a row that reads exhausted has three
\* recorded attempts, whatever the callers, cancellations and replays do, as long
\* as nothing is refused and nothing is lost.
THEOREM ExhaustedOnlyWhenTried == DeliverySpec /\ []NothingRefused => []ExhaustedWasTried
<1>1. DeliveryInit => ExhaustedTried
  <2> SUFFICES ASSUME DeliveryInit  PROVE ExhaustedTried
    OBVIOUS
  <2>1. ExhaustedWasTried
    BY DEF DeliveryInit, ExhaustedWasTried
  <2>2. \A i \in Ids : ~Uncounted(i) /\ made[i] = 0 /\ tried[Row(i)] = 0
    BY RowOf DEF DeliveryInit, Init, Uncounted, Idle
  <2>3. Recorded
    BY <2>2 DEF Recorded
  <2> QED  BY <2>1, <2>3 DEF ExhaustedTried
<1>2. Queue /\ DeliveryTypeOK /\ ExhaustedTried /\ NothingRefused' /\ [DeliveryNext]_deliveryVars => ExhaustedTried'
  <2> SUFFICES ASSUME Queue, DeliveryTypeOK, ExhaustedTried, NothingRefused', [DeliveryNext]_deliveryVars
               PROVE  ExhaustedTried'
    OBVIOUS
  <2>1. Recorded'
    BY RecordedStep DEF ExhaustedTried
  <2>2. ExhaustedWasTried'
    <3> SUFFICES ASSUME NEW d \in Deliveries, status'[d] = "exhausted", losses' = 0
                 PROVE  tried'[d] >= 3
      BY DEF ExhaustedWasTried
    <3>1. losses = 0
      BY LossesCount
    <3>2. /\ tried \in [Deliveries -> Nat] /\ status \in [Deliveries -> Statuses]
          /\ made \in [Ids -> Nat] /\ tried[d] \in Nat
      BY DEF DeliveryTypeOK, Queue, QueueTypeOK
    <3>3. CASE status[d] = "exhausted" /\ tried'[d] \in {tried[d], tried[d] + 1}
      BY <3>1, <3>2, <3>3 DEF ExhaustedTried, ExhaustedWasTried
    <3>a. CASE UNCHANGED rowVars
      BY <3>3, <3>a DEF rowVars
    <3>b. CASE CallerStep
      BY <3>2, <3>3, <3>b DEF CallerStep, Upsert, Replay, EnqueueOwed, CallerLost
    <3>c. ASSUME NEW w \in Workers, NEW i \in Ids, RecordOutcome(w, i)
          PROVE  tried'[d] >= 3
      <4>1. /\ status' = [status EXCEPT ![Row(i)] = Outcome(i, at[w].ok)]
            /\ tried' = [tried EXCEPT ![Row(i)] = @ + 1]
        BY <3>c DEF RecordOutcome
      <4>2. CASE d # Row(i)
        BY <3>2, <3>3, <4>1, <4>2, RowOf
      <4>3. CASE d = Row(i)
        <5>1. Outcome(i, at[w].ok) = "exhausted" /\ tried'[d] = tried[d] + 1
          BY <3>2, <4>1, <4>3
        <5>2. made[i] + 1 >= 3
          BY <5>1 DEF Outcome
        <5>3. made[i] + (IF Uncounted(i) THEN 1 ELSE 0) <= tried[d]
          BY <3>1, <4>3 DEF ExhaustedTried, Recorded
        <5>4. made[i] \in Nat
          BY <3>2
        <5> QED  BY <3>2, <5>1, <5>2, <5>3, <5>4
      <4> QED  BY <4>2, <4>3
    <3>d. ASSUME NEW w \in Workers, NEW i \in Ids, ReadRow(w, i) \/ Post(w, i) \/ RecordFails(w, i)
          PROVE  UNCHANGED rowVars
      BY <3>d DEF ReadRow, Post, RecordFails, rowVars
    <3> QED  BY <3>a, <3>b, <3>c, <3>d DEF DeliveryNext, DeliverStep, deliveryVars
  <2> QED  BY <2>1, <2>2 DEF ExhaustedTried
<1>3. ExhaustedTried => ExhaustedWasTried
  BY DEF ExhaustedTried
<1> QED  BY <1>1, <1>2, <1>3, QueueHolds, DeliveryTypeCorrect, PTL DEF DeliverySpec

-----------------------------------------------------------------------------
(* Jobs, copies and rows.                                                  *)

\* What a step does to the state of an id that is new to the queue: only a
\* caller that owes the job adds it.
LEMMA OnlyOwedAdded ==
  ASSUME Queue, NothingRefused, [DeliveryNext]_deliveryVars,
         NEW i \in Ids, state[i] = "absent", state'[i] # "absent"
  PROVE  \E j \in owed : j \in Jobs /\ i = <<j, 0>> /\ UNCHANGED status
<1>1. /\ state \in [Ids -> JobStates]
      /\ \A v \in Workers, k \in Ids : at[v].job = k => k # i
  BY OneWorker DEF Queue, QueueTypeOK
<1>a. CASE ClientStep
  BY <1>1, <1>a DEF ClientStep, CancelWaiting, CancelFlag, CancelKeyExpires, ReplayDeadLetter, storedVars
<1>b. CASE \E w \in Workers, k \in Ids : PickUp(w, k) \/ WorkerLost(w, k)
  BY <1>1, <1>b DEF PickUp, WorkerLost
<1>c. CASE \E w \in Workers, k \in Ids :
             \/ Admitted(w, k) \/ AddSlot(w, k) \/ Release(w, k) \/ PollCancel(w, k)
             \/ ReadRow(w, k) \/ Post(w, k) \/ RecordOutcome(w, k) \/ RecordFails(w, k)
  BY <1>c DEF Admitted, AddSlot, Release, PollCancel, ReadRow, Post, RecordOutcome, RecordFails, HandlerEnds, storedVars
<1>d. CASE \E w \in Workers, k \in Ids : Refused(w, k) \/ Settle(w, k)
  BY <1>1, <1>d DEF Refused, Settle, AttemptFails, On
<1>e. CASE \E k \in Ids : CopyRefused(k)
  BY <1>e DEF CopyRefused, NothingRefused
<1>f. ASSUME NEW j \in Jobs, EnqueueOwed(j)
      PROVE  j \in owed /\ i = <<j, 0>> /\ UNCHANGED status
  <2>1. state' = [state EXCEPT ![<<j, 0>>] = "waiting"] \/ UNCHANGED state
    BY <1>f DEF EnqueueOwed, Enqueue, Added, queueVars, storedVars
  <2>2. j \in owed /\ UNCHANGED status
    BY <1>f DEF EnqueueOwed
  <2> QED  BY <1>1, <2>1, <2>2
<1>g. CASE \/ \E d \in Deliveries : Upsert(d)
           \/ \E j \in Jobs : Replay(j) \/ CallerLost(j)
           \/ UNCHANGED deliveryVars
  BY <1>g DEF Upsert, Replay, CallerLost, deliveryVars, queueVars, storedVars
<1> QED
  BY <1>a, <1>b, <1>c, <1>d, <1>e, <1>f, <1>g
  DEF DeliveryNext, CallerStep, DeliverStep, QueueStep, WorkerStep

LEMMA NoCopiesStep == Queue /\ NothingRefused /\ NoCopies /\ [DeliveryNext]_deliveryVars => NoCopies'
<1> SUFFICES ASSUME Queue, NothingRefused, NoCopies, [DeliveryNext]_deliveryVars,
                    NEW i \in Ids, state'[i] # "absent"
             PROVE  i[2] = 0
  BY DEF NoCopies
<1>1. CASE state[i] # "absent"
  BY <1>1 DEF NoCopies
<1>2. CASE state[i] = "absent"
  BY <1>2, OnlyOwedAdded
<1> QED  BY <1>1, <1>2

LEMMA RowStays ==
  ASSUME DeliveryTypeOK, [DeliveryNext]_deliveryVars, NEW d \in Deliveries, status[d] # "absent"
  PROVE  status'[d] # "absent"
<1>1. status \in [Deliveries -> Statuses]
  BY DEF DeliveryTypeOK
<1>a. CASE UNCHANGED status
  BY <1>a
<1>b. CASE \/ \E e \in Deliveries : Upsert(e)
           \/ \E j \in Jobs : Replay(j)
           \/ \E w \in Workers, i \in Ids : RecordOutcome(w, i)
  BY <1>1, <1>b DEF Upsert, Replay, RecordOutcome, Outcome
<1>c. CASE \/ \E j \in Jobs : EnqueueOwed(j) \/ CallerLost(j)
           \/ \E w \in Workers, i \in Ids : ReadRow(w, i) \/ Post(w, i) \/ RecordFails(w, i)
  BY <1>c DEF EnqueueOwed, CallerLost, ReadRow, Post, RecordFails, rowVars
<1> QED
  BY <1>a, <1>b, <1>c DEF DeliveryNext, CallerStep, DeliverStep, deliveryVars, rowVars

LEMMA RowFirstStep ==
  Queue /\ DeliveryTypeOK /\ NothingRefused /\ RowFirst /\ [DeliveryNext]_deliveryVars => RowFirst'
<1> SUFFICES ASSUME Queue, DeliveryTypeOK, NothingRefused, RowFirst, [DeliveryNext]_deliveryVars,
                    NEW j \in Jobs, j \in owed' \/ state'[<<j, 0>>] # "absent"
             PROVE  status'[DeliveryOf[j]] # "absent"
  BY DEF RowFirst
<1>1. CASE j \in owed \/ state[<<j, 0>>] # "absent"
  BY <1>1, RowOf, RowStays DEF RowFirst
<1>2. CASE j \notin owed /\ state[<<j, 0>>] = "absent" /\ state'[<<j, 0>>] # "absent"
  <2>1. PICK k \in owed : k \in Jobs /\ <<j, 0>> = <<k, 0>>
    BY <1>2, RowOf, OnlyOwedAdded
  <2> QED  BY <1>2, <2>1
<1>3. CASE j \notin owed /\ j \in owed'
  <2>1. status \in [Deliveries -> Statuses]
    BY DEF DeliveryTypeOK
  <2>2. ASSUME NEW d \in Deliveries, Upsert(d)  PROVE status'[DeliveryOf[j]] # "absent"
    <3>1. j = First[d] /\ DeliveryOf[j] = d
      BY <1>3, <2>2 DEF Upsert
    <3> QED  BY <2>1, <2>2, <3>1 DEF Upsert
  <2>3. ASSUME NEW k \in Jobs, Replay(k)  PROVE status'[DeliveryOf[j]] # "absent"
    BY <1>3, <2>1, <2>3, RowOf DEF Replay
  <2>4. CASE \/ \E k \in Jobs : EnqueueOwed(k) \/ CallerLost(k)
             \/ \E w \in Workers, i \in Ids : DeliverStep(w, i) \/ RecordFails(w, i)
             \/ UNCHANGED rowVars
    BY <1>3, <2>4 DEF EnqueueOwed, CallerLost, DeliverStep, ReadRow, Post, RecordOutcome, RecordFails, rowVars
  <2> QED  BY <2>2, <2>3, <2>4 DEF DeliveryNext, CallerStep, deliveryVars
<1> QED  BY <1>1, <1>2, <1>3

LEMMA NeverAbsent ==
  ASSUME "waiting" \notin Cancellable, Queue, NoCopies, [DeliveryNext]_deliveryVars,
         NEW i \in Ids, state[i] # "absent"
  PROVE  state'[i] # "absent"
<1>1. /\ state \in [Ids -> JobStates] /\ i[2] = 0
      /\ \A k \in Ids : state[k] = "waiting" => k[2] = 0
  BY DEF Queue, QueueTypeOK, NoCopies
<1>a. ASSUME NEW k \in Ids, CancelWaiting(k)  PROVE FALSE
  BY <1>1, <1>a DEF CancelWaiting, MayCancel
<1>b. CASE \E k \in Ids : CancelFlag(k) \/ CancelKeyExpires(k) \/ ReplayDeadLetter(k)
  BY <1>1, <1>b DEF CancelFlag, CancelKeyExpires, ReplayDeadLetter, storedVars
<1>c. CASE \E w \in Workers, k \in Ids : PickUp(w, k) \/ WorkerLost(w, k)
  BY <1>1, <1>c DEF PickUp, WorkerLost
<1>d. CASE \E w \in Workers, k \in Ids :
             \/ Admitted(w, k) \/ AddSlot(w, k) \/ Release(w, k) \/ PollCancel(w, k)
             \/ ReadRow(w, k) \/ Post(w, k) \/ RecordOutcome(w, k) \/ RecordFails(w, k)
  BY <1>d DEF Admitted, AddSlot, Release, PollCancel, ReadRow, Post, RecordOutcome, RecordFails, HandlerEnds, storedVars
<1>e. CASE \E w \in Workers, k \in Ids : Refused(w, k) \/ Settle(w, k)
  BY <1>1, <1>e DEF Refused, Settle, AttemptFails
<1>f. ASSUME NEW k, Added(k)  PROVE state'[i] # "absent"
  BY <1>1, <1>f DEF Added
<1>g. CASE \/ \E k \in Ids : CopyRefused(k)
           \/ \E j \in Jobs : EnqueueOwed(j)
  BY <1>f, <1>g DEF CopyRefused, EnqueueOwed, Enqueue, queueVars, storedVars
<1>h. CASE \/ \E d \in Deliveries : Upsert(d)
           \/ \E j \in Jobs : Replay(j) \/ CallerLost(j)
           \/ UNCHANGED deliveryVars
  BY <1>h DEF Upsert, Replay, CallerLost, deliveryVars, queueVars, storedVars
<1> QED
  BY <1>a, <1>b, <1>c, <1>d, <1>e, <1>g, <1>h
  DEF DeliveryNext, CallerStep, DeliverStep, QueueStep, WorkerStep, ClientStep

\* What a step that is not the handler's own does to the workers: nobody is at
\* the POST afterwards who was not before.
LEMMA PostsAreReads ==
  ASSUME Queue, NEW w \in Workers, at'[w].label \in {"post", "write"},
         (ClientStep \/ QueueStep) /\ UNCHANGED rowVars
  PROVE  at[w].job = at'[w].job /\ at[w].label \in {"post", "write"}
<1>a. CASE ClientStep \/ \E i \in Ids : CopyRefused(i)
  BY <1>a DEF ClientStep, CancelWaiting, CancelFlag, CancelKeyExpires, ReplayDeadLetter, CopyRefused
<1>b. ASSUME NEW v \in Workers, NEW i \in Ids, PickUp(v, i)
      PROVE  at[w].job = at'[w].job /\ at[w].label \in {"post", "write"}
  <2>1. at'[v].label = "count" /\ \A u \in Workers \ {v} : at'[u] = at[u]
    BY <1>b, AtMoves DEF PickUp
  <2> QED  BY <2>1
<1>c. ASSUME NEW v \in Workers, NEW i \in Ids, Admitted(v, i)
      PROVE  at[w].job = at'[w].job /\ at[w].label \in {"post", "write"}
  <2>1. at' = [at EXCEPT ![v].label = "add"]
    BY <1>c DEF Admitted, Goto
  <2>2. at'[v].label = "add" /\ \A u \in Workers \ {v} : at'[u] = at[u]
    BY <2>1, LabelMoves
  <2> QED  BY <2>2
<1>d. ASSUME NEW v \in Workers, NEW i \in Ids, AddSlot(v, i)
      PROVE  at[w].job = at'[w].job /\ at[w].label \in {"post", "write"}
  <2>1. at' = [at EXCEPT ![v].label = "run"]
    BY <1>d DEF AddSlot, Goto
  <2>2. at'[v].label = "run" /\ \A u \in Workers \ {v} : at'[u] = at[u]
    BY <2>1, LabelMoves
  <2> QED  BY <2>2
<1>e. ASSUME NEW v \in Workers, NEW i \in Ids, Release(v, i)
      PROVE  at[w].job = at'[w].job /\ at[w].label \in {"post", "write"}
  <2>1. at' = [at EXCEPT ![v].label = "settle"]
    BY <1>e DEF Release, Goto
  <2>2. at'[v].label = "settle" /\ \A u \in Workers \ {v} : at'[u] = at[u]
    BY <2>1, LabelMoves
  <2> QED  BY <2>2
<1>f. ASSUME NEW v \in Workers, NEW i \in Ids, Refused(v, i) \/ Settle(v, i) \/ WorkerLost(v, i)
      PROVE  at[w].job = at'[w].job /\ at[w].label \in {"post", "write"}
  <2>1. at' = [at EXCEPT ![v] = Idle]
    BY <1>f DEF Refused, Settle, WorkerLost
  <2>2. at'[v].label = "idle" /\ \A u \in Workers \ {v} : at'[u] = at[u]
    BY <2>1, AtMoves
  <2> QED  BY <2>2
<1>g. ASSUME NEW v \in Workers, NEW i \in Ids, PollCancel(v, i)
      PROVE  at[w].job = at'[w].job /\ at[w].label \in {"post", "write"}
  <2>1. at' = [at EXCEPT ![v].aborted = TRUE]
    BY <1>g DEF PollCancel
  <2>2. \A u \in Workers : at'[u].job = at[u].job /\ at'[u].label = at[u].label
    BY <2>1, AtMoves
  <2> QED  BY <2>2
<1> QED  BY <1>a, <1>b, <1>c, <1>d, <1>e, <1>f, <1>g DEF QueueStep, WorkerStep

-----------------------------------------------------------------------------
(* A delivery that was recorded is not sent again.                         *)

LEMMA VouchedStep ==
  ASSUME "waiting" \notin Cancellable,
         Queue, DeliveryTypeOK, NoCopies, NothingRefused, VouchedStands, [DeliveryNext]_deliveryVars
  PROVE  VouchedStands'
<1> SUFFICES ASSUME NEW k \in Ids, k \in vouched'
             PROVE  k[2] = 0 /\ (Alone(k)' => NotResent(k)')
  BY RowTypeStep DEF VouchedStands, DeliveryTypeOK
<1>1. /\ status \in [Deliveries -> Statuses] /\ Row(k) \in Deliveries
      /\ state \in [Ids -> JobStates] /\ \A i \in Ids : i[1] \in Jobs /\ i = <<i[1], i[2]>>
  BY RowOf DEF DeliveryTypeOK, Queue, QueueTypeOK, Ids
<1>2. Alone(k)' => Alone(k)
  <2> SUFFICES ASSUME NEW j \in JobsFor(Row(k)) \ {k[1]}, state[<<j, 0>>] # "absent"
               PROVE  state'[<<j, 0>>] # "absent"
    BY DEF Alone, Row, JobsFor
  <2> QED  BY NeverAbsent, RowOf DEF JobsFor
<1>3. ASSUME k \in vouched, status'[Row(k)] = status[Row(k)],
             \A w \in Workers : at'[w].job = k /\ at'[w].label \in {"post", "write"} =>
                                at[w].job = k /\ at[w].label \in {"post", "write"}
      PROVE  k[2] = 0 /\ (Alone(k)' => NotResent(k)')
  BY <1>2, <1>3 DEF VouchedStands, NotResent, Row
<1>a. CASE UNCHANGED deliveryVars
  BY <1>3, <1>a DEF deliveryVars, rowVars, queueVars
<1>b. CASE (ClientStep \/ QueueStep) /\ UNCHANGED rowVars
  BY <1>3, <1>b, PostsAreReads DEF rowVars
<1>c. CASE CallerStep
  <2>1. UNCHANGED at /\ k \in vouched
    BY <1>c DEF CallerStep, Upsert, Replay, EnqueueOwed, Enqueue, CallerLost, queueVars
  <2>2. ASSUME NEW d \in Deliveries, Upsert(d), Alone(k)'
        PROVE  k[2] = 0 /\ NotResent(k)'
    <3>1. status[Row(k)] = "delivered" /\ NotResent(k)
      BY <1>2, <2>1, <2>2 DEF VouchedStands, NotResent
    <3>2. status'[Row(k)] = "delivered"
      BY <1>1, <2>2, <3>1 DEF Upsert
    <3> QED  BY <2>1, <3>1, <3>2 DEF VouchedStands, NotResent, Row
  <2>3. ASSUME NEW j \in Jobs, Replay(j)  PROVE status'[Row(k)] = status[Row(k)]
    BY <1>1, <2>3 DEF Replay
  <2>4. ASSUME NEW j \in Jobs, EnqueueOwed(j) \/ CallerLost(j)  PROVE UNCHANGED status
    BY <2>4 DEF EnqueueOwed, CallerLost
  <2>5. k[2] = 0
    BY <2>1 DEF VouchedStands
  <2> QED  BY <1>3, <1>c, <2>1, <2>2, <2>3, <2>4, <2>5 DEF CallerStep
<1>d. ASSUME NEW w \in Workers, NEW i \in Ids, ReadRow(w, i) \/ Post(w, i) \/ RecordFails(w, i)
      PROVE  k[2] = 0 /\ (Alone(k)' => NotResent(k)')
  <2>1. at[w].job = i /\ UNCHANGED <<status, vouched>>
    BY <1>d DEF ReadRow, Post, RecordFails, On, rowVars
  <2>2. at'[w].job = i /\ \A v \in Workers \ {w} : at'[v] = at[v]
    <3>1. CASE at' = [at EXCEPT ![w].label = "post"]
      BY <2>1, <3>1, LabelMoves
    <3>2. ASSUME NEW label, NEW ok, at' = [at EXCEPT ![w].label = label, ![w].ok = ok]
          PROVE  at'[w].job = i /\ \A v \in Workers \ {w} : at'[v] = at[v]
      BY <2>1, <3>2, OutcomeMoves
    <3> QED  BY <1>d, <3>1, <3>2 DEF ReadRow, Post, RecordFails, HandlerEnds, Goto
  <2>3. CASE i # k
    BY <1>3, <2>1, <2>2, <2>3
  <2>4. CASE i = k
    <3>1. ASSUME Alone(k)  PROVE NotResent(k) /\ status[Row(i)] = "delivered" /\ at[w].label # "post"
      BY <2>1, <2>4, <3>1 DEF VouchedStands, NotResent
    <3>2. ASSUME Alone(k)  PROVE at'[w].label = "release"
      <4>1. PICK ok \in BOOLEAN : at' = [at EXCEPT ![w].label = "release", ![w].ok = ok]
        BY <1>d, <3>1, <3>2 DEF ReadRow, Post, RecordFails, HandlerEnds, On
      <4> QED  BY <4>1, OutcomeMoves
    <3>3. k[2] = 0
      BY <2>1 DEF VouchedStands
    <3>4. ASSUME Alone(k)'  PROVE NotResent(k)'
      BY <1>2, <2>1, <2>2, <3>1, <3>2, <3>4 DEF NotResent, Row
    <3> QED  BY <3>3, <3>4
  <2> QED  BY <2>3, <2>4
<1>e. ASSUME NEW w \in Workers, NEW i \in Ids, RecordOutcome(w, i)
      PROVE  k[2] = 0 /\ (Alone(k)' => NotResent(k)')
  <2>1. at[w].job = i /\ at[w].label = "write" /\ status' = [status EXCEPT ![Row(i)] = Outcome(i, at[w].ok)]
    BY <1>e DEF RecordOutcome, On
  <2>2. at'[w].job = i /\ at'[w].label = "release" /\ \A v \in Workers \ {w} : at'[v] = at[v]
    <3>1. at' = [at EXCEPT ![w].label = "release", ![w].ok = at[w].ok]
      BY <1>e DEF RecordOutcome, HandlerEnds
    <3> QED  BY <2>1, <3>1, OutcomeMoves
  <2>3. /\ state[i] = "active" /\ i[2] = 0 /\ i = <<i[1], 0>>
        /\ \A v \in Workers : at[v].job = i => v = w
    BY <1>1, <2>1, OneWorker DEF NoCopies
  <2>4. CASE k = i
    <3>1. \A v \in Workers : at'[v].job = k => at'[v].label \notin {"post", "write"}
      BY <2>2, <2>3, <2>4
    <3>2. CASE at[w].ok
      BY <1>1, <2>1, <2>3, <2>4, <3>1, <3>2 DEF Outcome, NotResent, Row
    <3>3. CASE ~at[w].ok
      <4>1. k \in vouched
        BY <1>e, <3>3 DEF RecordOutcome
      <4>2. ~Alone(k)
        BY <2>1, <2>4, <4>1 DEF VouchedStands, NotResent
      <4> QED  BY <1>2, <2>3, <2>4, <4>2
    <3> QED  BY <3>2, <3>3
  <2>5. CASE k # i
    <3>1. k \in vouched
      BY <1>e, <2>5 DEF RecordOutcome
    <3>2. k[2] = 0 /\ k = <<k[1], 0>>
      BY <1>1, <3>1 DEF VouchedStands
    <3>3. CASE Row(i) = Row(k)
      <4>1. i[1] \in JobsFor(Row(k)) \ {k[1]} /\ state[<<i[1], 0>>] # "absent"
        BY <1>1, <2>3, <2>5, <3>2, <3>3 DEF JobsFor, Row
      <4>2. ~Alone(k)
        BY <4>1 DEF Alone
      <4> QED  BY <1>2, <3>2, <4>2
    <3>4. CASE Row(i) # Row(k)
      <4>1. status'[Row(k)] = status[Row(k)]
        BY <1>1, <2>1, <3>4
      <4>2. \A v \in Workers : at'[v].job = k => v # w /\ at'[v] = at[v]
        BY <2>2, <2>5
      <4> QED  BY <1>3, <3>1, <4>1, <4>2
    <3> QED  BY <3>3, <3>4
  <2> QED  BY <2>4, <2>5
<1> QED  BY <1>a, <1>b, <1>c, <1>d, <1>e DEF DeliveryNext, DeliverStep

LEMMA NoCopiesHold == DeliverySpec /\ []NothingRefused => []NoCopies
<1>1. DeliveryInit => NoCopies
  BY DEF DeliveryInit, Init, NoCopies
<1> QED  BY <1>1, NoCopiesStep, QueueHolds, PTL DEF DeliverySpec

\* "Already succeeded on a prior attempt": while no refusal brings a copy of the
\* job into play, a job that recorded a delivery and is the only one of its row
\* does not send it again, though its worker is lost after the record and it is
\* run again, unless a replay asked for it.
THEOREM RecordedIsNotSentAgain ==
  ASSUME "waiting" \notin Cancellable
  PROVE  DeliverySpec /\ []NothingRefused => []DeliveredIsNotResent
<1>1. DeliveryInit => VouchedStands
  BY DEF DeliveryInit, VouchedStands
<1>2. /\ Queue /\ DeliveryTypeOK /\ NoCopies /\ NothingRefused /\ VouchedStands
      /\ [DeliveryNext]_deliveryVars
      => VouchedStands'
  BY VouchedStep
<1>3. Queue /\ VouchedStands => DeliveredIsNotResent
  <2> SUFFICES ASSUME VouchedStands, NEW w \in Workers, at[w].job \in vouched, at[w].label = "post",
                      Alone(at[w].job)
               PROVE  FALSE
    BY DEF DeliveredIsNotResent, Alone
  <2> QED  BY DEF VouchedStands, NotResent
<1> QED
  BY <1>1, <1>2, <1>3, QueueHolds, DeliveryTypeCorrect, NoCopiesHold, PTL DEF DeliverySpec

-----------------------------------------------------------------------------
(* A pending delivery is carried by a job.                                 *)

\* A step that leaves a job of the row alone.
Untouched(j) ==
  LET i == <<j, 0>> IN
  /\ state'[i] = state[i] /\ made'[i] = made[i]
  /\ \A w \in Workers : at[w].job = i =>
       at'[w].job = i /\ at'[w].label = at[w].label /\ at'[w].ok = at[w].ok
  /\ j \in owed => j \in owed'

LEMMA UntouchedGoesOn ==
  ASSUME NEW j \in Jobs, Untouched(j), WillAdd(j) \/ WillPost(<<j, 0>>)
  PROVE  WillAdd(j)' \/ WillPost(<<j, 0>>)'
<1>1. CASE WillAdd(j)
  BY <1>1 DEF Untouched, WillAdd
<1>2. CASE state[<<j, 0>>] = "waiting"
  BY <1>2 DEF Untouched, WillPost
<1>3. ASSUME NEW w \in Workers, at[w].job = <<j, 0>>,
             \/ at[w].label \in {"count", "add", "run", "post", "write"}
             \/ at[w].label \in {"release", "settle"} /\ ~at[w].ok /\ made[<<j, 0>>] + 1 < MaxAttempts
      PROVE  WillPost(<<j, 0>>)'
  <2>1. at'[w].job = <<j, 0>> /\ at'[w].label = at[w].label /\ at'[w].ok = at[w].ok
        /\ made'[<<j, 0>>] = made[<<j, 0>>]
    BY <1>3 DEF Untouched
  <2> QED  BY <1>3, <2>1 DEF WillPost
<1> QED  BY <1>1, <1>2, <1>3 DEF WillPost

\* A worker's step leaves the jobs of the others alone.
LEMMA OthersUntouched ==
  ASSUME Queue, NEW w \in Workers, NEW i \in Ids, NEW j \in Jobs, i # <<j, 0>>,
         at[w].job \in {i, NoJob},
         \A v \in Workers \ {w} : at'[v] = at[v],
         \A k \in Ids \ {i} : state'[k] = state[k] /\ made'[k] = made[k], UNCHANGED owed
  PROVE  Untouched(j)
<1>1. <<j, 0>> \in Ids /\ <<j, 0>> # NoJob
  BY RowOf
<1>2. \A v \in Workers : at[v].job = <<j, 0>> => v # w
  BY <1>1
<1> QED  BY <1>1, <1>2 DEF Untouched

\* The steps of a worker on its job, at what it does.
LEMMA QueueGoesOn ==
  ASSUME MaxAttempts >= 3, "waiting" \notin Cancellable,
         Queue, DeliveryTypeOK, NothingRefused, NothingRefused', NoCopies, losses = 0, losses' = 0,
         NEW j \in Jobs, WillAdd(j) \/ WillPost(<<j, 0>>),
         (ClientStep \/ QueueStep) /\ UNCHANGED rowVars
  PROVE  WillAdd(j)' \/ WillPost(<<j, 0>>)'
<1> DEFINE me == <<j, 0>>
<1>1. /\ state \in [Ids -> JobStates] /\ made \in [Ids -> Nat] /\ me \in Ids /\ me # NoJob
      /\ \A w \in Workers, i \in Ids : at[w].job = i => state[i] = "active"
      /\ UNCHANGED owed
      /\ state[me] # "failed" /\ state[me] # "completed"
  <2>1. /\ state \in [Ids -> JobStates] /\ made \in [Ids -> Nat] /\ me \in Ids
        /\ \A w \in Workers, i \in Ids : at[w].job = i => state[i] = "active"
    BY RowOf, OneWorker DEF Queue, QueueTypeOK
  <2>2. UNCHANGED owed /\ me # NoJob
    BY <2>1 DEF rowVars
  <2>3. state[me] \in {"absent", "waiting", "active"}
    BY <2>1 DEF WillAdd, WillPost
  <2> QED  BY <2>1, <2>2, <2>3
<1> HIDE DEF me
<1>2. Untouched(j) => WillAdd(j)' \/ WillPost(me)'
  BY UntouchedGoesOn DEF me
<1>3. ASSUME NEW w \in Workers, NEW i \in Ids, i # me, at[w].job \in {i, NoJob},
             \A v \in Workers \ {w} : at'[v] = at[v],
             \A k \in Ids \ {i} : state'[k] = state[k] /\ made'[k] = made[k]
      PROVE  WillAdd(j)' \/ WillPost(me)'
  BY <1>1, <1>2, <1>3, OthersUntouched DEF me
<1>a. ASSUME NEW i \in Ids, CancelWaiting(i)
      PROVE  FALSE
  BY <1>1, <1>a DEF CancelWaiting, MayCancel, NoCopies
<1>b. ASSUME NEW i \in Ids, CancelFlag(i) \/ CancelKeyExpires(i) \/ ReplayDeadLetter(i)
      PROVE  Untouched(j)
  BY <1>1, <1>b DEF CancelFlag, CancelKeyExpires, ReplayDeadLetter, Untouched, storedVars, me
<1>c. ASSUME NEW i \in Ids, CopyRefused(i)
      PROVE  FALSE
  BY <1>c DEF CopyRefused, NothingRefused
<1>d. ASSUME NEW w \in Workers, NEW i \in Ids, PickUp(w, i)
      PROVE  WillAdd(j)' \/ WillPost(me)'
  <2>1. /\ at[w].job = NoJob /\ at'[w].job = i /\ at'[w].label = "count"
        /\ \A v \in Workers \ {w} : at'[v] = at[v]
    BY <1>d, AtMoves, IdleIsAt DEF PickUp
  <2>2. CASE i = me
    BY <2>1, <2>2 DEF WillPost
  <2>3. CASE i # me
    BY <1>1, <1>3, <1>d, <2>1, <2>3 DEF PickUp
  <2> QED  BY <2>2, <2>3
<1>4. ASSUME NEW w \in Workers, NEW i \in Ids, at[w].job = i, NEW label, label \in {"add", "run"},
             at' = [at EXCEPT ![w].label = label], UNCHANGED storedVars
      PROVE  WillAdd(j)' \/ WillPost(me)'
  <2>1. /\ at'[w].job = i /\ at'[w].label = label /\ \A v \in Workers \ {w} : at'[v] = at[v]
    BY <1>4, LabelMoves
  <2>2. CASE i = me
    BY <1>4, <2>1, <2>2 DEF WillPost
  <2>3. CASE i # me
    BY <1>3, <1>4, <2>1, <2>3 DEF storedVars
  <2> QED  BY <2>2, <2>3
<1>e. ASSUME NEW w \in Workers, NEW i \in Ids, Admitted(w, i) \/ AddSlot(w, i)
      PROVE  WillAdd(j)' \/ WillPost(me)'
  BY <1>4, <1>e DEF Admitted, AddSlot, Goto, On
<1>f. ASSUME NEW w \in Workers, NEW i \in Ids, Refused(w, i)
      PROVE  FALSE
  BY <1>f DEF Refused, NothingRefused
<1>5. ASSUME NEW w \in Workers, at[w].job = me, at[w].label \in {"release", "settle"}
      PROVE  ~at[w].ok /\ made[me] + 1 < MaxAttempts
  <2>1. \A v \in Workers : at[v].job = me => v = w
    BY <1>1, <1>5, OneWorker
  <2>2. state[me] = "active"
    BY <1>1, <1>5
  <2> QED  BY <1>5, <2>1, <2>2 DEF WillAdd, WillPost, me
<1>g. ASSUME NEW w \in Workers, NEW i \in Ids, Release(w, i)
      PROVE  WillAdd(j)' \/ WillPost(me)'
  <2>1. at[w].job = i /\ at[w].label = "release" /\ at' = [at EXCEPT ![w].label = "settle"] /\ UNCHANGED storedVars
    BY <1>g DEF Release, On, Goto
  <2>2. /\ at'[w].job = i /\ at'[w].label = "settle" /\ at'[w].ok = at[w].ok
        /\ \A v \in Workers \ {w} : at'[v] = at[v]
    BY <2>1, LabelMoves
  <2>3. CASE i = me
    <3>1. ~at'[w].ok /\ made'[me] + 1 < MaxAttempts
      BY <1>5, <2>1, <2>2, <2>3 DEF storedVars
    <3> QED  BY <2>2, <2>3, <3>1 DEF WillPost
  <2>4. CASE i # me
    BY <1>3, <2>1, <2>2, <2>4 DEF storedVars
  <2> QED  BY <2>3, <2>4
<1>h. ASSUME NEW w \in Workers, NEW i \in Ids, Settle(w, i)
      PROVE  WillAdd(j)' \/ WillPost(me)'
  <2>1. at[w].job = i /\ at[w].label = "settle" /\ at' = [at EXCEPT ![w] = Idle]
    BY <1>h DEF Settle, On
  <2>2. \A v \in Workers \ {w} : at'[v] = at[v]
    BY <2>1, AtMoves
  <2>3. CASE i = me
    <3>1. ~at[w].ok /\ made[me] + 1 < MaxAttempts /\ Budget(me) = MaxAttempts
      BY <1>5, <2>1, <2>3 DEF Budget, me
    <3>2. state'[me] = "waiting"
      BY <1>1, <1>h, <2>3, <3>1 DEF Settle, AttemptFails
    <3> QED  BY <3>2 DEF WillPost
  <2>4. CASE i # me
    <3>1. \A k \in Ids \ {i} : state'[k] = state[k] /\ made'[k] = made[k]
      BY <1>1, <1>h DEF Settle, AttemptFails
    <3> QED  BY <1>3, <2>1, <2>2, <2>4, <3>1
  <2> QED  BY <2>3, <2>4
<1>i. ASSUME NEW w \in Workers, NEW i \in Ids, PollCancel(w, i)
      PROVE  Untouched(j)
  <2>1. at' = [at EXCEPT ![w].aborted = TRUE] /\ UNCHANGED storedVars
    BY <1>i DEF PollCancel
  <2>2. \A v \in Workers : at'[v].job = at[v].job /\ at'[v].label = at[v].label /\ at'[v].ok = at[v].ok
    BY <2>1, AtMoves
  <2> QED  BY <1>1, <2>1, <2>2 DEF Untouched, storedVars
<1>j. ASSUME NEW w \in Workers, NEW i \in Ids, WorkerLost(w, i)
      PROVE  FALSE
  BY <1>j DEF WorkerLost
<1>6. WillAdd(j)' \/ WillPost(me)'
  BY <1>2, <1>a, <1>b, <1>c, <1>d, <1>e, <1>f, <1>g, <1>h, <1>i, <1>j DEF ClientStep, QueueStep, WorkerStep
<1> QED  BY <1>6 DEF me

LEMMA HandlerGoesOn ==
  ASSUME MaxAttempts >= 3,
         Queue, DeliveryTypeOK, losses = 0, losses' = 0,
         NEW j \in Jobs, WillAdd(j) \/ WillPost(<<j, 0>>),
         status[DeliveryOf[j]] = "pending", status'[DeliveryOf[j]] = "pending",
         NEW w \in Workers, NEW i \in Ids, DeliverStep(w, i) \/ RecordFails(w, i)
  PROVE  WillAdd(j)' \/ WillPost(<<j, 0>>)'
<1>1. /\ at[w].job = i /\ UNCHANGED <<state, made, owed>>
      /\ i = <<j, 0>> => Row(i) = DeliveryOf[j]
      /\ status \in [Deliveries -> Statuses] /\ made \in [Ids -> Nat] /\ Row(i) \in Deliveries
  BY RowOf DEF DeliverStep, ReadRow, Post, RecordOutcome, RecordFails, HandlerEnds, On, rowVars, storedVars,
     DeliveryTypeOK, Queue, QueueTypeOK, Row
<1>2. ~RecordFails(w, i)
  BY DEF RecordFails
<1>3. CASE i # <<j, 0>>
  <2>1. \A v \in Workers \ {w} : at'[v] = at[v]
    BY <1>2 DEF DeliverStep, ReadRow, Post, RecordOutcome, HandlerEnds, Goto, Queue, QueueTypeOK
  <2> QED  BY <1>1, <1>3, <2>1, OthersUntouched, UntouchedGoesOn
<1>4. ASSUME i = <<j, 0>>, at'[w].job = i, at'[w].label \in {"post", "write"}
      PROVE  WillPost(<<j, 0>>)'
  BY <1>4 DEF WillPost
<1>a. CASE i = <<j, 0>> /\ ReadRow(w, i)
  <2>1. at' = [at EXCEPT ![w].label = "post"]
    BY <1>1, <1>a DEF ReadRow, Goto
  <2>2. at'[w].job = i /\ at'[w].label = "post"
    BY <1>1, <2>1, LabelMoves
  <2> QED  BY <1>4, <1>a, <2>2
<1>b. CASE i = <<j, 0>> /\ Post(w, i)
  <2>1. PICK ok \in BOOLEAN : at' = [at EXCEPT ![w].label = "write", ![w].ok = ok]
    BY <1>b DEF Post
  <2>2. at'[w].job = at[w].job /\ at'[w].label = "write"
    BY <2>1, OutcomeMoves
  <2> QED  BY <1>1, <1>4, <1>b, <2>2
<1>c. CASE i = <<j, 0>> /\ RecordOutcome(w, i)
  <2>1. at' = [at EXCEPT ![w].label = "release", ![w].ok = at[w].ok]
    BY <1>c DEF RecordOutcome, HandlerEnds
  <2> DEFINE ok == at[w].ok
  <2>0. at' = [at EXCEPT ![w].label = "release", ![w].ok = ok]
    BY <2>1
  <2> HIDE DEF ok
  <2>6. at'[w].job = at[w].job /\ at'[w].label = "release" /\ at'[w].ok = ok
    BY <2>0, EndMoves
  <2>2. at'[w].job = i /\ at'[w].label = "release" /\ at'[w].ok = at[w].ok
    BY <1>1, <2>6 DEF ok
  <2>3. Outcome(i, at[w].ok) = "pending"
    BY <1>1, <1>c DEF RecordOutcome
  <2>4. ~at[w].ok /\ made[i] + 1 < 3 /\ made[i] \in Nat
    BY <1>1, <2>3 DEF Outcome
  <2>5. made'[i] + 1 < MaxAttempts
    BY <1>1, <2>4
  <2> QED  BY <1>c, <2>2, <2>4, <2>5 DEF WillPost
<1> QED  BY <1>2, <1>3, <1>a, <1>b, <1>c DEF DeliverStep

LEMMA CallersGoOn ==
  ASSUME Queue, losses = 0, losses' = 0,
         NEW j \in Jobs, WillAdd(j) \/ WillPost(<<j, 0>>), CallerStep \/ UNCHANGED deliveryVars
  PROVE  WillAdd(j)' \/ WillPost(<<j, 0>>)'
<1>1. state \in [Ids -> JobStates] /\ <<j, 0>> \in Ids
  BY RowOf DEF Queue, QueueTypeOK
<1>a. CASE UNCHANGED deliveryVars
  BY <1>a, UntouchedGoesOn DEF Untouched, deliveryVars, queueVars, storedVars, rowVars
<1>b. CASE (\E d \in Deliveries : Upsert(d)) \/ \E k \in Jobs : Replay(k)
  BY <1>b, UntouchedGoesOn DEF Untouched, Upsert, Replay, queueVars, storedVars
<1>c. ASSUME NEW k \in Jobs, CallerLost(k)  PROVE FALSE
  BY <1>c DEF CallerLost
<1>d. ASSUME NEW k \in Jobs, EnqueueOwed(k)
      PROVE  WillAdd(j)' \/ WillPost(<<j, 0>>)'
  <2>1. CASE k = j /\ state[<<j, 0>>] = "absent"
    <3>1. state'[<<j, 0>>] = "waiting"
      BY <1>1, <1>d, <2>1 DEF EnqueueOwed, Enqueue, Added
    <3> QED  BY <3>1 DEF WillPost
  <2>2. CASE k = j /\ state[<<j, 0>>] # "absent"
    <3>1. WillPost(<<j, 0>>) /\ UNCHANGED queueVars
      BY <1>d, <2>2 DEF WillAdd, EnqueueOwed
    <3> QED  BY <3>1 DEF WillPost, queueVars, storedVars
  <2>3. CASE k # j
    <3>1. UNCHANGED <<at, made>> /\ state'[<<j, 0>>] = state[<<j, 0>>] /\ (j \in owed => j \in owed')
      <4>1. state' = [state EXCEPT ![<<k, 0>>] = "waiting"] \/ UNCHANGED state
        BY <1>d DEF EnqueueOwed, Enqueue, Added, queueVars, storedVars
      <4> QED  BY <1>1, <1>d, <2>3, <4>1 DEF EnqueueOwed, Enqueue, Added, queueVars, storedVars
    <3> QED  BY <3>1, UntouchedGoesOn DEF Untouched
  <2> QED  BY <2>1, <2>2, <2>3
<1> QED  BY <1>a, <1>b, <1>c, <1>d DEF CallerStep

\* A row becomes pending with a job to carry it.
LEMMA PendingBegins ==
  ASSUME MaxAttempts >= 3, Queue, DeliveryTypeOK, RowFirst, NoCopies, [DeliveryNext]_deliveryVars,
         NEW d \in Deliveries, status[d] # "pending", status'[d] = "pending"
  PROVE  \E j \in JobsFor(d) : WillAdd(j)' \/ WillPost(<<j, 0>>)'
<1>1. status \in [Deliveries -> Statuses] /\ made \in [Ids -> Nat]
  BY DEF DeliveryTypeOK, Queue, QueueTypeOK
<1>a. ASSUME NEW e \in Deliveries, Upsert(e)
      PROVE  \E j \in JobsFor(d) : WillAdd(j)'
  <2>1. e = d /\ status[d] = "absent"
    BY <1>1, <1>a DEF Upsert
  <2>2. First[d] \in JobsFor(d) /\ First[d] \in Jobs /\ DeliveryOf[First[d]] = d
    BY RowOf DEF JobsFor
  <2>3. state[<<First[d], 0>>] = "absent"
    BY <2>1, <2>2 DEF RowFirst
  <2>4. UNCHANGED state /\ First[d] \in owed'
    BY <1>a, <2>1 DEF Upsert, queueVars, storedVars
  <2> QED  BY <2>2, <2>3, <2>4 DEF WillAdd
<1>b. ASSUME NEW j \in Jobs, Replay(j)
      PROVE  \E k \in JobsFor(d) : WillAdd(k)'
  <2>1. DeliveryOf[j] = d /\ state[<<j, 0>>] = "absent" /\ UNCHANGED state /\ j \in owed'
    BY <1>1, <1>b DEF Replay, queueVars, storedVars
  <2> QED  BY <2>1 DEF WillAdd, JobsFor
<1>c. ASSUME NEW w \in Workers, NEW i \in Ids, RecordOutcome(w, i)
      PROVE  \E j \in JobsFor(d) : WillPost(<<j, 0>>)'
  <2>1. /\ at[w].job = i /\ status' = [status EXCEPT ![Row(i)] = Outcome(i, at[w].ok)]
        /\ at' = [at EXCEPT ![w].label = "release", ![w].ok = at[w].ok] /\ UNCHANGED made
    BY <1>c DEF RecordOutcome, HandlerEnds, On, storedVars
  <2>2. Row(i) = d /\ Outcome(i, at[w].ok) = "pending"
    BY <1>1, <2>1, RowOf
  <2>3. ~at[w].ok /\ made[i] + 1 < 3 /\ made[i] \in Nat
    BY <1>1, <2>2 DEF Outcome
  <2> DEFINE ok == at[w].ok
  <2>0. at' = [at EXCEPT ![w].label = "release", ![w].ok = ok]
    BY <2>1
  <2> HIDE DEF ok
  <2>8. at'[w].job = at[w].job /\ at'[w].label = "release" /\ at'[w].ok = ok
    BY <2>0, EndMoves
  <2>4. at'[w].job = i /\ at'[w].label = "release" /\ at'[w].ok = at[w].ok
    BY <2>1, <2>8 DEF ok
  <2>5. i = <<i[1], 0>> /\ i[1] \in JobsFor(d)
    <3>1. i[2] = 0
      BY <2>1, OneWorker DEF NoCopies
    <3>2. i = <<i[1], i[2]>>
      BY DEF Ids
    <3> QED  BY <2>2, <3>1, <3>2, RowOf DEF JobsFor, Row
  <2>6. made'[i] + 1 < MaxAttempts
    BY <2>1, <2>3
  <2>7. WillPost(i)'
    BY <2>3, <2>4, <2>6 DEF WillPost
  <2> QED  BY <2>5, <2>7
<1>d. CASE \/ \E j \in Jobs : EnqueueOwed(j) \/ CallerLost(j)
           \/ \E w \in Workers, i \in Ids : ReadRow(w, i) \/ Post(w, i) \/ RecordFails(w, i)
           \/ UNCHANGED rowVars
  BY <1>d DEF EnqueueOwed, CallerLost, ReadRow, Post, RecordFails, rowVars
<1> QED
  BY <1>a, <1>b, <1>c, <1>d DEF DeliveryNext, CallerStep, DeliverStep, deliveryVars

LEMMA CarriedStep ==
  ASSUME MaxAttempts >= 3, "waiting" \notin Cancellable,
         Queue, DeliveryTypeOK, RowFirst, NoCopies, Carried, NothingRefused, NothingRefused',
         [DeliveryNext]_deliveryVars
  PROVE  Carried'
<1> SUFFICES ASSUME losses' = 0, NEW d \in Deliveries, status'[d] = "pending"
             PROVE  \E j \in JobsFor(d) : WillAdd(j)' \/ WillPost(<<j, 0>>)'
  BY DEF Carried, JobsFor
<1>1. losses = 0
  BY LossesCount
<1>2. CASE status[d] = "pending"
  <2>1. PICK j \in JobsFor(d) : WillAdd(j) \/ WillPost(<<j, 0>>)
    BY <1>1, <1>2 DEF Carried
  <2>2. j \in Jobs /\ DeliveryOf[j] = d
    BY DEF JobsFor
  <2>3. WillAdd(j)' \/ WillPost(<<j, 0>>)'
    <3>1. CASE (ClientStep \/ QueueStep) /\ UNCHANGED rowVars
      BY <1>1, <2>1, <2>2, <3>1, QueueGoesOn
    <3>2. CASE \E w \in Workers, i \in Ids : DeliverStep(w, i) \/ RecordFails(w, i)
      BY <1>1, <1>2, <2>1, <2>2, <3>2, HandlerGoesOn
    <3>3. CASE CallerStep \/ UNCHANGED deliveryVars
      BY <1>1, <2>1, <2>2, <3>3, CallersGoOn
    <3> QED  BY <3>1, <3>2, <3>3 DEF DeliveryNext
  <2> QED  BY <2>3
<1>3. CASE status[d] # "pending"
  BY <1>3, PendingBegins
<1> QED  BY <1>2, <1>3

LEMMA RowsFirst == DeliverySpec /\ []NothingRefused => []RowFirst
<1>1. DeliveryInit => RowFirst
  BY RowOf DEF DeliveryInit, Init, RowFirst
<1> QED  BY <1>1, RowFirstStep, QueueHolds, DeliveryTypeCorrect, PTL DEF DeliverySpec

\* A row that still reads pending has a job that will try again, or a caller
\* about to add one: the outcome a failed attempt writes and the retries the
\* queue gives it agree, for any budget that covers the handler's three attempts,
\* as long as nothing is refused or lost and no waiting delivery is cancelled.
THEOREM PendingIsCarried ==
  ASSUME MaxAttempts >= 3, "waiting" \notin Cancellable
  PROVE  DeliverySpec /\ []NothingRefused => []PendingIsAlive
<1>1. DeliveryInit => Carried
  BY DEF DeliveryInit, Carried
<1>2. /\ Queue /\ DeliveryTypeOK /\ RowFirst /\ NoCopies /\ Carried /\ NothingRefused /\ NothingRefused'
      /\ [DeliveryNext]_deliveryVars
      => Carried'
  BY CarriedStep
<1>3. Queue /\ Carried => PendingIsAlive
  <2> SUFFICES ASSUME Queue, Carried, NEW d \in Deliveries, status[d] = "pending", losses = 0
               PROVE  \E j \in JobsFor(d) : j \in owed \/ \E i \in Instances(j) : Alive(i)
    BY DEF PendingIsAlive
  <2>1. PICK j \in JobsFor(d) : WillAdd(j) \/ WillPost(<<j, 0>>)
    BY DEF Carried
  <2>2. <<j, 0>> \in Instances(j) /\ <<j, 0>> \in Ids
    BY RowOf DEF Instances, JobsFor
  <2>3. WillPost(<<j, 0>>) => Alive(<<j, 0>>)
    BY <2>2, OneWorker DEF WillPost, Alive
  <2> QED  BY <2>1, <2>2, <2>3 DEF WillAdd
<1> QED
  BY <1>1, <1>2, <1>3, QueueHolds, DeliveryTypeCorrect, NoCopiesHold, RowsFirst, PTL DEF DeliverySpec

=============================================================================
