---------------------------- MODULE WebhookDelivery ----------------------------
(***************************************************************************)
(* Outbound webhooks over the job queue: enqueueWebhookDelivery, the       *)
(* deliver_webhook handler and replayWebhookDelivery, with the durable     *)
(* WebhookDelivery row they share.  One row per endpoint and occurrence;   *)
(* secrets, bodies and signatures do not matter here.                      *)
(***************************************************************************)
EXTENDS QueueProperties

CONSTANTS
  Deliveries,     \* WebhookDelivery rows
  DeliveryOf,     \* DeliveryOf[j]: the row a deliver_webhook job is about
  First           \* First[d]: the job of `deliver:${d}`; the others are replays

ASSUME DeliveryAssumption ==
  /\ DeliveryOf \in [Jobs -> Deliveries]
  /\ First \in [Deliveries -> Jobs]
  /\ \A d \in Deliveries : DeliveryOf[First[d]] = d

VARIABLES
  status,         \* WebhookDelivery.status, "absent" before the row exists
  tried,          \* WebhookDelivery.attempts
  owed,           \* jobs a caller has written the row for and not yet enqueued
  vouched         \* job ids that recorded a delivery since the last replay of it

rowVars == <<status, tried, owed, vouched>>
deliveryVars == <<queueVars, rowVars>>

Statuses == {"absent", "pending", "delivered", "exhausted"}

JobsFor(d) == {j \in Jobs : DeliveryOf[j] = d}
Row(i) == DeliveryOf[i[1]]

DeliveryInit ==
  /\ Init
  /\ status = [d \in Deliveries |-> "absent"]
  /\ tried = [d \in Deliveries |-> 0]
  /\ owed = {}
  /\ vouched = {}

-----------------------------------------------------------------------------
(* Callers.                                                                *)

\* enqueueWebhookDelivery: the upsert leaves an existing row alone ...
Upsert(d) ==
  /\ status' = [status EXCEPT ![d] = IF @ = "absent" THEN "pending" ELSE @]
  /\ owed' = owed \cup {First[d]}
  /\ UNCHANGED <<queueVars, tried, vouched>>

\* replayWebhookDelivery: back to pending, whatever the status is ...
Replay(j) ==
  LET d == DeliveryOf[j] IN
  /\ status[d] # "absent" /\ j # First[d] /\ state[<<j, 0>>] = "absent"
  /\ status' = [status EXCEPT ![d] = "pending"]
  /\ owed' = owed \cup {j}
  /\ vouched' = {i \in vouched : Row(i) # d}
  /\ UNCHANGED <<queueVars, tried>>

\* ... and the job is enqueued, if the queue does not know it.
EnqueueOwed(j) ==
  /\ j \in owed
  /\ owed' = owed \ {j}
  /\ IF state[<<j, 0>>] = "absent" THEN Enqueue(j) ELSE UNCHANGED queueVars
  /\ UNCHANGED <<status, tried, vouched>>

\* The caller stops between the two writes.
CallerLost(j) ==
  /\ j \in owed
  /\ losses < MaxLosses
  /\ losses' = losses + 1
  /\ owed' = owed \ {j}
  /\ UNCHANGED << storedVars, at, slots, refused, cancelKeys, replays, status, tried, vouched >>

-----------------------------------------------------------------------------
(* The deliver_webhook handler.                                            *)

\* Broken variant: the status of the row is not looked at.
ReadRowUnchecked(w, i) ==
  /\ On(w, i, "run")
  /\ Goto(w, "post")
  /\ UNCHANGED <<storedVars, slots, refused, cancelKeys, replays, losses, rowVars>>

ReadRow(w, i) ==
  /\ On(w, i, "run")
  /\ IF status[Row(i)] = "delivered"
       THEN HandlerEnds(w, i, TRUE)
       ELSE /\ Goto(w, "post")
            /\ UNCHANGED <<storedVars, slots, refused, cancelKeys, replays, losses>>
  /\ UNCHANGED rowVars

\* The POST; the handler knows whether a 2xx response came back.
Post(w, i) ==
  /\ On(w, i, "post")
  /\ \E ok \in BOOLEAN : at' = [at EXCEPT ![w].label = "write", ![w].ok = ok]
  /\ UNCHANGED <<storedVars, slots, refused, cancelKeys, replays, losses, rowVars>>

\* Broken variants: the count of attempts is off by one, either way.
OutcomeOneLate(i, ok) ==
  IF ok THEN "delivered" ELSE IF made[i] + 1 > 3 THEN "exhausted" ELSE "pending"
OutcomeOneEarly(i, ok) ==
  IF ok THEN "delivered" ELSE IF made[i] + 1 >= 2 THEN "exhausted" ELSE "pending"

\* Broken variant: the row is given the state of the job.
OutcomeOfJob(i, ok) ==
  IF ok THEN "completed" ELSE IF made[i] + 1 >= 3 THEN "failed" ELSE "waiting"

\* The literal of the handler, not the attempts the job was added with.
Outcome(i, ok) ==
  IF ok THEN "delivered" ELSE IF made[i] + 1 >= 3 THEN "exhausted" ELSE "pending"

\* Broken variant: a failed attempt is recorded and the handler returns.
RecordAndReturn(w, i) ==
  /\ On(w, i, "write")
  /\ status' = [status EXCEPT ![Row(i)] = Outcome(i, at[w].ok)]
  /\ tried' = [tried EXCEPT ![Row(i)] = @ + 1]
  /\ vouched' = IF at[w].ok THEN vouched \cup {i} ELSE vouched
  /\ HandlerEnds(w, i, TRUE)
  /\ UNCHANGED owed

\* The outcome is written; then a failed attempt throws.
RecordOutcome(w, i) ==
  /\ On(w, i, "write")
  /\ status' = [status EXCEPT ![Row(i)] = Outcome(i, at[w].ok)]
  /\ tried' = [tried EXCEPT ![Row(i)] = @ + 1]
  /\ vouched' = IF at[w].ok THEN vouched \cup {i} ELSE vouched
  /\ HandlerEnds(w, i, at[w].ok)
  /\ UNCHANGED owed

\* The update itself fails: the attempt is spent and nothing says so.
RecordFails(w, i) ==
  /\ On(w, i, "write")
  /\ losses < MaxLosses
  /\ losses' = losses + 1
  /\ at' = [at EXCEPT ![w].label = "release", ![w].ok = FALSE]
  /\ cancelKeys' = cancelKeys \ {i}
  /\ UNCHANGED <<storedVars, slots, refused, replays, rowVars>>

-----------------------------------------------------------------------------
DeliverStep(w, i) == ReadRow(w, i) \/ Post(w, i) \/ RecordOutcome(w, i)

CallerStep ==
  \/ \E d \in Deliveries : Upsert(d)
  \/ \E j \in Jobs : Replay(j) \/ EnqueueOwed(j) \/ CallerLost(j)

DeliveryNext ==
  \/ CallerStep
  \/ (ClientStep \/ QueueStep) /\ UNCHANGED rowVars
  \/ \E w \in Workers, i \in Ids : DeliverStep(w, i) \/ RecordFails(w, i)

\* A worker that runs goes on, the listener and the callers do, and a waiting
\* job is picked up when a worker is free.
DeliveryFairness ==
  /\ \A w \in Workers :
       WF_deliveryVars(\E i \in Ids : DeliverStep(w, i) \/ (WorkerStep(w, i) /\ UNCHANGED rowVars))
  /\ \A i \in Ids :
       WF_deliveryVars((\E w \in Workers : PickUp(w, i)) /\ UNCHANGED rowVars)
  /\ \A i \in Ids : WF_deliveryVars(CopyRefused(i) /\ UNCHANGED rowVars)
  /\ \A j \in Jobs : WF_deliveryVars(EnqueueOwed(j))

DeliverySpec == DeliveryInit /\ [][DeliveryNext]_deliveryVars /\ DeliveryFairness

-----------------------------------------------------------------------------
(* Properties.                                                             *)

DeliveryTypeOK ==
  /\ status \in [Deliveries -> Statuses]
  /\ tried \in [Deliveries -> Nat]
  /\ owed \subseteq Jobs
  /\ vouched \subseteq Ids

\* "Mark the delivery exhausted once it's on its last attempt": a row that still
\* reads pending has a job that will try again, or a caller about to add one.
PendingIsAlive ==
  \A d \in Deliveries : status[d] = "pending" /\ losses = 0 =>
     \E j \in JobsFor(d) : j \in owed \/ \E i \in Instances(j) : Alive(i)

\* ... and a row reads exhausted only after three attempts were made and recorded.
ExhaustedWasTried ==
  \A d \in Deliveries : status[d] = "exhausted" /\ losses = 0 => tried[d] >= 3

\* "Already succeeded on a prior attempt": a job whose delivery was recorded does
\* not send it again when it is run again after its worker was lost, unless a
\* replay asked for it.
DeliveredIsNotResent ==
  \A w \in Workers : LET i == at[w].job IN
     at[w].label = "post" /\ (\A j \in JobsFor(Row(i)) \ {i[1]} : state[<<j, 0>>] = "absent")
       => i \notin vouched

\* Whatever the endpoint answers, a delivery that is pending is in the end
\* delivered or exhausted, a replayed one again.
DeliverySettles ==
  \A d \in Deliveries :
     status[d] = "pending" ~> (status[d] \in {"delivered", "exhausted"} \/ losses > 0)
=============================================================================
