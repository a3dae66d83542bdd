------------------------------- MODULE JobQueue -------------------------------
(***************************************************************************)
(* The production job queue in detail: BullMqJobQueue over Redis with the  *)
(* per-tenant concurrency limiter.  The pipeline modules see the queue as  *)
(* job states with retries; here are the steps in between: the limiter's   *)
(* count and its add, the refusal that fails an attempt and re-adds the    *)
(* job under another id, the release, the cancel flag, the dead letters,   *)
(* and workers that are lost.  BullMQ itself is external.                  *)
(***************************************************************************)
EXTENDS Naturals, FiniteSets

CONSTANTS
  Jobs,           \* ids that enqueue is called with
  Tenants,        \* organizations
  TenantOf,       \* TenantOf[j]: the organization a job is charged to
  Workers,        \* job executions that can run side by side
  NoJob,          \* what an idle worker works on
  Limit,          \* tenantConcurrencyLimit
  MaxAttempts,    \* DEFAULT_MAX_ATTEMPTS
  Cancellable,    \* job states in which a client calls cancel
  CancellableCopies, \* states in which it calls cancel for a copy
  MaxFlags,       \* bound on cancel flags set at a time
  MaxCopies,      \* bound on copies of refused jobs
  MaxReplays,     \* bound on replays of dead letters
  MaxLosses       \* bound on losses: of a worker, of a call in progress

\* A job enqueue added is <<j, 0>>; <<j, n>> is the n-th copy the "failed"
\* listener adds, with a new id and the same data.
Ids == Jobs \X (0 .. MaxCopies)

ASSUME TenantAssumption == TenantOf \in [Jobs -> Tenants]
ASSUME WorkersAssumption == IsFiniteSet(Workers) /\ Workers # {}
ASSUME LimitAssumption == Limit \in Nat \ {0}
ASSUME QueueBoundsAssumption ==
  MaxAttempts \in Nat \ {0} /\ MaxFlags \in Nat /\ MaxCopies \in Nat /\ MaxReplays \in Nat /\ MaxLosses \in Nat
ASSUME NoJobAssumption == NoJob \notin Ids

VARIABLES
  state,          \* BullMQ's state of each id; waiting stands for delayed too
  made,           \* attemptsMade
  failedReason,   \* what failed the last attempt of an id, "none" before
  stalled,        \* ids that lost a worker once (stalledCounter)
  at,             \* what each worker does, and for which job
  slots,          \* slots[t]: the Redis set the limiter counts
  refused,        \* ids whose refusal's "failed" event the listener has yet to handle
  cancelKeys,     \* ids with a cancel flag in Redis
  replays, losses \* so far

storedVars == <<state, made, failedReason, stalled>>
queueVars == << storedVars, at, slots, refused, cancelKeys, replays, losses >>

JobStates == {"absent", "waiting", "active", "completed", "failed"}
Reasons == {"none", "refused", "handler", "stalled"}
Labels == {"idle", "count", "add", "run", "post", "write", "release", "settle"}

\* ok: how the handler ended, once it has; aborted: its signal is, by a cancel.
Idle == [job |-> NoJob, label |-> "idle", ok |-> TRUE, aborted |-> FALSE]

Tenant(i) == TenantOf[i[1]]

Init ==
  /\ state = [i \in Ids |-> "absent"]
  /\ made = [i \in Ids |-> 0]
  /\ failedReason = [i \in Ids |-> "none"]
  /\ at = [w \in Workers |-> Idle]
  /\ slots = [t \in Tenants |-> {}]
  /\ refused = {}
  /\ cancelKeys = {}
  /\ stalled = {}
  /\ replays = 0
  /\ losses = 0

-----------------------------------------------------------------------------
(* Clients.                                                                *)

\* What queue.add stores.
Added(i) ==
  /\ state[i] = "absent"
  /\ state' = [state EXCEPT ![i] = "waiting"]
  /\ UNCHANGED <<made, failedReason, stalled>>

\* enqueue: only an id that getJob does not find is added.
Enqueue(j) ==
  /\ Added(<<j, 0>>)
  /\ UNCHANGED <<at, slots, refused, cancelKeys, replays, losses>>

\* Broken variant: the state is not asked for, an active job is removed too.
CancelRemoves(i) ==
  /\ state[i] \in {"waiting", "active"} /\ i[2] = 0
  /\ state' = [state EXCEPT ![i] = "absent"]
  /\ made' = [made EXCEPT ![i] = 0]
  /\ UNCHANGED <<failedReason, stalled, at, slots, refused, cancelKeys, replays, losses>>

\* cancel: a waiting job is removed with all its data, for any other the flag is set.
MayCancel(i) == state[i] \in IF i[2] = 0 THEN Cancellable ELSE CancellableCopies

CancelWaiting(i) ==
  /\ state[i] = "waiting" /\ MayCancel(i)
  /\ state' = [state EXCEPT ![i] = "absent"]
  /\ made' = [made EXCEPT ![i] = 0]
  /\ failedReason' = [failedReason EXCEPT ![i] = "none"]
  /\ stalled' = stalled \ {i}
  /\ UNCHANGED <<at, slots, refused, cancelKeys, replays, losses>>

CancelFlag(i) ==
  /\ state[i] \notin {"absent", "waiting"} /\ MayCancel(i)
  /\ cancelKeys' = cancelKeys \cup {i}
  /\ Cardinality(cancelKeys') <= MaxFlags
  /\ UNCHANGED <<storedVars, at, slots, refused, replays, losses>>

\* The flag expires after CANCEL_KEY_TTL_SECONDS, long after an attempt it was
\* meant for has ended.
CancelKeyExpires(i) ==
  /\ i \in cancelKeys
  /\ state[i] # "active"
  /\ cancelKeys' = cancelKeys \ {i}
  /\ UNCHANGED <<storedVars, at, slots, refused, replays, losses>>

\* replayDeadLetterJob: back to waiting, attemptsMade is kept.
ReplayDeadLetter(i) ==
  /\ state[i] = "failed"
  /\ replays < MaxReplays
  /\ replays' = replays + 1
  /\ state' = [state EXCEPT ![i] = "waiting"]
  /\ failedReason' = [failedReason EXCEPT ![i] = "none"]
  /\ UNCHANGED <<made, at, slots, refused, cancelKeys, stalled, losses>>

-----------------------------------------------------------------------------
(* The worker's processor.                                                 *)

On(w, i, label) == at[w].job = i /\ at[w].label = label

Goto(w, label) == at' = [at EXCEPT ![w].label = label]

\* A copy is added with attempts: 1.
Budget(i) == IF i[2] = 0 THEN MaxAttempts ELSE 1

\* Broken variant: one attempt too many.
AttemptFailsOneMore(i, reason) ==
  /\ made' = [made EXCEPT ![i] = @ + 1]
  /\ state' = [state EXCEPT ![i] = IF made[i] < Budget(i) THEN "waiting" ELSE "failed"]
  /\ failedReason' = [failedReason EXCEPT ![i] = reason]

\* The processor threw: another attempt while the budget lasts.
AttemptFails(i, reason) ==
  /\ made' = [made EXCEPT ![i] = @ + 1]
  /\ state' = [state EXCEPT ![i] = IF made[i] + 1 < Budget(i) THEN "waiting" ELSE "failed"]
  /\ failedReason' = [failedReason EXCEPT ![i] = reason]

PickUp(w, i) ==
  /\ at[w] = Idle
  /\ state[i] = "waiting"
  /\ state' = [state EXCEPT ![i] = "active"]
  /\ at' = [at EXCEPT ![w] = [Idle EXCEPT !.job = i, !.label = "count"]]
  /\ UNCHANGED << made, failedReason, stalled, slots, refused, cancelKeys, replays, losses >>

\* Broken variant: the limit itself is let in.
AdmittedAtLimit(w, i) ==
  /\ On(w, i, "count")
  /\ Cardinality(slots[Tenant(i)]) <= Limit
  /\ Goto(w, "add")
  /\ UNCHANGED <<storedVars, slots, refused, cancelKeys, replays, losses>>

\* tryAcquire is two commands: scard ...
Admitted(w, i) ==
  /\ On(w, i, "count")
  /\ Cardinality(slots[Tenant(i)]) < Limit
  /\ Goto(w, "add")
  /\ UNCHANGED <<storedVars, slots, refused, cancelKeys, replays, losses>>

\* ... and sadd, which adds nothing for an id that is in the set.
AddSlot(w, i) ==
  /\ On(w, i, "add")
  /\ slots' = [slots EXCEPT ![Tenant(i)] = @ \cup {i}]
  /\ Goto(w, "run")
  /\ UNCHANGED <<storedVars, refused, cancelKeys, replays, losses>>

Copies == {i \in Ids : i[2] > 0 /\ state[i] # "absent"}

\* The limit is reached: the attempt fails with the backpressure error.  The
\* bound on copies keeps the last copy from being refused.
Refused(w, i) ==
  /\ On(w, i, "count")
  /\ Cardinality(slots[Tenant(i)]) >= Limit
  /\ Cardinality(Copies) + Cardinality(refused) < MaxCopies
  /\ i \notin refused
  /\ refused' = refused \cup {i}
  /\ AttemptFails(i, "refused")
  /\ at' = [at EXCEPT ![w] = Idle]
  /\ UNCHANGED <<slots, cancelKeys, stalled, replays, losses>>

\* While the handler runs the flag is polled, and aborts its signal.
PollCancel(w, i) ==
  /\ at[w].job = i /\ at[w].label \in {"run", "post", "write"}
  /\ i \in cancelKeys
  /\ at' = [at EXCEPT ![w].aborted = TRUE]
  /\ UNCHANGED <<storedVars, slots, refused, cancelKeys, replays, losses>>

\* The handler ends: normally, by its own error, or by an abort (a timeout, a
\* cancel) it listens to.  Its finally removes the flag.
HandlerEnds(w, i, ok) ==
  /\ at' = [at EXCEPT ![w].label = "release", ![w].ok = ok]
  /\ cancelKeys' = cancelKeys \ {i}
  /\ UNCHANGED <<storedVars, slots, refused, replays, losses>>

Run(w, i) == On(w, i, "run") /\ \E ok \in BOOLEAN : HandlerEnds(w, i, ok)

\* Broken variant: only a handler that succeeded gives its slot back.
ReleaseOnSuccess(w, i) ==
  /\ On(w, i, "release")
  /\ slots' = IF at[w].ok THEN [slots EXCEPT ![Tenant(i)] = @ \ {i}] ELSE slots
  /\ Goto(w, "settle")
  /\ UNCHANGED <<storedVars, refused, cancelKeys, replays, losses>>

Release(w, i) ==
  /\ On(w, i, "release")
  /\ slots' = [slots EXCEPT ![Tenant(i)] = @ \ {i}]
  /\ Goto(w, "settle")
  /\ UNCHANGED <<storedVars, refused, cancelKeys, replays, losses>>

Settle(w, i) ==
  /\ On(w, i, "settle")
  /\ IF at[w].ok
       THEN state' = [state EXCEPT ![i] = "completed"] /\ UNCHANGED <<made, failedReason>>
       ELSE AttemptFails(i, "handler")
  /\ at' = [at EXCEPT ![w] = Idle]
  /\ UNCHANGED <<slots, refused, cancelKeys, stalled, replays, losses>>

-----------------------------------------------------------------------------
(* The "failed" listener, and losses.                                      *)

\* Broken variant: the copy is added under the job's own id, which exists.
CopyRefusedSameId(i) ==
  /\ i \in refused
  /\ refused' = refused \ {i}
  /\ UNCHANGED <<storedVars, at, slots, cancelKeys, replays, losses>>

CopyRefused(i) ==
  /\ i \in refused
  /\ refused' = refused \ {i}
  /\ \E n \in 1 .. MaxCopies :
       /\ \A m \in 1 .. n - 1 : <<i[1], m>> \in Copies
       /\ Added(<<i[1], n>>)
  /\ UNCHANGED <<at, slots, cancelKeys, replays, losses>>

\* A worker is lost at any point.  BullMQ gives a stalled job to another worker
\* once and fails it the second time.  Its slot stays in the Redis set, and with
\* its process may go the refusals whose copies the listener had yet to add.
WorkerLost(w, i) ==
  /\ at[w].job = i
  /\ losses < MaxLosses
  /\ losses' = losses + 1
  /\ at' = [at EXCEPT ![w] = Idle]
  /\ stalled' = stalled \cup {i}
  /\ IF i \in stalled
       THEN /\ state' = [state EXCEPT ![i] = "failed"]
            /\ failedReason' = [failedReason EXCEPT ![i] = "stalled"]
       ELSE /\ state' = [state EXCEPT ![i] = "waiting"]
            /\ UNCHANGED failedReason
  /\ refused' \in {refused, {}}
  /\ UNCHANGED <<made, slots, cancelKeys, replays>>

-----------------------------------------------------------------------------
WorkerStep(w, i) ==
  \/ Admitted(w, i)
  \/ Refused(w, i)
  \/ AddSlot(w, i)
  \/ Release(w, i)
  \/ Settle(w, i)

ClientStep ==
  \E i \in Ids : CancelWaiting(i) \/ CancelFlag(i) \/ CancelKeyExpires(i) \/ ReplayDeadLetter(i)

QueueStep ==
  \/ \E w \in Workers, i \in Ids : 
       PickUp(w, i) \/ WorkerStep(w, i) \/ PollCancel(w, i) \/ WorkerLost(w, i)
  \/ \E i \in Ids : CopyRefused(i)

Next ==
  \/ \E j \in Jobs : Enqueue(j)
  \/ ClientStep
  \/ QueueStep
  \/ \E w \in Workers, i \in Ids : Run(w, i)

Spec == Init /\ [][Next]_queueVars
=============================================================================
