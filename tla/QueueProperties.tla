---------------------------- MODULE QueueProperties ----------------------------
(***************************************************************************)
(* What the job queue promises its callers.                                *)
(***************************************************************************)
EXTENDS JobQueue

QueueTypeOK ==
  /\ state \in [Ids -> JobStates]
  /\ made \in [Ids -> 0 .. MaxAttempts + MaxReplays]
  /\ failedReason \in [Ids -> Reasons]
  /\ stalled \subseteq Ids
  /\ at \in [Workers -> [job : Ids \cup {NoJob}, label : Labels,
                    ok : BOOLEAN, aborted : BOOLEAN]]
  /\ slots \in [Tenants -> SUBSET Ids]
  /\ refused \subseteq Ids
  /\ cancelKeys \subseteq Ids
  /\ replays \in 0 .. MaxReplays
  /\ losses \in 0 .. MaxLosses

\* Instances of one job, as enqueue was called for it.
Instances(j) == {i \in Ids : i[1] = j}
Alive(i) == state[i] \in {"waiting", "active"} \/ i \in refused

\* The contract's view of an id: until the limiter has let an execution in, its
\* handler has not been called and the job is still waiting.
Admitting(i) == \E w \in Workers : at[w].job = i /\ at[w].label = "count"
View(i) == IF Admitting(i) THEN "waiting" ELSE state[i]

\* The in-memory queue "implements the same idempotency, retry, priority,
\* timeout and dead-letter contract" (in-memory-job-queue.ts:30).  It does not:
\* a replay, the abort of an active job and a refused attempt go another way in
\* BullMQ.  In all else, through any retry, refusal, cancellation, replay and loss
\* of a worker, an id goes through BullMQ the way the contract says.
Contract == INSTANCE JobContract WITH
  state    <- [j \in Jobs |-> View(<<j, 0>>)],
  attempts <- [j \in Jobs |-> made[<<j, 0>>]
                 + IF View(<<j, 0>>) \in {"active", "completed"} THEN 1 ELSE 0],
  aborting <- {j \in Jobs : \E w \in Workers : at[w].job = <<j, 0>> /\ at[w].aborted}

DepartsOnlyAsKnown == Contract!ContractButDepartures

\* The limiter counts and adds in two commands, so a tenant can exceed its
\* limit, but never by more than the executions that passed the count together.
SlotsBounded ==
  \A t \in Tenants : Cardinality(slots[t]) <= Limit + Cardinality(Workers) - 1

\* A slot is given back on every way out of the processor: whatever is in a
\* tenant's set and not being worked on was leaked by a lost worker.
HeldSlots(t) == {i \in slots[t] : \E w \in Workers : at[w].job = i}
SlotsLeakOnlyByLoss ==
  \A t \in Tenants : Cardinality(slots[t] \ HeldSlots(t)) <= losses

\* "Backpressure ... should retry shortly without ... landing in the dead
\* letter": the refused original does land there, but as long as nothing is lost
\* another instance of the job is still to run, has run, or has failed by itself.
RefusedIsNotForgotten ==
  losses = 0 =>
    \A j \in Jobs : state[<<j, 0>>] = "failed" =>
      \E i \in Instances(j) :
         \/ Alive(i)
         \/ state[i] = "completed"
         \/ state[i] = "failed" /\ failedReason[i] = "handler"

=============================================================================
