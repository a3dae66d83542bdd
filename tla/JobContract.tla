------------------------------ MODULE JobContract ------------------------------
(***************************************************************************)
(* What the JobQueue interface promises about one job id, whichever queue  *)
(* is behind it: translated from the in-memory queue, without its order    *)
(* and its single thread, and beside it the three ways in which the        *)
(* production queue, which is to keep the same contract, departs from it.  *)
(* JobQueue.tla is shown to depart in no other.                            *)
(***************************************************************************)
EXTENDS Naturals

CONSTANTS
  Jobs,           \* job ids
  MaxAttempts,    \* attempts per job (DEFAULT_MAX_ATTEMPTS)
  MaxLosses       \* workers that may be lost

VARIABLES
  state,          \* "absent": never added, or cancelled, which enqueue treats alike
  attempts,       \* attempts started since the job was added, 0 before
  aborting,       \* active jobs whose signal was aborted with "cancelled"
  losses          \* workers lost so far

contractVars == <<state, attempts, aborting, losses>>

Init ==
  /\ state = [j \in Jobs |-> "absent"]
  /\ attempts = [j \in Jobs |-> 0]
  /\ aborting = {}
  /\ losses = 0

\* enqueue: an id the queue knows is reused, a cancelled one is added anew.
Enqueue(j) ==
  /\ state[j] = "absent"
  /\ state' = [state EXCEPT ![j] = "waiting"]
  /\ UNCHANGED <<attempts, aborting>>

Start(j) ==
  /\ state[j] = "waiting"
  /\ state' = [state EXCEPT ![j] = "active"]
  /\ attempts' = [attempts EXCEPT ![j] = @ + 1]
  /\ UNCHANGED aborting

Complete(j) ==
  /\ state[j] = "active"
  /\ state' = [state EXCEPT ![j] = "completed"]
  /\ aborting' = aborting \ {j}
  /\ UNCHANGED attempts

\* The handler throws: a cancelled job ends there, another is retried until its
\* attempts are spent, and is a dead letter then.
Fail(j) ==
  /\ state[j] = "active"
  /\ state' = [state EXCEPT ![j] = CASE j \in aborting            -> "absent"
                                     [] attempts[j] >= MaxAttempts -> "failed"
                                     [] OTHER                      -> "waiting"]
  /\ attempts' = IF j \in aborting THEN [attempts EXCEPT ![j] = 0] ELSE attempts
  /\ aborting' = aborting \ {j}

Cancel(j) ==
  \/ /\ state[j] = "waiting"
     /\ state' = [state EXCEPT ![j] = "absent"]
     /\ attempts' = [attempts EXCEPT ![j] = 0]
     /\ UNCHANGED aborting
  \/ /\ state[j] = "active"
     /\ aborting' = aborting \cup {j}
     /\ UNCHANGED <<state, attempts>>

\* A dead letter that is replayed has all its attempts again.
ReplayDeadLetter(j) ==
  /\ state[j] = "failed"
  /\ state' = [state EXCEPT ![j] = "waiting"]
  /\ attempts' = [attempts EXCEPT ![j] = 0]
  /\ UNCHANGED aborting

\* Only the production queue has workers to lose: the job of one goes to another
\* worker without the attempt being counted, or to the dead letters.
LoseWorker ==
  /\ losses < MaxLosses
  /\ losses' = losses + 1
  /\ \/ UNCHANGED <<state, attempts, aborting>>
     \/ \E j \in Jobs :
          /\ state[j] = "active"
          /\ state' \in {[state EXCEPT ![j] = s] : s \in {"waiting", "failed"}}
          /\ attempts' = [attempts EXCEPT ![j] = @ - 1]
          /\ aborting' = aborting \ {j}
     \/ \E j \in Jobs :
          /\ state[j] = "waiting"
          /\ state' = [state EXCEPT ![j] = "failed"]
          /\ UNCHANGED <<attempts, aborting>>

Next ==
  \/ LoseWorker
  \/ /\ UNCHANGED losses
     /\ \E j \in Jobs :
          \/ Enqueue(j)
          \/ Start(j)
          \/ Complete(j)
          \/ Fail(j)
          \/ Cancel(j)
          \/ ReplayDeadLetter(j)

-----------------------------------------------------------------------------
(* The departures of BullMqJobQueue.                                       *)

\* job.retry keeps attemptsMade: a replayed dead letter has one attempt.
ReplayKeepsCount(j) ==
  /\ state[j] = "failed"
  /\ state' = [state EXCEPT ![j] = "waiting"]
  /\ UNCHANGED <<attempts, aborting>>

\* A handler that gives up because it was cancelled has thrown, like any other.
CancelIsRetried(j) ==
  /\ state[j] = "active" /\ j \in aborting
  /\ state' = [state EXCEPT ![j] = IF attempts[j] >= MaxAttempts THEN "failed" ELSE "waiting"]
  /\ aborting' = aborting \ {j}
  /\ UNCHANGED attempts

\* The tenant's limit refuses a job before its handler runs: that is an attempt, and
\* the last one sends the job to the dead letters.
RefusalCounts(j) ==
  /\ state[j] = "waiting"
  /\ attempts' = [attempts EXCEPT ![j] = @ + 1]
  /\ state' = [state EXCEPT ![j] = IF attempts'[j] >= MaxAttempts THEN "failed" ELSE "waiting"]
  /\ UNCHANGED aborting

Departure ==
  /\ UNCHANGED losses
  /\ \E j \in Jobs : ReplayKeepsCount(j) \/ CancelIsRetried(j) \/ RefusalCounts(j)

\* A step of the queue inside one of these, or of another id.
Unseen == UNCHANGED contractVars

ContractButDepartures == Init /\ [][Unseen \/ Next \/ Departure]_contractVars
=============================================================================
