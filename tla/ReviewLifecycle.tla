---------------------------- MODULE ReviewLifecycle ----------------------------
(***************************************************************************)
(* What a client is promised about a review, with everything the pipeline  *)
(* is made of left out: it is asked for once, it looks at the source and   *)
(* then perhaps at the running target, it settles on one disposition for   *)
(* good, and subscribers and the receipt say what it settled on.           *)
(***************************************************************************)
CONSTANTS
  Reviews,        \* the reviews there may be
  Settlements     \* the dispositions a review may settle on

VARIABLES
  stage,          \* how far a review is
  settlement,     \* what it settled on, "none" before
  heard,          \* the settlements subscribers have been told of
  shown           \* what its receipt shows: a gate, "clear", or "none" before it exists

lifecycleVars == <<stage, settlement, heard, shown>>

Gates == Settlements \ {"completed"}

LifecycleInit ==
  /\ stage = [r \in Reviews |-> "unasked"]
  /\ settlement = [r \in Reviews |-> "none"]
  /\ heard = [r \in Reviews |-> {}]
  /\ shown = [r \in Reviews |-> "none"]

Ask(r) ==
  /\ stage[r] = "unasked"
  /\ stage' = [stage EXCEPT ![r] = "source"]
  /\ UNCHANGED <<settlement, heard, shown>>

\* A review goes to the target only from the source, and never back.
Escalate(r) ==
  /\ stage[r] = "source"
  /\ stage' = [stage EXCEPT ![r] = "target"]
  /\ UNCHANGED <<settlement, heard, shown>>

Settle(r) ==
  /\ stage[r] \in {"source", "target"}
  /\ stage' = [stage EXCEPT ![r] = "settled"]
  /\ \E s \in Settlements : settlement' = [settlement EXCEPT ![r] = s]
  /\ UNCHANGED <<heard, shown>>

Tell(r) ==
  /\ stage[r] = "settled"
  /\ heard' = [heard EXCEPT ![r] = @ \cup {settlement[r]}]
  /\ UNCHANGED <<stage, settlement, shown>>

Show(r) ==
  /\ stage[r] = "settled"
  /\ shown' = [shown EXCEPT ![r] = IF settlement[r] \in Gates THEN settlement[r] ELSE "clear"]
  /\ UNCHANGED <<stage, settlement, heard>>

LifecycleNext == \E r \in Reviews : Ask(r) \/ Escalate(r) \/ Settle(r) \/ Tell(r) \/ Show(r)

LifecycleSpec == LifecycleInit /\ [][LifecycleNext]_lifecycleVars

=============================================================================
