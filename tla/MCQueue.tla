-------------------------------- MODULE MCQueue --------------------------------
(* Small instances of the job queue for TLC. *)
EXTENDS QueueProperties, TLC

CONSTANTS a, b, org, w1, w2

\* Bound: a replay, a loss or a cancelled job, one of them at a time.
Cancelled == cancelKeys \cup {at[w].job : w \in {v \in Workers : at[v].aborted}}
OneDisturbance == replays + losses + Cardinality(Cancelled) <= 1

SymQueue == Permutations(Jobs) \cup Permutations(Workers)

OneTenant == [j \in Jobs |-> org]
=============================================================================
