------------------------------ MODULE MCAdmission ------------------------------
(* A small instance of admission for TLC. *)
EXTENDS Admission, TLC

CONSTANTS a1, a2, g1, g2, agent, opened, labeled, x1, x2, here, there, other, p1, p2

OneAgent == [c \in ApiClients |-> agent]
\* The same change on two targets, and another change.
ChangeInBody == (here :> x1) @@ (there :> x1) @@ (other :> x2)
ChangeOfDelivery == (opened :> x1) @@ (labeled :> NoChange)
SymAdmission == Permutations(ApiClients) \cup Permutations(GithubClients) \cup Permutations(Policies)
=============================================================================
