----------------------------- MODULE MCPreparation -----------------------------
(* Small instances of the snapshot preparation for TLC. *)
EXTENDS PreparationProperties, TLC

CONSTANTS r1, r2, r3

\* Two files that count as high by what they are, one only by earlier findings.
Touches(category) == [matches |-> {category}, manifest |-> FALSE, ownPattern |-> FALSE]
SomeChange ==
  { Touches("tenant-isolation"), Touches("deserialization"),
    [matches |-> {"data-access", "api-surface"}, manifest |-> TRUE, ownPattern |-> FALSE] }
SomeCategories == {"data-access", "deserialization"}

SymRuns == Permutations(Runs)
=============================================================================
