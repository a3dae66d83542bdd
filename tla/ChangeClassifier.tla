---------------------------- MODULE ChangeClassifier ----------------------------
(***************************************************************************)
(* classifyChange: the deterministic risk of a change, from the paths it   *)
(* touches and the categories of earlier findings.  A file is abstracted   *)
(* to what its path matches: the categories whose patterns it contains,    *)
(* whether it is a dependency manifest, and whether it matches one of the  *)
(* repository's own patterns.  Reasons are wording.                        *)
(***************************************************************************)
EXTENDS Naturals, FiniteSets

\* CATEGORY_PRIORITY: a file counts for the first of these that it matches.
Priority == << "secrets-exposure", "payment-manipulation", "authorization", "authentication",
               "tenant-isolation", "deserialization", "webhooks", "background-jobs",
               "infrastructure", "file-handling", "data-access", "api-surface" >>

PathCategories == {Priority[n] : n \in 1 .. 12}
Categories == PathCategories \cup {"dependency-change", "repository-policy"}
HighRisk == {"authentication", "authorization", "tenant-isolation", "payment-manipulation",
             "secrets-exposure", "deserialization"}

Files == [matches : SUBSET PathCategories, manifest : BOOLEAN, ownPattern : BOOLEAN]

FirstMatch(f) ==
  {Priority[n] : n \in {m \in 1 .. 12 : /\ Priority[m] \in f.matches
                                        /\ \A k \in 1 .. m - 1 : Priority[k] \notin f.matches}}

\* The categories one file is recorded under; the handler always passes the
\* repository's own patterns, when it has any.
HitsOf(f) ==
  FirstMatch(f) \cup (IF f.manifest THEN {"dependency-change"} ELSE {})
                \cup (IF f.ownPattern THEN {"repository-policy"} ELSE {})

Hits(files) == UNION {HitsOf(f) : f \in files}

\* Broken variant: a category counts as high once, for its kind or its history.
HighHitsExclusive(files, previous) ==
  {c \in Hits(files) : (c \in HighRisk) # (c \in previous)}

\* A category with earlier findings counts as high whatever its kind.
HighHits(files, previous) == {c \in Hits(files) : c \in HighRisk \/ c \in previous}

Compound(files, previous) ==
  \/ Cardinality(HighHits(files, previous)) >= 3
  \/ /\ "secrets-exposure" \in Hits(files)
     /\ {"authentication", "authorization"} \cap Hits(files) # {}

RiskLevels == <<"low", "medium", "high", "critical">>

\* The position of the risk level in RiskLevels.
Risk(files, previous) ==
  CASE Hits(files) = {}                                                       -> 1
    [] Hits(files) # {} /\ HighHits(files, previous) = {}                     -> 2
    [] HighHits(files, previous) # {} /\ ~Compound(files, previous)           -> 3
    [] OTHER                                                                  -> 4

RequiresPreviewTarget(files, previous) == Risk(files, previous) >= 3
RecommendsReview(files) == Hits(files) # {}

=============================================================================
