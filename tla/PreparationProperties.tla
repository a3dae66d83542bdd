------------------------- MODULE PreparationProperties -------------------------
(***************************************************************************)
(* What the marker and the content address give the runs that share a      *)
(* snapshot, and where the lack of a lock ends it.                         *)
(***************************************************************************)
EXTENDS Preparation

LostAt(place) == \E r \in Runs : at[r] = "lost" /\ whence[r] = place

\* Whoever died on the way and whatever they left, a directory that holds the
\* marker, and the one an engine is reading, is the commit under review, checked
\* out, unless two runs were ever building it at once (prepareRepositorySnapshot).
SnapshotIsSource ==
  (dir.marker \/ \E r \in Runs : at[r] = "engine") =>
    (dir.marker /\ dir.content = "complete") \/ overlapped

\* The content a row points to is there, unless a run with the same snapshot is
\* at this moment writing it again, or died at it (ArtifactStore.store).
RowsHaveContent ==
  rows # {} => \/ file.text = "whole"
               \/ \E r \in Runs : at[r] = "write"
               \/ LostAt("write")

\* "Leftover from a prior failed/partial attempt - start clean": a preparation that
\* throws before it comes to the store was failed by git, at its clone or at a
\* commit that cannot be resolved, or two runs were building at once.  Nothing an
\* earlier preparation did, or left wherever it died, fails a later one.  (A throw
\* at the store is another matter: an unprivileged worker always throws there when
\* the snapshot is stored already.)
LeftoversNeverFail ==
  \A r \in Runs : at[r] = "threw" /\ whence[r] \in Building \cup {"check", "use"} =>
    whence[r] \in {"cloning", "checkout"} \/ overlapped

\* The level recorded for a run is never above what a classification that reads the
\* findings now would get: of two runs about the same change the one that read later
\* has the same level or a higher one, in whichever order the rows are written
\* (classifyChange, with the categories of earlier findings).
RiskOnlyRises ==
  \A r \in Runs : risk[r] <= Risk(Changed, previous)

=============================================================================
