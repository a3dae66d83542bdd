--------------------------- MODULE PreparationSafety ---------------------------
(***************************************************************************)
(* Proofs about the classification of a change, for every change and every *)
(* history of findings, and about the preparation of its snapshot, for any *)
(* number of runs and crashes, and for workers with and without privileges.*)
(***************************************************************************)
EXTENDS PreparationProperties, FiniteSetTheorems, TLAPS

(* What the classifier's risk depends on: facts about ChangeClassifier.     *)

LEMMA HitsAreCategories ==
  ASSUME NEW files \in SUBSET Files
  PROVE  Hits(files) \subseteq Categories
  BY DEF Hits, HitsOf, FirstMatch, PathCategories, Categories

LEMMA CategoriesFinite == IsFiniteSet(Categories)
<1> DEFINE name == [n \in 1 .. 14 |-> IF n <= 12 THEN Priority[n]
                                       ELSE IF n = 13 THEN "dependency-change" ELSE "repository-policy"]
<1>1. \A n \in 1 .. 12 : name[n] = Priority[n]
  OBVIOUS
<1>2. name[13] = "dependency-change" /\ name[14] = "repository-policy"
  OBVIOUS
<1>3. name \in [1 .. 14 -> Categories]
  BY DEF Categories, PathCategories
<1>4. \A c \in Categories : \E n \in 1 .. 14 : name[n] = c
  BY <1>1, <1>2 DEF Categories, PathCategories
<1>5. name \in Surjection(1 .. 14, Categories)
  BY <1>3, <1>4 DEF Surjection
<1>6. IsFiniteSet(1 .. 14)
  <2>1. 1 \in Int /\ 14 \in Int  OBVIOUS
  <2> HIDE DEF name
  <2> QED  BY <2>1, FS_Interval, Zenon
<1> QED  BY <1>5, <1>6, FS_Surjection

\* Larger changes and longer histories have more categories that count as high.
LEMMA HighHitsGrow ==
  ASSUME NEW fewer \in SUBSET Files, NEW more \in SUBSET Files, fewer \subseteq more,
         NEW before \in SUBSET Categories, NEW after \in SUBSET Categories, before \subseteq after
  PROVE  /\ Hits(fewer) \subseteq Hits(more)
         /\ HighHits(fewer, before) \subseteq HighHits(more, after)
         /\ IsFiniteSet(HighHits(more, after))
         /\ Cardinality(HighHits(fewer, before)) <= Cardinality(HighHits(more, after))
         /\ Cardinality(HighHits(fewer, before)) \in Nat /\ Cardinality(HighHits(more, after)) \in Nat
<1>1. Hits(fewer) \subseteq Hits(more)
  BY DEF Hits
<1>2. HighHits(fewer, before) \subseteq HighHits(more, after)
  BY <1>1 DEF HighHits
<1>3. HighHits(more, after) \subseteq Categories
  BY HitsAreCategories DEF HighHits
<1>4. IsFiniteSet(HighHits(more, after))
  BY <1>3, CategoriesFinite, FS_Subset
<1>5. IsFiniteSet(HighHits(fewer, before))
  BY <1>2, <1>4, FS_Subset
<1> QED  BY <1>1, <1>2, <1>4, <1>5, FS_Subset, FS_CardinalityType

\* Touching more files, or a longer history of findings, never lowers the risk.
THEOREM RiskIsMonotone ==
  ASSUME NEW fewer \in SUBSET Files, NEW more \in SUBSET Files, fewer \subseteq more,
         NEW before \in SUBSET Categories, NEW after \in SUBSET Categories, before \subseteq after
  PROVE  Risk(fewer, before) <= Risk(more, after)
<1>1. Compound(fewer, before) => Compound(more, after)
  BY HighHitsGrow DEF Compound
<1>2. HighHits(fewer, before) \subseteq Hits(fewer) /\ HighHits(more, after) \subseteq Hits(more)
  BY DEF HighHits
<1>3. HighHits(more, after) = {} => ~Compound(more, after)
  BY FS_EmptySet, <1>2 DEF Compound, HighHits, HighRisk
<1> QED  BY <1>1, <1>2, <1>3, HighHitsGrow DEF Risk

\* A change has one of the four levels.
LEMMA RiskIsALevel ==
  ASSUME NEW files \in SUBSET Files, NEW history \in SUBSET Categories
  PROVE  Risk(files, history) \in 1 .. 4
<1>1. HighHits(files, history) \subseteq Hits(files)
  BY DEF HighHits
<1> QED  BY <1>1 DEF Risk

-----------------------------------------------------------------------------
(* The snapshot.                                                           *)

USE PreparationAssumption

\* While no two runs have built at once, one run at most is building now, and the
\* directory is what that run's place says it is.
Alone ==
  \A r, s \in Runs : (at[r] \in Building /\ at[s] \in Building) => r = s

Marked ==
  /\ dir.marker => dir.content = "complete"
  /\ dir.readOnly => dir.marker
  /\ \A r \in Runs :
       /\ at[r] \in Building \ {"protect"} => ~dir.marker
       /\ at[r] \in {"protect", "use", "open", "write", "record", "classify", "classified", "engine"} => dir.marker

Built ==
  \A r \in Runs :
    /\ at[r] = "make" => dir.content = "absent"
    /\ at[r] = "clone" => dir.content = "empty"
    /\ at[r] = "cloning" => OwnClone(r)
    /\ at[r] = "checkout" => dir.content = "cloned"
    /\ at[r] = "mark" => dir.content = "complete"

Orderly == ~overlapped => Alone /\ Marked /\ Built

\* The artifact's file: who left it torn, and that whoever comes past it has it.
FileFits ==
  /\ file.text = "torn" => (\E r \in Runs : at[r] = "write") \/ LostAt("write")
  /\ (rows # {} \/ \E r \in Runs : at[r] \in {"write", "record"}) => file.text # "absent"

\* Where a run that is still going has not ended, and why the others did.
WhenceFits ==
  \A r \in Runs : whence[r] # "none" <=> at[r] \in {"threw", "lost"}

\* What a run has computed and not yet recorded rests on no more findings than
\* there are now.
DraftsOld == \A r \in Runs : draft[r] <= Risk(Changed, previous)

PrepInv == PrepTypeOK /\ Orderly /\ FileFits /\ WhenceFits /\ LeftoversNeverFail /\ RiskOnlyRises /\ DraftsOld

-----------------------------------------------------------------------------

LEMMA RiskTyped == PrepTypeOK => Risk(Changed, previous) \in 1 .. 4
  BY RiskIsALevel, PreparationAssumption DEF PrepTypeOK

LEMMA PrepInitInv == PrepInit => PrepInv
<1> SUFFICES ASSUME PrepInit PROVE PrepInv
  OBVIOUS
<1> USE DEF PrepInit, NoDir, Places, Building, Ends
<1>1. PrepTypeOK
  <2>1. dir \in Dirs  BY DEF Dirs, Contents
  <2>2. file \in [text : {"absent", "torn", "whole"}, readOnly : BOOLEAN]  OBVIOUS
  <2>3. crashes \in 0..MaxCrashes  BY PreparationAssumption
  <2>4. /\ draft \in [Runs -> 0 .. 4] /\ risk \in [Runs -> 0 .. 4]
        /\ previous \in SUBSET Reportable
    OBVIOUS
  <2> QED  BY <2>1, <2>2, <2>3, <2>4 DEF PrepTypeOK
<1>2. Orderly  BY DEF Orderly, Alone, Marked, Built
<1>3. FileFits /\ WhenceFits /\ LeftoversNeverFail
  BY DEF FileFits, WhenceFits, LeftoversNeverFail
<1>4. RiskOnlyRises /\ DraftsOld  BY RiskTyped, <1>1 DEF RiskOnlyRises, DraftsOld, PrepTypeOK
<1> QED  BY <1>1, <1>2, <1>3, <1>4 DEF PrepInv

LEMMA PrepTyped == PrepTypeOK /\ [PrepNext]_prepVars => PrepTypeOK'
<1>1. SUFFICES ASSUME PrepTypeOK, PrepNext
               PROVE  PrepTypeOK'
  BY DEF PrepTypeOK, prepVars
<1>2. PICK r \in Runs : PrepStep(r) \/ Crash(r)
  BY <1>1 DEF PrepNext
<1>3. privileged' = privileged
  BY <1>1 DEF PrepNext
<1> USE <1>1, <1>3 DEF PrepTypeOK, Dirs, NoDir, Contents, Places, Building, Ends, Goto, Throw, Ended, StoreUnchanged
<1>a. CASE Check(r)  BY <1>a DEF Check
<1>b. CASE Remove(r)
  <2>1. CASE dir' = NoDir /\ at' = [at EXCEPT ![r] = "make"]  BY <1>b, <2>1 DEF Remove
  <2>2. CASE Throw(r) /\ dir.content \notin {"absent", "empty"}
    <3>1. PICK left \in {dir.content, "damaged"} : dir' = [dir EXCEPT !.content = left]
      BY <1>b, <2>2 DEF Remove
    <3> QED  BY <1>b, <2>2, <3>1 DEF Remove
  <2> QED  BY <1>b, <2>1, <2>2 DEF Remove
<1>c. CASE MakeDir(r)  BY <1>c DEF MakeDir
<1>d. CASE CloneBegin(r)
  <2>1. CASE Throw(r) /\ UNCHANGED dir  BY <1>d, <2>1 DEF CloneBegin
  <2>2. CASE dir' = [dir EXCEPT !.content = "partial", !.owner = r] /\ Goto(r, "cloning")
    BY <1>d, <2>2 DEF CloneBegin
  <2> QED  BY <1>d, <2>1, <2>2 DEF CloneBegin
<1>e. CASE CloneEnd(r)  BY <1>e DEF CloneEnd, OwnClone
<1>f. CASE Checkout(r)  BY <1>f DEF Checkout
<1>g. CASE Mark(r)
  <2>1. CASE Throw(r) /\ UNCHANGED dir  BY <1>g, <2>1 DEF Mark
  <2>2. CASE dir' = [dir EXCEPT !.marker = TRUE] /\ Goto(r, "protect")  BY <1>g, <2>2 DEF Mark
  <2> QED  BY <1>g, <2>1, <2>2 DEF Mark
<1>h. CASE Protect(r)
  <2>1. CASE Throw(r) /\ UNCHANGED dir  BY <1>h, <2>1 DEF Protect
  <2>2. CASE dir' = [dir EXCEPT !.readOnly = TRUE] /\ Goto(r, "use")  BY <1>h, <2>2 DEF Protect
  <2> QED  BY <1>h, <2>1, <2>2 DEF Protect
<1>i. CASE Describe(r)
  <2>1. dir' = [dir EXCEPT !.readOnly = dir'.readOnly] /\ dir'.readOnly \in BOOLEAN
    BY <1>i DEF Describe
  <2>2. dir'.content = dir.content /\ (dir = NoDir => dir' = NoDir)
    BY <1>i DEF Describe
  <2>3. Goto(r, "open") \/ Throw(r)
    BY <1>i DEF Describe
  <2>4. /\ at' \in [Runs -> Places \cup Ends] /\ whence' \in [Runs -> Places \cup {"none"}]
        /\ UNCHANGED <<file, rows, overlapped, crashes, draft, risk, previous>>
    BY <1>i, <2>3 DEF Describe
  <2>5. dir' \in Dirs /\ (dir'.content = "absent" => dir' = NoDir)
    BY <2>1, <2>2
  <2> QED  BY <2>4, <2>5
<1>j. CASE OpenFile(r)  BY <1>j DEF OpenFile
<1>k. CASE WriteFile(r)  BY <1>k DEF WriteFile
<1>l. CASE Record(r)  BY <1>l DEF Record
<1>m. CASE EngineEnds(r)  BY <1>m DEF EngineEnds
<1>o. CASE ClassifyRead(r)  BY <1>o, RiskTyped DEF ClassifyRead
<1>p. CASE ClassifyWrite(r)  BY <1>p DEF ClassifyWrite
<1>n. CASE Crash(r)  BY <1>n DEF Crash
<1> QED  BY <1>2, <1>a, <1>b, <1>c, <1>d, <1>e, <1>f, <1>g, <1>h, <1>i, <1>j, <1>k, <1>l, <1>m, <1>n, <1>o, <1>p DEF PrepStep

LEMMA OrderlyStep == PrepInv /\ [PrepNext]_prepVars => Orderly'
<1>1. SUFFICES ASSUME PrepInv, PrepNext, ~overlapped'
               PROVE  (Alone /\ Marked /\ Built)'
  BY DEF PrepInv, Orderly, Alone, Marked, Built, OwnClone, prepVars
<1>2. PICK r \in Runs : PrepStep(r) \/ Crash(r)
  BY <1>1 DEF PrepNext
<1>3. ~overlapped /\ (Check(r) => (dir.marker \/ \A s \in Runs : at[s] \notin Building))
  <2>1. CASE Check(r)  BY <1>1, <2>1, Zenon DEF Check
  <2>2. CASE ~Check(r)
    <3>1. UNCHANGED overlapped
      BY <1>2, <2>2 DEF PrepStep, Remove, MakeDir, CloneBegin, CloneEnd, Checkout, Mark,
         Protect, Describe, OpenFile, WriteFile, Record, ClassifyRead, ClassifyWrite, EngineEnds, Crash
    <3> QED  BY <1>1, <2>2, <3>1
  <2> QED  BY <2>1, <2>2
<1>4. PrepTypeOK /\ Alone /\ Marked /\ Built /\ WhenceFits
  BY <1>1, <1>3 DEF PrepInv, Orderly
<1>5. \A s \in Runs : at[s] \in Places \cup Ends
  BY <1>4 DEF PrepTypeOK
<1> USE <1>3, <1>4, <1>5 DEF PrepTypeOK, Dirs, NoDir, Contents, Places, Building, Ends, Goto, Throw, Ended,
        StoreUnchanged, Alone, Marked, Built, OwnClone, WhenceFits
<1>a. CASE Check(r)  BY <1>a DEF Check
<1>b. CASE Remove(r)  BY <1>b DEF Remove, DirWritable
<1>c. CASE MakeDir(r)  BY <1>c DEF MakeDir
<1>d. CASE CloneBegin(r)
  <2>1. /\ at[r] = "clone" /\ r \in Runs
        /\ ~dir.marker /\ ~dir.readOnly /\ dir.content = "empty"
    BY <1>d DEF CloneBegin
  <2>2. dir' = [dir EXCEPT !.content = "partial", !.owner = r] /\ Goto(r, "cloning")
    BY <1>d, <2>1, Zenon DEF CloneBegin, DirWritable
  <2>3. dir'.content = "partial" /\ dir'.owner = r /\ ~dir'.marker /\ ~dir'.readOnly
    BY <2>1, <2>2
  <2>4. at' = [at EXCEPT ![r] = "cloning"] /\ at \in [Runs -> Places \cup Ends]
    BY <2>2
  <2> HIDE DEF Goto
  <2> QED  BY <2>1, <2>3, <2>4
<1>e. CASE CloneEnd(r)  BY <1>e DEF CloneEnd
<1>f. CASE Checkout(r)  BY <1>f DEF Checkout
<1>g. CASE Mark(r)  BY <1>g DEF Mark, DirWritable
<1>h. CASE Protect(r)  BY <1>h DEF Protect
<1>i. CASE Describe(r)  BY <1>i DEF Describe
<1>j. CASE OpenFile(r)  BY <1>j DEF OpenFile
<1>k. CASE WriteFile(r)  BY <1>k DEF WriteFile
<1>l. CASE Record(r)  BY <1>l DEF Record
<1>m. CASE EngineEnds(r)  BY <1>m DEF EngineEnds
<1>o. CASE ClassifyRead(r)  BY <1>o DEF ClassifyRead
<1>p. CASE ClassifyWrite(r)  BY <1>p DEF ClassifyWrite
<1>n. CASE Crash(r)  BY <1>n DEF Crash
<1> QED  BY <1>2, <1>a, <1>b, <1>c, <1>d, <1>e, <1>f, <1>g, <1>h, <1>i, <1>j, <1>k, <1>l, <1>m, <1>n, <1>o, <1>p DEF PrepStep

LEMMA FileStep == PrepInv /\ [PrepNext]_prepVars => FileFits'
<1>1. SUFFICES ASSUME PrepInv, PrepNext
               PROVE  FileFits'
  BY DEF PrepInv, FileFits, LostAt, prepVars
<1>2. PICK r \in Runs : PrepStep(r) \/ Crash(r)
  BY <1>1 DEF PrepNext
<1>3. PrepTypeOK /\ FileFits /\ WhenceFits
  BY <1>1 DEF PrepInv
<1> USE <1>3 DEF PrepTypeOK, Places, Building, Ends, Goto, Throw, Ended,
        StoreUnchanged, FileFits, LostAt, WhenceFits
<1>a. CASE Check(r)  BY <1>a DEF Check
<1>b. CASE Remove(r)  BY <1>b DEF Remove
<1>c. CASE MakeDir(r)  BY <1>c DEF MakeDir
<1>d. CASE CloneBegin(r)  BY <1>d DEF CloneBegin
<1>e. CASE CloneEnd(r)  BY <1>e DEF CloneEnd
<1>f. CASE Checkout(r)  BY <1>f DEF Checkout
<1>g. CASE Mark(r)  BY <1>g DEF Mark
<1>h. CASE Protect(r)  BY <1>h DEF Protect
<1>i. CASE Describe(r)  BY <1>i DEF Describe
<1>j. CASE OpenFile(r)  BY <1>j DEF OpenFile
<1>k. CASE WriteFile(r)  BY <1>k DEF WriteFile
<1>l. CASE Record(r)  BY <1>l DEF Record
<1>m. CASE EngineEnds(r)  BY <1>m DEF EngineEnds
<1>o. CASE ClassifyRead(r)  BY <1>o DEF ClassifyRead
<1>p. CASE ClassifyWrite(r)  BY <1>p DEF ClassifyWrite
<1>n. CASE Crash(r)  BY <1>n DEF Crash
<1> QED  BY <1>2, <1>a, <1>b, <1>c, <1>d, <1>e, <1>f, <1>g, <1>h, <1>i, <1>j, <1>k, <1>l, <1>m, <1>n, <1>o, <1>p DEF PrepStep

LEMMA WhenceStep == PrepInv /\ [PrepNext]_prepVars => WhenceFits'
<1>1. SUFFICES ASSUME PrepInv, PrepNext
               PROVE  WhenceFits'
  BY DEF PrepInv, WhenceFits, prepVars
<1>2. PICK r \in Runs : PrepStep(r) \/ Crash(r)
  BY <1>1 DEF PrepNext
<1>3. PrepTypeOK /\ WhenceFits
  BY <1>1 DEF PrepInv
<1>4. \/ \E place \in (Places \cup Ends) \ {"threw", "lost"} : Goto(r, place)
      \/ \E end \in {"threw", "lost"} : Ended(r, end)
  BY <1>2 DEF PrepStep, Check, Remove, MakeDir, CloneBegin, CloneEnd, Checkout, Mark,
     Protect, Describe, OpenFile, WriteFile, Record, ClassifyRead, ClassifyWrite, EngineEnds, Crash, Throw, Places, Building, Ends
<1>5. at[r] \in Places \cup {"engine"}
  BY <1>2 DEF PrepStep, Check, Remove, MakeDir, CloneBegin, CloneEnd, Checkout, Mark,
     Protect, Describe, OpenFile, WriteFile, Record, ClassifyRead, ClassifyWrite, EngineEnds, Crash, Places, Building
<1> QED
  BY <1>3, <1>4, <1>5 DEF PrepTypeOK, WhenceFits, Goto, Ended, Places, Building, Ends

\* Only a step of its own makes a run throw, and then its place is that step's.
LEMMA FailureStep == PrepInv /\ [PrepNext]_prepVars => LeftoversNeverFail'
<1>1. SUFFICES ASSUME PrepInv, PrepNext
               PROVE  LeftoversNeverFail'
  BY DEF PrepInv, LeftoversNeverFail, prepVars
<1>2. PICK r \in Runs : PrepStep(r) \/ Crash(r)
  BY <1>1 DEF PrepNext
<1>3. PrepTypeOK /\ Orderly /\ FileFits /\ WhenceFits /\ LeftoversNeverFail /\ UNCHANGED privileged
  BY <1>1 DEF PrepInv, PrepNext
<1>4. CASE overlapped'
  BY <1>4 DEF LeftoversNeverFail
<1>5. CASE ~overlapped'
  <2>1. ~overlapped
    <3>1. CASE Check(r)  BY <1>5, <3>1, Zenon DEF Check
    <3>2. CASE ~Check(r)
      <4>1. UNCHANGED overlapped
        BY <1>2, <3>2 DEF PrepStep, Remove, MakeDir, CloneBegin, CloneEnd, Checkout, Mark,
           Protect, Describe, OpenFile, WriteFile, Record, ClassifyRead, ClassifyWrite, EngineEnds, Crash
      <4> QED  BY <1>5, <4>1
    <3> QED  BY <3>1, <3>2
  <2>2. Alone /\ Marked /\ Built
    BY <1>3, <2>1 DEF Orderly
  <2> USE <1>3, <2>1, <2>2 DEF PrepTypeOK, Dirs, Contents, Places, Building, Ends, Goto, Throw, Ended,
          LeftoversNeverFail, WhenceFits, Alone, Marked, Built
  <2>a. CASE Check(r)  BY <2>a DEF Check
  <2>b. CASE Remove(r)  BY <2>b DEF Remove, DirWritable
  <2>c. CASE MakeDir(r)  BY <2>c DEF MakeDir
  <2>d. CASE CloneBegin(r)  BY <2>d DEF CloneBegin, DirWritable
  <2>e. CASE CloneEnd(r)  BY <2>e DEF CloneEnd
  <2>f. CASE Checkout(r)  BY <2>f DEF Checkout
  <2>g. CASE Mark(r)  BY <2>g DEF Mark, DirWritable
  <2>h. CASE Protect(r)  BY <2>h DEF Protect
  <2>i. CASE Describe(r)  BY <2>i DEF Describe
  <2>j. CASE OpenFile(r)  BY <2>j DEF OpenFile, FileFits
  <2>k. CASE WriteFile(r)  BY <2>k DEF WriteFile
  <2>l. CASE Record(r)  BY <2>l DEF Record
  <2>m. CASE EngineEnds(r)  BY <2>m DEF EngineEnds
  <2>o. CASE ClassifyRead(r)  BY <2>o DEF ClassifyRead
  <2>p. CASE ClassifyWrite(r)  BY <2>p DEF ClassifyWrite
  <2>n. CASE Crash(r)  BY <2>n DEF Crash
  <2> QED  BY <1>2, <2>a, <2>b, <2>c, <2>d, <2>e, <2>f, <2>g, <2>h, <2>i, <2>j, <2>k, <2>l, <2>m, <2>n, <2>o, <2>p DEF PrepStep
<1> QED  BY <1>4, <1>5

\* Findings only grow, and with them the level; a row is what its run has computed.
LEMMA RiskStep == PrepInv /\ [PrepNext]_prepVars => RiskOnlyRises' /\ DraftsOld'
<1>1. SUFFICES ASSUME PrepInv, PrepNext
               PROVE  RiskOnlyRises' /\ DraftsOld'
  BY DEF PrepInv, RiskOnlyRises, DraftsOld, prepVars
<1>2. PICK r \in Runs : PrepStep(r) \/ Crash(r)
  BY <1>1 DEF PrepNext
<1>3. PrepTypeOK /\ RiskOnlyRises /\ DraftsOld
  BY <1>1 DEF PrepInv
<1>4. Risk(Changed, previous) \in 1 .. 4 /\ PrepTypeOK'
  BY <1>1, <1>3, RiskTyped, PrepTyped
<1>5. /\ previous \subseteq previous'
      /\ draft' \in {draft, [draft EXCEPT ![r] = Risk(Changed, previous)]}
      /\ risk' \in {risk, [risk EXCEPT ![r] = draft[r]]}
  BY <1>2 DEF PrepStep, Check, Remove, MakeDir, CloneBegin, CloneEnd, Checkout, Mark, Protect,
     Describe, OpenFile, WriteFile, Record, ClassifyRead, ClassifyWrite, EngineEnds, Crash, StoreUnchanged
<1>6. Risk(Changed, previous) <= Risk(Changed, previous') /\ Risk(Changed, previous') \in 1 .. 4
  <2>1. previous \in SUBSET Categories /\ previous' \in SUBSET Categories
    BY <1>3, <1>4, PreparationAssumption DEF PrepTypeOK
  <2> QED  BY <1>5, <2>1, RiskIsMonotone, RiskIsALevel, PreparationAssumption
<1>7. \A s \in Runs : /\ risk'[s] <= Risk(Changed, previous) /\ risk'[s] \in Nat
                     /\ draft'[s] <= Risk(Changed, previous) /\ draft'[s] \in Nat
  BY <1>3, <1>4, <1>5 DEF RiskOnlyRises, DraftsOld, PrepTypeOK
<1> QED  BY <1>4, <1>6, <1>7 DEF RiskOnlyRises, DraftsOld

-----------------------------------------------------------------------------

\* PrepInv, the inductive invariant of the preparation, whatever overlaps or dies.
THEOREM PreparationInvariant == PrepSpec => []PrepInv
<1>1. PrepInv /\ [PrepNext]_prepVars => PrepInv'
  BY PrepTyped, OrderlyStep, FileStep, WhenceStep, FailureStep, RiskStep DEF PrepInv
<1> QED  BY PrepInitInv, <1>1, PTL DEF PrepSpec

\* Every variable keeps its type, and an absent directory has nothing in it.
THEOREM PreparationTypeCorrect == PrepSpec => []PrepTypeOK
<1>1. PrepInv => PrepTypeOK  BY DEF PrepInv
<1> QED  BY PreparationInvariant, <1>1, PTL

\* A snapshot that is trusted, or is being read, is the commit under review, for
\* any number of runs and of deaths at any place, unless two builds overlapped.
THEOREM TrustedSnapshotIsSource == PrepSpec => []SnapshotIsSource
<1>1. PrepInv => SnapshotIsSource  BY DEF PrepInv, Orderly, Marked, SnapshotIsSource
<1> QED  BY PreparationInvariant, <1>1, PTL

\* A snapshot row has its content, outside a rewrite of it.
THEOREM RecordedContentExists == PrepSpec => []RowsHaveContent
<1>1. PrepInv => RowsHaveContent
  BY DEF PrepInv, PrepTypeOK, FileFits, RowsHaveContent
<1> QED  BY PreparationInvariant, <1>1, PTL

\* Before the store, only git and two builds at once fail a preparation: whatever
\* a dead one left, at whichever place, is cleared away or is the commit.
THEOREM LeftoversAreHarmless == PrepSpec => []LeftoversNeverFail
<1>1. PrepInv => LeftoversNeverFail  BY DEF PrepInv
<1> QED  BY PreparationInvariant, <1>1, PTL

\* No recorded level is above what the findings by now would give.
THEOREM RiskNeverDrops == PrepSpec => []RiskOnlyRises
<1>1. PrepInv => RiskOnlyRises  BY DEF PrepInv
<1> QED  BY PreparationInvariant, <1>1, PTL

=============================================================================
