------------------------------ MODULE Preparation ------------------------------
(***************************************************************************)
(* The source snapshot of a change: one directory per repository, base and *)
(* head, and one content-addressed artifact that describes it.  Runs about *)
(* the same change share both: a change review and a scan, a review under  *)
(* another policy version, the verification of a fix.                      *)
(*                                                                         *)
(* prepareRepositorySnapshot trusts a directory that holds the marker and  *)
(* otherwise removes what is there, clones, checks out, writes the marker  *)
(* and makes the tree read-only; the handler of prepare_repository then    *)
(* stores the artifact and records it.  Nothing locks the directory.  A    *)
(* run prepares once: its retry finds the run at `classifying` and throws. *)
(* From the row on, the run is classified by the change and by the         *)
(* findings the repository has by then, and its engine reads the directory.*)
(***************************************************************************)
EXTENDS ChangeClassifier

CONSTANTS
  Runs,           \* runs about one repository, base and head
  Nobody,         \* not a run
  Changed,        \* the files of the change
  Reportable,     \* categories of the findings its reviews may report
  MaxCrashes      \* bound: workers that die while they prepare

ASSUME PreparationAssumption ==
  /\ Nobody \notin Runs
  /\ Changed \subseteq Files
  /\ Reportable \subseteq Categories
  /\ MaxCrashes \in Nat

VARIABLES
  at,             \* where each run stands
  whence,         \* the place at which a run threw or was lost
  dir,            \* the snapshot directory
  file,           \* the artifact's file
  rows,           \* runs with a source_snapshot row
  overlapped,     \* two runs that found no marker were building at once (history)
  crashes,
  draft,          \* draft[r]: the level run r has computed, 0 before
  risk,           \* risk[r]: the level recorded for run r, 0 before
  previous,       \* categories of the repository's findings
  privileged      \* whether the workers run as root, whom file modes do not stop; it never changes

prepVars == << at, whence, dir, file, rows, overlapped, crashes, draft, risk, previous, privileged >>

Building == {"remove", "make", "clone", "cloning", "checkout", "mark", "protect"}
Places == Building \cup {"check", "use", "open", "write", "record", "classify", "classified"}
Ends == {"engine", "done", "threw", "lost"}

\* `complete` is the commit under review, checked out; `damaged` is anything less
\* of it than git made; `owner` is the run whose clone is in the directory.
Contents == {"absent", "empty", "partial", "cloned", "complete", "damaged"}
Dirs == [content : Contents, owner : Runs \cup {Nobody}, marker : BOOLEAN, readOnly : BOOLEAN]
NoDir == [content |-> "absent", owner |-> Nobody, marker |-> FALSE, readOnly |-> FALSE]

PrepInit ==
  /\ at = [r \in Runs |-> "check"]
  /\ whence = [r \in Runs |-> "none"]
  /\ dir = NoDir
  /\ file = [text |-> "absent", readOnly |-> FALSE]
  /\ rows = {}
  /\ overlapped = FALSE
  /\ crashes = 0
  /\ draft = [r \in Runs |-> 0]
  /\ risk = [r \in Runs |-> 0]
  /\ previous = {}
  /\ privileged \in BOOLEAN

\* A directory that does not exist has nothing in it.
PrepTypeOK ==
  /\ at \in [Runs -> Places \cup Ends]
  /\ whence \in [Runs -> Places \cup {"none"}]
  /\ dir \in Dirs
  /\ dir.content = "absent" => dir = NoDir
  /\ file \in [text : {"absent", "torn", "whole"}, readOnly : BOOLEAN]
  /\ rows \in SUBSET Runs
  /\ overlapped \in BOOLEAN
  /\ crashes \in 0..MaxCrashes
  /\ draft \in [Runs -> 0 .. 4]
  /\ risk \in [Runs -> 0 .. 4]
  /\ previous \in SUBSET Reportable
  /\ privileged \in BOOLEAN

Goto(r, place) == at' = [at EXCEPT ![r] = place] /\ UNCHANGED whence
Ended(r, end) == at' = [at EXCEPT ![r] = end] /\ whence' = [whence EXCEPT ![r] = at[r]]
Throw(r) == Ended(r, "threw")

\* A file of the directory may be created, changed or removed.
DirWritable == privileged \/ ~dir.readOnly

StoreUnchanged == UNCHANGED <<file, rows, draft, risk, previous>>

-----------------------------------------------------------------------------
(* prepareRepositorySnapshot                                               *)

\* Broken variant: a directory left behind is cloned into.
CheckTrustsLeftovers(r) ==
  /\ at[r] = "check"
  /\ Goto(r, IF dir.marker THEN "use" ELSE "make")
  /\ UNCHANGED <<dir, overlapped, crashes>> /\ StoreUnchanged

Check(r) ==
  /\ at[r] = "check"
  /\ Goto(r, CASE dir.marker -> "use"
               [] ~dir.marker /\ dir.content # "absent" -> "remove"
               [] OTHER -> "make")
  /\ overlapped' = (overlapped \/ (~dir.marker /\ \E s \in Runs : at[s] \in Building))
  /\ UNCHANGED <<dir, crashes>> /\ StoreUnchanged

\* rm descends before it removes.  In a read-only directory it takes what it can
\* and throws; beside a git that goes on writing it may find the directory not
\* empty, and throw.
Remove(r) ==
  /\ at[r] = "remove"
  /\ \/ /\ DirWritable \/ dir.content \in {"absent", "empty"}
        /\ dir' = NoDir
        /\ Goto(r, "make")
     \/ /\ dir.content \notin {"absent", "empty"}
        /\ ~DirWritable \/ \E s \in Runs \ {r} : at[s] \in {"cloning", "checkout"}
        /\ \E left \in {dir.content, "damaged"} : dir' = [dir EXCEPT !.content = left]
        /\ Throw(r)
  /\ UNCHANGED <<overlapped, crashes>> /\ StoreUnchanged

MakeDir(r) ==
  /\ at[r] = "make"
  /\ dir' = IF dir.content = "absent" THEN [dir EXCEPT !.content = "empty"] ELSE dir
  /\ Goto(r, "clone")
  /\ UNCHANGED <<overlapped, crashes>> /\ StoreUnchanged

\* git clones into no directory or an empty one only.
CloneBegin(r) ==
  /\ at[r] = "clone"
  /\ IF dir.content \in {"absent", "empty"} /\ ~dir.marker /\ DirWritable
       THEN /\ dir' = [dir EXCEPT !.content = "partial", !.owner = r]
            /\ Goto(r, "cloning")
       ELSE Throw(r) /\ UNCHANGED dir
  /\ UNCHANGED <<overlapped, crashes>> /\ StoreUnchanged

OwnClone(r) == dir.owner = r /\ dir.content = "partial"

\* Broken variant: the marker is written before the checkout.
CloneEndMarks(r) ==
  /\ at[r] = "cloning"
  /\ OwnClone(r)
  /\ dir' = [dir EXCEPT !.content = "cloned", !.marker = TRUE]
  /\ Goto(r, "checkout")
  /\ UNCHANGED <<overlapped, crashes>> /\ StoreUnchanged

\* A clone may fail on its own, and then empties the directory.  One whose
\* directory was taken away fails, and its cleanup may reach what another run has
\* put there.
CloneEnd(r) ==
  /\ at[r] = "cloning"
  /\ \/ /\ OwnClone(r)
        /\ dir' = [dir EXCEPT !.content = "cloned"]
        /\ Goto(r, "checkout")
     \/ /\ OwnClone(r)
        /\ dir' = [dir EXCEPT !.content = "empty"]
        /\ Throw(r)
     \/ /\ ~OwnClone(r)
        /\ \/ UNCHANGED dir
           \/ /\ dir.content \notin {"absent", "empty"}
              /\ dir' = [dir EXCEPT !.content = "damaged"]
        /\ Throw(r)
  /\ UNCHANGED <<overlapped, crashes>> /\ StoreUnchanged

\* Both commits are resolved, with a fetch if need be, and the head is checked
\* out.  Either may fail.
Checkout(r) ==
  /\ at[r] = "checkout"
  /\ \/ /\ dir.content = "complete" \/ (dir.content = "cloned" /\ DirWritable)
        /\ dir' = [dir EXCEPT !.content = "complete"]
        /\ Goto(r, "mark")
     \/ Throw(r) /\ UNCHANGED dir
  /\ UNCHANGED <<overlapped, crashes>> /\ StoreUnchanged

\* The marker goes into whatever directory is at the path by now.
Mark(r) ==
  /\ at[r] = "mark"
  /\ IF dir.content # "absent" /\ DirWritable
       THEN dir' = [dir EXCEPT !.marker = TRUE] /\ Goto(r, "protect")
       ELSE Throw(r) /\ UNCHANGED dir
  /\ UNCHANGED <<overlapped, crashes>> /\ StoreUnchanged

Protect(r) ==
  /\ at[r] = "protect"
  /\ IF dir.content # "absent"
       THEN dir' = [dir EXCEPT !.readOnly = TRUE] /\ Goto(r, "use")
       ELSE Throw(r) /\ UNCHANGED dir
  /\ UNCHANGED <<overlapped, crashes>> /\ StoreUnchanged

\* The commands that ask git for changed files and submodules may succeed if its
\* own files are there, whatever became of the work tree; a submodule that cannot
\* be fetched is noted and nothing else.
GitMayAnswer == dir.content \in {"cloned", "complete", "partial", "damaged"}

\* Tree hash, changed files, submodules, languages.  The files of a submodule are
\* written after the modes were set, where those do not stop the worker, and have
\* modes of their own.
Describe(r) ==
  /\ at[r] = "use"
  /\ \/ /\ GitMayAnswer
        /\ Goto(r, "open")
        /\ dir' \in {dir, [dir EXCEPT !.readOnly = dir.readOnly /\ ~privileged]}
     \/ /\ dir.content \notin {"cloned", "complete"}
        /\ Throw(r)
        /\ UNCHANGED dir
  /\ UNCHANGED <<overlapped, crashes>> /\ StoreUnchanged

-----------------------------------------------------------------------------
(* The rest of the prepare_repository handler, and the engine.             *)

\* Broken variant: the row is written without the content.
OpenFileSkips(r) ==
  /\ at[r] = "open"
  /\ Goto(r, "record")
  /\ UNCHANGED <<dir, file, rows, overlapped, crashes, draft, risk, previous>>

\* ArtifactStore.store: the same snapshot has the same content and so the same
\* path; opening truncates what is there, if the mode of the file allows it.
OpenFile(r) ==
  /\ at[r] = "open"
  /\ IF privileged \/ ~file.readOnly
       THEN file' = [file EXCEPT !.text = "torn"] /\ Goto(r, "write")
       ELSE Throw(r) /\ UNCHANGED file
  /\ UNCHANGED <<dir, rows, overlapped, crashes, draft, risk, previous>>

WriteFile(r) ==
  /\ at[r] = "write"
  /\ file' = [text |-> "whole", readOnly |-> TRUE]
  /\ Goto(r, "record")
  /\ UNCHANGED <<dir, rows, overlapped, crashes, draft, risk, previous>>

\* artifact.create, and the run's next job: from here on jobs of the run read the
\* directory.  The verification of a fix is not classified.
Record(r) ==
  /\ at[r] = "record"
  /\ rows' = rows \cup {r}
  /\ \E next \in {"classify", "engine"} : Goto(r, next)
  /\ UNCHANGED <<dir, file, overlapped, crashes, draft, risk, previous>>

\* classify_change: the changed files come from the row, the categories from the
\* findings of the repository at this moment ...
ClassifyRead(r) ==
  /\ at[r] = "classify"
  /\ draft' = [draft EXCEPT ![r] = Risk(Changed, previous)]
  /\ Goto(r, "classified")
  /\ UNCHANGED <<dir, file, rows, overlapped, crashes, risk, previous>>

\* ... and the row is inserted later: another run may have read, recorded, or
\* reported findings in between.
ClassifyWrite(r) ==
  /\ at[r] = "classified"
  /\ risk' = [risk EXCEPT ![r] = draft[r]]
  /\ Goto(r, "engine")
  /\ UNCHANGED <<dir, file, rows, overlapped, crashes, draft, previous>>

\* The engine has read the directory and its findings are stored.  No operation
\* takes a finding away or dismisses it.
EngineEnds(r) ==
  /\ at[r] = "engine"
  /\ \E found \in SUBSET Reportable : previous' = previous \cup found
  /\ Goto(r, "done")
  /\ UNCHANGED <<dir, file, rows, overlapped, crashes, draft, risk>>

\* The worker dies.  A removal it was at is left half done.
Crash(r) ==
  /\ at[r] \in Places
  /\ crashes < MaxCrashes
  /\ crashes' = crashes + 1
  /\ \/ UNCHANGED dir
     \/ /\ at[r] = "remove"
        /\ dir.content \notin {"absent", "empty"}
        /\ dir' = [dir EXCEPT !.content = "damaged"]
  /\ Ended(r, "lost")
  /\ UNCHANGED overlapped /\ StoreUnchanged

PrepStep(r) ==
  \/ Check(r) \/ Remove(r) \/ MakeDir(r) \/ CloneBegin(r) \/ CloneEnd(r) \/ Checkout(r)
  \/ Mark(r) \/ Protect(r) \/ Describe(r) \/ OpenFile(r) \/ WriteFile(r) \/ Record(r)
  \/ ClassifyRead(r) \/ ClassifyWrite(r) \/ EngineEnds(r)

PrepNext ==
  /\ UNCHANGED privileged
  /\ \E r \in Runs : PrepStep(r) \/ Crash(r)

PrepSpec == PrepInit /\ [][PrepNext]_prepVars

=============================================================================
