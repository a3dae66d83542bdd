---------------------------- MODULE ValidateFinding ----------------------------
(***************************************************************************)
(* validateFinding: a client asks for a runtime validation of one finding. *)
(* The call moves a source-confirmed finding to validation_queued, makes a *)
(* finding_validation run for the commit the finding was last seen at, and *)
(* queues the mission for that run.  The three are separate transactions,  *)
(* and no pipeline stands behind the run: its mission is its only job, and *)
(* the handler of that job is the one every review uses.                   *)
(*                                                                         *)
(* The calls run beside the reviews of ReviewPipeline, over the same       *)
(* findings and the same queue.  One call per finding is open at a time.   *)
(***************************************************************************)
EXTENDS ReviewPipeline

VARIABLES
  validating,     \* where the open call about each finding stands, and the commit it read
  requested       \* findings an audit event outside any run moved to validation_queued

validateVars == <<validating, requested>>
lifeVars == <<vars, validateVars>>

Commits == {Head[r] : r \in Runs}
Calls == [at : {"none", "assert", "write", "create", "enqueue"}, commit : Commits \cup {"none"}]
NoCall == [at |-> "none", commit |-> "none"]

ValidateInit ==
  /\ Init
  /\ validating = [f \in Findings |-> NoCall]
  /\ requested = {}

ValidateTypeOK ==
  /\ PipelineTypeOK
  /\ validating \in [Findings -> Calls]
  /\ requested \in SUBSET Findings

CallAt(f, place) == validating[f].at = place
CallGoto(f, place) == validating' = [validating EXCEPT ![f].at = place]
CallEnds(f) == validating' = [validating EXCEPT ![f] = NoCall]

\* The run that the key of a validation at this commit stands for.  The key has
\* the commit, twice, and no finding.
RunsOfKey(commit) == {r \in ValidationRuns : Head[r] = commit}

-----------------------------------------------------------------------------

\* The finding is read; its target, and so the call, is authorized.
ValidateRead(f) ==
  /\ CallAt(f, "none")
  /\ Exists(f)
  /\ RunsOfKey(lastSeen[f]) # {}          \* bound: the commits there is a run for
  /\ validating' = [validating EXCEPT ![f] =
       [ at |-> IF findingStatus[f] = "source_confirmed" THEN "assert" ELSE "create",
         commit |-> lastSeen[f] ]]
  /\ UNCHANGED <<vars, requested>>

\* transitionFindingStatus reads the status again and asserts the edge.
ValidateAssert(f) ==
  /\ CallAt(f, "assert")
  /\ IF CanTransitionFinding(findingStatus[f], "validation_queued")
       THEN CallGoto(f, "write")
       ELSE CallEnds(f)
  /\ UNCHANGED <<vars, requested>>

\* Its audit event names no run: no run becomes accountable for the finding.
ValidateWrite(f) ==
  /\ CallAt(f, "write")
  /\ findingStatus' = [findingStatus EXCEPT ![f] = "validation_queued"]
  /\ requested' = requested \cup {f}
  /\ CallGoto(f, "create")
  /\ UNCHANGED << runStatus, lastSeen, linked, recorded, reported, snapshots, classified,
                  validations, receipt, announced, queueVars, apiVars >>

\* The key is unique: the second validation at a commit, of this finding or of
\* another, fails here with its transition already committed.
ValidateCreate(f) ==
  /\ CallAt(f, "create")
  /\ \E r \in RunsOfKey(validating[f].commit) :
       IF runStatus[r] = "absent"
         THEN /\ runStatus' = [runStatus EXCEPT ![r] = "queued"]
              /\ CallGoto(f, "enqueue")
         ELSE CallEnds(f) /\ UNCHANGED runStatus
  /\ UNCHANGED << findingStatus, lastSeen, linked, recorded, reported, snapshots, classified,
                  validations, receipt, announced, queueVars, apiVars, requested >>

ValidateEnqueue(f) ==
  /\ CallAt(f, "enqueue")
  /\ \E r \in RunsOfKey(validating[f].commit) : Enqueue(StrixJob(r, f))
  /\ CallEnds(f)
  /\ UNCHANGED <<storeVars, attempts, frame, interrupts, apiVars, requested>>

\* The API process dies between two of them.
ValidateInterrupted(f) ==
  /\ ~CallAt(f, "none")
  /\ CallEnds(f)
  /\ UNCHANGED <<vars, requested>>

Validate(f) ==
  \/ ValidateRead(f) \/ ValidateAssert(f) \/ ValidateWrite(f)
  \/ ValidateCreate(f) \/ ValidateEnqueue(f) \/ ValidateInterrupted(f)

ReviewStep == Next /\ UNCHANGED validateVars

ValidateNext == ReviewStep \/ \E f \in Findings : Validate(f)

ValidateSpec == ValidateInit /\ [][ValidateNext]_lifeVars

=============================================================================
