SPECIFICATION Spec
CONSTANTS
  r1 = r1
  r2 = r2
  f1 = f1
  f2 = f2
  Runs = {r1}
  Findings = {f1, f2}
  NoFinding = NoFinding
  Targets = {r1}
  FixRuns = {}
  ValidationRuns = {}
  Head <- SameHead
  Workers = 2
  MaxAttempts = 2
  MaxInterrupts = 1
  FindingData <- AllCritical
  Cancellable = {r1}
  Queried = {r1}
SYMMETRY SymFindings
INVARIANTS
  PipelineTypeOK
  OneConclusiveVerdict
  StageInputsExist
  CandidatesUntested
  StallHasACause
  BlockedHasRuntimeEvidence
  GateReceiptsRecorded
CONSTRAINT CallsWithoutFaults
CHECK_DEADLOCK FALSE
