SPECIFICATION ValidateSpec
CONSTANTS
  r1 = r1
  r2 = r2
  v1 = v1
  f1 = f1
  f2 = f2
  Runs = {r1, v1}
  Findings = {f1, f2}
  NoFinding = NoFinding
  Targets = {r1, v1}
  FixRuns = {}
  ValidationRuns = {v1}
  Head <- SameHead
  Workers = 1
  MaxAttempts = 2
  MaxInterrupts = 0
  FindingData <- AllCritical
  Cancellable = {}
  Queried = {}
SYMMETRY SymFindings
INVARIANTS
  QueuedHasACause
  HeldUpHasACause
CHECK_DEADLOCK FALSE
