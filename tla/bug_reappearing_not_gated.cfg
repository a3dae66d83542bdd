SPECIFICATION Spec
CONSTANTS
  r1 = r1
  r2 = r2
  f1 = f1
  f2 = f2
  Runs = {r1, r2}
  Findings = {f1}
  NoFinding = NoFinding
  Targets = {r1, r2}
  FixRuns = {}
  ValidationRuns = {}
  Head <- OwnHead
  Workers = 1
  MaxAttempts = 2
  MaxInterrupts = 0
  FindingData <- AllCritical
  Cancellable = {}
  Queried = {}
PROPERTIES
  ReappearingIsGated
CONSTRAINT OneAfterTheOther
CHECK_DEADLOCK FALSE
