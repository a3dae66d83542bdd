SPECIFICATION Spec
CONSTANTS
  r1 = r1
  r2 = r2
  f1 = f1
  f2 = f2
  Runs = {r1}
  Findings = {f1}
  NoFinding = NoFinding
  Targets = {r1}
  FixRuns = {}
  ValidationRuns = {}
  Head <- SameHead
  Workers = 2
  MaxAttempts = 2
  MaxInterrupts = 0
  FindingData <- AllCritical
  Cancellable = {}
  Queried = {}
PROPERTIES
  TerminalIsFinal
CHECK_DEADLOCK FALSE
