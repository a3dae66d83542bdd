SPECIFICATION FairSpec
CONSTANTS
  r1 = r1
  r2 = r2
  f1 = f1
  f2 = f2
  Runs = {r1}
  Findings = {f1, f2}
  NoFinding = NoFinding
  Targets = {r1}
  FixRuns = {}
  ValidationRuns = {}
  Head <- SameHead
  Workers = 1
  MaxAttempts = 2
  MaxInterrupts = 1
  FindingData <- AllCritical
  Cancellable = {}
  Queried = {}
PROPERTIES
  ImplementsLifecycle
  EventuallyDisposed
  QueuedIsJudged
CHECK_DEADLOCK FALSE
