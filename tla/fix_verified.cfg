SPECIFICATION FixSpec
CONSTANTS
  review = review
  fix1 = fix1
  fix2 = fix2
  f1 = f1
  f2 = f2
  Runs = {review, fix1, fix2}
  Findings = {f1}
  NoFinding = NoFinding
  Targets = {review, fix1, fix2}
  FixRuns = {fix1, fix2}
  ValidationRuns = {}
  Head <- HeadOf
  Base <- BaseOf
  Fixes = {"c1", "c2"}
  Awaited = {review, fix1, fix2}
  Workers = 1
  MaxAttempts = 2
  MaxInterrupts = 1
  FindingData <- AllCritical
  Cancellable = {}
  Queried = {}
INVARIANTS
  FixTypeOK
  FixedIsVouchedFor
  RetestingHasACause
  ReplayedIffConfirmed
PROPERTIES
  FindingStepsLegal
CHECK_DEADLOCK FALSE
