SPECIFICATION Spec
CONSTANTS
  a = a
  b = b
  org = org
  w1 = w1
  w2 = w2
  Jobs = {a, b}
  Tenants = {org}
  TenantOf <- OneTenant
  Workers = {w1, w2}
  NoJob = NoJob
  Limit = 1
  MaxAttempts = 2
  Cancellable = {"waiting", "active"}
  CancellableCopies = {}
  MaxFlags = 1
  MaxCopies = 2
  MaxReplays = 1
  MaxLosses = 1
CONSTRAINT OneDisturbance
SYMMETRY SymQueue
INVARIANTS
  SlotsBounded
  RefusedIsNotForgotten
  QueueTypeOK
  SlotsLeakOnlyByLoss
PROPERTIES
  DepartsOnlyAsKnown
CHECK_DEADLOCK FALSE
