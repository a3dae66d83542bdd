SPECIFICATION DeliverySpec
CONSTANTS
  deliver = deliver
  replay = replay
  delivery = delivery
  org = org
  w1 = w1
  w2 = w2
  Jobs = {deliver, replay}
  Deliveries = {deliver, replay}
  DeliveryOf <- NamedByJob
  First <- NamedByJob
  Tenants = {org}
  TenantOf <- OneTenant
  Workers = {w1, w2}
  NoJob = NoJob
  Limit = 1
  MaxAttempts = 3
  Cancellable = {}
  CancellableCopies = {}
  MaxFlags = 1
  MaxCopies = 1
  MaxReplays = 0
  MaxLosses = 0
INVARIANTS
  PendingIsAlive
CHECK_DEADLOCK FALSE
