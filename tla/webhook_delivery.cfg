SPECIFICATION DeliverySpec
CONSTANTS
  deliver = deliver
  replay = replay
  delivery = delivery
  org = org
  w1 = w1
  w2 = w2
  Jobs = {deliver, replay}
  Deliveries = {delivery}
  DeliveryOf <- OneDelivery
  First <- FirstJob
  Tenants = {org}
  TenantOf <- OneTenant
  Workers = {w1, w2}
  NoJob = NoJob
  Limit = 3
  MaxAttempts = 3
  Cancellable = {"failed"}
  CancellableCopies = {}
  MaxFlags = 1
  MaxCopies = 0
  MaxReplays = 1
  MaxLosses = 1
INVARIANTS
  DeliveryTypeOK
  PendingIsAlive
  ExhaustedWasTried
  DeliveredIsNotResent
PROPERTIES
  DeliverySettles
CHECK_DEADLOCK FALSE
