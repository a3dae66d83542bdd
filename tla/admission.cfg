SPECIFICATION Spec
CONSTANTS
  a1 = a1
  a2 = a2
  g1 = g1
  g2 = g2
  agent = agent
  opened = opened
  labeled = labeled
  x1 = x1
  x2 = x2
  here = here
  there = there
  other = other
  p1 = p1
  p2 = p2
  ApiClients = {a1, a2}
  GithubClients = {g1, g2}
  AgentOf <- OneAgent
  Keys = {"k"}
  NoKey = "no key"
  Deliveries = {opened, labeled}
  Bodies = {here, there, other}
  NoBody = NoBody
  ChangeIn <- ChangeInBody
  Changes = {x1, x2}
  NoChange = NoChange
  ChangeOf <- ChangeOfDelivery
  Policies = {p1, p2}
  NoRun = NoRun
  MaxRuns = 1
  MaxRequests = 3
SYMMETRY SymAdmission
INVARIANTS
  AdmissionTypeOK
  SameAnswer
  OneBodyPerKey
  BudgetBounded
  RecordedDeliveryIsServed
CHECK_DEADLOCK FALSE
