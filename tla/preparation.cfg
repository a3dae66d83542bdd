SPECIFICATION PrepSpec
CONSTANTS
  r1 = r1
  r2 = r2
  r3 = r3
  Runs = {r1, r2, r3}
  Nobody = Nobody
  Changed <- SomeChange
  Reportable <- SomeCategories
  MaxCrashes = 2
SYMMETRY SymRuns
INVARIANTS
  SnapshotIsSource
  RowsHaveContent
  LeftoversNeverFail
  RiskOnlyRises
CHECK_DEADLOCK FALSE
