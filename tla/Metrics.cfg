SPECIFICATION MetricsSpec
CONSTANTS
  r1 = r1
  r2 = r2
  u1 = u1
  u2 = u2
  None = None
  Runs <- MCRuns
  Who <- MCWho
  LastDay = 4
  MaxRows = 2
  MaxFailures = 1
  Lookback = 2
  Retention = 2
  Week = 2
INVARIANTS
  ClosedDaysAreExact
SYMMETRY Symmetry
CHECK_DEADLOCK FALSE
