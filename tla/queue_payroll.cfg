SPECIFICATION Spec
CONSTANTS
  None = None
  Jobs <- MCTwoJobs
  Workers = {w1, w2}
  Targets <- MCPeriod
  TargetOf <- MCOnePeriod
  WritesEmpty = FALSE
  SlowRuns = FALSE
  MaxRecords = 2
  MaxCrashes = 1
INVARIANTS
  DoneCoversRequest
