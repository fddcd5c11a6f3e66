SPECIFICATION BackgroundSpec
CONSTANTS
  None = None
  Jobs <- MCTwoJobs
  Workers = {w1, w2}
  Targets <- MCTwoJobs
  TargetOf <- MCOwnFile
  WritesEmpty = TRUE
  SlowRuns = TRUE
  MaxRecords = 1
  MaxCrashes = 1
  Call <- MCCalls
  Downloader = {d1, d2}
  BatchSize = 2
  MaxAttempts = 2
  MaxTold = 2
  MaxAbandoned = 1
  NoCall = NoCall
  Message = {m1}
  Process = {p1, p2, p3}
  MaxRetries = 3
  MaxQueued = 2
  MaxDied = 1
  NoMessage = NoMessage
  Puller = {q1, q2}
  Price <- MCPrices
  MaxTurns = 3
INVARIANTS
  QueueInv
  DoneCoversRequest
  RecordingsInv
  OutboxInv
  LeadInv
PROPERTIES
  ImplementsBoard
  QueuesSettle
  PullsLeaveClosedSales
CHECK_DEADLOCK FALSE
