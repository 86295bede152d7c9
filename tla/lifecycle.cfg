SPECIFICATION Spec
CONSTANTS
  Endpoints = {e1}
  Protocols = {s5}
  Unknown = unknown
  HistoryWindow = 1
  FailStreakQuarantine = 1
  QuarantineInterval = 0
  ProvenStale = 1
  StaleUnseen = 1
  Running = {"cold", "hot", "warm", "quarantine", "report"}
  Listed <- LabelledOnly
  ColdBatch = 1
  ColdWindow = 1
  HotBatch = 1
  WarmBatch = 1
  QuarantineBatch = 1
  ReportCap = 1
  MaxNow = 3
  MaxChecks = 3
PROPERTIES FollowsLifecycle ProvenRetained
INVARIANTS NoOrphan PoolSettled
