SPECIFICATION Spec
CONSTANTS
  Endpoints = {e1}
  Protocols = {s5, h}
  Unknown = unknown
  HistoryWindow = 1
  FailStreakQuarantine = 2
  QuarantineInterval = 0
  ProvenStale = 9
  StaleUnseen = 9
  Running = {"cold", "hot"}
  Listed <- LabelledAndBulk
  ColdBatch = 2
  ColdWindow = 3
  HotBatch = 2
  WarmBatch = 2
  QuarantineBatch = 2
  ReportCap = 1
  MaxNow = 1
  MaxChecks = 2
INVARIANTS TypeOK UniqueTriple SuccessLands AliveAnswered
PROPERTY OnlyPruneForgets
