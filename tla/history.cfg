SPECIFICATION Spec
CONSTANTS
  Endpoints = {e1}
  Protocols = {s5}
  Unknown = unknown
  HistoryWindow = 9
  FailStreakQuarantine = 1
  QuarantineInterval = 0
  ProvenStale = 9
  StaleUnseen = 9
  Running = {"cold", "hot","warm","quarantine"}
  Listed <- LabelledOnly
  ColdBatch = 1
  ColdWindow = 1
  HotBatch = 1
  WarmBatch = 1
  QuarantineBatch = 1
  ReportCap = 0
  MaxNow = 3
  MaxChecks = 6
INVARIANT HistoryIsWindow
