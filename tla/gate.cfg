SPECIFICATION FairSpec
CONSTANTS
  a1 = a1
  a2 = a2
  w1 = w1
  w2 = w2
  y1 = y1
  y2 = y2
  g1 = g1
  Loops = {"hot", "warm", "youtube", "l2"}
  BatchOf <- MCBatchOf
  Loads <- MCLoads
  Concurrency <- MCConcurrency
  MaxInflight = 2
  MaxHeavy = 1
INVARIANTS TypeOK BudgetKept HeavyShare LivenessHasRest
PROPERTY SweepsEnd
