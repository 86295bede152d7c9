SPECIFICATION FairSpec
CONSTANTS
  Proxies = {p1, p2}
  FailsCounted = 2
  RecheckCap = 1
  MaxNow = 2
INVARIANTS TypeOK PenaltySettles
PROPERTY Deferred
