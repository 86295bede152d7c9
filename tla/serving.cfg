SPECIFICATION FairSpec
CONSTANTS
  Proxies = {p1, p2}
  Limit = 1
  MinInterval = 1
  TopN = 2
  Cooldown = 1
INVARIANTS ServingTypeOK CleanIsVerdict
PROPERTIES SpacedGoogle NoEarlyRepeat FirstVerdict
