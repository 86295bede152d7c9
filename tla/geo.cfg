SPECIFICATION LifespanFairSpec
CONSTANTS
  Databases = {country}
  Proxies = {p1, p2}
  GeoBatch = 1
  AnonBatch = 1
  MaxRestarts = 2
  Added <- MCAdded
  Indexes <- MCIndexes
  Base = "last_check_at"
  OldIndex = "cold"
INVARIANTS LifespanTypeOK UpMeansReady
PROPERTIES GeoSettles AnonymitySettles EventuallyUp

\* A start that raises leaves the process hung, and nobody has to kill it.
CHECK_DEADLOCK FALSE
