SPECIFICATION Spec
CONSTANTS
  Proxies = {p1}
  Grace = 2
  Batch = 1
  MinInterval = 1
  MaxTargetAge = 3
  MaxNow = 7
INVARIANT TargetVerdictFresh
