SPECIFICATION Spec
CONSTANTS
  Proxies = {p1, p2}
  Grace = 2
  Batch = 1
  MinInterval = 1
  MaxTargetAge = 2
  MaxNow = 5
SYMMETRY AnyOrder
INVARIANTS TypeOK FlagsAreLastVerdict DualIsBoth PoolHasFlags
PROPERTY SpacedProbes
