SPECIFICATION Spec
CONSTANTS
  t1 = t1
  t2 = t2
  small = small
  large = large
  aligned = aligned
  odd = odd
  other = other
  Threads = {t1, t2}
  Kernels = {small, large}
  Problems = {aligned, odd, other}
  Devices = {0, 1}
  Handles = {0, 1}
  Matches <- MCMatches
  Supports <- MCSupports
  Need <- MCNeed
  Preferred <- MCPreferred
  None = None
  WorkspaceSizes = {0, 1}
  MaxScore = 1
  FailingAllocs = TRUE
  Serialised = TRUE
SYMMETRY Symmetry
INVARIANTS TypeOK OwnArguments OwnMetrics PlanRuns MaxCoversAll BuffersFreed ArgumentsReleased
