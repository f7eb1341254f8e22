SPECIFICATION Spec
CONSTANTS
  t1 = t1
  t2 = t2
  small = small
  large = large
  aligned = aligned
  odd = odd
  other = other
  Threads = {t1, t2}
  Kernels = {small, large}
  Problems = {aligned, odd}
  Devices = {0}
  Handles = {0}
  Matches <- OneMatches
  Supports <- MCSupports
  Need <- MCNeed
  Preferred <- MCPreferred
  None = None
  WorkspaceSizes = {1}
  MaxScore = 1
  FailingAllocs = FALSE
  Serialised = FALSE
INVARIANT OwnArguments
