SPECIFICATION Spec
CONSTANTS
  Inputs <- AllOrders
  MaxM = 2
  MaxN = 2
  MaxK = 2
  None = None
  IndexLimit = 128
INVARIANTS TypeOK SameContraction DimsCountWork
CHECK_DEADLOCK FALSE
