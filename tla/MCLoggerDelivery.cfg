SPECIFICATION Spec
CONSTANTS
  t1 = t1
  t2 = t2
  h1 = h1
  h2 = h2
  plain = plain
  calling = calling
  Threads = {t1, t2}
  Handles = {h1, h2}
  Callbacks = {plain, calling}
  Reentrant = {calling}
  Requests <- DeliveryRequests
  Stdout = Stdout
  NULL = NULL
  NoThread = NoThread
INVARIANTS TypeOK StreamAlive NoStreamLeak QuietWhenDisabled MutexComesBack
PROPERTY ImplementsAtomicLog
SYMMETRY Symmetry
CHECK_DEADLOCK FALSE
