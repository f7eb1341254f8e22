SPECIFICATION Spec
CONSTANTS
  t1 = t1
  t2 = t2
  h1 = h1
  h2 = h2
  plain = plain
  calling = calling
  Threads = {t1, t2}
  Handles = {h1}
  Callbacks = {plain, calling}
  Reentrant = {calling}
  Requests <- FileRequests
  Stdout = Stdout
  NULL = NULL
  NoThread = NoThread
INVARIANT StreamOpen
