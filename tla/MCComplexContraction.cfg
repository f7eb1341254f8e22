SPECIFICATION Spec
CONSTANTS
  null = null
  blocking = blocking
  nonblocking = nonblocking
  None = None
  Host = Host
  NullStream = null
  NonBlocking = {nonblocking}
  Garbage <- NoValue
  Calls <- BlockingCalls
  Programs <- BlockingPrograms
INVARIANTS NoUseAfterFree NothingHeld ResultOnReturn
PROPERTY ImplementsOperation
