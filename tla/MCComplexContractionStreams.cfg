SPECIFICATION Spec
CONSTANTS
  null = null
  blocking = blocking
  nonblocking = nonblocking
  None = None
  Host = Host
  NullStream = null
  NonBlocking = {nonblocking}
  Garbage <- NoValue
  Calls <- NonBlockingCalls
  Programs <- NonBlockingPrograms
INVARIANT ResultOnReturn
