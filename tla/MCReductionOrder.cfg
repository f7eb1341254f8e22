SPECIFICATION Spec
CONSTANTS
  None = None
  IndexLimit = 8
  Buffers <- AllBuffers
  Calls <- NamedCalls
  Programs <- NamedPrograms
  Contents <- SomeContents
PROPERTIES ReducesByName
