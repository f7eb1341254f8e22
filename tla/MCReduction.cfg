SPECIFICATION Spec
CONSTANTS
  None = None
  IndexLimit = 8
  Buffers <- AllBuffers
  Calls <- AllCalls
  Programs <- SomePrograms
  Contents <- SomeContents
INVARIANTS TypeOK EveryReductionServed ReferenceCovers
PROPERTIES ReducesInOrder FailureWritesOnlyC
