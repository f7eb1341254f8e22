SPECIFICATION Spec
CONSTANTS
  t1 = t1
  t2 = t2
  None = None
  IndexLimit = 4096
  Threads = {t1, t2}
  Calls <- AllCalls
  Programs <- SomePrograms
  Serialised = TRUE
  ColMajor = TRUE
INVARIANTS TypeOK OwnArguments EveryProblemServed ReferenceAgrees
PROPERTIES ImplementsOperation CallsReturn
