SPECIFICATION Spec
CONSTANTS
  t1 = t1
  t2 = t2
  None = None
  IndexLimit = 4096
  Threads = {t1, t2}
  Calls <- SmallCalls
  Programs <- SmallPrograms
  Serialised = TRUE
  ColMajor = TRUE
PROPERTY DescriptorStrides
