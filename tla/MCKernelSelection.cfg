SPECIFICATION Spec
CONSTANTS
  None = None
  IndexLimit = 4096
  Requests <- Programs
INVARIANTS TypeOK QueryExact DispatchMeetsRegistry EveryLayoutServed PrecisionKept OneReference RankEntryChosen
