SPECIFICATION FileSpec
CONSTANTS
  MaxValues = 4
  VisitorMayPanic = TRUE
  VisitorMayDrain = FALSE
  NoData = NoData
  MaxSize = 1
  MaxDisk = 2
  MaxCalls = 2
INVARIANTS
  HandlesResolve
  FreeListExact
  ChildrenHaveValues
  MappedForTheParse
