SPECIFICATION Spec
CONSTANTS
  NULL = NULL
  MaxSize = 3
  MaxDisk = 5
INVARIANTS
  NothingLeaks
  OpenedIsAsReported
  ClosesOnlyViews
