SPECIFICATION Spec
CONSTANTS
  MaxValues = 4
  VisitorMayPanic = TRUE
  VisitorMayDrain = TRUE
INVARIANTS
  ChildrenHaveValues
CHECK_DEADLOCK FALSE
