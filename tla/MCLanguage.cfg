SPECIFICATION Spec
CONSTANTS
  Languages <- MCLanguages
  NULL = NULL
  MaxCells = 8
INVARIANTS
  NoLeak
  ExpandedAsGenerated
  ActionsAsSkipped
  LoadsTheSupported
CHECK_DEADLOCK FALSE
