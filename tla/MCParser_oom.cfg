SPECIFICATION Spec
CONSTANTS
  NullReturns = {}
  State <- MCState
  Terminal <- MCTerminal
  Nonterminal <- MCNonterminal
  End <- MCEnd
  Entries <- MCEntries
  ActionCounts <- MCActionCounts
  Goto <- MCGoto
  Word <- MCWord
  Keyword <- MCKeyword
  Reserved <- MCReserved
  Height <- MCHeight
  Returns <- MCReturns
  MaxSize = 3
  SizeLimit = 3
  Pads = {0}
  Widths = {1}
  InitCapacity = 2
  MemoryMayFail = TRUE
INVARIANTS
  EveryValueSettled
CHECK_DEADLOCK FALSE
