SPECIFICATION FairSpec
CONSTANTS
  NullReturns = {"b", "m"}
  State <- MCState
  Terminal <- MCTerminal
  Nonterminal <- MCNonterminal
  End <- MCEnd
  Entries <- MCEntries
  ActionCounts <- MCActionCounts
  Goto <- MCGoto
  Word <- MCWord
  Keyword <- MCKeyword
  Reserved <- MCReserved
  Height <- MCHeight
  Returns <- MCReturns
  MaxSize = 6
  SizeLimit = 5
  Pads = {0, 1}
  Widths = {1}
  InitCapacity = 2
  MemoryMayFail = TRUE
INVARIANTS
  StackIsPath
  PopsStayOnStack
  LeadingIsExact
  StackInSourceOrder
  ErrorIsAhead
  AcceptFollowsRoot
  HandedOnce
  ValuesSettled
PROPERTIES
  WritesWithinCapacity
  Terminates
  ImplementsLR
CHECK_DEADLOCK FALSE
