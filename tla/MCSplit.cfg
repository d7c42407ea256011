SPECIFICATION SplitSpec
CONSTANTS
  Alphabet = {"n", "o", "k", "c"}
  MaxLength = 5
  More <- OtherSources
  Sources <- MCSources
  Scan <- MCScan
  LexMode <- MCLexMode
  Reusable <- MCReusable
  SymbolId <- MCSymbolId
  Links = 8
  Iterators = 64
  Versions = 3
  State <- MCState
  Terminal <- MCTerminal
  Nonterminal <- MCNonterminal
  End = "end"
  Entries <- MCEntries
  ActionCounts <- MCActionCounts
  Goto <- MCGoto
  Word = "n"
  Keyword = {"k"}
  Reserved <- MCReserved
  Height <- MCHeight
  Returns <- MCReturns
  MaxSize = 8
  SizeLimit = 7
  Pads = {0, 1}
  Widths = {1, 2}
  InitCapacity = 2
  MemoryMayFail = TRUE
INVARIANTS
  GraphIsPaths
  ReplayFollowsPath
  AcceptsTheLanguage
  KeepsTheBest
PROPERTIES
  HandsBackLookahead
  KeepsContract
  Terminates
