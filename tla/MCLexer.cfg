SPECIFICATION Spec
CONSTANTS
  Alphabet = {10, 97, 187, 191, 239}
  Sources <- MCSources
  TF_NO_END = 4
  ParseState = {0, 1, 2}
  Symbol = {"end", "word", "if"}
  End = "end"
  Word = "word"
  Keywords = {"if"}
  Usable <- MCUsable
INVARIANTS LookaheadFresh PositionsTrue TokensAhead KeywordsJudged ColumnCountsCharacters
PROPERTY EndsAtAccept
