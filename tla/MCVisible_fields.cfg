SPECIFICATION Spec
CONSTANTS
  FieldOnHidden = TRUE
  Token <- MCToken
  End = "end"
  ExtraToken = {"c"}
  Rule <- MCRule
  Viable <- MCViable
  RootSymbol = "src"
  Visible = {"a", "p", "c", "item", "blk", "src", "al"}
  Named = {"a", "c", "item", "blk", "src", "al"}
  Aliasable = {"_al"}
  Public <- MCPublic
  AliasRow <- MCAliasRow
  FieldRow <- MCFieldRow
  NamedModes = {TRUE}
  OnHidden = FALSE
  Silent = {}
  MaxTokens = 6
  MaxExtras = 0
  InitCapacity = 2
  MemoryMayFail = FALSE
INVARIANTS
  ReportsMatchTree
CHECK_DEADLOCK FALSE
