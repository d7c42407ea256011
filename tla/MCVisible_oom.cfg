SPECIFICATION Spec
CONSTANTS
  FieldOnHidden = FALSE
  Token <- MCToken
  End = "end"
  ExtraToken = {"c"}
  Rule <- MCRule
  Viable <- MCViable
  RootSymbol = "src"
  Visible = {"a", "p", "c", "item", "blk", "src", "al"}
  Named = {"a", "c", "item", "blk", "src", "al"}
  Aliasable = {"_al"}
  Public <- MCPublic
  AliasRow <- MCAliasRow
  FieldRow <- MCFieldRow
  NamedModes = {FALSE}
  OnHidden = FALSE
  Silent = {}
  MaxTokens = 6
  MaxExtras = 0
  InitCapacity = 2
  MemoryMayFail = TRUE
INVARIANTS
  HandedOnce
CHECK_DEADLOCK FALSE
