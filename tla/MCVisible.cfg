SPECIFICATION Spec
CONSTANTS
  FieldOnHidden = FALSE
  Token <- MCToken
  End = "end"
  ExtraToken = {"c"}
  Rule <- MCRule
  Viable <- MCViable
  RootSymbol = "src"
  Visible = {"a", "p", "c", "item", "blk", "src", "al"}
  Named = {"a", "c", "item", "blk", "src", "al"}
  Aliasable = {"_al"}
  Public <- MCPublic
  AliasRow <- MCAliasRow
  FieldRow <- MCFieldRow
  NamedModes = {TRUE, FALSE}
  OnHidden = TRUE
  Silent = {"a"}
  MaxTokens = 11
  MaxExtras = 2
  InitCapacity = 2
  MemoryMayFail = TRUE
INVARIANTS
  ArenaIsPartition
  HandedOnceInMemory
  ValuesSettled
  ReportsMatchTree
CHECK_DEADLOCK FALSE
