SPECIFICATION LowerSpec
CONSTANTS
  NoName = NoName
  Idents <- OneName
  Names <- OneNameAll
  Abis <- ExternStrings
  Mangled <- MangledNames
  StmtKinds = {"Function", "Var", "If", "Elif", "Else", "While", "Match"}
  Exprs <- Calls
  MaxId = 5
  MaxScopes = 7
  MaxDepth = 4
  MaxParams = 0
INVARIANTS
  BodyBeforeOwner
  OneOwner
  OperandsLocal
  OnlyElseLost
  SourceOrder
PROPERTIES
  OtherScopesFrozen
