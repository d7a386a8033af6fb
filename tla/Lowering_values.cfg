SPECIFICATION LowerSpec
CONSTANTS
  NoName = NoName
  Idents <- OneName
  Names <- OneNameAll
  Abis <- ExternStrings
  Mangled <- MangledNames
  StmtKinds = {"Function", "Var", "Let", "ExprStmt", "Assign"}
  Exprs <- AndMakes
  MaxId = 5
  MaxScopes = 4
  MaxDepth = 2
  MaxParams = 1

  
PROPERTIES
  ProgramKept
  LoweringEnds
