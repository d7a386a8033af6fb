SPECIFICATION Spec
CONSTANTS
  NoName = NoName
  Idents <- OneName
  Names <- OneNameAll
  Abis <- ExternStrings
  Mangled <- MangledNames
  StmtKinds = {"Var", "Let", "Assign", "ExprStmt", "Enum", "Local", "For", "Class"}
  Exprs <- AllExprs
  MaxId = 2
  MaxScopes = 4
  MaxDepth = 4
  MaxParams = 0
INVARIANTS
  TypeOK
  UniqueIds
  
  
