SPECIFICATION CodegenSpec
CONSTANTS
  NoName = NoName
  Idents <- OneName
  Names <- OneNameAll
  Abis <- ExternStrings
  Mangled <- MangledNames
  StmtKinds = {"Function", "If", "For", "Var", "Return", "Elif"}
  Exprs <- LiteralsAndIndices
  MaxId = 5
  MaxScopes = 7
  MaxDepth = 4
  MaxParams = 0
INVARIANTS
  PathsAgree
  FlatNamesResolve
