SPECIFICATION CodegenSpec
CONSTANTS
  NoName = NoName
  Idents <- TwoNames
  Names <- TwoNamesAll
  Abis <- ExternStrings
  Mangled <- MangledNames
  StmtKinds = {"Function", "Class", "Trait", "Extern", "Struct", "Var", "Assign", "Atomic"}
  Exprs <- LoadsAndAddresses
  MaxId = 2
  MaxScopes = 4
  MaxDepth = 3
  MaxParams = 2
INVARIANTS
  ParamsResolve
  SlotsLocal
