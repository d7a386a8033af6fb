SPECIFICATION Spec
CONSTANTS
  NoName = NoName
  Idents <- MethodNames
  Names <- MethodAll
  Abis <- ExternStrings
  Mangled <- MangledNames
  StmtKinds = {"Class", "Function", "If", "Elif", "Else", "While", "Match", "Module", "Extern", "Trait", "Struct", "Return", "Atomic"}
  Exprs <- NoExprs
  MaxId = 3
  MaxScopes = 3
  MaxDepth = 4
  MaxParams = 1
INVARIANTS
  FirstDeclarationBinds
  MethodNameFree
PROPERTIES
  BindingsStable
