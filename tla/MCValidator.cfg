SPECIFICATION Spec
CONSTANTS
  None = None
  Unset = Unset
  Null = Null
  Programs <- MCPrograms
  Exprs <- MCExprs
  Stmts <- MCStmts
  Depth <- MCDepth
INVARIANTS
  TypeOK
  BindsInnermost
  ReturnsSound
  ErrorsRefuse
  AcceptsTheCorrect
  DefinedInOrder
  BindsAlikeInC
