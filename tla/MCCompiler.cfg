SPECIFICATION Spec
CONSTANTS
  Units = {u1, u2, u3}
  u1 = u1
  u2 = u2
  u3 = u3
  Prefix <- MCPrefix
  ChildEnds <- MCChildEnds
INVARIANTS
  TypeOK
  ValidatedAgainstWholeProgram
  OneEntryPoint
  LinksThisBuild
  HonestExit
  DryRun
PROPERTIES
  Terminates
  ImplementsBuild
CHECK_DEADLOCK FALSE
