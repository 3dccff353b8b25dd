SPECIFICATION Spec
CONSTANTS
  Units = {u1, u2, u3}
  u1 = u1
  u2 = u2
  u3 = u3
  Prefix <- MCPrefix
  ChildEnds <- MCChildEnds
INVARIANT ExitCodeTells
CHECK_DEADLOCK FALSE
