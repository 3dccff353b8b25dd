SPECIFICATION Spec
CONSTANTS
  MaxOperands <- MCMaxOperands
  Units <- MCUnits
  Expressions <- MCExpressions
INVARIANTS
  TypeOK
  ParsesAsGrammar
  RefusesOnlyErrors
