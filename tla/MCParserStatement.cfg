SPECIFICATION Spec
CONSTANTS
  MaxOperands <- MCMaxOperands
  Units <- MCUnits
  Expressions <- MCExpressions
INVARIANT StatementsParse
