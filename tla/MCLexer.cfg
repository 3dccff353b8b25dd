SPECIFICATION Spec
CONSTANTS
  Sources <- MCSources
  MaxToken = 4
  UnlexCap = 2
  Keywords <- MCKeywords
INVARIANTS
  TypeOK
  LocRight
  StreamIntact
  TokensRight
PROPERTIES
  CallsReturnUnlessTrapped
CHECK_DEADLOCK FALSE
