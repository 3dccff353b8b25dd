SPECIFICATION Spec
CONSTANTS
  Sources <- MCSources
  MaxToken = 4
  UnlexCap = 2
  Keywords <- MCKeywords
PROPERTIES
  CallsReturn
CHECK_DEADLOCK FALSE
