SPECIFICATION Spec
CONSTANTS
  None = None
  NoFolder = NoFolder
  MaxPath <- MCMaxPath
  Folders <- MCFolders
  Unwritten <- MCUnwritten
  Argvs <- MCArgvs
INVARIANTS
  ParsedRight
  ScanRight
  NamesDistinct
  UnitsRight
PROPERTY
  ErrorSticks
