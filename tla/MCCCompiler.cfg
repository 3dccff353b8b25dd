SPECIFICATION Spec
CONSTANTS
  Preference <- MCPreference
  PathLen <- MCPathLen
  None = None
  HackFd = 7
  BufInit = 3
  Slack = 2
  PipeCap = 3
INVARIANTS
  TypeOK
  WholePathRead
  ChildWritesToPipe
  NothingLeftOpen
PROPERTIES
  AnswersAreRight
  SearchEnds
CHECK_DEADLOCK FALSE
