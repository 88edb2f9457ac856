SPECIFICATION FairSpec
CONSTANTS
  h1 = h1
  h2 = h2
  a = a
  b = b
  report = report
  other = other
  None = None
  Paths = {1, 2, 3}
  Contents = {h1, h2}
  Folders = {a, b}
  Names = {report, other}
  NameOf <- Names3
  TitleOf <- TitleAll
  CloseOf <- CloseOff
  Present <- Present3
  Legacy = {1}
  LegacyFolder = a
  Requests <- Requests2
  Limit = 2
  MaxSuffix = 3
  MaxEvents = 2
CHECK_DEADLOCK FALSE
PROPERTY NotesKept Converges
