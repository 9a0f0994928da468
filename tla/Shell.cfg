CONSTANTS
  HistorySize = 2
  AliasSize = 2
  LineSize = 10
  CaptureSize = 2
  MaxOut = 2
  MaxLines = 3
  None = None
  Message = Message
  Scrap = Scrap
  Output = {"x"}
  Atom <- MCAtom
  Line <- MCLine
  File <- MCFile
  stored_name <- MCStored
SPECIFICATION Spec
INVARIANTS TypeOK HistoryIsRecent OutputArrives
PROPERTY AliasesLatest
CHECK_DEADLOCK FALSE
