CONSTANTS
  MaxNodes = 3
  MaxChildren = 2
  PoolSize = 2
  PathDepth = 32
  Name <- LeafNames
  Char <- NoChar
  Text <- NoText
  Lines <- SessionLines
  NULL = NULL
SPECIFICATION SessionSpec
INVARIANTS FreshBlank MkdirFollowsPath PwdLeadsBack
PROPERTIES ImplementsFileSystem MkdirParentsCreates DestinationStays LinesEnd
