CONSTANTS
  MaxNodes = 8
  MaxChildren = 3
  PoolSize = 16
  a = a
  b = b
  x = x
  Name <- MCName
  Char <- MCChar
  Text <- MCText
  NULL = NULL
SPECIFICATION SessionSpec
PROPERTIES CopiesWholeTrees
CHECK_DEADLOCK FALSE
