CONSTANTS
  MaxNodes = 6
  MaxChildren = 3
  PoolSize = 8
  SeedSize = 4
  a = a
  b = b
  x = x
  Name <- MCName
  Char <- MCChar
  Text <- MCText
  NULL = NULL
SPECIFICATION SeedSpec
INVARIANT ContentFits
PROPERTIES CopyMirrors CopyConfined WalksEnd
CHECK_DEADLOCK FALSE
