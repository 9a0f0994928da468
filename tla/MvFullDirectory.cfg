CONSTANTS
  MaxNodes = 2
  MaxChildren = 1
  PoolSize = 1
  a = a
  b = b
  x = x
  Name <- MCName
  Char <- NoChar
  Text <- NoText
  NULL = NULL
SPECIFICATION Spec
PROPERTY MvNeverLoses
