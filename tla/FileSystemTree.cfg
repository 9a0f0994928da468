CONSTANTS
  MaxNodes = 3
  MaxChildren = 2
  PoolSize = 1
  a = a
  b = b
  x = x
  Name <- MCName
  Char <- NoChar
  Text <- NoText
  NULL = NULL
SPECIFICATION Spec
SYMMETRY MCSymmetry
INVARIANTS TypeOK TreeLinks UniqueNames Acyclic CallsOnTree
PROPERTIES MvRelocates RemovalCompletes RemovalConfined
