CONSTANTS
  Width = 2
  Height = 3
  MaxPast = 1
  Char = {x}
  Space = space
  Color = {grey, white}
  Position <- MCPosition
SPECIFICATION MCSpec
INVARIANT TypeOK
PROPERTY ImplementsLog
