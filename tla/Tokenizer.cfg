CONSTANTS
  MaxLength = 6
  MaxArgs = 2
  Letter <- MCLetter
  Line <- MCLine
SPECIFICATION FairSpec
INVARIANTS TypeOK InPlace ArgumentsAreTokens
PROPERTY Terminates
CHECK_DEADLOCK FALSE
