CONSTANT
  MaxTries = 4
SPECIFICATION ScriptsSpec
INVARIANTS TestsMeetFreshVM StopsItsVM
CHECK_DEADLOCK FALSE
