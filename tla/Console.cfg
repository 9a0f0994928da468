CONSTANTS
  QueueSize = 2
  LineMax = 1
  MaxMeant = 2
  None = ""
  Newline <- MCNewline
  Key <- MCKey
  ShiftKey <- MCShiftKey
  FakeShiftKey <- MCFakeShiftKey
  make <- MCMake
  base_keymap <- BaseKeymap
  shifted_keymap <- ShiftedKeymap
SPECIFICATION ConsoleSpec
INVARIANTS ConsoleTypeOK ShiftFollowsKeys LineIsMeant
PROPERTIES ImplementsTyping EnterHandled
