CONSTANTS
  None = None
  Text <- MCText
  PromptSign = "$"
  Scenarios <- MCScenarios
  MaxLooks = 2
  QueueSize = 2
  LineMax = 2
SPECIFICATION Spec
INVARIANTS BootedBeforeTyping JudgedInTime LinesAreCommands
PROPERTY SessionEnds
