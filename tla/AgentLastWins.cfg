CONSTANTS
  MaxSignals = 2
  Wrong = {}
  Frail = {}
SPECIFICATION PromptSpec
PROPERTIES
  LastConnectionWins
CHECK_DEADLOCK FALSE
