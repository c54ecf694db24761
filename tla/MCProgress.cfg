SPECIFICATION MCSpec
CONSTANTS
  EngineCount = 2
  Depth = 2
  MaxRoute = 2
  Words0 = 1
  Words1 = 1
  WordsHost = 1
  Budget <- MCBudget
  None = None
  DefaultLimit = 3
  CounterModulus = 5
  Images <- MCImages
INVARIANTS
  Timely
  WordsKept
  HeldRead
PROPERTIES
  RoutedWordsMove
  BlockedEnds
