SPECIFICATION MCSpec
CONSTANTS
  DefaultLimit = 8
  CounterModulus = 2
  NPins = 2
  Owned = {0, 1}
  OpenDrain = {1}
  Width = 2
  MaxContexts = 2
  Images <- Deadlocks
  Far = 12
PROPERTY DeadlockIsCertain
CHECK_DEADLOCK FALSE
