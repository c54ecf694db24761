CONSTANTS
  YModulus = 3
  MaxCalls = 2
  SleepCycles = 12
  MaxWraps = 1
  Slack = 3
SPECIFICATION MCSpec
INVARIANTS PortKept CountExact VerdictSound
PROPERTIES PinSchedule CallsReturn
CHECK_DEADLOCK FALSE
