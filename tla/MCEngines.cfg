\* Three-bit registers: transfers of one, two and all bits.  Four sources of
\* the mover, as on the chip.
SPECIFICATION MCSpec
CONSTANTS
  EngineCount = 4
  Width = 3
  MaxPeriod = 2
  ProgramWords = 3
  Code = {a, b}
  Targets <- MCTargets
INVARIANTS
  FetchesImage
  ClockShape
  WordsExchanged
  SameGrant
  BoundedWait
