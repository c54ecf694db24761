SPECIFICATION MCSpec
CONSTANTS
  EngineCount = 2
  Pins = {p}
  InputPins = {p}
  CommandEdges = 4
  ProgramWords = 2
  Code = {c1, c2}
  FaultCodes = {3}
  Depth = 2
  Words = {w1, w2, w3}
INVARIANTS
  ControlSafe
  PulsesCounted
  NoArtificialEdge
PROPERTIES
  ImplementsQueue
  ImageImmutable
