SPECIFICATION Spec
CONSTANTS
  Pots = {p1, p2}
  Switches = {s1}
  Codes = {Full, Dropped}
  QueueOverflow = Full
  Overflow = Overflow
  Other = Other
  DiagSlots = 1
  ControlDepth = 1
  MaxRaised = 2
  MaxMoves = 3
  Quarter = 2
  Beyond = 1
  PerDetent = 3
  Deadband = 2
  Steps <- MCSteps
  Angles = {7}
  InputQueue = 1
  ReleaseTicks = 2
  StuckTicks = 3
  MaxDt = 2
  MaxGap = 3
INVARIANTS
  MovementArrives
  EdgesAreMeant
  ComplaintsAreAccounted
PROPERTIES
  InterfaceCatchesUp
  StuckKeysAreFreed
