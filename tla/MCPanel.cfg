SPECIFICATION Spec
CONSTANTS
  Pots = 4
  Surfaces <- MCSurfaces
  Top = 1
  HistDepth = 2
  SettleTicks = 1
  Zeroed = Zeroed
  HoldTicks = 2
  MaxLease = 1
  None = None
  MaxStrokes = 4
  Turned <- MCTurned
  MaxSurprises = 2
INVARIANTS ActsOnWhatItShows DefaultsAgree
PROPERTIES HoldFiresWhenHeld StopNeedsOnePress ImplementsUndo
CHECK_DEADLOCK FALSE
