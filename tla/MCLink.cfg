SPECIFICATION LinkFairSpec
CONSTANTS
  Chunks <- MCChunks
  BufCap = 4
  Backpressure = 2
  QueueCap = 2
  MaxHost = 1
  MaxInput = 1
  MaxConsole = 1
  MaxUnplug = 1
INVARIANTS
  FramesWhole
  QueueIsCurrent
PROPERTIES
  TailKeepsMoving
  ReadyUntilSeen
