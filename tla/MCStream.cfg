SPECIFICATION StreamSpec
CONSTANTS
  Unit = 4
  Chunk = 3
  Batch = 3
  Units = 4
  Blobs = {a, b}
  Nothing = Nothing
  MaxAhead = 3
  MaxAttempts = 5
  MaxFaults = 2
INVARIANT FlashIsAsSaid
SYMMETRY MCSymmetry
CHECK_DEADLOCK FALSE
