SPECIFICATION Spec
CONSTANTS
  Pots = 2
  GainSteps = 2
  Cycles = 2
  ClearTicks = 1
  MinHold = 1
  MaxHold = 2
  ReleaseTicks = 1
  MaxRelease = 2
  Deltas <- MCDeltas
  Detents <- MCDetents
  Prefs <- MCPrefs
  Calibrations <- MCCalibrations
  None = None
  MaxSurprises = 1
  MaxStrokes = 5
INVARIANTS NoTrialStaysBehind SavedIsInForce
PROPERTY GesturesEnd
CHECK_DEADLOCK FALSE
