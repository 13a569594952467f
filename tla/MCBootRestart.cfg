SPECIFICATION Spec
CONSTANTS
  good = good
  bad = bad
  none = none
  Images <- MCImages
  Sound <- MCSound
  None = none
  FaultLimit = 2
  MaxResets = 2
  MaxFlashes = 1
PROPERTY
  RestartIsNormal
