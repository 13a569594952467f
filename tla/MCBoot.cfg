SPECIFICATION FairSpec
CONSTANTS
  good = good
  bad = bad
  none = none
  Images <- MCImages
  Sound <- MCSound
  None = none
  FaultLimit = 2
  MaxResets = 3
  MaxFlashes = 1
INVARIANTS
  UnattendedIsEarned
  DeadIsHeld
PROPERTIES
  HeldOnlyWhenAsked
  ColdStartRuns
