SPECIFICATION FairSpec
CONSTANTS
  e1 = e1
  e2 = e2
  d1 = d1
  press = press
  Keys <- MCKeys
  Deltas <- MCDeltas
  Press = press
  Amounts <- MCAmounts
  Slots = 2
  DiscreteDepth = 2
  ControlBytes = 8
  ControlHdr = 3
  ControlLens <- MCControlLens
  CountMod = 4
  MaxEvents = 4
  MaxControl = 2
INVARIANTS
  TypeOK
  LatestSurvives
  DistanceConserved
PROPERTIES
  ImplementsInputOrder
  Drains
