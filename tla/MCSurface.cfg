SPECIFICATION Spec
CONSTANTS
  Pots = 2
  MaxFields = 3
  Layouts <- MCLayouts
  Span = 1
  MaxShows = 2
  MaxStrokes = 2
  MaxSurprises = 1
INVARIANTS PublishedWhole ValuesKeepTheirLayout
PROPERTIES KnobNotFought Settles
CHECK_DEADLOCK FALSE
