SPECIFICATION ScreenSpec
CONSTANTS
  Pots = 4
  Layouts <- MCLayouts
  Data = {1, 2}
  Status = {2}
  Views = {"SYSTEM"}
  Default = 1
  Blank = Blank
  Varying <- MCVarying
  Reached <- MCReached
  MaxRevisions = 2
  MaxChanges = 2
INVARIANT ShowsWhatIs
