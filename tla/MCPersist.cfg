SPECIFICATION Spec
CONSTANTS
  a = a
  b = b
  none = none
  Images <- MCImages
  None = none
  Slots = 5
  MaxWrites = 5
  MaxFaults = 1
  MaxFlashes = 1
  Remnants <- MCRemnants
SYMMETRY Interchangeable
INVARIANTS
  OnlyErasedProgrammed
  ErasesAreRare
  VouchedIsTrusted
PROPERTIES
  ImplementsSettings
CHECK_DEADLOCK FALSE
