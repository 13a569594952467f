SPECIFICATION FairSpec
CONSTANTS
  Mail <- MCMail
  MaxTotal = 3
  Limit = 2
  MaxSent = 3
  MaxLines = 1
  MaxCuts = 1
INVARIANTS
  SplitArrivesWhole
  CleanIsDelivered
PROPERTIES
  OnlyIdleIsGivenUp
  NeverWedged
