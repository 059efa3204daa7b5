SPECIFICATION FairSpec
CONSTANTS
  Width = 4
  Lengths <- MCLengths
  MaxLength = 10
CHECK_DEADLOCK FALSE
INVARIANTS
  ZeroMeansIntact
  ResultCompletes
PROPERTIES
  Returns
