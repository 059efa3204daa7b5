SPECIFICATION FairSpec
CONSTANTS
  UIntMax = 15
  Addresses <- MCAddresses
  Masks <- MCMasks
  Masked <- MCMasked
  Tables <- MCTables
  MaxEntries = 4
CHECK_DEADLOCK FALSE
INVARIANTS
  OutsideAtTop
  FirstMatch
  OneMaskFound
PROPERTIES
  LookupEnds
