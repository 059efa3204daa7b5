SPECIFICATION Spec
CONSTANTS
  UIntMax = 63
  Addresses <- MCAddresses
  Masks <- MCMasks
  Masked <- MCMasked
  Tables <- MCTables
  MaxEntries = 3
CHECK_DEADLOCK FALSE
INVARIANTS
  LongestPrefix
