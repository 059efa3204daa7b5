SPECIFICATION FairSpec
CONSTANTS
  StatusEnd = 2
  LabelEnd = 3
  NumberEnd = 4
  TermSize = 2
  Word = 64
  MaxNumber = 2
  MaxLeaked = 1
  Users <- MCUsers
  BodyLength = 2
  MaxLogins = 2
CHECK_DEADLOCK FALSE
INVARIANTS
  SessionsAgree
  TokenOfLogin
  DescriptorsSafe
PROPERTIES
  ReportTrue
  CommandReturns
