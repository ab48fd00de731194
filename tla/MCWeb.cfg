SPECIFICATION FairSpec
CONSTANTS
  a = a
  b = b
  None = None
  Clients <- MCClients
  Scripts <- MCScripts
  Leavers <- MCLeavers
  HeadMax = 3
  IoMax = 3
  Data <- MCData
INVARIANTS
  AnswersWhole
PROPERTIES
  Served
CHECK_DEADLOCK FALSE
