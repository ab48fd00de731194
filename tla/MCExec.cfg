SPECIFICATION ExecFairSpec
CONSTANTS
  NoCode = NoCode
  Calls <- MCCalls
  Cap = 2
  MaxOut = 3
  MaxErr = 2
  Codes = {0, 1}
INVARIANTS
  OutputWhole
PROPERTIES
  CallEnds
