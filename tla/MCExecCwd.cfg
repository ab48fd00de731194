SPECIFICATION ExecSpec
CONSTANTS
  NoCode = NoCode
  Calls <- CwdCalls
  Cap = 2
  MaxOut = 3
  MaxErr = 2
  Codes = {0, 1}
INVARIANT
  SuccessMeansRan
