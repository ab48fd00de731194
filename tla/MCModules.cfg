SPECIFICATION Spec
CONSTANTS
  Policies <- MCPolicies
  Subjects <- MCSubjects
  MaxPasses = 2
  MaxDrift = 1
INVARIANTS
  ReportIsTrue
  Converges

