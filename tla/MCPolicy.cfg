SPECIFICATION MCSpec
CONSTANTS
  f = f
  g = g
  h = h
  NoName = NoName
  BadName = BadName
  NoTag = NoTag
  NoFile = NoFile
  Unset = Unset
  Nodes <- MCNodes
  Names <- MCNames
  Policies <- MCPolicies
INVARIANTS
  DependenciesFirst
  CycleIsReal
  OrderHonoured
  OnlyDanglingDropped
  RefusedOnlyIfImpossible
  QueuedAsWritten
