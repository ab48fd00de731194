CONSTANTS
    Main = Main
    a = a
    b = b
    c = c
    d = d
    u1 = u1
    Nil = Nil
    Num = Num
    DeadKey = DeadKey
    Obj <- MCObj
    Upv <- MCUpv
    Scenarios <- MCScenarios
    MaxOps = 2
    MaxStack = 4
    MaxWork = 2
SPECIFICATION FairSpec
INVARIANTS
  TriColor
PROPERTIES
  OnlyGarbageCollected
  GarbageFreed
CHECK_DEADLOCK FALSE
