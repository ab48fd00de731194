SPECIFICATION MCSpec
CONSTANTS
    Main = Main
    Threads = {Main, c1, c2}
    MaxStack = 3
    ExtraStack = 1
    MaxC = 4
    ExtraC = 1
    Bits = 4
    MaxIndexRK = 2
    FieldsPerFlush = 2
    Programs <- ProgramSet
    Compiled <- MCCompiled
    Meanings <- MCMeanings
INVARIANTS
  CodeIsRight
  CountersMatch
PROPERTY
  IsCoroutines
SYMMETRY Symmetry
