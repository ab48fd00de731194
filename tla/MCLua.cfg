SPECIFICATION MCSpec
CONSTANTS
  v1 = v1
  v2 = v2
  N = 7
  RanLimit = 4
  Imbalance = 1
  Keys = {1, 2, 3}
  Names <- MCNames
  LPath <- MCLPath
  CPath <- MCCPath
  Chunks <- MCChunks
  Symbols <- MCSymbols
  Others <- MCOthers
  Preload = {}
  MaxFrames = 2
  MaxObjects = 1
INVARIANTS ReadsInside Permuted SortedAtEnd MatchesAsMeant LoadsWhatWasDumped LibrariesStayOpen
PROPERTY IsMap
SYMMETRY Symmetry
CHECK_DEADLOCK FALSE
