SPECIFICATION Spec
CONSTANTS
  a = a
  b = b
  NoTag = NoTag
  NoResult = NoResult
  Tags <- MCTags
  Source <- MCSource
  HSource <- MCHSource
  Outcomes <- MCOutcomes
  Options <- MCOptions
INVARIANT
  EveryResultRead
