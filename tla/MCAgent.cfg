SPECIFICATION FairSpec
CONSTANTS
  a = a
  b = b
  NoTag = NoTag
  NoResult = NoResult
  Tags <- MCTags
  Source <- MCSource
  HSource <- MCHSource
  Outcomes <- MCOutcomes
  Options <- MCOptions
INVARIANTS
  OnlyNotifiedHandlers
  NotificationsServed
  PassOrder
  VerdictIsLastWord
PROPERTIES
  ImplementsRetry
  Terminates
