SPECIFICATION Spec
CONSTANTS
  NoMode = NoMode
  NoFile = NoFile
  Private = "0600"
  OldMode = "0640"
  Writers <- MCTwo
  Text <- MCText
  Mode <- MCMode
  Old <- MCOld
  ShortWrites = TRUE
  MaxBadSyncs = 1
  Interrupts = TRUE
INVARIANTS
  NeverTorn
  ExactIfUndisturbed
