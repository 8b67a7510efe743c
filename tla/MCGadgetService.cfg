SPECIFICATION Spec
CONSTANTS
  P = 61
  FullRounds = 2
  PartialRounds <- MCPartialRounds
  Full1 <- MCFull1
  Full2 <- MCFull2
  Partial <- MCPartial
  Diagonal <- MCDiagonal
  MinSitesPerChunk = 2
  ThreadCounts = {1, 3}
  AliasBits = 6
  AliasConstants <- MCAliasConstants
  Batches <- MCBatches
INVARIANTS
  ServedAsTheCircuit
  RecordedOnce
  HigherPairsOverrule
