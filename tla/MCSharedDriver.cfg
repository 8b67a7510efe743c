SPECIFICATION Spec
CONSTANTS
  P = 31
  Starts <- MCStarts
  PublicValues = {4}
  Window = 2
  BitCounts = {3}
  Pairs = 4
  Limit <- MCLimit
  AliasSites <- MCAliasSites
  MaxCalls = 2
  Randomness <- MCRandomness
  ZeroShares <- MCZeroShares
  Masks = {1, 4}
INVARIANTS
  Replicated
PROPERTIES
  ImplementsPlain
