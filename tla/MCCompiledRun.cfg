SPECIFICATION Spec
CONSTANTS
  P = 5
  FullRounds = 4
  PartialRounds <- MCPartialRounds
  AliasBits = 6
  Sources <- MCSources
  InputVectors <- MCInputVectors
INVARIANTS
  PendingAwaitsItsRound
PROPERTIES
  Implements
