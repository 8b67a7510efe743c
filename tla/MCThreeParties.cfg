SPECIFICATION Spec
CONSTANTS
  Programs <- MCPrograms
  FullRounds = 1
  PartialRounds <- MCPartialRounds
  Mistakes = {"none", "wrong kind", "trace missing", "trace too many"}
INVARIANTS
  TypeOK
  Lockstep
  NoResidue
  ErrorsAreTheCallers
  MistakesReachTheNext
  RoundsAsClaimed
PROPERTIES
  EveryPartyReturns
