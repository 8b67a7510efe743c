SPECIFICATION Spec
CONSTANTS
  P = 5
  FullRounds = 4
  PartialRounds <- MCPartialRounds
  AliasBits = 6
  Sources <- FlaggedSources
  InputVectors <- FlaggedInputs
INVARIANTS
  OnlyTheCallerErrs
