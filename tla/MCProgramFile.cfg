SPECIFICATION Spec
CONSTANTS
  P = 7
  Base = 16
  Narrow = 1
  Wide = 2
  Version = 1
  FullRounds = 4
  AliasBits = 6
  PartialRounds <- MCPartialRounds
  Magic <- MCMagic
  Streams <- MCStreams
  LimitChoices <- MCLimits
  DefaultLimits <- MCDefault
  SpoiledUnder <- MCSpoiledUnder
  NamedInputs <- MCNamed
INVARIANTS
  ReadsWhatWasWritten
  LoadedIsWhatIsThere
  NamedMeansPositional
