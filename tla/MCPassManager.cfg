SPECIFICATION Spec
CONSTANTS
  P = 5
  SourceGraphs <- MCSourceGraphs
  OptLevels = {0, 1, 2}
  InputVectors <- MCInputVectors
INVARIANTS
  MeaningPreserved
  SitesSurvive
  FixpointBeforeCap
  OneRoundPerLevel
  RoundsKeepTheirResults
  SharedBatchesNeverSplit
PROPERTIES
  ChangesAreReported
