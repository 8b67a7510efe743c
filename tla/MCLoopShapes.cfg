SPECIFICATION Spec
CONSTANTS
  P = 131
  MaxUsize = 63
  AliasBits = 2
  Fuel = 8
  Seeds = {1}
  Templates <- ShapedTemplates
  Mains <- ShapedMains
  Lowerable = {}
  Builds <- ShapedBuilds
INVARIANTS
  LoweredAsWritten
