SPECIFICATION Spec
CONSTANTS
  P = 131
  MaxUsize = 63
  AliasBits = 2
  Fuel = 8
  Seeds = {1, 30}
  Templates <- MCTemplates
  Mains <- MCMains
  Lowerable <- MCLowerable
  Builds <- MCBuilds
INVARIANTS
  LoweredAsWritten
  LowerableIsLowered
