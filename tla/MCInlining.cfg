SPECIFICATION Spec
CONSTANTS
  P = 5
  MaxDepth = 2
  Mains <- MCMains
  InputVectors <- MCInputVectors
INVARIANTS
  SolvesTheCircuit
  BoundOnce
  SitesAreInstances
  PanicsOnlyOnLayout
