SPECIFICATION Spec
CONSTANTS
  P = 5
  MaxDepth = 1
  Mains <- UnreadMains
  InputVectors <- UnreadInputs
INVARIANTS
  InputsAddressable
