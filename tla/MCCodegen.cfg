SPECIFICATION Spec
CONSTANTS
  P = 5
  Graphs <- MCGraphs
INVARIANTS
  TypeOK
  NoAlias
  FreeSlotsUnused
  NoSlotLeaks
  CompilesLowered
  EmitsOnlyLowered
  BatchInputsStayAlive
  ServedInTime
  SlotsInRange
