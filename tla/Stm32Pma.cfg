SPECIFICATION Spec
CONSTANTS
  Configs <- Neighbours
  PmaSize = 128
INVARIANTS
  PmaInv
  InsidePma
  LaterIntact
