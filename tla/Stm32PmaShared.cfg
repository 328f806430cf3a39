SPECIFICATION Spec
CONSTANTS
  Configs <- AsShipped
  PmaSize = 128
INVARIANTS
  AllIntact
