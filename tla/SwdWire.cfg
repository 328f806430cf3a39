SPECIFICATION Spec
CONSTANTS
  ResyncClocks = 100
  WaitLimit = 8
  MatchLimit = 64
INVARIANTS
  NoContention
  InStep
  TargetBetweenPackets
  ParityCatchesFlip
  WireInv
PROPERTIES
  WireContract
