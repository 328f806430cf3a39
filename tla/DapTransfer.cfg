SPECIFICATION Spec
CONSTANTS
  MemSize = 3
  AddrInc = 1
  Word <- MCWord
  Commands <- TransferCommands
  Target0 <- MCTarget0
  Status <- MCStatus
  PacketSize = 16
  WaitLimit = 8
  MatchLimit = 64
INVARIANTS
  TypeOK
  InputInStep
  WithinScratchpad
  TransferInv
PROPERTIES
  Contract
