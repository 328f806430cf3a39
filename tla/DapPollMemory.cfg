SPECIFICATION Spec
CONSTANTS
  MemSize = 3
  AddrInc = 0
  Word <- MCWord
  Commands <- PollCommands
  Target0 <- MCTarget0
  Status <- MCStatus
  PacketSize = 16
  WaitLimit = 8
  MatchLimit = 64
PROPERTIES
  MorphIsLast
