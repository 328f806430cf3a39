SPECIFICATION Spec
CONSTANTS
  INBOUND_BUFFER_SIZE = 4
  MaxPacket = 2
  VendorHid = FALSE
  Troubles = {"again"}
INVARIANT LoopedAround
