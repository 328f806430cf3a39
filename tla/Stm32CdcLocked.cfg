SPECIFICATION Spec
CONSTANTS
  INBOUND_BUFFER_SIZE = 4
  MaxPacket = 2
  VendorHid = TRUE
  Troubles = {}
PROPERTY AllDataSent
