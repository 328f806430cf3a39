SPECIFICATION Spec
CONSTANTS
  INBOUND_BUFFER_SIZE = 6
  MaxPacket = 2
  VendorHid = TRUE
  Troubles = {"cutoff", "empty", "cleared"}
INVARIANTS TypeOK InOrder CdcInv OutboundOwned
PROPERTIES OutRearmed DataSentOrRefused
