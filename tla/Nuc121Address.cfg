SPECIFICATION Spec
CONSTANTS
  c1 = c1
  c2 = c2
  Cmd = {c1, c2}
  None = None
  Address = 5
  MaxPacket0 = 2
  Firmwares = {"nuc121"}
  Calm = {}
INVARIANT AddressAfterAck
