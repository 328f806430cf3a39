SPECIFICATION Spec
CONSTANTS
  c1 = c1
  c2 = c2
  Cmd = {c1, c2}
  None = None
  Address = 5
  MaxPacket0 = 2
  Firmwares = {"nuc121", "samd11", "pic16", "stm32f0x2"}
  Calm = {"nuc121", "samd11", "pic16", "stm32f0x2"}
INVARIANTS DevicesInv AddressAfterAck ResponseTaken TogglesAgree MessageKept
PROPERTIES ControlContract SessionContract ControlServed CommandServed
