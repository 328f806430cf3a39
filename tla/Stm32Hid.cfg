SPECIFICATION Spec
CONSTANTS
  c1 = c1
  c2 = c2
  c3 = c3
  v1 = v1
  Cmd = {c1, c2, c3, v1}
  Vendor = {v1}
  None = None
  Prompt = TRUE
INVARIANTS
  TypeOK
  BuffersKept
  NeverBusy
  HidInv
PROPERTIES
  Contract
  MarksHandled
