SPECIFICATION Spec
CONSTANTS
  Modulus = 256
  SwjCounts <- AllCounts
  JtagCounts <- ShortCounts
  MaxSequences = 3
INVARIANTS TypeOK ExactClocks PacketOrder HeadersInStep ShiftInv
