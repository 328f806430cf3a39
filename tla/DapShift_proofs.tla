--------------------------- MODULE DapShift_proofs ---------------------------
(***************************************************************************)
(* That every sequence is clocked out exactly, for every width of the      *)
(* counter that is a multiple of eight, every length and every number of   *)
(* headers.  ShiftInv is inductive: it ties the counter, the offset in the *)
(* packet and the bit in the byte to the number of clocks so far.          *)
(***************************************************************************)
EXTENDS DapShift, TLAPS

\* Bit b of byte k is bit 8k + b: what \div and % by eight take apart.
LEMMA Bits ==
  ASSUME NEW k \in Nat, NEW b \in 0..7
  PROVE  (8 * k + b) \div 8 = k /\ (8 * k + b) % 8 = b
OBVIOUS

\* A length that ends on bit b of byte k takes k + 1 bytes.
LEMMA WholeBytes ==
  ASSUME NEW n \in 0..(Modulus - 1), NEW k \in Nat, NEW b \in 0..7,
         Clocks(n) = 8 * k + b + 1
  PROVE  Bytes(n) = k + 1
BY ShiftAssumption DEF Bytes, Clocks

\* A length is the number of clocks it asks for, which the counter can hold
\* but for the largest, that it starts from as zero.
LEMMA ClocksRange ==
  ASSUME NEW n \in 0..(Modulus - 1)
  PROVE  Clocks(n) \in 1..Modulus
BY ShiftAssumption DEF Clocks

\* Nothing has been asked for yet.
LEMMA InitShiftInv == Init => ShiftInv
BY ShiftAssumption DEF Init, ShiftInv, TypeOK, Over, None, Left, BitOf

\* A new command or header starts a count.
LEMMA BeginInv ==
  ASSUME ShiftInv, SwjSequence \/ JtagSequence \/ Header \/ NoMoreHeaders
  PROVE  ShiftInv'
<1>. USE ShiftAssumption
<1>1. CASE SwjSequence
  BY <1>1, ClocksRange DEF ShiftInv, TypeOK, SwjSequence, Begin, Over, None, Left, BitOf, Clocks
<1>2. CASE JtagSequence
  BY <1>2 DEF ShiftInv, TypeOK, JtagSequence, Over, None, Left, BitOf
<1>3. CASE Header
  BY <1>3, ClocksRange DEF ShiftInv, TypeOK, Header, Begin, Over, None, Left, BitOf, Clocks
<1>4. CASE NoMoreHeaders
  BY <1>4 DEF ShiftInv, TypeOK, NoMoreHeaders, Over, None, Left, BitOf, After
<1>. QED BY <1>1, <1>2, <1>3, <1>4

\* Reading a byte moves a whole number of bytes on.
LEMMA FetchInv == ASSUME ShiftInv, Fetch PROVE ShiftInv'
BY ShiftAssumption DEF ShiftInv, TypeOK, Fetch, Over, None, Left, BitOf, Clocks

\* A clock counts one, and ends the byte, the sequence or neither.
LEMMA ClockInv == ASSUME ShiftInv, ClockOne PROVE ShiftInv'
<1>. USE ShiftAssumption DEF None
<1>. DEFINE k == pnt - 1 - start
<1>1. /\ pc = "shift" /\ length \in 0..(Modulus - 1) /\ bit_index \in 0..7
      /\ k \in Int /\ clocked \in Nat /\ clocked = 8 * k + bit_index
  BY DEF ShiftInv, TypeOK, ClockOne
<1>2. k \in Nat
  BY <1>1
<1>3. clocked' = clocked + 1 /\ clocked' \in 1..Modulus /\ clocked' <= Clocks(length)
  BY <1>1, ClocksRange DEF ShiftInv, TypeOK, ClockOne
<1>4. out_count' = Clocks(length) - clocked' /\ out_count' \in 0..(Modulus - 1)
  BY <1>1, <1>3 DEF ShiftInv, TypeOK, ClockOne, Decremented, Left, Clocks
<1>5. /\ UNCHANGED <<kind, pnt, data, sequence_count, length, start>>
      /\ bit_index' = bit_index + 1 /\ line' = <<data, bit_index>>
  BY DEF ClockOne, Lsb
<1>6. TypeOK'
  BY <1>1, <1>3, <1>4, <1>5 DEF ShiftInv, TypeOK, ClockOne, Return
<1>7. kind' = "swj" /\ clocked' > 0 => line' = BitOf(clocked)'
  <2>1. (8 * k + bit_index) \div 8 = k /\ (8 * k + bit_index) % 8 = bit_index
    BY <1>1, <1>2, Bits
  <2>2. clocked' - 1 = 8 * k + bit_index
    BY <1>1, <1>3
  <2>3. start \in Int /\ (kind = "swj" => data = start + k)
    BY <1>1 DEF ShiftInv, TypeOK
  <2>. HIDE DEF k
  <2>4. kind = "swj" => line' = <<start + (clocked' - 1) \div 8, (clocked' - 1) % 8>>
    BY <1>5, <2>1, <2>2, <2>3
  <2>. QED BY <1>5, <2>4 DEF BitOf
<1>8. CASE out_count' = 0
  <2>1. pc' \in {"idle", "header"} /\ clocked' = Clocks(length)
    BY <1>1, <1>3, <1>4, <1>8, ClocksRange DEF ClockOne, Return
  <2>2. Clocks(length) = 8 * k + bit_index + 1
    BY <1>1, <1>3, <1>5, <2>1 DEF Clocks
  <2>3. Bytes(length) = k + 1
    BY <1>1, <1>2, <2>2, WholeBytes
  <2>4. pnt = start + (k + 1)
    BY DEF ShiftInv, TypeOK
  <2>5. pnt' = After(start, length)'
    BY <1>5, <2>3, <2>4 DEF After, Bytes, Clocks
  <2>. QED
    BY <1>1, <1>3, <1>5, <1>6, <1>7, <2>1, <2>5 DEF ShiftInv, TypeOK, Over, After, Bytes, Clocks
<1>9. CASE out_count' # 0 /\ bit_index = 7
  <2>1. pc' = "fetch"
    BY <1>9 DEF ClockOne, Return, LastOfByte
  <2>2. clocked' = 8 * (pnt' - start')
    BY <1>1, <1>3, <1>5, <1>9 DEF ShiftInv, TypeOK
  <2>3. clocked' < Clocks(length')
    BY <1>1, <1>3, <1>4, <1>5, <1>9, ClocksRange
  <2>. QED
    BY <1>1, <1>3, <1>4, <1>5, <1>6, <1>7, <2>1, <2>2, <2>3 DEF ShiftInv, TypeOK, Over, Left, Clocks
<1>10. CASE out_count' # 0 /\ bit_index # 7
  <2>1. pc' = "shift" /\ clocked' < Clocks(length')
    BY <1>1, <1>3, <1>4, <1>5, <1>10, ClocksRange DEF ClockOne, LastOfByte
  <2>. QED
    BY <1>1, <1>3, <1>4, <1>5, <1>6, <1>7, <1>10, <2>1 DEF ShiftInv, TypeOK, Over, Left, Clocks
<1>. QED BY <1>8, <1>9, <1>10

\* ShiftInv holds always, whatever the width of the counter.
THEOREM ShiftInvariant == Spec => []ShiftInv
<1>1. ShiftInv /\ [Next]_vars => ShiftInv'
  <2>. SUFFICES ASSUME ShiftInv, [Next]_vars PROVE ShiftInv'
    OBVIOUS
  <2>1. CASE Next
    BY <2>1, BeginInv, FetchInv, ClockInv DEF Next
  <2>2. CASE UNCHANGED vars
    BY <2>2 DEF vars, ShiftInv, TypeOK, Over, Left, BitOf, After, Bytes, Clocks
  <2>. QED BY <2>1, <2>2
<1>. QED BY <1>1, InitShiftInv, PTL DEF Spec

\* No variable leaves its type: out_count stays a uint8_t, and no sequence
\* is clocked more often than the counter has values.
THEOREM ShiftTypes == Spec => []TypeOK
<1>1. ShiftInv => TypeOK
  BY DEF ShiftInv
<1>. QED BY <1>1, ShiftInvariant, PTL

\* Every sequence has exactly the clocks asked for (shift_bits_out).
THEOREM ShiftExactClocks == Spec => []ExactClocks
<1>1. ShiftInv => ExactClocks
  BY DEF ShiftInv, ExactClocks
<1>. QED BY <1>1, ShiftInvariant, PTL

\* DAP_SWJ_Sequence sends the packet's bits in order (shift_bits_out).
THEOREM ShiftPacketOrder == Spec => []PacketOrder
<1>1. ShiftInv => PacketOrder
  BY DEF ShiftInv, PacketOrder
<1>. QED BY <1>1, ShiftInvariant, PTL

\* Each header is read where the debugger put it (jtag_sequence).
THEOREM ShiftHeadersInStep == Spec => []HeadersInStep
<1>1. ShiftInv => HeadersInStep
  BY DEF ShiftInv, HeadersInStep
<1>. QED BY <1>1, ShiftInvariant, PTL
=============================================================================
