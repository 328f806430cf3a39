------------------------------ MODULE DapShift ------------------------------
(***************************************************************************)
(* The bit sequences the host clocks out without a transfer: DAP_SWJ_      *)
(* Sequence and DAP_JTAG_Sequence of dm.c, clock by clock.  shift_bits_out *)
(* counts in out_count, a static uint8_t that its callers set, that it     *)
(* decrements before it tests it, and that they test again when it         *)
(* returns; a length of zero therefore wraps.  A byte of the packet is its *)
(* place in the packet: what matters is which bit of which byte is on the  *)
(* line at each clock, not whether it is a one.                            *)
(***************************************************************************)
EXTENDS Integers

CONSTANTS Modulus,     \* the values of a uint8_t: 256 in every build
          SwjCounts,   \* lengths the debugger sends with DAP_SWJ_Sequence
          JtagCounts,  \* lengths it sends in one DAP_JTAG_Sequence header, none zero
          MaxSequences \* the most headers in one DAP_JTAG_Sequence

ASSUME ShiftAssumption ==
  /\ Modulus \in Nat /\ Modulus % 8 = 0 /\ Modulus > 8
  /\ SwjCounts \subseteq 0..(Modulus - 1)
  /\ JtagCounts \subseteq 1..(Modulus - 1)
  /\ MaxSequences \in Nat \ {0}

VARIABLES pc,             \* where the command is
          kind,           \* the command in progress
          pnt,            \* offset in the packet of the next byte to read
          out_count,      \* bits left to shift
          bit_index,      \* of the byte being shifted
          data,           \* offset of the byte being shifted
          sequence_count, \* headers left to read
          length,         \* history: the length the debugger asked for, or None
          clocked,        \* history: rising edges of SWCLK in this sequence,
                          \* counted no further than one too many
          line,           \* history: the bit on SWDIO at the last of them
          start           \* history: offset of the sequence's first byte

vars == <<pc, kind, pnt, out_count, bit_index, data, sequence_count,
          length, clocked, line, start>>

None == -1

\* A length of zero stands for all the values of the counter.
Clocks(n) == IF n = 0 THEN Modulus ELSE n

Bytes(n) == (Clocks(n) + 7) \div 8

\* What the debugger wrote after a sequence of n bits that begins at s.
After(s, n) == s + Bytes(n)

Init ==
  /\ pc = "idle" /\ kind = "swj"
  /\ pnt = 0 /\ out_count = 0 /\ bit_index = 0 /\ data = 0 /\ sequence_count = 0
  /\ length = None /\ clocked = 0 /\ line = <<0, 0>> /\ start = 0

-----------------------------------------------------------------------------

\* Slip: while (out_count) in place of do ... while (out_count).
BeginByTesting(n, at) ==
  /\ out_count' = n /\ length' = n
  /\ clocked' = 0
  /\ pnt' = at /\ start' = at
  /\ pc' = IF n # 0 THEN "fetch" ELSE IF kind' = "swj" THEN "idle" ELSE "header"

\* A caller has read the length n and is about to read the first byte.
Begin(n, at) ==
  /\ out_count' = n /\ length' = n
  /\ clocked' = 0
  /\ pnt' = at /\ start' = at
  /\ pc' = "fetch"

\* DAP_SWJ_Sequence: byte 0 is the command, byte 1 the length.
SwjSequence ==
  /\ pc = "idle"
  /\ kind' = "swj" /\ sequence_count' = 0
  /\ \E n \in SwjCounts : Begin(n, 2)
  /\ UNCHANGED <<bit_index, data, line>>

\* DAP_JTAG_Sequence: byte 1 is the number of headers.
JtagSequence ==
  /\ pc = "idle"
  /\ kind' = "jtag"
  /\ sequence_count' \in 1..MaxSequences
  /\ pnt' = 2
  /\ pc' = "header"
  /\ start' = 2 /\ length' = None /\ clocked' = 0
  /\ UNCHANGED <<out_count, bit_index, data, line>>

\* while (sequence_count--): the header holds a length and one TMS level.
Header ==
  /\ pc = "header"
  /\ sequence_count # 0
  /\ sequence_count' = sequence_count - 1
  /\ \E n \in JtagCounts : Begin(n, pnt + 1)
  /\ UNCHANGED <<kind, bit_index, data, line>>

NoMoreHeaders ==
  /\ pc = "header" /\ sequence_count = 0
  /\ pc' = "idle"
  /\ UNCHANGED <<kind, pnt, out_count, bit_index, data, sequence_count,
                 length, clocked, line, start>>

\* Slip: pnt++ left out where the data of a JTAG sequence is skipped.
FetchWithoutSkip ==
  /\ pc = "fetch"
  /\ data' = IF kind = "swj" THEN pnt ELSE start - 1
  /\ pnt' = IF kind = "swj" THEN pnt + 1 ELSE pnt
  /\ bit_index' = 0
  /\ pc' = "shift"
  /\ UNCHANGED <<kind, out_count, sequence_count, length, clocked, line, start>>

\* The next byte; JTAG data is skipped, and the header's level sent instead.
Fetch ==
  /\ pc = "fetch"
  /\ data' = IF kind = "swj" THEN pnt ELSE start - 1
  /\ pnt' = pnt + 1
  /\ bit_index' = 0
  /\ pc' = "shift"
  /\ UNCHANGED <<kind, out_count, sequence_count, length, clocked, line, start>>

\* Where shift_bits_out returns to: both callers loop while out_count.
Return(left) ==
  pc' = IF left # 0 THEN "fetch" ELSE IF kind = "swj" THEN "idle" ELSE "header"

Decremented(n) == IF n = 0 THEN Modulus - 1 ELSE n - 1

\* Slip: data <<= 1: most significant bit first.
Msb == <<data, 7 - bit_index>>

\* The bit on SWDIO after data has been shifted right bit_index times.
Lsb == <<data, bit_index>>

\* Slip: the loop over the byte ends one bit early.
SevenBits == bit_index = 6

LastOfByte == bit_index = 7

\* Slip: out_count is not tested inside the byte, and steps over zero there.
ClockWithoutBreak ==
  /\ pc = "shift"
  /\ line' = Lsb
  /\ clocked' = IF clocked > Modulus THEN clocked ELSE clocked + 1
  /\ bit_index' = bit_index + 1
  /\ out_count' = Decremented(out_count)
  /\ IF LastOfByte THEN Return(out_count') ELSE pc' = pc
  /\ UNCHANGED <<kind, pnt, data, sequence_count, length, start>>

ClockOne ==
  /\ pc = "shift"
  /\ line' = Lsb
  /\ clocked' = IF clocked > Modulus THEN clocked ELSE clocked + 1
  /\ bit_index' = bit_index + 1
  /\ out_count' = Decremented(out_count)
  /\ IF out_count' = 0 \/ LastOfByte THEN Return(out_count') ELSE pc' = pc
  /\ UNCHANGED <<kind, pnt, data, sequence_count, length, start>>

Next == SwjSequence \/ JtagSequence \/ Header \/ NoMoreHeaders \/ Fetch \/ ClockOne

Spec == Init /\ [][Next]_vars

-----------------------------------------------------------------------------

TypeOK ==
  /\ pc \in {"idle", "header", "fetch", "shift"}
  /\ kind \in {"swj", "jtag"}
  /\ pnt \in Nat /\ start \in Nat /\ data \in Nat
  /\ out_count \in 0..(Modulus - 1)
  /\ length \in None..(Modulus - 1)
  /\ bit_index \in 0..8
  /\ clocked \in 0..Modulus
  /\ sequence_count \in 0..MaxSequences
  /\ line \in Nat \X (0..7)

\* No sequence is under way, and one was.
Over == pc \in {"idle", "header"} /\ length # None

\* What holds between two clocks, from which the properties follow: where
\* the counter, the place in the packet and the place in the byte stand for
\* the number of clocks so far.
Left == IF clocked = 0 THEN length ELSE Clocks(length) - clocked

BitOf(k) == <<start + (k - 1) \div 8, (k - 1) % 8>>

ShiftInv ==
  /\ TypeOK
  /\ pc \in {"fetch", "shift"} =>
       /\ length # None /\ clocked < Clocks(length)
       /\ out_count = Left
  /\ pc = "fetch" => clocked = 8 * (pnt - start)
  /\ pc = "shift" =>
       /\ bit_index \in 0..7
       /\ clocked = 8 * (pnt - 1 - start) + bit_index
       /\ data = IF kind = "swj" THEN pnt - 1 ELSE start - 1
  /\ start > 0 \/ pc = "idle"
  /\ pc = "header" => pnt > 0
  /\ Over => clocked = Clocks(length) /\ pnt = After(start, length)
  /\ kind = "swj" /\ clocked > 0 => line = BitOf(clocked)

\* Every sequence has exactly the clocks the debugger asked for, 256 for a
\* length of zero, wherever out_count reaches or passes zero.
ExactClocks == Over => clocked = Clocks(length)

\* DAP_SWJ_Sequence sends the packet's bits in order, least significant
\* first, and none twice or never where one byte ends and the next is read.
PacketOrder ==
  kind = "swj" /\ clocked > 0
    => line = BitOf(clocked)

\* A sequence consumes the bytes the debugger packed for it and no others:
\* jtag_sequence reads the next header where the debugger put it.
HeadersInStep == Over => pnt = After(start, length)

=============================================================================
