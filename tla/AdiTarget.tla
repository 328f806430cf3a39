----------------------------- MODULE AdiTarget -----------------------------
(***************************************************************************)
(* What a debug target does with one register access (external: the Arm    *)
(* debug port and one memory access port, as dm.c uses them).              *)
(*                                                                         *)
(* A target is a record: mem, the memory behind the access port; tar, the  *)
(* address register that AP register 3 (DRW) reads and writes through and  *)
(* then moves on by AddrInc; and reg, the other registers by port and      *)
(* number.  Reads of the AP are posted: the value reaches the host with    *)
(* the next AP read or with a read of DP register 3 (RDBUFF).              *)
(***************************************************************************)
EXTENDS Integers

CONSTANTS
  MemSize,  \* words of memory behind the access port
  AddrInc   \* 1 when the host enabled address auto-increment, else 0

ASSUME TargetAssumption == MemSize \in Nat \ {0} /\ AddrInc \in {0, 1}

\* An access as the request byte encodes it: APnDP, RnW, A[3:2].
Access == [port : {"DP", "AP"}, dir : {"R", "W"}, reg : 0..3]

DRW    == 3
TAR    == 1
RDBUFF == [port |-> "DP", dir |-> "R", reg |-> 3]
ReadDRW == [port |-> "AP", dir |-> "R", reg |-> DRW]
WriteABORT == [port |-> "DP", dir |-> "W", reg |-> 0]

Registers == {"DP", "AP"} \X {0, 1, 2, 3}

TargetType(Word) ==
  [mem : [0..(MemSize - 1) -> Word], tar : 0..(MemSize - 1), reg : [Registers -> Word]]

\* The address register n accesses further on.
Ahead(t, n) == (t.tar + n * AddrInc) % MemSize

\* The register value an access reads, as if reads were not posted.
Value(t, a) ==
  IF a.port = "AP" /\ a.reg = DRW THEN t.mem[t.tar]
  ELSE IF a.port = "AP" /\ a.reg = TAR THEN t.tar
  ELSE t.reg[<<a.port, a.reg>>]

\* w & m, for the two masks that are distinguished: 0 and all ones.
Masked(w, m) == IF m = 0 THEN 0 ELSE w

\* The target after a read or a write of word w.
After(t, a, w) ==
  IF a.port = "AP" /\ a.reg = DRW
  THEN [t EXCEPT !.mem[t.tar] = IF a.dir = "W" THEN w ELSE @, !.tar = Ahead(t, 1)]
  ELSE IF a.dir = "R" THEN t
  ELSE IF a.port = "AP" /\ a.reg = TAR THEN [t EXCEPT !.tar = w % MemSize]
  ELSE [t EXCEPT !.reg[<<a.port, a.reg>>] = w]
=============================================================================
