------------------------------ MODULE SwdWire ------------------------------
(***************************************************************************)
(* The two wires of Serial Wire Debug, one step per SWCLK cycle.           *)
(*                                                                         *)
(* The host is dm.c: each call of shift_bits_out or shift_bits_in in       *)
(* dap_transfer is a phase of so many clocks, made with SWDIO driven or    *)
(* released.  The target is external: it answers a request with ACK and    *)
(* data on clocks of its own counting, and nothing but that count keeps    *)
(* the two from driving SWDIO at once.                                     *)
(*                                                                         *)
(* Bits are abstracted to what the properties tell apart: the 8 request    *)
(* bits to the direction they ask for, ACK to its 3-bit value, data to the *)
(* parity of the bits seen so far.  The line disturbs at most one bit of   *)
(* a transaction, an ACK bit or a data bit.                                *)
(***************************************************************************)
EXTENDS Integers

CONSTANTS
  ResyncClocks,  \* clocks made with SWDIO released after a bad ACK (100)
  WaitLimit,     \* WAIT answers after which a transfer is given up (8)
  MatchLimit     \* reads of a value match, WAIT answers included (64)

\* 34 = the longest a target can still be busy with a packet it has
\* acknowledged: a turnaround clock and 33 clocks of data and parity.
ASSUME WireAssumption ==
  /\ ResyncClocks \in Nat /\ ResyncClocks >= 34
  /\ WaitLimit \in Nat \ {0}
  /\ MatchLimit \in Nat \ {0}

VARIABLES
  pc,           \* phase of dap_transfer; "idle" between two commands
  left,         \* clocks left in the phase
  dir,          \* SWDIO of the host: "out" (DATA_ENABLE), "hiz" (DATA_HIZ)
  abort,        \* FLAG_WRITEABORT
  op,           \* "read" or "write": what transfer_request asks for
  ack,          \* the local ack
  parity,       \* the static parity, modulo 2
  retry_count,  \* the local retry_count
  tgt,          \* what the target is doing
  tleft,        \* clocks left in that
  tack,         \* ACK the target gives
  tparity,      \* parity of the data bits the target sent or sampled
  flips,        \* history: bits disturbed in this transaction
  lost          \* history: the last bad ACK was not followed by a resync

host   == <<pc, left, dir, abort, op, ack, parity, retry_count>>
target == <<tgt, tleft, tack, tparity>>
vars   == <<host, target, flips, lost>>

OK    == 1
WAIT  == 2
FAULT == 4

PARITY_ERROR == 8

Phases == {"idle", "request", "ack", "wait_trn", "write_trn", "write",
           "read", "read_trn", "idle_bits", "resync"}

\* Slips: a resync that does not wait for the data of a read, and one that
\* forgets the turnaround before the data of a write.
ResyncOf(n) ==
  [p \in Phases |->
     CASE p \in {"request", "idle_bits"}             -> 8
       [] p = "ack"                                  -> 4
       [] p \in {"read", "write"}                    -> 33
       [] p \in {"wait_trn", "write_trn", "read_trn"} -> 1
       [] p = "resync"                               -> n
       [] p = "idle"                                 -> 0]
ClocksOfAByte == ResyncOf(8)
ClocksOfData  == ResyncOf(33)

\* The clocks of each phase, 4 x 8 data bits and their parity bit taken
\* together (out_count = 33, or four shift_bits_in(8) and one of 1).
Clocks ==
  [p \in Phases |->
     CASE p \in {"request", "idle_bits"}             -> 8
       [] p = "ack"                                  -> 4
       [] p \in {"read", "write"}                    -> 33
       [] p \in {"wait_trn", "write_trn", "read_trn"} -> 1
       [] p = "resync"                               -> ResyncClocks
       [] p = "idle"                                 -> 0]

Driven == {"request", "write", "idle_bits"}  \* the shift_bits_out phases

\* The next call: its DATA_ENABLE or DATA_HIZ comes before its first clock.
Enter(p) == pc' = p /\ left' = Clocks[p] /\ dir' = IF p \in Driven THEN "out" ELSE "hiz"

\* dap_transfer returns; SWDIO stays as the last call left it.
Return == pc' = "idle" /\ left' = 0 /\ UNCHANGED dir

-----------------------------------------------------------------------------
(***************************************************************************)
(* The target (external).                                                  *)
(***************************************************************************)
TargetModes == {"rest", "lockout", "request", "trn", "ack", "write_trn",
                "write", "read", "end_trn"}

TargetDrives == tgt \in {"ack", "read"}

TargetClocks ==
  [m \in TargetModes |->
     CASE m \in {"trn", "write_trn", "end_trn"} -> 1
       [] m = "ack"                             -> 3
       [] m \in {"read", "write"}               -> 33
       [] m = "request"                         -> 8
       [] m \in {"rest", "lockout"}             -> 0]

TEnter(m) == tgt' = m /\ tleft' = TargetClocks[m]
TStay     == tgt' = tgt /\ tleft' = tleft - 1

\* A target at rest takes the first of 8 driven request bits for a start bit.
\* Any other 1 it sees there fails the start, parity, stop or park check of a
\* request, after which it is deaf until a line reset; a 0 is an idle clock.
TRest ==
  \/ /\ pc = "request" /\ left = 8
     /\ tgt' = "request" /\ tleft' = 7
  \/ pc = "request" /\ left < 8 /\ TEnter("lockout")
  \/ pc \notin {"request", "idle_bits"} /\ (TEnter("rest") \/ TEnter("lockout"))
  \/ pc = "idle_bits" /\ TEnter("rest")

\* Deaf; 50 clocks of a released, pulled-up line make a line reset.
TLockout == TEnter("lockout") \/ (dir = "hiz" /\ TEnter("rest"))

\* The request is complete: the target answers on its own, or not at all.
TDecode ==
  \/ TEnter("trn") /\ tack' \in {OK, WAIT, FAULT}
  \/ TEnter("lockout") /\ UNCHANGED tack

TRequest == IF tleft > 1 THEN TStay /\ UNCHANGED tack ELSE TDecode

\* The answer: turnaround, ACK, and after OK the data phase.
TNext ==
  \/ tgt = "trn" /\ TEnter("ack")
  \/ tgt = "ack" /\ tack # OK /\ TEnter("end_trn")
  \/ tgt = "ack" /\ tack = OK /\ op = "read" /\ TEnter("read")
  \/ tgt = "ack" /\ tack = OK /\ op = "write" /\ TEnter("write_trn")
  \/ tgt = "write_trn" /\ TEnter("write")
  \/ tgt = "read" /\ TEnter("end_trn")
  \/ tgt \in {"write", "end_trn"} /\ TEnter("rest")

TAnswer == IF tleft > 1 THEN TStay ELSE TNext

\* One clock as the target sees it.  It samples or drives bit.
TargetClock(bit) ==
  /\ \/ tgt = "rest" /\ TRest /\ UNCHANGED tack
     \/ tgt = "lockout" /\ TLockout /\ UNCHANGED tack
     \/ tgt = "request" /\ TRequest
     \/ tgt \notin {"rest", "lockout", "request"} /\ TAnswer /\ UNCHANGED tack
  /\ tparity' = IF tgt \in {"read", "write"} THEN (tparity + bit) % 2
                ELSE IF tgt = "request" THEN 0 ELSE tparity

-----------------------------------------------------------------------------
(***************************************************************************)
(* The host.                                                               *)
(***************************************************************************)
Init ==
  /\ pc = "idle" /\ left = 0 /\ dir = "hiz" /\ abort = FALSE /\ op = "read"
  /\ ack = 0 /\ parity = 0 /\ retry_count = 0
  /\ tgt = "rest" /\ tleft = 0 /\ tack = OK /\ tparity = 0
  /\ flips = 0 /\ lost = FALSE

\* DAP_Connect and DAP_Disconnect: the drivers are enabled or released.
Connect ==
  /\ pc = "idle"
  /\ dir' = "out"
  /\ UNCHANGED <<pc, left, abort, op, ack, parity, retry_count, target, flips, lost>>

Disconnect ==
  /\ pc = "idle"
  /\ dir' = "hiz"
  /\ UNCHANGED <<pc, left, abort, op, ack, parity, retry_count, target, flips, lost>>

\* DAP_SWJ_Sequence with the line reset a debugger sends (at least 84 ones):
\* the ones end whatever packet the target still waits for and reset it.
LineReset ==
  /\ pc = "idle"
  /\ dir' = "out"
  /\ TEnter("rest")
  /\ lost' = FALSE
  /\ UNCHANGED <<pc, left, abort, op, ack, parity, retry_count, tack, tparity, flips>>

\* DAP_Transfer, DAP_TransferBlock or DAP_WriteABORT up to start_of_request.
Command ==
  /\ pc = "idle"
  /\ abort' \in BOOLEAN
  /\ op' \in (IF abort' THEN {"write"} ELSE {"read", "write"})
  /\ retry_count' = 0
  /\ flips' = 0
  /\ Enter("request")
  /\ UNCHANGED <<ack, parity, target, lost>>

\* A clock in the middle of a phase, or the last of one that has no decision.
NextPhase == [request |-> "ack", write_trn |-> "write", write |-> "idle_bits",
              read_trn |-> "idle_bits"]

Advance ==
  IF left > 1 THEN left' = left - 1 /\ UNCHANGED <<pc, dir>>
              ELSE Enter(NextPhase[pc])

\* Clocks whose bits carry no data: request, turnarounds, idle, resync.
PlainClock ==
  /\ pc \in {"request", "write_trn", "read_trn"}
  /\ parity' = IF pc = "write_trn" THEN 0 ELSE parity
  /\ Advance
  /\ TargetClock(0)
  /\ UNCHANGED <<abort, op, ack, retry_count, flips, lost>>

\* One bit of data or parity, sent by the one side and seen by the other:
\* the 33rd is the sender's parity bit.
Disturb == IF flips = 0 THEN {0, 1} ELSE {0}

WriteClock ==
  /\ pc = "write"
  /\ \E bit \in (IF left = 1 THEN {parity % 2} ELSE {0, 1}), noise \in Disturb :
       /\ parity' = (parity + bit) % 2
       /\ flips' = flips + noise
       /\ TargetClock((bit + noise) % 2)
  /\ Advance
  /\ UNCHANGED <<abort, op, ack, retry_count, lost>>

\* A released line that nobody drives reads as 1 (pull-up).
ReadClock ==
  /\ pc = "read"
  /\ \E bit \in (IF tgt # "read" THEN {1}
                 ELSE IF tleft = 1 THEN {tparity % 2} ELSE {0, 1}),
        noise \in (IF tgt = "read" THEN Disturb ELSE {0}) :
       /\ parity' = (parity + bit + noise) % 2
       /\ flips' = flips + noise
       /\ TargetClock(bit)
  /\ IF left > 1
     THEN left' = left - 1 /\ UNCHANGED <<pc, dir, ack>>
     ELSE /\ Enter("read_trn")
          /\ ack' = IF parity' = 1 THEN PARITY_ERROR ELSE ack
  /\ UNCHANGED <<abort, op, retry_count, lost>>

\* The ACK values a host may see when the target gives a: at most one bit off.
Seen(a) == {a} \cup (IF flips = 0 THEN CASE a = OK    -> {0, 3, 5}
                                         [] a = WAIT  -> {0, 3, 6}
                                         [] a = FAULT -> {0, 5, 6}
                     ELSE {})

\* The decision on ACK, in the code's order: WAIT, ...  (Slip: asked again
\* without the turnaround.)
DecideWaitAtOnce ==
  /\ ack' = WAIT
  /\ retry_count' = retry_count + 1
  /\ Enter("request")
  /\ UNCHANGED <<parity, lost>>

DecideWait ==
  /\ ack' = WAIT
  /\ retry_count' = retry_count + 1
  /\ Enter("wait_trn")
  /\ UNCHANGED <<parity, lost>>

\* ... then anything but OK, ...  (Slip: every command leaves without the
\* resync, as DAP_WriteABORT does.)
DecideBadNoResync ==
  /\ ack' \notin {OK, WAIT}
  /\ Return /\ lost' = TRUE
  /\ UNCHANGED <<parity, retry_count>>

DecideBad ==
  /\ ack' \notin {OK, WAIT}
  /\ IF abort THEN Return /\ lost' = TRUE
              ELSE Enter("resync") /\ UNCHANGED lost
  /\ UNCHANGED <<parity, retry_count>>

\* ... then the data.  (Slips: a write that takes no turnaround, a read that
\* counts on from the parity of the transfer before.)
DecideWriteAtOnce ==
  /\ ack' = OK
  /\ Enter(op)
  /\ parity' = 0
  /\ UNCHANGED <<retry_count, lost>>

DecideStaleParity ==
  /\ ack' = OK
  /\ Enter(IF op = "read" THEN "read" ELSE "write_trn")
  /\ UNCHANGED <<parity, retry_count, lost>>

DecideOk ==
  /\ ack' = OK
  /\ Enter(IF op = "read" THEN "read" ELSE "write_trn")
  /\ parity' = 0
  /\ UNCHANGED <<retry_count, lost>>

Decide == DecideWait \/ DecideBad \/ DecideOk

AckClock ==
  /\ pc = "ack"
  /\ IF left > 1
     THEN /\ left' = left - 1
          /\ UNCHANGED <<pc, dir, ack, parity, retry_count, flips, lost>>
     ELSE /\ ack' \in (IF tgt = "ack" THEN Seen(tack) ELSE {7})
          /\ flips' = IF tgt = "ack" /\ ack' # tack THEN 1 ELSE flips
          /\ Decide
  /\ TargetClock(0)
  /\ UNCHANGED <<abort, op>>

\* The turnaround after WAIT, then the next attempt unless it was the last.
WaitClock ==
  /\ pc = "wait_trn"
  /\ IF retry_count < WaitLimit THEN Enter("request") /\ flips' = 0
                                ELSE Return /\ UNCHANGED flips
  /\ TargetClock(0)
  /\ UNCHANGED <<abort, op, ack, parity, retry_count, lost>>

\* After the 8 idle bits: the second phase of a pipelined read, another read
\* of a value match, the next transfer of the command, or the end of it.
Again ==
  \/ /\ op = "read"
     /\ retry_count' = retry_count
  \/ /\ op = "read" /\ retry_count + 1 < MatchLimit
     /\ retry_count' = retry_count + 1
  \/ ack = OK /\ retry_count' = 0

IdleClock ==
  /\ pc = "idle_bits"
  /\ \/ /\ left > 1
        /\ left' = left - 1
        /\ UNCHANGED <<pc, dir, op, retry_count, flips>>
     \/ /\ left = 1 /\ ~abort
        /\ Again
        /\ op' \in (IF retry_count' = 0 /\ ack = OK THEN {"read", "write"} ELSE {"read"})
        /\ flips' = 0
        /\ Enter("request")
     \/ left = 1 /\ Return /\ UNCHANGED <<op, retry_count, flips>>
  /\ TargetClock(0)
  /\ UNCHANGED <<abort, ack, parity, lost>>

ResyncClock ==
  /\ pc = "resync"
  /\ IF left > 1 THEN left' = left - 1 /\ UNCHANGED <<pc, dir, lost>>
                 ELSE Return /\ lost' = FALSE
  /\ TargetClock(0)
  /\ UNCHANGED <<abort, op, ack, parity, retry_count, flips>>

Transfer == PlainClock \/ WriteClock \/ ReadClock \/ AckClock \/ WaitClock
              \/ IdleClock \/ ResyncClock

Next == Connect \/ Disconnect \/ LineReset \/ Command \/ Transfer

Spec == Init /\ [][Next]_vars

-----------------------------------------------------------------------------
TypeOK ==
  /\ pc \in Phases /\ left \in 0..Clocks[pc] /\ dir \in {"out", "hiz"}
  /\ abort \in BOOLEAN /\ op \in {"read", "write"}
  /\ ack \in 0..8 /\ parity \in {0, 1} /\ retry_count \in Nat
  /\ tgt \in TargetModes /\ tleft \in 0..TargetClocks[tgt]
  /\ tack \in {OK, WAIT, FAULT} /\ tparity \in {0, 1}
  /\ flips \in {0, 1} /\ lost \in BOOLEAN

\* SWDIO is never driven from both ends, whatever the target answers and
\* whichever ACK bit the line disturbs: the host turns the line round
\* exactly when the target does, and after a bad ACK stays off it.
NoContention == ~(dir = "out" /\ TargetDrives)

\* Host and target are on the same bit of every data phase: dap_transfer
\* reads data only from a target that is sending that bit, and sends data
\* only to a target that is sampling it, parity bit and retries included.
InStep ==
  /\ pc = "read"  => tgt = "read" /\ tleft = left
  /\ pc = "write" => tgt = "write" /\ tleft = left

BetweenPackets == tgt \in {"rest", "lockout"}

\* Not driving, and not about to: between packets, or left waiting for data
\* by a DAP_WriteABORT whose ACK was bad.
Quiet == BetweenPackets \/ (lost /\ tgt \in {"write_trn", "write", "end_trn"})

\* A request, and the end of a command, find the target between two packets,
\* not in the middle of one: the resync after a bad ACK waits it out.  The
\* one exit without a resync is that of DAP_WriteABORT (lost): it leaves a
\* target that at worst waits for data and never drives, and the next command
\* of any other kind ends, well or not, with the target between packets.
TargetBetweenPackets ==
  /\ pc = "idle" \/ (pc = "request" /\ left = 8) => Quiet
  /\ pc = "idle" /\ ~abort => BetweenPackets

\* A disturbed data bit is never taken for data: the host sees it in what it
\* reads (ack becomes 8), and the target in what the host writes; and an
\* undisturbed transfer passes both checks.
ParityCatchesFlip ==
  /\ pc = "read_trn" => (ack = OK <=> flips = 0)
  /\ pc = "idle_bits" /\ left = 8 /\ op = "write" => tparity = flips

-----------------------------------------------------------------------------
(***************************************************************************)
(* The transactions these clocks make up.                                  *)
(***************************************************************************)
Stage ==
  CASE pc = "idle"                           -> "none"
    [] pc \in {"request", "ack"}             -> "asking"
    [] pc \in {"write_trn", "write", "read"} -> "data"
    [] pc \in {"read_trn", "idle_bits"}      -> "closing"
    [] pc = "wait_trn"                       -> "waited"
    [] pc = "resync"                         -> "resync"

Peer ==
  CASE tgt \in {"rest", "lockout"}            -> "between"
    [] tgt \in {"request", "trn", "ack"}      -> "answering"
    [] tgt \in {"write_trn", "write", "read"} -> "data"
    [] tgt = "end_trn"                        -> "ending"

\* Data read are taken if ack stays OK, data written if the parity the target
\* has counted is even.
Taken == IF op = "read" THEN ack = OK ELSE tparity = 0

Outcome == IF Stage = "closing" THEN IF Taken THEN "taken" ELSE "refused" ELSE "none"

Transaction == INSTANCE SwdTransaction WITH
  stage <- Stage, peer <- Peer, spoiled <- (flips = 1), outcome <- Outcome

\* The clocks add up to transactions: a request, its ACK, and the data or the
\* retry or the resync that goes with it, each begun with the target between
\* packets, and data taken only when no bit of them was disturbed.
WireContract == Transaction!Spec

-----------------------------------------------------------------------------
\* The rest of the packet the target is in ends within what is left of the
\* resync: 34 clocks of a write, the data and the turnaround of a read.
EndsInTime ==
  /\ tgt = "write_trn" => left >= 34
  /\ tgt = "read"      => left > tleft /\ op = "read"
  /\ tgt \in {"write", "end_trn"} => left >= tleft

With(m) == tgt = m /\ tleft = left

\* Where the target is in each phase of the host.
Lockstep ==
  /\ pc = "idle"      => left = 0 /\ Quiet /\ (~abort => BetweenPackets)
  /\ pc = "request"   => left \in 1..8 /\ (Quiet \/ (left < 8 /\ With("request")))
  /\ pc = "ack"       => left \in 1..4 /\ (Quiet \/ (IF left = 4 THEN tgt = "trn" /\ tleft = 1
                                                              ELSE With("ack")))
  /\ pc = "write_trn" => left = 1 /\ With("write_trn") /\ op = "write"
  /\ pc = "write"     => left \in 1..33 /\ With("write") /\ op = "write"
  /\ pc = "read"      => left \in 1..33 /\ With("read") /\ op = "read"
  /\ pc \in {"wait_trn", "read_trn"} => left = 1 /\ With("end_trn")
  /\ pc = "read_trn" => op = "read"
  /\ pc = "idle_bits" => left \in 1..8 /\ tgt = "rest"
  /\ pc = "resync"    => left \in 1..ResyncClocks /\ EndsInTime
                          /\ tgt \notin {"request", "trn", "ack"}

\* How far the two ends agree on the parity of the data so far.
ParityRelation ==
  /\ pc \in {"request", "ack", "write_trn"} => flips = 0
  /\ pc = "ack" /\ tgt \in {"trn", "ack"} => tparity = 0
  /\ pc = "write_trn" => ack = OK /\ tparity = 0
  /\ pc \in {"read", "write"} => ack = OK /\ parity = (tparity + flips) % 2

\* What the steps preserve: the safety properties follow from the phase the
\* target is in and the direction SWDIO has in each phase of the host.
WireInv ==
  /\ TypeOK
  /\ Lockstep
  /\ ParityRelation
  /\ pc # "idle" => dir = IF pc \in Driven THEN "out" ELSE "hiz"
  /\ abort => op = "write"
  /\ tgt \in {"trn", "write_trn", "end_trn"} => tleft = 1
  /\ tgt \notin {"rest", "lockout"} => tleft >= 1
  /\ ParityCatchesFlip
=============================================================================
