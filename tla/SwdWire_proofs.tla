--------------------------- MODULE SwdWire_proofs ---------------------------
(***************************************************************************)
(* WireInv is inductive, for every length of the resync and every retry    *)
(* limit WireAssumption admits; the wire's safety properties follow, and   *)
(* so does the contract of SwdTransaction, clock by clock.                 *)
(***************************************************************************)
EXTENDS SwdWire, TLAPS

\* The tables of phase lengths, one equation per entry.
LEMMA ClockTable ==
  /\ Clocks["request"] = 8 /\ Clocks["idle_bits"] = 8 /\ Clocks["ack"] = 4
  /\ Clocks["read"] = 33 /\ Clocks["write"] = 33 /\ Clocks["wait_trn"] = 1
  /\ Clocks["write_trn"] = 1 /\ Clocks["read_trn"] = 1
  /\ Clocks["resync"] = ResyncClocks /\ Clocks["idle"] = 0
  /\ \A p \in Phases : Clocks[p] \in Nat
BY WireAssumption DEF Clocks, Phases

\* The same for the packets of the target.
LEMMA TargetClockTable ==
  /\ TargetClocks["trn"] = 1 /\ TargetClocks["write_trn"] = 1
  /\ TargetClocks["end_trn"] = 1 /\ TargetClocks["ack"] = 3
  /\ TargetClocks["read"] = 33 /\ TargetClocks["write"] = 33
  /\ TargetClocks["request"] = 8 /\ TargetClocks["rest"] = 0
  /\ TargetClocks["lockout"] = 0
  /\ \A m \in TargetModes : TargetClocks[m] \in Nat
BY DEF TargetClocks, TargetModes

\* The phases that follow without a decision.
LEMMA NextPhaseTable ==
  /\ NextPhase["request"] = "ack" /\ NextPhase["write_trn"] = "write"
  /\ NextPhase["write"] = "idle_bits" /\ NextPhase["read_trn"] = "idle_bits"
BY DEF NextPhase

\* One clock of the target keeps its part of the types.
LEMMA TargetClockType ==
  ASSUME TypeOK, NEW bit \in {0, 1}, TargetClock(bit)
  PROVE  /\ tgt' \in TargetModes /\ tleft' \in 0..TargetClocks[tgt']
         /\ tack' \in {OK, WAIT, FAULT} /\ tparity' \in {0, 1}
<1>1. CASE tgt = "rest"
  BY <1>1, TargetClockTable DEF TypeOK, TargetClock, TRest, TEnter, TargetModes, OK, WAIT, FAULT
<1>2. CASE tgt = "lockout"
  BY <1>2, TargetClockTable DEF TypeOK, TargetClock, TLockout, TEnter, TargetModes, OK, WAIT, FAULT
<1>3. CASE tgt = "request"
  BY <1>3, TargetClockTable DEF TypeOK, TargetClock, TRequest, TDecode, TStay, TEnter, TargetModes, OK, WAIT, FAULT
<1>4. CASE tgt \notin {"rest", "lockout", "request"}
  BY <1>4, TargetClockTable DEF TypeOK, TargetClock, TAnswer, TNext, TStay, TEnter, TargetModes, OK, WAIT, FAULT
<1> QED BY <1>1, <1>2, <1>3, <1>4

\* The initial state: nothing on the wire.
LEMMA InitWireInv == Init => WireInv
<1> SUFFICES ASSUME Init PROVE WireInv
  OBVIOUS
<1> USE ClockTable, TargetClockTable DEF Init
<1>0. abort \in BOOLEAN /\ lost \in BOOLEAN
  BY Zenon
<1>1. TypeOK
  BY <1>0 DEF TypeOK, Phases, TargetModes, OK, WAIT, FAULT
<1>2. Lockstep /\ ParityRelation /\ ParityCatchesFlip
  BY DEF Lockstep, ParityRelation, ParityCatchesFlip, Quiet, BetweenPackets
<1> QED BY <1>1, <1>2 DEF WireInv

\* A clock of a request or a turnaround preserves WireInv: the target, asked,
\* starts its answer on the clock after the request.
LEMMA PlainClockInv == WireInv /\ PlainClock => WireInv'
<1> SUFFICES ASSUME WireInv, PlainClock PROVE WireInv'
  OBVIOUS
<1> USE ClockTable, TargetClockTable, NextPhaseTable, WireAssumption
<1>1. TypeOK'
  BY TargetClockType DEF WireInv, TypeOK, PlainClock, Advance, Enter, Phases, Driven
<1>2. CASE pc = "request"
  BY <1>1, <1>2 DEF WireInv, TypeOK, PlainClock, Advance, Enter, Driven, Lockstep, ParityRelation,
     ParityCatchesFlip, Quiet, BetweenPackets, With,
     TargetClock, TRest, TLockout, TRequest, TDecode,
     TAnswer, TNext, TEnter, TStay
<1>3. CASE pc = "write_trn"
  BY <1>1, <1>3 DEF WireInv, TypeOK, PlainClock, Advance, Enter, Driven, Lockstep, ParityRelation,
     ParityCatchesFlip, Quiet, BetweenPackets, With,
     TargetClock, TRest, TLockout, TRequest, TDecode,
     TAnswer, TNext, TEnter, TStay
<1>4. CASE pc = "read_trn"
  BY <1>1, <1>4 DEF WireInv, TypeOK, PlainClock, Advance, Enter, Driven, Lockstep, ParityRelation,
     ParityCatchesFlip, Quiet, BetweenPackets, With,
     TargetClock, TRest, TLockout, TRequest, TDecode,
     TAnswer, TNext, TEnter, TStay
<1> QED BY <1>2, <1>3, <1>4 DEF PlainClock

\* So does a bit the host writes: both parities count it, and the one of the
\* target the disturbance as well.
LEMMA WriteClockInv == WireInv /\ WriteClock => WireInv'
<1> SUFFICES ASSUME WireInv, WriteClock PROVE WireInv'
  OBVIOUS
<1> USE ClockTable, TargetClockTable, NextPhaseTable, WireAssumption
<1>1. PICK bit \in (IF left = 1 THEN {parity % 2} ELSE {0, 1}), noise \in Disturb :
        /\ parity' = (parity + bit) % 2
        /\ flips' = flips + noise
        /\ TargetClock((bit + noise) % 2)
  BY DEF WriteClock
<1>2. bit \in {0, 1} /\ noise \in {0, 1} /\ flips + noise \in {0, 1}
      /\ (bit + noise) % 2 \in {0, 1}
  BY <1>1 DEF WireInv, TypeOK, Disturb
<1>3. TypeOK'
  BY <1>1, <1>2, TargetClockType DEF WireInv, TypeOK, WriteClock, Advance, Enter, Phases, Driven
<1>4. tparity' = (parity' + flips') % 2
  BY <1>1, <1>2 DEF WireInv, TypeOK, WriteClock, Lockstep, With, ParityRelation, TargetClock
<1>5. left = 1 => parity' = 0
  BY <1>1 DEF WireInv, TypeOK, WriteClock
<1> QED
  BY <1>1, <1>2, <1>3, <1>4, <1>5 DEF WireInv, TypeOK, WriteClock, Advance, Enter, Driven, Lockstep, ParityRelation,
     ParityCatchesFlip, Quiet, BetweenPackets, With,
     TargetClock, TAnswer, TNext, TEnter, TStay

\* So does a bit the host reads, the last of which decides the ack.
LEMMA ReadClockInv == WireInv /\ ReadClock => WireInv'
<1> SUFFICES ASSUME WireInv, ReadClock PROVE WireInv'
  OBVIOUS
<1> USE ClockTable, TargetClockTable, NextPhaseTable, WireAssumption
<1>0. tgt = "read" /\ tleft = left /\ left \in 1..33 /\ op = "read" /\ ack = OK
      /\ parity = (tparity + flips) % 2
  BY DEF WireInv, ReadClock, Lockstep, ParityRelation, With
<1>1. PICK bit \in (IF tleft = 1 THEN {tparity % 2} ELSE {0, 1}), noise \in Disturb :
        /\ parity' = (parity + bit + noise) % 2
        /\ flips' = flips + noise
        /\ TargetClock(bit)
  BY <1>0 DEF ReadClock
<1>2. bit \in {0, 1} /\ noise \in {0, 1} /\ flips + noise \in {0, 1}
  BY <1>1 DEF WireInv, TypeOK, Disturb
<1>3. TypeOK'
  BY <1>0, <1>1, <1>2, TargetClockType
     DEF WireInv, TypeOK, ReadClock, Enter, Phases, Driven, PARITY_ERROR
<1>4. tparity' = (tparity + bit) % 2
  BY <1>0, <1>1 DEF TargetClock
<1>5. parity' = (tparity' + flips') % 2
  BY <1>0, <1>1, <1>2, <1>4 DEF WireInv, TypeOK
<1>6. left = 1 => tparity' = 0
  BY <1>0, <1>1, <1>4 DEF WireInv, TypeOK
<1> QED
  BY <1>0, <1>1, <1>2, <1>3, <1>5, <1>6
  DEF WireInv, TypeOK, ReadClock, Enter, Driven, Lockstep, ParityRelation,
     ParityCatchesFlip, With, OK, PARITY_ERROR, TargetClock, TAnswer, TNext, TEnter, TStay

\* So does a bit of the ACK; after the last, each decision of dap_transfer
\* meets the target in the phase that goes with it.
LEMMA AckClockInv == WireInv /\ AckClock => WireInv'
<1> SUFFICES ASSUME WireInv, AckClock PROVE WireInv'
  OBVIOUS
<1> USE ClockTable, TargetClockTable, WireAssumption
<1>1. CASE left > 1
  <2>1. TypeOK'
    BY <1>1, TargetClockType DEF WireInv, TypeOK, AckClock
  <2> QED
    BY <1>1, <2>1 DEF WireInv, TypeOK, AckClock, Enter, Driven, Lockstep, ParityRelation,
     ParityCatchesFlip, Quiet, BetweenPackets, With,
     TargetClock, TRest, TLockout, TRequest, TDecode,
     TAnswer, TNext, TEnter, TStay
<1>2. CASE left = 1
  <2>1. ack' \in 0..7 /\ flips' \in {0, 1}
        /\ (ack' \in {OK, WAIT} => tgt = "ack" /\ tack = ack' /\ flips' = 0)
    BY <1>2 DEF WireInv, TypeOK, AckClock, Seen, ParityRelation, OK, WAIT, FAULT
  <2>2. lost \in BOOLEAN /\ abort \in BOOLEAN /\ abort' = abort
        /\ (lost' = lost \/ (lost' = TRUE /\ ack' \notin {OK, WAIT} /\ abort))
        /\ (ack' \notin {OK, WAIT} /\ abort => lost' = TRUE)
    BY <1>2 DEF WireInv, TypeOK, AckClock, Decide, DecideWait, DecideBad, DecideOk
  <2>3. lost' \in BOOLEAN /\ abort' \in BOOLEAN /\ (ack' \notin {OK, WAIT} /\ abort => lost')
    BY <2>2, Zenon
  <2>4. TypeOK'
    BY <1>2, <2>3, <2>1, TargetClockType
    DEF WireInv, TypeOK, AckClock, Decide, DecideWait, DecideBad, DecideOk, Enter, Return, Phases, Driven, OK, WAIT
  <2>5. CASE ack' = WAIT
    BY <1>2, <2>1, <2>4, <2>5 DEF WireInv, TypeOK, AckClock, Decide, DecideWait, DecideBad, DecideOk, OK, WAIT, Enter, Driven, Lockstep, ParityRelation,
     ParityCatchesFlip, Quiet, BetweenPackets, With,
     TargetClock, TRest, TLockout, TRequest, TDecode,
     TAnswer, TNext, TEnter, TStay
  <2>6. CASE ack' = OK
    BY <1>2, <2>1, <2>4, <2>6 DEF WireInv, TypeOK, AckClock, Decide, DecideWait, DecideBad, DecideOk, OK, WAIT, Enter, Driven, Lockstep, ParityRelation,
     ParityCatchesFlip, Quiet, BetweenPackets, With,
     TargetClock, TRest, TLockout, TRequest, TDecode,
     TAnswer, TNext, TEnter, TStay
  <2>7. CASE ack' \notin {OK, WAIT} /\ ~abort
    <3>1. pc' = "resync" /\ left' = ResyncClocks /\ dir' = "hiz" /\ abort' = abort
      BY <1>2, <2>7 DEF AckClock, Decide, DecideWait, DecideBad, DecideOk, Enter, Driven
    <3>2. /\ tgt' \in {"rest", "lockout", "write_trn", "write", "end_trn", "read"}
          /\ tgt' \in {"trn", "write_trn", "end_trn"} => tleft' = 1
          /\ tgt' \notin {"rest", "lockout"} => tleft' >= 1
          /\ tleft' \in 0..33
          /\ tgt' = "read" => op' = "read"
      BY <1>2, <2>7, <3>1 DEF WireInv, TypeOK, AckClock, Lockstep, Quiet, BetweenPackets, With,
       TargetClock, TRest, TLockout, TRequest, TDecode,
       TAnswer, TNext, TEnter, TStay
    <3>3. EndsInTime'
      BY <3>1, <3>2 DEF EndsInTime
    <3> QED
      BY <2>4, <2>7, <3>1, <3>2, <3>3
      DEF WireInv, Lockstep, ParityRelation, ParityCatchesFlip, Driven
  <2>8. CASE ack' \notin {OK, WAIT} /\ abort
    <3>1. pc' = "idle" /\ left' = 0 /\ op' = op /\ op = "write"
      BY <1>2, <2>8 DEF WireInv, AckClock, Decide, DecideWait, DecideBad, DecideOk, Return
    <3>2. /\ tgt' \in {"rest", "lockout", "write_trn", "write", "end_trn"}
          /\ tgt' \in {"trn", "write_trn", "end_trn"} => tleft' = 1
          /\ tgt' \notin {"rest", "lockout"} => tleft' >= 1
      BY <1>2, <2>8, <3>1 DEF WireInv, TypeOK, AckClock, Lockstep, Quiet, BetweenPackets, With,
       TargetClock, TRest, TLockout, TRequest, TDecode,
       TAnswer, TNext, TEnter, TStay
    <3>3. lost' /\ abort'
      BY <2>2, <2>3, <2>8, Zenon
    <3> QED
      BY <2>4, <3>1, <3>2, <3>3
      DEF WireInv, Lockstep, ParityRelation, ParityCatchesFlip, Quiet, BetweenPackets
  <2> QED BY <2>5, <2>6, <2>7, <2>8
<1> QED BY <1>1, <1>2 DEF WireInv, AckClock, Lockstep

\* So does the turnaround after WAIT, which ends the target's packet.
LEMMA WaitClockInv == WireInv /\ WaitClock => WireInv'
<1> SUFFICES ASSUME WireInv, WaitClock PROVE WireInv'
  OBVIOUS
<1> USE ClockTable, TargetClockTable, WireAssumption
<1>1. TypeOK'
  BY TargetClockType DEF WireInv, TypeOK, WaitClock, Enter, Return, Phases, Driven
<1>2. tgt' = "rest"
  BY DEF WireInv, WaitClock, Lockstep, With, TargetClock, TAnswer, TNext, TEnter
<1>3. CASE Enter("request") /\ flips' = 0
  BY <1>1, <1>2, <1>3 DEF WireInv, WaitClock, Enter, Driven, Lockstep, ParityRelation,
     ParityCatchesFlip, Quiet, BetweenPackets
<1>4. CASE Return
  BY <1>1, <1>2, <1>4 DEF WireInv, WaitClock, Return, Lockstep, ParityRelation,
     ParityCatchesFlip, Quiet, BetweenPackets
<1> QED BY <1>3, <1>4 DEF WaitClock

\* So does an idle bit: the target stays at rest until the next request.
LEMMA IdleClockInv == WireInv /\ IdleClock => WireInv'
<1> SUFFICES ASSUME WireInv, IdleClock PROVE WireInv'
  OBVIOUS
<1> USE ClockTable, TargetClockTable, WireAssumption
<1>1. TypeOK'
  BY TargetClockType DEF WireInv, TypeOK, IdleClock, Again, Enter, Return, Phases, Driven
<1>2. tgt = "rest" /\ tgt' = "rest"
  BY DEF WireInv, IdleClock, Lockstep, TargetClock, TRest, TEnter
<1>3. left \in 1..8
  BY DEF WireInv, IdleClock, Lockstep
<1>4. CASE left > 1
  <2>1. /\ pc = "idle_bits" /\ pc' = pc /\ left' = left - 1 /\ dir' = dir
        /\ op' = op /\ abort' = abort /\ left' \in 1..7
    BY <1>3, <1>4 DEF IdleClock
  <2>2. dir = "out" /\ (abort => op = "write")
    BY <2>1 DEF WireInv, Driven
  <2> QED
    BY <1>1, <1>2, <2>1, <2>2
    DEF WireInv, Driven, Lockstep, ParityRelation, ParityCatchesFlip
<1>5. CASE left = 1 /\ Return
  BY <1>1, <1>2, <1>5 DEF WireInv, TypeOK, IdleClock, Return, Lockstep, ParityRelation,
     ParityCatchesFlip, Quiet, BetweenPackets
<1>6. CASE left = 1 /\ ~abort /\ Enter("request") /\ flips' = 0
  BY <1>1, <1>2, <1>6 DEF WireInv, TypeOK, IdleClock, Enter, Driven, Lockstep, ParityRelation,
     ParityCatchesFlip, Quiet, BetweenPackets
<1> QED BY <1>3, <1>4, <1>5, <1>6 DEF IdleClock

\* So does a clock of the resync: the rest of a packet gets shorter by one
\* clock with the resync itself, and is over with it.
LEMMA ResyncClockInv == WireInv /\ ResyncClock => WireInv'
<1> SUFFICES ASSUME WireInv, ResyncClock PROVE WireInv'
  OBVIOUS
<1> USE ClockTable, TargetClockTable, WireAssumption
<1>1. lost' \in BOOLEAN
  BY Zenon DEF WireInv, TypeOK, ResyncClock
<1>2. TypeOK'
  BY <1>1, TargetClockType DEF WireInv, TypeOK, ResyncClock, Return, Phases
<1>3. /\ tgt \notin {"request", "trn", "ack"} /\ tgt \in TargetModes
      /\ left \in 1..ResyncClocks /\ EndsInTime /\ tleft \in Nat
      /\ tgt \in {"trn", "write_trn", "end_trn"} => tleft = 1
      /\ tgt \notin {"rest", "lockout"} => tleft >= 1
      /\ pc = "resync" /\ TargetClock(0) /\ op' = op
  BY DEF WireInv, TypeOK, ResyncClock, Lockstep
<1>4. /\ left > 1 => (tgt' = "write_trn" => left > 34) /\ (tgt' = "read" => left - 1 > tleft' /\ op' = "read")
                     /\ (tgt' \in {"write", "end_trn"} => left - 1 >= tleft')
      /\ left = 1 => tgt' \in {"rest", "lockout"}
      /\ tgt' \notin {"request", "trn", "ack"}
      /\ tgt' \in {"write_trn", "end_trn"} => tleft' = 1
      /\ tgt' \notin {"rest", "lockout"} => tleft' >= 1
  <2>1. CASE tgt \in {"rest", "lockout"}
    BY <1>3, <2>1 DEF EndsInTime, TargetClock, TRest, TLockout, TEnter
  <2>2. CASE tgt = "read"
    BY <1>3, <2>2 DEF EndsInTime, TargetClock, TAnswer, TNext, TEnter, TStay
  <2>3. CASE tgt \in {"write_trn", "write", "end_trn"}
    BY <1>3, <2>3 DEF EndsInTime, TargetClock, TAnswer, TNext, TEnter, TStay
  <2> QED BY <1>3, <2>1, <2>2, <2>3 DEF TargetModes
<1>5. CASE left > 1
  BY <1>2, <1>4, <1>5 DEF WireInv, TypeOK, ResyncClock, EndsInTime, Lockstep, ParityRelation, ParityCatchesFlip
<1>6. CASE left = 1
  BY <1>2, <1>4, <1>6 DEF WireInv, ResyncClock, Return, Lockstep, ParityRelation,
     ParityCatchesFlip, Quiet, BetweenPackets
<1> QED BY <1>5, <1>6 DEF WireInv, ResyncClock, Lockstep

\* The actions between two commands leave the wire as it is, a line reset
\* brings the target to rest, and a command starts its first request.
LEMMA BetweenCommandsInv ==
  WireInv /\ (Connect \/ Disconnect \/ LineReset \/ Command) => WireInv'
<1> SUFFICES ASSUME WireInv, Connect \/ Disconnect \/ LineReset \/ Command PROVE WireInv'
  OBVIOUS
<1> USE ClockTable, TargetClockTable, WireAssumption
<1>1. CASE Connect \/ Disconnect
  <2>1. UNCHANGED <<pc, left, abort, op, ack, parity, retry_count, target, flips, lost>>
        /\ pc = "idle" /\ dir' \in {"out", "hiz"}
    BY <1>1 DEF Connect, Disconnect
  <2>2. TypeOK'
    BY <2>1 DEF WireInv, TypeOK, target
  <2> QED
    BY <2>1, <2>2 DEF WireInv, Lockstep, ParityRelation, ParityCatchesFlip, Quiet, BetweenPackets, target
<1>2. CASE LineReset
  <2>1. lost' \in BOOLEAN
    BY <1>2, Zenon DEF LineReset
  <2>2. TypeOK'
    BY <1>2, <2>1 DEF WireInv, TypeOK, LineReset, TEnter, TargetModes
  <2> QED
    BY <1>2, <2>2 DEF WireInv, LineReset, TEnter, Lockstep, ParityRelation, ParityCatchesFlip, Quiet, BetweenPackets
<1>3. CASE Command
  <2>1. abort' \in BOOLEAN /\ (abort' => op' = "write") /\ op' \in {"read", "write"}
    BY <1>3 DEF Command
  <2>2. TypeOK'
    BY <1>3, <2>1 DEF WireInv, TypeOK, Command, Enter, Driven, Phases, target
  <2> QED
    BY <1>3, <2>1, <2>2
    DEF WireInv, Command, Enter, Driven, Lockstep, ParityRelation, ParityCatchesFlip, Quiet, BetweenPackets, target
<1> QED BY <1>1, <1>2, <1>3

\* WireInv depends on no variable but vars.
LEMMA StutterInv == WireInv /\ UNCHANGED vars => WireInv'
BY DEF WireInv, vars, host, target, TypeOK, Lockstep, ParityRelation, ParityCatchesFlip,
       Quiet, BetweenPackets, With, EndsInTime

\* WireInv holds in every reachable state.
THEOREM WireInvariant == Spec => []WireInv
<1>1. WireInv /\ [Next]_vars => WireInv'
  BY PlainClockInv, WriteClockInv, ReadClockInv, AckClockInv, WaitClockInv, IdleClockInv,
     ResyncClockInv, BetweenCommandsInv, StutterInv DEF Next, Transfer
<1> QED BY InitWireInv, <1>1, PTL DEF Spec

\* Every variable of the wire stays in its type.
THEOREM WireTypes == Spec => []TypeOK
<1>1. WireInv => TypeOK
  BY DEF WireInv
<1> QED BY WireInvariant, <1>1, PTL

\* No target, retry limit or resync of at least 34 clocks brings the two
\* ends to drive SWDIO at once.
THEOREM WireNoContention == Spec => []NoContention
<1>1. WireInv => NoContention
  BY DEF WireInv, TypeOK, Lockstep, NoContention, TargetDrives, Quiet, BetweenPackets, With, Driven, Phases
<1> QED BY WireInvariant, <1>1, PTL

\* Host and target are always on the same bit of a data phase.
THEOREM WireInStep == Spec => []InStep
<1>1. WireInv => InStep
  BY DEF WireInv, Lockstep, InStep, With
<1> QED BY WireInvariant, <1>1, PTL

\* Requests and command ends find the target between packets.
THEOREM WireBetweenPackets == Spec => []TargetBetweenPackets
<1>1. WireInv => TargetBetweenPackets
  BY DEF WireInv, Lockstep, TargetBetweenPackets
<1> QED BY WireInvariant, <1>1, PTL

\* One disturbed bit is always seen by the side that takes the data.
THEOREM WireParity == Spec => []ParityCatchesFlip
<1>1. WireInv => ParityCatchesFlip
  BY DEF WireInv
<1> QED BY WireInvariant, <1>1, PTL

-----------------------------------------------------------------------------
(***************************************************************************)
(* The clocks add up to the transactions of SwdTransaction.                *)
(***************************************************************************)

\* The stage of the transaction and what the peer does, phase by phase.
LEMMA StageTable ==
  /\ pc = "idle" => Stage = "none"
  /\ pc \in {"request", "ack"} => Stage = "asking"
  /\ pc \in {"write_trn", "write", "read"} => Stage = "data"
  /\ pc \in {"read_trn", "idle_bits"} => Stage = "closing"
  /\ pc = "wait_trn" => Stage = "waited"
  /\ pc = "resync" => Stage = "resync"
BY DEF Stage

\* The same of the next state: a lemma is not primed by citing it.
LEMMA StageTableNext ==
  /\ pc' = "idle" => Stage' = "none"
  /\ pc' \in {"request", "ack"} => Stage' = "asking"
  /\ pc' \in {"write_trn", "write", "read"} => Stage' = "data"
  /\ pc' \in {"read_trn", "idle_bits"} => Stage' = "closing"
  /\ pc' = "wait_trn" => Stage' = "waited"
  /\ pc' = "resync" => Stage' = "resync"
BY DEF Stage

\* What the modes of the target are to the caller.
LEMMA PeerTable ==
  /\ tgt \in {"rest", "lockout"} => Peer = "between"
  /\ tgt \in {"request", "trn", "ack"} => Peer = "answering"
  /\ tgt \in {"write_trn", "write", "read"} => Peer = "data"
  /\ tgt = "end_trn" => Peer = "ending"
BY DEF Peer

\* And in the next state.
LEMMA PeerTableNext ==
  /\ tgt' \in {"rest", "lockout"} => Peer' = "between"
  /\ tgt' \in {"request", "trn", "ack"} => Peer' = "answering"
  /\ tgt' \in {"write_trn", "write", "read"} => Peer' = "data"
  /\ tgt' = "end_trn" => Peer' = "ending"
BY DEF Peer

\* What the receiving side took the data for, by ack or by the parity the
\* target counted.
LEMMA OutcomeTable ==
  /\ Stage # "closing" => Outcome = "none"
  /\ Stage = "closing" /\ op = "read" => Outcome = IF ack = OK THEN "taken" ELSE "refused"
  /\ Stage = "closing" /\ op = "write" => Outcome = IF tparity = 0 THEN "taken" ELSE "refused"
BY DEF Outcome, Taken

\* And in the next state.
LEMMA OutcomeTableNext ==
  /\ Stage' # "closing" => Outcome' = "none"
  /\ Stage' = "closing" /\ op' = "read" => Outcome' = IF ack' = OK THEN "taken" ELSE "refused"
  /\ Stage' = "closing" /\ op' = "write" => Outcome' = IF tparity' = 0 THEN "taken" ELSE "refused"
BY DEF Outcome, Taken

\* The initial state of the wire is that of the transactions.
LEMMA InitTransaction == Init => Transaction!Init
<1> SUFFICES ASSUME Init PROVE Transaction!Init
  OBVIOUS
<1>1. Stage = "none" /\ Peer = "between" /\ Outcome = "none"
  BY StageTable, PeerTable, OutcomeTable DEF Init
<1>2. (flips = 1) = FALSE /\ abort = FALSE /\ lost = FALSE
  BY DEF Init
<1> QED BY <1>1, <1>2 DEF Init, Transaction!Init

\* What the transactions do not see.
LEMMA Unseen ==
  ASSUME Stage' = Stage, Peer' = Peer, op' = op, abort' = abort, ack' = ack,
         retry_count' = retry_count, flips' = flips, Outcome' = Outcome, lost' = lost
  PROVE  UNCHANGED Transaction!vars
BY Zenon DEF Transaction!vars, Transaction!request
\* A clock that only moves the peer on.
LEMMA OnlyPeer ==
  ASSUME Stage' = Stage, op' = op, abort' = abort, ack' = ack,
         retry_count' = retry_count, flips' = flips, Outcome' = Outcome, lost' = lost,
         Peer' = Peer \/ Transaction!PeerSteps
  PROVE  Transaction!Next \/ UNCHANGED Transaction!vars
BY Unseen, Zenon DEF Transaction!Next, Transaction!Peer, Transaction!request

\* In a request and its ACK, or a resync, the target's clock is a step of the
\* peer or none: it answers, falls silent or comes to the end of its packet.
LEMMA PeerOfRequest ==
  ASSUME WireInv, pc \in {"request", "ack"}, TargetClock(0), pc = "ack" => left > 1
  PROVE  Peer' = Peer \/ Transaction!PeerSteps
<1> USE TargetClockTable
<1>1. Stage = "asking"
  BY StageTable
<1>2. CASE tgt \in {"rest", "lockout"}
  <2>1. tgt' \in {"rest", "lockout", "request"}
    BY <1>2 DEF TargetClock, TRest, TLockout, TEnter
  <2> QED BY <1>1, <1>2, <2>1, PeerTable, PeerTableNext DEF Transaction!PeerSteps
<1>3. CASE tgt \in {"request", "trn", "ack"}
  <2>1. tgt = "ack" => tleft > 1
    BY <1>3 DEF WireInv, TypeOK, Lockstep, Quiet, BetweenPackets, With
  <2>2. tgt' \in {"request", "trn", "ack", "lockout"}
    BY <1>3, <2>1 DEF TargetClock, TRequest, TDecode, TAnswer, TNext, TEnter, TStay
  <2> QED BY <1>1, <1>3, <2>2, PeerTable, PeerTableNext DEF Transaction!PeerSteps
<1>4. CASE tgt \in {"write_trn", "write", "end_trn"}
  <2>1. tgt' = tgt \/ tgt' = "rest" \/ (tgt = "write_trn" /\ tgt' = "write")
    BY <1>4 DEF TargetClock, TAnswer, TNext, TEnter, TStay
  <2> QED BY <1>1, <1>4, <2>1, PeerTable, PeerTableNext DEF Transaction!PeerSteps
<1> QED BY <1>2, <1>3, <1>4 DEF WireInv, Lockstep, Quiet, BetweenPackets, With

\* The clocks of requests and turnarounds: the peer answers, or comes to the
\* end of a packet.
LEMMA PlainClockStep ==
  WireInv /\ PlainClock => Transaction!Next \/ UNCHANGED Transaction!vars
<1> SUFFICES ASSUME WireInv, PlainClock
    PROVE  Transaction!Next \/ UNCHANGED Transaction!vars
  OBVIOUS
<1>0. /\ pc \in {"request", "write_trn", "read_trn"} /\ TargetClock(0)
      /\ abort' = abort /\ op' = op /\ ack' = ack /\ retry_count' = retry_count
      /\ flips' = flips /\ lost' = lost
  BY DEF PlainClock
<1>1. CASE pc = "request"
  <2>1. pc' \in {"request", "ack"}
    BY <1>1, NextPhaseTable DEF PlainClock, Advance, Enter
  <2>2. Stage = "asking" /\ Stage' = "asking" /\ Outcome = "none" /\ Outcome' = "none"
    BY <1>1, <2>1, StageTable, StageTableNext, OutcomeTable, OutcomeTableNext
  <2>3. Peer' = Peer \/ Transaction!PeerSteps
    BY <1>0, <1>1, PeerOfRequest
  <2> QED BY <1>0, <2>2, <2>3, OnlyPeer, Zenon
<1>2. CASE pc = "write_trn"
  <2>1. pc' = "write" /\ tgt = "write_trn" /\ tgt' = "write"
    BY <1>0, <1>2, NextPhaseTable
    DEF WireInv, PlainClock, Advance, Enter, Lockstep, With, TargetClock, TAnswer, TNext, TEnter
  <2>2. Stage = "data" /\ Stage' = "data" /\ Outcome = "none" /\ Outcome' = "none"
        /\ Peer' = Peer
    BY <1>2, <2>1, StageTable, StageTableNext, OutcomeTable, OutcomeTableNext, PeerTable, PeerTableNext
  <2> QED BY <1>0, <2>2, OnlyPeer, Zenon
<1>3. CASE pc = "read_trn"
  <2>1. pc' = "idle_bits" /\ tgt = "end_trn" /\ tgt' = "rest" /\ op = "read"
    BY <1>0, <1>3, NextPhaseTable
    DEF WireInv, PlainClock, Advance, Enter, Lockstep, With, TargetClock, TAnswer, TNext, TEnter
  <2>2. Stage = "closing" /\ Stage' = "closing" /\ Peer = "ending" /\ Peer' = "between"
    BY <1>3, <2>1, StageTable, StageTableNext, PeerTable, PeerTableNext
  <2>3. Outcome' = Outcome
    BY <1>0, <2>1, <2>2, OutcomeTable, OutcomeTableNext
  <2>4. Transaction!PeerSteps
    BY <2>2 DEF Transaction!PeerSteps
  <2> QED BY <1>0, <2>2, <2>3, <2>4, OnlyPeer, Zenon
<1> QED BY <1>0, <1>1, <1>2, <1>3

\* A data bit: the first disturbed one spoils the data, and the last one ends
\* the data phase on both sides.
LEMMA DataStep ==
  ASSUME Stage = "data", op' = op, abort' = abort, retry_count' = retry_count,
         lost' = lost, flips \in {0, 1}, flips' \in {flips, 1},
         Outcome = "none",
         \/ Stage' = "data" /\ Peer' = Peer /\ ack' = ack /\ Outcome' = Outcome
         \/ /\ Stage' = "closing"
            /\ Outcome' = IF flips' = 1 THEN "refused" ELSE "taken"
            /\ Peer' = IF op = "read" THEN "ending" ELSE "between"
            /\ ack' = IF op = "read" /\ flips' = 1 THEN 8 ELSE ack
  PROVE  Transaction!Next \/ UNCHANGED Transaction!vars
<1>1. CASE Stage' = "data" /\ flips' = flips
  BY <1>1, Unseen
<1>2. CASE Stage' = "data" /\ flips' = 1
  <2>1. Transaction!Spoil
    BY <1>2 DEF Transaction!Spoil, Transaction!request
  <2> QED BY <2>1 DEF Transaction!Next
<1>3. CASE Stage' = "closing"
  <2>1. (flips = 1) => (flips' = 1)
    OBVIOUS
  <2>2. (flips' = 1) \in BOOLEAN
    OBVIOUS
  <2>3. Transaction!Finish
    BY <1>3, <2>1, <2>2 DEF Transaction!Finish, Transaction!request, Transaction!PARITY_ERROR
  <2> QED BY <2>3 DEF Transaction!Next
<1> QED BY <1>1, <1>2, <1>3
\* A bit written is a step of the data, which the target refuses if the
\* parity it has counted is odd: if a bit of them was disturbed.
LEMMA WriteClockStep ==
  WireInv /\ WireInv' /\ WriteClock => Transaction!Next \/ UNCHANGED Transaction!vars
<1> SUFFICES ASSUME WireInv, WireInv', WriteClock
    PROVE  Transaction!Next \/ UNCHANGED Transaction!vars
  OBVIOUS
<1>0. /\ pc = "write" /\ op = "write" /\ tgt = "write" /\ tleft = left /\ left \in 1..33
      /\ abort' = abort /\ op' = op /\ ack' = ack /\ retry_count' = retry_count /\ lost' = lost
  BY DEF WriteClock, WireInv, Lockstep, With
<1>1. flips \in {0, 1} /\ flips' \in {flips, 1}
  BY DEF WriteClock, Disturb, WireInv, TypeOK
<1>2. PICK bit : TargetClock(bit)
  BY DEF WriteClock
<1>3. Stage = "data" /\ Outcome = "none" /\ Peer = "data"
  BY <1>0, StageTable, OutcomeTable, PeerTable
<1>4. CASE left > 1
  <2>1. pc' = "write" /\ tgt' = "write"
    BY <1>0, <1>2, <1>4 DEF WriteClock, Advance, TargetClock, TAnswer, TStay
  <2>2. Stage' = "data" /\ Outcome' = "none" /\ Peer' = "data"
    BY <2>1, StageTableNext, OutcomeTableNext, PeerTableNext
  <2> QED BY <1>0, <1>1, <1>3, <2>2, DataStep
<1>5. CASE left = 1
  <2>1. pc' = "idle_bits" /\ left' = 8 /\ tgt' = "rest"
    BY <1>0, <1>2, <1>5, NextPhaseTable, ClockTable
    DEF WriteClock, Advance, Enter, TargetClock, TAnswer, TNext, TEnter
  <2>2. tparity' = flips' /\ flips' \in {0, 1}
    BY <1>0, <1>1, <2>1 DEF WireInv, ParityCatchesFlip
  <2>3. Stage' = "closing" /\ Peer' = "between"
    BY <2>1, StageTableNext, PeerTableNext
  <2>4. Outcome' = IF flips' = 1 THEN "refused" ELSE "taken"
    BY <1>0, <2>2, <2>3, OutcomeTableNext
  <2> QED BY <1>0, <1>1, <1>3, <2>3, <2>4, DataStep
<1> QED BY <1>0, <1>4, <1>5

\* A bit read likewise, refused by the host with PARITY_ERROR in ack.
LEMMA ReadClockStep ==
  WireInv /\ WireInv' /\ ReadClock => Transaction!Next \/ UNCHANGED Transaction!vars
<1> SUFFICES ASSUME WireInv, WireInv', ReadClock
    PROVE  Transaction!Next \/ UNCHANGED Transaction!vars
  OBVIOUS
<1>0. /\ pc = "read" /\ op = "read" /\ tgt = "read" /\ tleft = left /\ left \in 1..33
      /\ ack = OK
      /\ abort' = abort /\ op' = op /\ retry_count' = retry_count /\ lost' = lost
  BY DEF ReadClock, WireInv, Lockstep, ParityRelation, With
<1>1. flips \in {0, 1} /\ flips' \in {flips, 1}
  BY DEF ReadClock, Disturb, WireInv, TypeOK
<1>2. PICK bit : TargetClock(bit)
  BY DEF ReadClock
<1>3. Stage = "data" /\ Outcome = "none" /\ Peer = "data"
  BY <1>0, StageTable, OutcomeTable, PeerTable
<1>4. CASE left > 1
  <2>1. pc' = "read" /\ tgt' = "read" /\ ack' = ack
    BY <1>0, <1>2, <1>4 DEF ReadClock, TargetClock, TAnswer, TStay
  <2>2. Stage' = "data" /\ Outcome' = "none" /\ Peer' = "data"
    BY <2>1, StageTableNext, OutcomeTableNext, PeerTableNext
  <2> QED BY <1>0, <1>1, <1>3, <2>1, <2>2, DataStep
<1>5. CASE left = 1
  <2>1. pc' = "read_trn" /\ tgt' = "end_trn" /\ ack' \in {ack, 8}
    BY <1>0, <1>2, <1>5
    DEF ReadClock, Enter, TargetClock, TAnswer, TNext, TEnter, PARITY_ERROR
  <2>2. flips' \in {0, 1} /\ (ack' = OK <=> flips' = 0)
    BY <1>1, <2>1 DEF WireInv, ParityCatchesFlip
  <2>3. ack' = IF flips' = 1 THEN 8 ELSE ack
    BY <1>0, <2>1, <2>2 DEF OK
  <2>4. Stage' = "closing" /\ Peer' = "ending"
    BY <2>1, StageTableNext, PeerTableNext
  <2>5. Outcome' = IF flips' = 1 THEN "refused" ELSE "taken"
    BY <1>0, <2>2, <2>4, OutcomeTableNext
  <2> QED BY <1>0, <1>1, <1>3, <2>3, <2>4, <2>5, DataStep
<1> QED BY <1>0, <1>4, <1>5

\* The last bit of the ACK is the end of a request, in each of the three ways
\* dap_transfer has.
LEMMA AckClockStep ==
  WireInv /\ AckClock => Transaction!Next \/ UNCHANGED Transaction!vars
<1> SUFFICES ASSUME WireInv, AckClock
    PROVE  Transaction!Next \/ UNCHANGED Transaction!vars
  OBVIOUS
<1>0. /\ pc = "ack" /\ left \in 1..4 /\ flips = 0 /\ TargetClock(0)
      /\ abort' = abort /\ op' = op
  BY DEF AckClock, WireInv, Lockstep, ParityRelation
<1>a. Stage = "asking" /\ Outcome = "none"
  BY <1>0, StageTable, OutcomeTable
<1>1. CASE left > 1
  <2>1. /\ pc' = "ack" /\ ack' = ack /\ retry_count' = retry_count
        /\ flips' = flips /\ lost' = lost
    BY <1>0, <1>1 DEF AckClock
  <2>2. Stage' = "asking" /\ Outcome' = "none"
    BY <2>1, StageTableNext, OutcomeTableNext
  <2>3. Peer' = Peer \/ Transaction!PeerSteps
    BY <1>0, <1>1, PeerOfRequest
  <2> QED BY <1>0, <1>a, <2>1, <2>2, <2>3, OnlyPeer, Zenon
<1>2. CASE left = 1
  <2>1. /\ ack' \in (IF tgt = "ack" THEN Seen(tack) ELSE {7})
        /\ flips' = IF tgt = "ack" /\ ack' # tack THEN 1 ELSE flips
        /\ Decide
    BY <1>0, <1>2 DEF AckClock
  <2>2. /\ ack' \in {OK, WAIT} => tgt = "ack" /\ tack = ack' /\ flips' = 0
        /\ flips' \in {0, 1}
    BY <1>0, <2>1 DEF WireInv, TypeOK, Seen, OK, WAIT, FAULT
  <2>3. tgt = "ack" => tleft = 1
    BY <1>0, <1>2 DEF WireInv, Lockstep, Quiet, BetweenPackets, With
  <2>4. tgt' \notin {"request", "trn", "ack"} /\ tgt' \in TargetModes
    BY <1>0, <1>2, <2>3, TargetClockTable
    DEF WireInv, Lockstep, Quiet, BetweenPackets, With, TargetModes, TargetClock, TRest, TLockout, TAnswer, TNext, TEnter, TStay
  <2>5. ASSUME DecideWait
        PROVE  Transaction!Next
    <3>1. /\ ack' = WAIT /\ pc' = "wait_trn" /\ retry_count' = retry_count + 1
          /\ lost' = lost
      BY <2>5 DEF DecideWait, Enter
    <3>2. tgt = "ack" /\ tack = WAIT /\ flips' = flips
      BY <1>0, <2>2, <3>1
    <3>3. tgt' = "end_trn"
      BY <1>0, <2>3, <3>2 DEF TargetClock, TAnswer, TNext, TEnter, OK, WAIT
    <3>4. /\ Stage' = "waited" /\ Outcome' = "none"
          /\ Peer = "answering" /\ Peer' = "ending"
      BY <3>1, <3>2, <3>3, StageTableNext, OutcomeTableNext, PeerTable, PeerTableNext
    <3>5. Transaction!Postpone
      BY <1>0, <1>a, <3>1, <3>2, <3>4 DEF Transaction!Postpone, Transaction!WAIT, WAIT
    <3> QED BY <3>5 DEF Transaction!Next
  <2>6. ASSUME DecideOk
        PROVE  Transaction!Next
    <3>1. /\ ack' = OK /\ pc' = IF op = "read" THEN "read" ELSE "write_trn"
          /\ retry_count' = retry_count /\ lost' = lost
      BY <2>6 DEF DecideOk, Enter
    <3>2. tgt = "ack" /\ tack = OK /\ flips' = flips
      BY <1>0, <2>2, <3>1
    <3>3. tgt' \in {"read", "write_trn"}
      BY <1>0, <2>3, <3>2 DEF WireInv, TypeOK, TargetClock, TAnswer, TNext, TEnter
    <3>4. /\ Stage' = "data" /\ Outcome' = "none"
          /\ Peer = "answering" /\ Peer' = "data"
      BY <3>1, <3>2, <3>3, StageTableNext, OutcomeTableNext, PeerTable, PeerTableNext
    <3>5. Transaction!Accept
      BY <1>0, <1>a, <3>1, <3>2, <3>4 DEF Transaction!Accept, Transaction!request, Transaction!OK, OK
    <3> QED BY <3>5 DEF Transaction!Next
  <2>7. ASSUME DecideBad
        PROVE  Transaction!Next
    <3>1. ack' \notin {OK, WAIT} /\ retry_count' = retry_count
      BY <2>7 DEF DecideBad
    <3>2. (IF abort THEN Return /\ lost' = TRUE ELSE Enter("resync") /\ UNCHANGED lost)
      BY <2>7, Zenon DEF DecideBad
    <3>3. Return => Stage' = "none" /\ Outcome' = "none"
      BY StageTableNext, OutcomeTableNext DEF Return
    <3>4. Enter("resync") => Stage' = "resync" /\ Outcome' = "none"
      BY StageTableNext, OutcomeTableNext DEF Enter
    <3>5. Peer' # "answering"
      BY <2>4, PeerTableNext DEF TargetModes
    <3>6. Outcome' = Outcome /\ (flips' = 1) \in BOOLEAN
      BY <1>a, <3>2, <3>3, <3>4, Zenon
    <3>7. IF abort THEN Stage' = "none" /\ lost' = TRUE ELSE Stage' = "resync" /\ UNCHANGED lost
      BY <3>2, <3>3, <3>4, Zenon
    <3>8. ack' \notin {Transaction!OK, Transaction!WAIT}
      BY <3>1 DEF Transaction!OK, Transaction!WAIT, OK, WAIT
    <3>9. Transaction!GiveUp
      BY <1>0, <1>a, <3>1, <3>5, <3>6, <3>7, <3>8, Zenon DEF Transaction!GiveUp, Transaction!request
    <3> QED BY <3>9 DEF Transaction!Next
  <2> QED BY <2>1, <2>5, <2>6, <2>7 DEF Decide
<1> QED BY <1>0, <1>1, <1>2
\* The turnaround after WAIT ends the peer's packet, and another request is
\* made unless this was the last.
LEMMA WaitClockStep ==
  WireInv /\ WaitClock => Transaction!Next \/ UNCHANGED Transaction!vars
<1> SUFFICES ASSUME WireInv, WaitClock PROVE Transaction!Next
  OBVIOUS
<1>0. /\ pc = "wait_trn" /\ abort' = abort /\ op' = op /\ ack' = ack
      /\ retry_count' = retry_count /\ lost' = lost
  BY DEF WaitClock
<1>1. tgt' = "rest"
  BY DEF WireInv, WaitClock, Lockstep, With, TargetClock, TAnswer, TNext, TEnter
<1>2. Stage = "waited" /\ Outcome = "none" /\ Peer' = "between"
  BY <1>0, <1>1, StageTable, OutcomeTable, PeerTableNext
<1>3. CASE retry_count < WaitLimit
  <2>1. pc' = "request" /\ flips' = 0
    BY <1>3 DEF WaitClock, Enter
  <2>2. Stage' = "asking" /\ Outcome' = "none" /\ (flips' = 1) = FALSE
    BY <2>1, StageTableNext, OutcomeTableNext
  <2>3. Transaction!Retry
    BY <1>0, <1>2, <1>3, <2>2 DEF Transaction!Retry, Transaction!Ask, Transaction!request
  <2> QED BY <2>3 DEF Transaction!Next
<1>4. CASE ~(retry_count < WaitLimit)
  <2>1. pc' = "idle" /\ flips' = flips
    BY <1>4 DEF WaitClock, Return
  <2>2. Stage' = "none" /\ Outcome' = "none"
    BY <2>1, StageTableNext, OutcomeTableNext
  <2>3. Transaction!Retry
    BY <1>0, <1>2, <1>4, <2>1, <2>2 DEF Transaction!Retry, Transaction!request
  <2> QED BY <2>3 DEF Transaction!Next
<1> QED BY <1>3, <1>4

\* The last idle bit ends the transaction with the peer between packets: the
\* next request of the command, or the return.
LEMMA IdleClockStep ==
  WireInv /\ IdleClock => Transaction!Next \/ UNCHANGED Transaction!vars
<1> SUFFICES ASSUME WireInv, IdleClock
    PROVE  Transaction!Next \/ UNCHANGED Transaction!vars
  OBVIOUS
<1>0. /\ pc = "idle_bits" /\ TargetClock(0) /\ tgt = "rest" /\ op \in {"read", "write"}
      /\ abort' = abort /\ ack' = ack /\ lost' = lost
  BY DEF IdleClock, WireInv, TypeOK, Lockstep
<1>1. tgt' = "rest" /\ tparity' = tparity
  BY <1>0 DEF TargetClock, TRest, TEnter
<1>2. Stage = "closing" /\ Peer = "between" /\ Peer' = "between"
  BY <1>0, <1>1, StageTable, PeerTable, PeerTableNext
<1>3. CASE left > 1 /\ UNCHANGED <<pc, op, retry_count, flips>>
  <2>1. Stage' = "closing"
    BY <1>0, <1>3, StageTableNext
  <2>2. Outcome' = Outcome
    BY <1>0, <1>1, <1>2, <1>3, <2>1, OutcomeTable, OutcomeTableNext
  <2> QED BY <1>0, <1>2, <1>3, <2>1, <2>2, Unseen
<1>4. CASE /\ ~abort /\ Again /\ flips' = 0 /\ Enter("request")
           /\ op' \in (IF retry_count' = 0 /\ ack = OK THEN {"read", "write"} ELSE {"read"})
  <2>1. Stage' = "asking" /\ Outcome' = "none" /\ (flips' = 1) = FALSE
    BY <1>4, StageTableNext, OutcomeTableNext DEF Enter
  <2>2. /\ \/ op = "read" /\ retry_count' = retry_count
           \/ op = "read" /\ retry_count + 1 < MatchLimit /\ retry_count' = retry_count + 1
           \/ ack = Transaction!OK /\ retry_count' = 0
        /\ op' = "read" \/ (op' = "write" /\ retry_count' = 0 /\ ack = Transaction!OK)
    BY <1>4 DEF Again, Transaction!OK, OK
  <2>3. Transaction!Ask
    BY <2>1 DEF Transaction!Ask
  <2>4. Transaction!Again
    BY <1>0, <1>2, <1>4, <2>2, <2>3 DEF Transaction!Again
  <2> QED BY <2>4 DEF Transaction!Next
<1>5. CASE Return /\ UNCHANGED <<op, retry_count, flips>>
  <2>1. Stage' = "none" /\ Outcome' = "none"
    BY <1>5, StageTableNext, OutcomeTableNext DEF Return
  <2>2. (flips' = 1) = (flips = 1)
    BY <1>5
  <2>3. Transaction!Done
    BY <1>0, <1>2, <1>5, <2>1, <2>2 DEF Transaction!Done, Transaction!request
  <2> QED BY <2>3 DEF Transaction!Next
<1> QED BY <1>3, <1>4, <1>5, Zenon DEF IdleClock

\* A clock of the resync takes the peer on to the end of its packet, and the
\* last finds it there.
LEMMA ResyncClockStep ==
  WireInv /\ WireInv' /\ ResyncClock => Transaction!Next \/ UNCHANGED Transaction!vars
<1> SUFFICES ASSUME WireInv, WireInv', ResyncClock
    PROVE  Transaction!Next \/ UNCHANGED Transaction!vars
  OBVIOUS
<1>0. /\ pc = "resync" /\ left \in 1..ResyncClocks /\ TargetClock(0)
      /\ tgt \in {"rest", "lockout", "write_trn", "write", "read", "end_trn"}
      /\ tgt = "read" => op = "read"
      /\ abort' = abort /\ op' = op /\ ack' = ack /\ retry_count' = retry_count
      /\ flips' = flips
  BY DEF ResyncClock, WireInv, TypeOK, TargetModes, Lockstep, EndsInTime
<1>1. Stage = "resync" /\ Outcome = "none"
  BY <1>0, StageTable, OutcomeTable
<1>2. CASE left > 1
  <2>1. pc' = "resync" /\ lost' = lost
    BY <1>2 DEF ResyncClock
  <2>2. Stage' = "resync" /\ Outcome' = "none"
    BY <2>1, StageTableNext, OutcomeTableNext
  <2>3. Peer' = Peer \/ Transaction!PeerSteps
    <3>1. CASE tgt \in {"rest", "lockout"}
      <4>1. tgt' \in {"rest", "lockout"}
        BY <1>0, <3>1 DEF TargetClock, TRest, TLockout, TEnter
      <4> QED BY <3>1, <4>1, PeerTable, PeerTableNext
    <3>2. CASE tgt \in {"write_trn", "write"}
      <4>1. tgt' \in {"write", "rest"}
        BY <1>0, <3>2 DEF WireInv, TargetClock, TAnswer, TNext, TStay, TEnter
      <4> QED BY <1>1, <3>2, <4>1, PeerTable, PeerTableNext DEF Transaction!PeerSteps
    <3>3. CASE tgt = "read"
      <4>1. tgt' \in {"read", "end_trn"}
        BY <1>0, <3>3 DEF TargetClock, TAnswer, TNext, TStay, TEnter
      <4> QED BY <1>0, <1>1, <3>3, <4>1, PeerTable, PeerTableNext DEF Transaction!PeerSteps
    <3>4. CASE tgt = "end_trn"
      <4>1. tgt' \in {"rest", "end_trn"}
        BY <1>0, <3>4 DEF TargetClock, TAnswer, TNext, TStay, TEnter
      <4> QED BY <1>1, <3>4, <4>1, PeerTable, PeerTableNext DEF Transaction!PeerSteps
    <3> QED BY <1>0, <3>1, <3>2, <3>3, <3>4
  <2> QED BY <1>0, <1>1, <2>1, <2>2, <2>3, OnlyPeer, Zenon
<1>3. CASE left = 1
  <2>1. pc' = "idle" /\ lost' = FALSE
    BY <1>3 DEF ResyncClock, Return
  <2>2. tgt' \in {"rest", "lockout"}
    BY <2>1 DEF WireInv, Lockstep, Quiet, BetweenPackets
  <2>3. Stage' = "none" /\ Outcome' = "none" /\ Peer' = "between"
    BY <2>1, <2>2, StageTableNext, OutcomeTableNext, PeerTableNext
  <2>4. Transaction!Resynced
    BY <1>0, <1>1, <2>1, <2>3 DEF Transaction!Resynced, Transaction!request
  <2> QED BY <2>4 DEF Transaction!Next
<1> QED BY <1>0, <1>2, <1>3

\* Between two commands: a line reset, or the first request of a command,
\* which finds the peer between packets.
LEMMA BetweenCommandsStep ==
  WireInv /\ WireInv' /\ (Connect \/ Disconnect \/ LineReset \/ Command)
    => Transaction!Next \/ UNCHANGED Transaction!vars
<1> SUFFICES ASSUME WireInv, WireInv', Connect \/ Disconnect \/ LineReset \/ Command
    PROVE  Transaction!Next \/ UNCHANGED Transaction!vars
  OBVIOUS
<1>0. pc = "idle"
  BY DEF Connect, Disconnect, LineReset, Command
<1>1. Stage = "none" /\ Outcome = "none"
  BY <1>0, StageTable, OutcomeTable
<1>2. CASE Connect \/ Disconnect
  <2>1. UNCHANGED <<pc, abort, op, ack, retry_count, target, flips, lost>>
    BY <1>2 DEF Connect, Disconnect
  <2>2. Stage' = Stage /\ Peer' = Peer /\ Outcome' = Outcome
    BY <2>1 DEF Stage, Peer, Outcome, Taken, target
  <2> QED BY <2>1, <2>2, Unseen
<1>3. CASE LineReset
  <2>1. /\ pc' = "idle" /\ tgt' = "rest" /\ lost' = FALSE
        /\ UNCHANGED <<abort, op, ack, retry_count, flips>>
    BY <1>0, <1>3 DEF LineReset, TEnter
  <2>2. Stage' = "none" /\ Outcome' = "none" /\ Peer' = "between"
    BY <2>1, StageTableNext, OutcomeTableNext, PeerTableNext
  <2>3. Transaction!LineReset
    BY <1>1, <2>1, <2>2 DEF Transaction!LineReset, Transaction!request
  <2> QED BY <2>3 DEF Transaction!Next
<1>4. CASE Command
  <2>1. /\ abort' \in BOOLEAN /\ op' \in (IF abort' THEN {"write"} ELSE {"read", "write"})
        /\ retry_count' = 0 /\ lost' = lost /\ ack' = ack
    BY <1>4, Zenon DEF Command
  <2>2. pc' = "request" /\ flips' = 0 /\ tgt' = tgt
    BY <1>4 DEF Command, Enter, target
  <2>3. Stage' = "asking" /\ Outcome' = "none" /\ (flips' = 1) = FALSE
    BY <2>2, StageTableNext, OutcomeTableNext
  <2>4. Peer' = Peer
    BY <2>2 DEF Peer
  <2>5. Transaction!Ready
    <3>1. tgt \in {"rest", "lockout"} \/ (lost /\ abort)
      BY <1>0 DEF WireInv, Lockstep, Quiet, BetweenPackets
    <3> QED BY <3>1, PeerTable DEF Transaction!Ready
  <2>6. Transaction!Ask
    BY <2>3 DEF Transaction!Ask
  <2>7. Transaction!Command
    BY <1>1, <2>1, <2>4, <2>5, <2>6, Zenon DEF Transaction!Command
  <2> QED BY <2>7 DEF Transaction!Next
<1> QED BY <1>2, <1>3, <1>4

\* The clocks of dap_transfer and the target add up to the transactions of
\* SwdTransaction, for every retry limit and every resync of 34 clocks or
\* more: requests only to a target between packets, data taken only if no
\* bit of them was disturbed.
THEOREM WireImplementsTransaction == Spec => WireContract
<1>1. WireInv /\ WireInv' /\ [Next]_vars => [Transaction!Next]_(Transaction!vars)
  <2> SUFFICES ASSUME WireInv, WireInv', [Next]_vars
      PROVE  Transaction!Next \/ UNCHANGED Transaction!vars
    OBVIOUS
  <2>1. CASE UNCHANGED vars
    <3>1. UNCHANGED <<pc, op, abort, ack, retry_count, tgt, tparity, flips, lost>>
      BY <2>1 DEF vars, host, target
    <3>2. Stage' = Stage /\ Peer' = Peer /\ Outcome' = Outcome
      BY <3>1 DEF Stage, Peer, Outcome, Taken
    <3> QED BY <3>1, <3>2, Unseen
  <2> QED BY <2>1, PlainClockStep, WriteClockStep, ReadClockStep, AckClockStep, WaitClockStep,
             IdleClockStep, ResyncClockStep, BetweenCommandsStep DEF Next, Transfer
<1> QED BY InitTransaction, WireInvariant, <1>1, PTL DEF Spec, WireContract, Transaction!Spec
=============================================================================
