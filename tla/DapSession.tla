----------------------------- MODULE DapSession -----------------------------
(***************************************************************************)
(* What the debugger may rely on when the bus is reset or the device       *)
(* configured anew between its commands.  The device owes responses in the *)
(* order of the commands.  A session starts with no command outstanding,   *)
(* and with at most so many responses of the one before still owed: each   *)
(* of them stands before the debugger's own from then on.                  *)
(***************************************************************************)
EXTENDS Naturals, Sequences

CONSTANTS PacketCount, None

VARIABLES
  waiting,   \* commands the debugger waits for the answer to
  owed,      \* commands the device is yet to answer
  got,       \* the response to the last command, by its command
  leftover   \* how many responses of an earlier session this device may owe

vars == <<waiting, owed, got, leftover>>

Init == waiting = 0 /\ owed = <<>> /\ leftover \in Nat

Ask ==
  /\ waiting < PacketCount
  /\ Len(owed) <= waiting + leftover
  /\ waiting' = waiting + 1 /\ got' = None
  /\ Len(owed') = Len(owed) + 1 /\ SubSeq(owed', 1, Len(owed)) = owed

Answer ==
  /\ waiting > 0 /\ owed # <<>>
  /\ waiting' = waiting - 1
  /\ got' = Head(owed) /\ owed' = Tail(owed)

\* Of what is left over of an ended session, all but the youngest w of what
\* is owed, anything may be forgotten.
Forget(w) ==
  \E i, k \in 0 .. Len(owed) - w :
    /\ i <= k
    /\ owed' = SubSeq(owed, 1, i) \o SubSeq(owed, k + 1, Len(owed))

Close == waiting' = 0 /\ Forget(0) /\ UNCHANGED got

Drop == Forget(waiting) /\ UNCHANGED <<waiting, got>>

Next == UNCHANGED leftover /\ (Ask \/ Answer \/ Close \/ Drop)

Spec == Init /\ [][Next]_vars
=============================================================================
