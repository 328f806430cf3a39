--------------------------- MODULE SwdTransaction ---------------------------
(***************************************************************************)
(* What the wire promises a caller that counts transactions, not clocks.   *)
(* A request is made only to a peer that is between two packets.  It is    *)
(* answered by an ACK and data, by a WAIT and another request, or by no    *)
(* ACK the caller can use; each time the peer is done with its packet      *)
(* before the next request.  Data are passed to the side that receives     *)
(* them if and only if the line left them alone.                           *)
(***************************************************************************)
EXTENDS Naturals

CONSTANTS WaitLimit, MatchLimit

VARIABLES
  stage,        \* of the transaction; "none" between two commands
  peer,         \* "between" packets, "answering", in the "data", "ending"
  op, abort, ack, retry_count,
  spoiled,      \* a data bit of this transaction was disturbed
  outcome,      \* what the receiving side took the data for
  lost          \* an abort was given up on: the peer may be in a packet

request == <<op, abort, retry_count>>
vars    == <<stage, peer, request, ack, spoiled, outcome, lost>>

Stages == {"none", "asking", "data", "closing", "waited", "resync"}

OK           == 1
WAIT         == 2
PARITY_ERROR == 8

Init ==
  /\ stage = "none" /\ peer = "between" /\ op = "read" /\ abort = FALSE
  /\ ack = 0 /\ retry_count = 0 /\ spoiled = FALSE /\ outcome = "none" /\ lost = FALSE

\* After an abort the peer may still be in a packet, whose data it waits for.
Ready == peer = "between" \/ (lost /\ abort)

Ask == stage' = "asking" /\ spoiled' = FALSE /\ outcome' = "none"

LineReset ==
  /\ stage = "none"
  /\ peer' = "between" /\ lost' = FALSE
  /\ UNCHANGED <<stage, request, ack, spoiled, outcome>>

Command ==
  /\ stage = "none" /\ Ready
  /\ Ask
  /\ abort' \in BOOLEAN
  /\ op' \in (IF abort' THEN {"write"} ELSE {"read", "write"})
  /\ retry_count' = 0
  /\ UNCHANGED <<peer, ack, lost>>

\* What the peer does while the caller waits for it: it may fall silent in
\* the middle of its answer, never in the middle of its data.
PeerSteps ==
  \/ stage = "asking" /\ peer = "between" /\ peer' = "answering"
  \/ stage = "asking" /\ peer = "answering" /\ peer' = "between"
  \/ stage = "resync" /\ peer = "data" /\ op = "read" /\ peer' = "ending"
  \/ stage \in {"asking", "resync"} /\ peer \in {"data", "ending"} /\ peer' = "between"
  \/ stage = "closing" /\ peer = "ending" /\ peer' = "between"

Peer == PeerSteps /\ UNCHANGED <<stage, request, ack, spoiled, outcome, lost>>

\* The three ends of a request: data, ...
Accept ==
  /\ stage = "asking" /\ peer = "answering" /\ ~spoiled
  /\ stage' = "data" /\ peer' = "data" /\ ack' = OK
  /\ UNCHANGED <<request, spoiled, outcome, lost>>

\* ... another attempt, counted, ...
Postpone ==
  /\ stage = "asking" /\ peer = "answering"
  /\ stage' = "waited" /\ peer' = "ending" /\ ack' = WAIT
  /\ retry_count' = retry_count + 1
  /\ UNCHANGED <<op, abort, spoiled, outcome, lost>>

\* ... or an ACK that is of no use: the peer is not waited for if the
\* command is an abort.
GiveUp ==
  /\ stage = "asking"
  /\ ack' \notin {OK, WAIT} /\ peer' # "answering"
  /\ IF abort THEN stage' = "none" /\ lost' = TRUE
              ELSE stage' = "resync" /\ UNCHANGED lost
  /\ spoiled' \in BOOLEAN
  /\ UNCHANGED <<request, outcome>>

Spoil ==
  /\ stage = "data" /\ spoiled' = TRUE
  /\ UNCHANGED <<stage, peer, request, ack, outcome, lost>>

\* The last data bit, which may be the disturbed one.  Who reads says so in
\* its ack; of who writes, the peer knows.
Finish ==
  /\ stage = "data" /\ stage' = "closing"
  /\ spoiled => spoiled'
  /\ spoiled' \in BOOLEAN
  /\ outcome' = IF spoiled' THEN "refused" ELSE "taken"
  /\ peer' = IF op = "read" THEN "ending" ELSE "between"
  /\ ack' = IF op = "read" /\ spoiled' THEN PARITY_ERROR ELSE ack
  /\ UNCHANGED <<request, lost>>

Retry ==
  /\ stage = "waited" /\ peer' = "between"
  /\ IF retry_count < WaitLimit THEN Ask
                                ELSE stage' = "none" /\ UNCHANGED <<spoiled, outcome>>
  /\ UNCHANGED <<request, ack, lost>>

\* The next transaction of the command, to a peer that is between packets.
Again ==
  /\ stage = "closing" /\ peer = "between" /\ ~abort
  /\ Ask
  /\ \/ op = "read" /\ retry_count' = retry_count
     \/ op = "read" /\ retry_count + 1 < MatchLimit /\ retry_count' = retry_count + 1
     \/ ack = OK /\ retry_count' = 0
  /\ op' = "read" \/ (op' = "write" /\ retry_count' = 0 /\ ack = OK)
  /\ UNCHANGED <<peer, abort, ack, lost>>

Done ==
  /\ stage = "closing" /\ peer = "between"
  /\ stage' = "none" /\ outcome' = "none"
  /\ UNCHANGED <<peer, request, ack, spoiled, lost>>

\* After a resync the peer is between packets, whatever it was doing.
Resynced ==
  /\ stage = "resync" /\ peer' = "between"
  /\ stage' = "none" /\ lost' = FALSE
  /\ UNCHANGED <<request, ack, spoiled, outcome>>

Next == LineReset \/ Command \/ Peer \/ Accept \/ Postpone \/ GiveUp \/ Spoil
          \/ Finish \/ Retry \/ Again \/ Done \/ Resynced

Spec == Init /\ [][Next]_vars
=============================================================================
