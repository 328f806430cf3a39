----------------------------- MODULE DapCommand -----------------------------
(***************************************************************************)
(* The commands that move data: DAP_Transfer, DAP_TransferBlock and        *)
(* DAP_WriteABORT, as the host means them (a list of entries, one SWD      *)
(* access each) and as their bytes lie in the packet (a list of tokens:    *)
(* a request byte, or the four bytes of a word).                           *)
(***************************************************************************)
EXTENDS AdiTarget, Sequences, SequencesExt

CONSTANTS
  Word,        \* the values of a word
  PacketSize   \* DAP_PACKET_SIZE (64)

\* The acknowledge of a transfer.
OK       == 1
WAIT     == 2
FAULT    == 4
PARITY   == 8
MismatchBit5 == 32  \* slip: the wrong bit
MISMATCH == 16      \* ORed into the acknowledge

\* The request byte: an access (bits 0 to 3), match value (4), mask (5).
Request == [access : Access, match : {"no", "value", "mask"}]
Entry   == [req : Request, data : Word]

PlainRead(r)  == r.access.dir = "R" /\ r.match = "no"
MatchRead(r)  == r.access.dir = "R" /\ r.match = "value"
PlainWrite(r) == r.access.dir = "W" /\ r.match = "no"
MaskWrite(r)  == r.access.dir = "W" /\ r.match = "mask"

PlainReads(c) == {i \in 1..Len(c.entries) : PlainRead(c.entries[i].req)}

\* Where the words of the response start: after the command byte, the count
\* (two bytes for DAP_TransferBlock) and the acknowledge.
FirstWord(kind) == IF kind = "block" THEN 4 ELSE 3

\* A command a host may send: a match value goes with a read and a mask with
\* a write of a DAP_Transfer, RDBUFF is left to the firmware, and the
\* response fits the packet.
LegalCommand(c) ==
  /\ c.kind \in {"transfer", "block", "abort"}
  /\ c.entries \in Seq(Entry)
  /\ \A i \in 1..Len(c.entries) :
       LET r == c.entries[i].req IN
       /\ PlainRead(r) \/ MatchRead(r) \/ PlainWrite(r) \/ MaskWrite(r)
       /\ r.access # RDBUFF
       /\ c.kind # "transfer" => r = c.entries[1].req /\ r.match = "no"
  /\ c.kind = "block" => c.entries # <<>>
  /\ c.kind = "abort" => Len(c.entries) = 1 /\ c.entries[1].req.access = WriteABORT
  /\ FirstWord(c.kind) + 4 * Cardinality(PlainReads(c)) <= PacketSize

\* The packet after the count: each request and after it its data, if it has
\* any; for a block one request and then only data; for an abort only data.
HasData(r) == r.access.dir = "W" \/ r.match = "value"
Token      == [req : Request] \cup [word : Word]
Tokens(e)  == IF HasData(e.req) THEN <<[req |-> e.req], [word |-> e.data]>>
                                ELSE <<[req |-> e.req]>>
\* What lies after the first n entries: in a DAP_Transfer, ...
Rest(c, n) == FlattenSeq([i \in 1..(Len(c.entries) - n) |-> Tokens(c.entries[n + i])])

\* ... and in the other two, after the request.
Data(c, n) ==
  IF HasData(c.entries[1].req)
  THEN [i \in 1..(Len(c.entries) - n) |-> [word |-> c.entries[n + i].data]] ELSE <<>>

Encode(c) ==
  CASE c.kind = "transfer" -> Rest(c, 0)
    [] c.kind = "block"    -> <<[req |-> c.entries[1].req]>> \o Data(c, 0)
    [] c.kind = "abort"    -> Data(c, 0)

NoResponse == [count |-> 0, ack |-> 0, data |-> <<>>]
=============================================================================
