---------------------------- MODULE DapTransfer ----------------------------
(***************************************************************************)
(* dap_transfer of dm.c and its three callers in dap_handler, one step per *)
(* SWD transaction.                                                        *)
(*                                                                         *)
(* A transaction (request, ACK, data, idle bits) is one step whose outcome *)
(* the target and the line choose; SwdWire is the same code clock by       *)
(* clock.  What is kept here is everything else the function does: the     *)
(* flags, the request decoding, the pipelining of AP reads and the request *)
(* "morphed" into a read of RDBUFF, the two retry counts in one variable,  *)
(* the value match, the input and output pointers and the response.        *)
(* A word is one value where the code handles four bytes.                  *)
(***************************************************************************)
EXTENDS DapCommand

CONSTANTS
  Commands,      \* the commands the host sends, each a LegalCommand
  Target0,       \* the states the target may be in when a command arrives
  Status,        \* the values its status register takes while it runs
  WaitLimit,     \* WAIT answers after which a transfer is given up (8)
  MatchLimit     \* reads of a value match, WAIT answers included (64)

VARIABLES
  pc,              \* "idle", "loop" (head of the while), "request", "reply"
  cmd,             \* the command being carried out
  input,           \* what *input still points to, as tokens
  flags,           \* the static flags
  transfer_count, transfer_request, swd_request, ack, retry_count,
  match_value, mask_value,
  response_count,  \* the byte *response_count
  response_ack,    \* the byte after the count
  words,           \* the words of scratchpad that output is moved along
  nwords,          \* words output has been moved past
  target,          \* the target (external)
  rdbuff,          \* the posted read of the target (external)
  response         \* the packet dap_handler last left for the host

local == <<transfer_count, transfer_request, swd_request, ack, retry_count>>
out   == <<response_count, response_ack, words, nwords>>
vars  == <<pc, cmd, input, flags, local, match_value, mask_value, out,
           target, rdbuff, response>>

TRANSFERBLOCK     == "TRANSFERBLOCK"
PIPELINEDAPREAD   == "PIPELINEDAPREAD"
OMITREQUESTDECODE == "OMITREQUESTDECODE"
BUSFAULT          == "BUSFAULT"
WRITEABORT        == "WRITEABORT"

ASSUME TransferAssumption ==
  /\ \A c \in Commands : LegalCommand(c)
  /\ PacketSize \in Nat /\ WaitLimit \in Nat \ {0} /\ MatchLimit \in Nat \ {0}
  /\ Word \subseteq Nat /\ 0..(MemSize - 1) \subseteq Word
  /\ Target0 \subseteq TargetType(Word) /\ Status \subseteq Word

\* Words the scratchpad has room for after the shorter header: it is
\* "oversized by 4" for a read whose word is not kept.
Slots == 1..((PacketSize + 4 - 3) \div 4)

Init ==
  /\ pc = "idle" /\ cmd \in Commands /\ input = <<>> /\ flags = {}
  /\ transfer_count = 0 /\ transfer_request = [access |-> ReadDRW, match |-> "no"]
  /\ swd_request = ReadDRW /\ ack = OK /\ retry_count = 0
  /\ match_value = 0 /\ mask_value = 0
  /\ response_count = 0 /\ response_ack = 0 /\ words = [i \in Slots |-> 0] /\ nwords = 0
  /\ target \in Target0 /\ rdbuff = 0
  /\ response = NoResponse

-----------------------------------------------------------------------------
\* dap_handler enters dap_transfer: flags, the response count and the
\* pointers, and what a DAP_WriteABORT sets instead of decoding a request.
\* The command overwrites the packet of the last response.  What nothing reads
\* before it is written is forgotten: the uninitialised locals, the words of
\* scratchpad, the last match value, and what the target did meanwhile.
Receive(c) ==
  /\ pc = "idle"
  /\ cmd' = c
  /\ input' = Encode(c)
  /\ response_count' = 0 /\ response_ack' = 0 /\ nwords' = 0
  /\ words' = [i \in Slots |-> 0]
  /\ response' = NoResponse
  /\ transfer_count' = Len(c.entries)
  /\ IF c.kind = "abort"
     THEN /\ flags' = {WRITEABORT, OMITREQUESTDECODE}
          /\ transfer_request' = [access |-> WriteABORT, match |-> "no"]
          /\ swd_request' = WriteABORT
     ELSE /\ flags' = IF c.kind = "block" THEN {TRANSFERBLOCK} ELSE {}
          /\ transfer_request' = [access |-> ReadDRW, match |-> "no"]
          /\ swd_request' = ReadDRW
  /\ pc' = IF transfer_count' = 0 THEN "reply" ELSE "loop"
  /\ ack' = OK /\ retry_count' = 0 /\ match_value' = 0
  /\ target' \in Target0 /\ rdbuff' = 0
  /\ UNCHANGED mask_value

\* Slip: output moved along by every read, those of a match included.
FinishKeepingMatches(a, r) ==
  /\ response_count' = response_count + 1
  /\ transfer_count' = transfer_count - 1
  /\ ack' = a
  /\ IF WRITEABORT \in flags
     THEN pc' = "reply" /\ UNCHANGED <<response_ack, nwords>>
     ELSE /\ response_ack' = a
          /\ pc' = IF a # OK \/ transfer_count' = 0 THEN "reply" ELSE "loop"
          /\ nwords' = IF a = OK /\ r.access.dir = "R" THEN nwords + 1 ELSE nwords

\* finish_transfer, reached with acknowledge a in request r: count it, report
\* it, and go on unless it failed.  A BUSFAULT is followed by the resync.
Finish(a, r) ==
  /\ response_count' = response_count + 1
  /\ transfer_count' = transfer_count - 1
  /\ ack' = a
  /\ IF WRITEABORT \in flags
     THEN pc' = "reply" /\ UNCHANGED <<response_ack, nwords>>
     ELSE /\ response_ack' = a
          /\ pc' = IF a # OK \/ transfer_count' = 0 THEN "reply" ELSE "loop"
          /\ nwords' = IF a = OK /\ PlainRead(r) THEN nwords + 1 ELSE nwords

\* The head of the loop: decode the next request, once for a whole block.
Decode ==
  /\ pc = "loop"
  /\ retry_count' = 0
  /\ OMITREQUESTDECODE \notin flags
  /\ transfer_request' = IF TRANSFERBLOCK \in flags THEN [Head(input).req EXCEPT !.match = "no"]
                                                    ELSE Head(input).req
  /\ LET r == transfer_request' IN
     \/ /\ MaskWrite(r)
        /\ mask_value' = input[2].word
        /\ input' = Tail(Tail(input))
        /\ Finish(OK, r)
        /\ UNCHANGED <<flags, swd_request, match_value>>
     \/ /\ ~MaskWrite(r)
        /\ IF MatchRead(r) THEN match_value' = input[2].word /\ input' = Tail(Tail(input))
                           ELSE UNCHANGED match_value /\ input' = Tail(input)
        /\ flags' = flags
             \cup (IF r.access.port = "AP" /\ r.access.dir = "R" THEN {PIPELINEDAPREAD} ELSE {})
             \cup (IF TRANSFERBLOCK \in flags THEN {OMITREQUESTDECODE} ELSE {})
        /\ swd_request' = r.access
        /\ pc' = "request"
        /\ UNCHANGED <<ack, transfer_count, response_count, response_ack, nwords, mask_value>>
  /\ UNCHANGED <<cmd, words, target, rdbuff, response>>

\* ... and the rest of a block, or the one write of a DAP_WriteABORT, as is.
OmitDecode ==
  /\ pc = "loop"
  /\ retry_count' = 0
  /\ OMITREQUESTDECODE \in flags
  /\ pc' = "request"
  /\ UNCHANGED <<cmd, input, flags, transfer_count, transfer_request, swd_request, ack,
                 match_value, mask_value, out, target, rdbuff, response>>

-----------------------------------------------------------------------------
\* Slip: a write that is answered WAIT has used its data up.
WaitsAfterData ==
  /\ pc = "request"
  /\ retry_count' = retry_count + 1
  /\ IF retry_count' < WaitLimit
     THEN /\ ack' = WAIT
          /\ UNCHANGED <<pc, transfer_count, response_count, response_ack, nwords>>
     ELSE Finish(WAIT, transfer_request)
  /\ input' = IF transfer_request.access.dir = "W" THEN Tail(input) ELSE input
  /\ UNCHANGED <<cmd, flags, transfer_request, swd_request, match_value, mask_value,
                 words, target, rdbuff, response>>

\* The transaction is answered WAIT: again, or enough of it.
Waits ==
  /\ pc = "request"
  /\ retry_count' = retry_count + 1
  /\ IF retry_count' < WaitLimit
     THEN /\ ack' = WAIT
          /\ UNCHANGED <<pc, transfer_count, response_count, response_ack, nwords>>
     ELSE Finish(WAIT, transfer_request)
  /\ UNCHANGED <<cmd, input, flags, transfer_request, swd_request, match_value, mask_value,
                 words, target, rdbuff, response>>

\* It is answered FAULT, nothing, or something unrecognised.
Faults ==
  /\ pc = "request"
  /\ flags' = flags \cup {BUSFAULT}
  /\ Finish(FAULT, transfer_request)
  /\ UNCHANGED <<cmd, input, transfer_request, swd_request, retry_count, match_value, mask_value,
                 words, target, rdbuff, response>>

\* Slip: the second phase of the last read of a block is not morphed.
MorphOneLate ==
  IF /\ swd_request = ReadDRW
     /\ \/ TRANSFERBLOCK \notin flags /\ PIPELINEDAPREAD \in flags
        \/ TRANSFERBLOCK \in flags /\ transfer_count = 1
  THEN RDBUFF ELSE swd_request

\* The request that is shifted out from now on: a read of DRW becomes a read
\* of RDBUFF where the code takes the next transaction for the last.
Morph ==
  IF /\ swd_request = ReadDRW
     /\ \/ TRANSFERBLOCK \notin flags /\ PIPELINEDAPREAD \in flags
        \/ TRANSFERBLOCK \in flags /\ transfer_count = 1 /\ PIPELINEDAPREAD \in flags
        \/ TRANSFERBLOCK \in flags /\ transfer_count = 2 /\ PIPELINEDAPREAD \notin flags
  THEN RDBUFF ELSE swd_request

\* After the data and the idle bits, with acknowledge a: the second phase of
\* a pipelined read, another read of a value match, or the end of the entry.
AfterData(a) ==
  /\ swd_request' = Morph
  /\ flags' = flags \ {PIPELINEDAPREAD}
  /\ IF PIPELINEDAPREAD \in flags
     THEN /\ ack' = a
          /\ UNCHANGED <<pc, transfer_count, retry_count, response_count, response_ack, nwords>>
     ELSE IF transfer_request.match # "no" /\ match_value # Masked(words'[nwords + 1], mask_value)
     THEN /\ retry_count' = retry_count + 1
          /\ IF retry_count' < MatchLimit
             THEN ack' = a /\ UNCHANGED <<pc, transfer_count, response_count, response_ack, nwords>>
             ELSE Finish(a + MISMATCH, transfer_request)
     ELSE Finish(a, transfer_request) /\ UNCHANGED retry_count
  /\ UNCHANGED <<cmd, transfer_request, match_value, mask_value, response>>

\* A write that the target acknowledges: it takes the next word of input.
Writes ==
  /\ pc = "request" /\ transfer_request.access.dir = "W"
  /\ target' = After(target, swd_request, Head(input).word)
  /\ input' = Tail(input)
  /\ AfterData(OK)
  /\ UNCHANGED <<words, rdbuff>>

\* What a read puts on the wire: a read of the AP is posted.
Sent == IF swd_request.port = "AP" \/ swd_request = RDBUFF THEN rdbuff
        ELSE Value(target, swd_request)

\* A read that is acknowledged.  The word arrives, or arrives disturbed.
Reads ==
  /\ pc = "request" /\ transfer_request.access.dir = "R"
  /\ target' = After(target, swd_request, 0)
  /\ rdbuff' = IF swd_request.port = "AP" THEN Value(target, swd_request) ELSE rdbuff
  /\ \/ words' = [words EXCEPT ![nwords + 1] = Sent] /\ AfterData(OK)
     \/ /\ \E w \in Word : w # Sent /\ words' = [words EXCEPT ![nwords + 1] = w]
        /\ AfterData(PARITY)
  /\ UNCHANGED input

\* dap_transfer has returned and dap_handler leaves the response.
Respond ==
  /\ pc = "reply"
  /\ pc' = "idle"
  /\ response' = [count |-> response_count, ack |-> response_ack,
                  data |-> SubSeq(words, 1, nwords)]
  /\ UNCHANGED <<cmd, input, flags, local, match_value, mask_value, out, target, rdbuff>>

\* The target lives its own life: its status register changes.
TargetRuns ==
  /\ \E w \in Status : target' = [target EXCEPT !.reg[<<"DP", 1>>] = w]
  /\ UNCHANGED <<pc, cmd, input, flags, local, match_value, mask_value, out, rdbuff, response>>

Transaction == Waits \/ Faults \/ Writes \/ Reads
Work == Decode \/ OmitDecode \/ Transaction \/ Respond
Next == (\E c \in Commands : Receive(c)) \/ Work \/ TargetRuns

\* The firmware runs: dap_transfer has no blocking call.
Spec == Init /\ [][Next]_vars /\ WF_vars(Work)
-----------------------------------------------------------------------------
(***************************************************************************)
(* Properties.                                                             *)
(***************************************************************************)
Flags == {TRANSFERBLOCK, PIPELINEDAPREAD, OMITREQUESTDECODE, BUSFAULT, WRITEABORT}

TypeOK ==
  /\ pc \in {"idle", "loop", "request", "reply"} /\ cmd \in Commands
  /\ input \in Seq(Token) /\ flags \subseteq Flags
  /\ transfer_count \in Nat /\ transfer_request \in Request /\ swd_request \in Access
  /\ ack \in 0..31 /\ retry_count \in Nat
  /\ match_value \in Word /\ mask_value \in Word
  /\ response_count \in Nat /\ response_ack \in 0..31
  /\ words \in [Slots -> Word] /\ nwords \in Nat
  /\ target \in TargetType(Word) /\ rdbuff \in Word

Current == cmd.entries[response_count + 1]

\* The input pointer is always at the bytes of the entry being carried out,
\* whatever was retried, decoded once for a block or skipped as a mask: the
\* request when one is decoded, its own data when that is written; and a
\* command that succeeds has used its packet up.
InputInStep ==
  /\ pc = "loop" /\ OMITREQUESTDECODE \notin flags => Head(input) = [req |-> Current.req]
  /\ pc = "request" /\ transfer_request.access.dir = "W" => Head(input) = [word |-> Current.data]
  /\ pc = "reply" /\ ack = OK => input = <<>>

\* A read never stores past scratchpad, which is "oversized by 4" for the
\* reads whose word is not kept: those that are posted, and those of a match.
WithinScratchpad ==
  pc = "request" /\ transfer_request.access.dir = "R"
    => FirstWord(cmd.kind) + 4 * (nwords + 1) <= PacketSize + 4

\* What the comment at the morphing says: a read of RDBUFF stands for the
\* last transaction of a read of DRW, so none follows one that succeeds.
MorphIsLast == [][Reads /\ swd_request = RDBUFF => pc' # "request"]_vars

-----------------------------------------------------------------------------
(***************************************************************************)
(* The contract, and what of it the variables here stand for.              *)
(***************************************************************************)
\* Posted reads of DRW whose word has not yet been taken.
Owed ==
  IF /\ transfer_request.access = ReadDRW /\ PIPELINEDAPREAD \notin flags
     /\ pc = "request" \/ (pc = "loop" /\ TRANSFERBLOCK \in flags /\ response_count > 0)
  THEN 1 ELSE 0

\* The target as the debugger sees it: reads made ahead do not show.
SeenTarget == [target EXCEPT !.tar = Ahead(target, MemSize - Owed)]

Host == INSTANCE DapHost WITH
  busy    <- pc # "idle",
  made    <- response_count,
  status  <- IF pc \in {"loop", "request"} \/ response_count = 0 THEN OK ELSE ack,
  results <- SubSeq(words, 1, nwords),
  mask    <- mask_value,
  t       <- SeenTarget

\* The debugger sees every request made once and in order, the first failure
\* end the command, its words in the response, and a response to everything:
\* posting, pipelining, RDBUFF and retries do not show.
Contract == Host!Spec
-----------------------------------------------------------------------------
(***************************************************************************)
(* What the steps preserve while a command is carried out.                 *)
(***************************************************************************)
Active == pc \in {"loop", "request"}

\* transfer_request and swd_request are those of the current entry.
Decoded == pc = "request" \/ (pc = "loop" /\ OMITREQUESTDECODE \in flags)

\* Of a read of the AP the first phase is over: its word waits in rdbuff.
Posted ==
  /\ Decoded /\ PIPELINEDAPREAD \notin flags
  /\ transfer_request.access.port = "AP" /\ transfer_request.access.dir = "R"

\* The request has become a read of RDBUFF.
Morphed ==
  /\ transfer_request.access = ReadDRW /\ PIPELINEDAPREAD \notin flags
  /\ cmd.kind = "transfer" \/ transfer_count = 1

\* The counts and the acknowledge are those of the entries made.
CountInv ==
  /\ transfer_count + response_count = Len(cmd.entries)
  /\ Active => /\ transfer_count > 0
               /\ nwords = Cardinality({i \in PlainReads(cmd) : i <= response_count})
  /\ cmd.kind = "abort" \/ response_count = 0 => response_ack = 0
  /\ pc = "reply" =>
       /\ IF response_count = 0 THEN cmd.entries = <<>> ELSE ack # OK \/ transfer_count = 0
       /\ cmd.kind = "abort" \/ response_count = 0 \/ response_ack = ack

\* A block is decoded once, with its first entry, an abort never; and only a
\* read of the AP has two phases, in a block its first.
FlagsInv ==
  /\ TRANSFERBLOCK \in flags <=> cmd.kind = "block"
  /\ WRITEABORT \in flags <=> cmd.kind = "abort"
  /\ Active => (OMITREQUESTDECODE \in flags
                  <=> \/ cmd.kind = "abort"
                      \/ cmd.kind = "block" /\ (pc = "request" \/ response_count > 0))
  /\ Active /\ PIPELINEDAPREAD \in flags =>
       /\ pc = "request" /\ (cmd.kind = "block" => response_count = 0)
       /\ transfer_request.access.port = "AP" /\ transfer_request.access.dir = "R"

\* The request at hand is the entry's, or stands for it.
RequestInv ==
  /\ Decoded => /\ transfer_request = Current.req
                /\ swd_request = IF Morphed THEN RDBUFF ELSE transfer_request.access
  /\ pc = "request" => /\ ~MaskWrite(transfer_request)
                       /\ MatchRead(transfer_request) => match_value = Current.data

\* What is left of the packet is what the entries to come, and the data of
\* the current one if it is a write, were encoded as.
InputInv ==
  /\ cmd.kind = "transfer" =>
       /\ pc = "loop" => input = Rest(cmd, response_count)
       /\ pc = "request" => input = IF transfer_request.access.dir = "W"
                                    THEN <<[word |-> Current.data]>> \o Rest(cmd, response_count + 1)
                                    ELSE Rest(cmd, response_count + 1)
  /\ cmd.kind # "transfer" /\ Active =>
       input = IF Decoded THEN Data(cmd, response_count)
                          ELSE <<[req |-> Current.req]>> \o Data(cmd, response_count)
  /\ pc = "reply" /\ ack = OK => input = <<>>

\* The word that waits in rdbuff is the one the debugger asks for.
PostedInv == Posted => rdbuff = Value(SeenTarget, transfer_request.access)

TransferInv ==
  /\ TypeOK
  /\ pc # "idle" => CountInv /\ FlagsInv /\ RequestInv /\ InputInv /\ PostedInv
=============================================================================
