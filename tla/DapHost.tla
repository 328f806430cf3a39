------------------------------ MODULE DapHost ------------------------------
(***************************************************************************)
(* What a debugger may rely on: the contract of DAP_Transfer,              *)
(* DAP_TransferBlock and DAP_WriteABORT.                                   *)
(*                                                                         *)
(* The requests of a command are made one by one, in order, each exactly   *)
(* once; the first that does not succeed ends the command; the response    *)
(* says how many were made, how the last one ended, and what the plain     *)
(* reads returned.  Nothing here is posted, pipelined or retried: that     *)
(* dm.c does all three is what DapTransfer is shown to hide.               *)
(***************************************************************************)
EXTENDS DapCommand

CONSTANTS
  Commands,   \* the commands the debugger sends, each a LegalCommand
  Target0,    \* the states the target may be in when a command arrives
  Status      \* the values its status register takes while it runs

VARIABLES
  busy,      \* a command is being carried out
  cmd,       \* the command
  made,      \* requests made
  status,    \* how the last of them ended
  results,   \* words of the plain reads
  mask,      \* the match mask, kept from one command to the next
  t,         \* the target as the debugger sees it
  response   \* the last response

vars == <<busy, cmd, made, status, results, mask, t, response>>

Init ==
  /\ busy = FALSE /\ cmd \in Commands /\ made = 0 /\ status = OK /\ results = <<>>
  /\ mask = 0 /\ t \in Target0 /\ response = NoResponse

\* The debugger sends a command.  The target has run meanwhile, and is in
\* whatever state it is in.
Issue(c) ==
  /\ ~busy
  /\ busy' = TRUE /\ cmd' = c /\ made' = 0 /\ status' = OK /\ results' = <<>>
  /\ response' = NoResponse
  /\ t' \in Target0
  /\ UNCHANGED mask

Remaining == Len(cmd.entries) - made
Req       == cmd.entries[made + 1].req
Datum     == cmd.entries[made + 1].data

\* The next request succeeds.
Make ==
  /\ busy /\ status = OK /\ Remaining > 0
  /\ made' = made + 1
  /\ \/ MaskWrite(Req) /\ mask' = Datum /\ UNCHANGED <<t, results>>
     \/ /\ ~MaskWrite(Req)
        /\ MatchRead(Req) => Masked(Value(t, Req.access), mask) = Datum
        /\ results' = IF PlainRead(Req) THEN Append(results, Value(t, Req.access)) ELSE results
        /\ t' = After(t, Req.access, Datum)
        /\ UNCHANGED mask
  /\ UNCHANGED <<busy, cmd, status, response>>

\* The next request does not.  A read of DRW that fails may have moved the
\* address register on, by the reads made ahead, but never past the block.
Failures ==
  {WAIT, FAULT} \cup (IF Req.access.dir = "R" THEN {PARITY} ELSE {})
                \cup (IF MatchRead(Req) THEN {OK + MISMATCH, PARITY + MISMATCH} ELSE {})

Fail ==
  /\ busy /\ status = OK /\ Remaining > 0 /\ ~MaskWrite(Req)
  /\ made' = made + 1
  /\ status' \in Failures
  /\ \E n \in 0..(IF Req.access # ReadDRW THEN 0 ELSE IF Remaining = 1 THEN 1 ELSE 2) :
       t' = [t EXCEPT !.tar = Ahead(t, n)]
  /\ UNCHANGED <<busy, cmd, results, mask, response>>

\* The response.  That of DAP_WriteABORT does not tell how it ended.
Reply ==
  /\ busy /\ (status # OK \/ Remaining = 0)
  /\ response' = [count |-> made, data |-> results,
                  ack |-> IF cmd.kind = "abort" \/ made = 0 THEN 0 ELSE status]
  /\ busy' = FALSE
  /\ UNCHANGED <<cmd, made, status, results, mask, t>>

\* The status register of the debug port changes by itself.
TargetRuns ==
  /\ \E w \in Status : t' = [t EXCEPT !.reg[<<"DP", 1>>] = w]
  /\ UNCHANGED <<busy, cmd, made, status, results, mask, response>>

Work == Make \/ Fail \/ Reply
Next == (\E c \in Commands : Issue(c)) \/ Work \/ TargetRuns

\* A command is always answered: the debugger waits for nothing else.
Spec == Init /\ [][Next]_vars /\ WF_vars(Work)
=============================================================================
