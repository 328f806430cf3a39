---------------------------- MODULE DapTransport ----------------------------
(***************************************************************************)
(* What the debugger may rely on between it and the command engine: each   *)
(* command is answered, with the response to it, in the order of asking.   *)
(* The debugger keeps no more commands outstanding than the DAP_Info       *)
(* "Packet Count" it was told.                                             *)
(***************************************************************************)
EXTENDS Naturals, Sequences

CONSTANTS
  Cmd,         \* commands, all that matters of them being their identity
  None,        \* no packet
  PacketCount  \* commands the debugger may have outstanding

VARIABLES
  asked,  \* commands sent and not answered
  got     \* the last response

vars == <<asked, got>>

\* A packet is a command or the response to one.
Command(c)  == [cmd |-> c, done |-> FALSE]
Response(c) == [cmd |-> c, done |-> TRUE]
Commands    == [cmd : Cmd, done : {FALSE}]
Responses   == [cmd : Cmd, done : {TRUE}]

Init == asked = <<>> /\ got = None

Ask(c) ==
  /\ Len(asked) < PacketCount
  /\ asked' = Append(asked, c)
  /\ UNCHANGED got

Answer ==
  /\ asked # <<>>
  /\ got' = Response(Head(asked))
  /\ asked' = Tail(asked)

Next == (\E c \in Cmd : Ask(c)) \/ Answer

Spec == Init /\ [][Next]_vars /\ WF_vars(Answer)
=============================================================================
