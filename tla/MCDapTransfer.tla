--------------------------- MODULE MCDapTransfer ---------------------------
(***************************************************************************)
(* Small instances of DapTransfer: a memory of three words with contents    *)
(* that tell its addresses apart, and commands that between them use every *)
(* kind of request, every pipelining case and a full packet.               *)
(***************************************************************************)
EXTENDS DapTransfer

\* Words 0..2 are also addresses and status values; 3..5 fill the memory.
MCWord == 0..6

MCStatus == {0, 2}

MCTarget0 == {[mem |-> [a \in 0..(MemSize - 1) |-> 3 + a], tar |-> 0,
               reg |-> [r \in Registers |-> IF r = <<"AP", 0>> THEN 2 ELSE 0]]}

A(p, d, n) == [port |-> p, dir |-> d, reg |-> n]
E(a, m, w) == [req |-> [access |-> a, match |-> m], data |-> w]

ReadD    == E(ReadDRW, "no", 0)
WriteD   == E(A("AP", "W", 3), "no", 6)
ReadCSW  == E(A("AP", "R", 0), "no", 0)
WriteTAR == E(A("AP", "W", 1), "no", 1)
ReadSTAT == E(A("DP", "R", 1), "no", 0)
SetMask  == E(A("DP", "W", 0), "mask", 3)
PollSTAT == E(A("DP", "R", 1), "value", 2)
PollCSW  == E(A("AP", "R", 0), "value", 2)
PollD    == E(ReadDRW, "value", 6)
Abort    == E(WriteABORT, "no", 1)

Cmd(k, s) == [kind |-> k, entries |-> s]

TransferCommands ==
  {Cmd("transfer", <<>>),
   Cmd("transfer", <<WriteTAR, ReadD, WriteD, ReadSTAT>>),
   Cmd("transfer", <<ReadD, ReadCSW, ReadD>>),
   Cmd("transfer", <<ReadSTAT, ReadSTAT, ReadSTAT, SetMask, PollCSW>>),
   Cmd("transfer", <<SetMask, PollSTAT, ReadD>>),
   Cmd("transfer", <<PollSTAT, ReadSTAT, ReadD, ReadSTAT, PollCSW>>),
   Cmd("block", <<ReadD>>),
   Cmd("block", <<ReadD, ReadD>>),
   Cmd("block", <<ReadD, ReadD, ReadD>>),
   Cmd("block", <<ReadCSW, ReadCSW>>),
   Cmd("block", <<WriteD, E(A("AP", "W", 3), "no", 5)>>),
   Cmd("abort", <<Abort>>)}

\* A debugger that waits for a word of memory.
PollCommands ==
  {Cmd("transfer", <<SetMask, PollD>>), Cmd("transfer", <<WriteTAR>>)}
=============================================================================
