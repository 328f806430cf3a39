-------------------------- MODULE Stm32Hid_proofs --------------------------
(***************************************************************************)
(* Stm32Hid for every set of commands: one command at a time passes from   *)
(* hand to hand and comes back as its response.  Prompt is assumed:        *)
(* without it a command can be marked as handled before anyone has looked  *)
(* at it.                                                                  *)
(***************************************************************************)
EXTENDS Stm32Hid, TLAPS

\* At the start there is no command anywhere.
LEMMA InitHidInv == Init => HidInv
<1> SUFFICES ASSUME Init PROVE HidInv
  OBVIOUS
<1>1. length \in BOOLEAN /\ lock \in BOOLEAN /\ ~length /\ ~lock
  BY Zenon DEF Init
<1>2. asked = <<>> /\ asked \in Seq(Cmd)
  BY DEF Init, T!Init
<1> QED BY <1>1, <1>2 DEF Init, T!Init, HidInv, OnePlace, Handled, TypeOK, AtRest

\* A command or a response is never taken for no packet, nor for the other.
LEMMA Packets ==
  ASSUME NEW c \in Cmd
  PROVE  /\ T!Command(c) \in T!Commands /\ T!Command(c) # None
         /\ T!Response(c) \in T!Responses /\ T!Response(c) # None
         /\ T!Command(c).cmd = c /\ T!Response(c).cmd = c
         /\ T!Command(c).done = FALSE /\ T!Response(c).done = TRUE
<1>1. T!Command(c) \in T!Commands /\ T!Response(c) \in T!Responses
  BY DEF T!Command, T!Response, T!Commands, T!Responses
<1>2. /\ T!Command(c).cmd = c /\ T!Response(c).cmd = c
      /\ T!Command(c).done = FALSE /\ T!Response(c).done = TRUE
  BY DEF T!Command, T!Response
<1> QED BY <1>1, <1>2, HidAssumption

\* The message is left alone from the moment its response is ready until it is
\* marked as handled.
LEMMA HandledInv ==
  ASSUME HidInv, Take \/ (\E c \in Cmd : Ask(c)) \/ DataOut \/ Service
  PROVE  Handled'
<1>1. CASE Take \/ \E c \in Cmd : Ask(c)
  <2>1. UNCHANGED <<pc, rxbuffer>>
    BY <1>1 DEF Take, Ask
  <2> QED BY <2>1 DEF HidInv, Handled
<1>2. CASE DataOut
  <2>1. pc = "poll"
    BY <1>2, Packets DEF HidInv, OnePlace, DataOut
  <2>2. pc' = "poll"
    BY <1>2, <2>1 DEF DataOut
  <2> QED BY <2>2 DEF Handled
<1>3. CASE Extend
  <2>1. rxbuffer' = rxbuffer /\ rxbuffer.cmd \in Vendor
    BY <1>3 DEF Extend
  <2> QED BY <2>1 DEF Handled
<1>4. CASE Handle
  <2>1. pc' = "copy"
    BY <1>4 DEF Handle
  <2> QED BY <2>1 DEF Handled
<1>5. CASE Copy
  <2>1. PICK c \in Cmd : Serving(c)
    BY <1>5 DEF HidInv, OnePlace, AtRest, Copy
  <2>2. rxbuffer' = T!Response(c)
    BY <1>5, <2>1 DEF Serving, Copy
  <2>3. T!Response(c).done
    BY Packets
  <2> QED BY <2>2, <2>3 DEF Handled
<1>6. CASE Lock \/ Fill \/ Validate \/ Unlock \/ Clear
  <2>1. rxbuffer' = rxbuffer
    BY <1>6 DEF Lock, Fill, Validate, Unlock, Clear
  <2>2. \/ pc \in {"lock", "fill", "validate", "unlock", "clear"}
        \/ pc' = "poll"
    BY <1>6 DEF Lock, Fill, Validate, Unlock, Clear
  <2> QED BY <2>1, <2>2 DEF HidInv, Handled
<1> QED BY <1>1, <1>2, <1>3, <1>4, <1>5, <1>6 DEF Service

\* The debugger sends a command only when nothing is under way; it takes the
\* response that is to its command.
LEMMA DebuggerInv ==
  ASSUME Prompt, HidInv, Take \/ \E c \in Cmd : Ask(c)
  PROVE  HidInv'
<1>1. CASE Take
  <2>1. PICK c \in Cmd : asked = <<c>> /\ outbuf = None /\ in = T!Response(c) /\ AtRest
    BY <1>1, HidAssumption, Packets DEF HidInv, OnePlace, Take
  <2>2. asked' = <<>> /\ asked' \in Seq(Cmd)
    <3>1. Tail(<<c>>) = <<>>
      OBVIOUS
    <3> QED BY <1>1, <2>1, <3>1 DEF Take
  <2>3. got' \in T!Responses
    BY <1>1, <2>1, Packets DEF Take
  <2>4. length' \in BOOLEAN /\ lock' \in BOOLEAN /\ length' = length /\ lock' = lock
    BY <1>1, Zenon DEF HidInv, OnePlace, TypeOK, Take
  <2>5. TypeOK'
    BY <1>1, <2>2, <2>3, <2>4 DEF HidInv, OnePlace, TypeOK, Take
  <2> QED BY <1>1, <2>1, <2>2, <2>4, <2>5, HandledInv DEF HidInv, OnePlace, Take, AtRest
<1>2. ASSUME NEW c \in Cmd, Ask(c) PROVE HidInv'
  <2>1. asked = <<>> /\ outbuf = None /\ in = None /\ pc = "poll" /\ ~length
    BY <1>2, Packets DEF HidInv, OnePlace, Ask, DAP_PACKET_COUNT, AtRest
  <2>2. asked' = <<c>> /\ asked' \in Seq(Cmd)
    <3>1. Append(<<>>, c) = <<c>>
      OBVIOUS
    <3> QED BY <1>2, <2>1, <3>1 DEF Ask
  <2>3. length' \in BOOLEAN /\ lock' \in BOOLEAN /\ length' = length /\ lock' = lock
    BY <1>2, Zenon DEF HidInv, OnePlace, TypeOK, Ask
  <2>4. TypeOK'
    BY <1>2, <2>2, <2>3, Packets DEF HidInv, OnePlace, TypeOK, Ask
  <2>5. /\ outbuf' = T!Command(c) /\ in' = None /\ pc' = "poll" /\ ~length'
    BY <1>2, <2>1, Zenon DEF Ask
  <2>6. OnePlace'
    BY <2>2, <2>5, Zenon DEF OnePlace
  <2>7. out' = "nak" /\ outbuf' # None
    BY <1>2, <2>5, Packets DEF Ask
  <2> QED BY <1>2, <2>1, <2>3, <2>4, <2>5, <2>6, <2>7, HandledInv DEF HidInv
<1> QED BY <1>1, <1>2

\* The interrupt finds the HAL unlocked and the main loop without a message,
\* and hands it the command.
LEMMA DataOutInv ==
  ASSUME HidInv, DataOut
  PROVE  HidInv'
<1>1. PICK c \in Cmd : asked = <<c>> /\ outbuf = T!Command(c) /\ in = None /\ pc = "poll" /\ ~length
  BY Packets DEF HidInv, OnePlace, DataOut
<1>2. ~lock
  BY <1>1 DEF HidInv, OnePlace
<1>3. /\ length' /\ length' \in BOOLEAN /\ lock' = lock /\ lock' \in BOOLEAN
      /\ out' = "valid" /\ rxbuffer' = outbuf
  BY <1>2, Zenon DEF HidInv, OnePlace, TypeOK, DataOut
<1>4. UNCHANGED <<asked, got, in, pma, txbuffer, pc>> /\ outbuf' = None
  BY Zenon DEF DataOut, host
<1>5. TypeOK'
  BY <1>1, <1>3, <1>4, Packets DEF HidInv, TypeOK
<1>6. Serving(c)'
  BY <1>1, <1>3, <1>4, Zenon DEF Serving
<1>7. OnePlace'
  BY <1>1, <1>4, <1>6, Zenon DEF OnePlace
<1> QED BY <1>1, <1>2, <1>3, <1>4, <1>5, <1>7, HandledInv DEF HidInv

\* The main loop takes the command through its buffers until the response is
\* in the endpoint, and then forgets the message.
LEMMA ServiceInv ==
  ASSUME HidInv, Service
  PROVE  HidInv'
<1>1. UNCHANGED host
  BY DEF Service, Extend, Handle, Copy, Lock, Fill, Validate, Unlock, Clear
<1>2. CASE Extend \/ Handle \/ Copy \/ Lock \/ Fill
  <2>1. PICK c \in Cmd : asked = <<c>> /\ outbuf = None /\ in = None /\ Serving(c)
    BY <1>2, Packets DEF HidInv, OnePlace, Extend, Handle, Copy, Lock, Fill, AtRest
  <2>2. length' = length /\ length' \in BOOLEAN /\ lock' \in BOOLEAN
    BY <1>2, Zenon DEF HidInv, OnePlace, TypeOK, Extend, Handle, Copy, Lock, Fill
  <2>3. lock' <=> pc' \in {"fill", "validate", "unlock"}
    BY <1>2 DEF HidInv, OnePlace, Extend, Handle, Copy, Lock, Fill
  <2>4. Serving(c)'
    BY <1>2, <2>1, <2>2, Packets DEF HidInv, OnePlace, Serving, Extend, Handle, Copy, Lock, Fill
  <2>5. rxbuffer' \in T!Commands \cup T!Responses \cup {None} /\ txbuffer' \in T!Responses \cup {None}
    <3>1. rxbuffer' = rxbuffer \/ rxbuffer' = T!Response(c)
      BY <1>2, <2>1, Packets DEF Serving, Extend, Handle, Copy, Lock, Fill
    <3>2. txbuffer' = txbuffer \/ txbuffer' = T!Response(c)
      BY <1>2, <2>1, Packets DEF Serving, Extend, Handle, Copy, Lock, Fill
    <3> QED BY <3>1, <3>2, Packets DEF HidInv, TypeOK
  <2>6. pma' \in T!Responses \cup {None}
    BY <1>2, <2>1, Packets DEF HidInv, TypeOK, Serving, Extend, Handle, Copy, Lock, Fill, usb
  <2>7. UNCHANGED <<asked, got, out, outbuf, in>>
        /\ pc' \in {"poll", "copy", "lock", "fill", "validate", "unlock", "clear"}
    BY <1>1, <1>2 DEF Extend, Handle, Copy, Lock, Fill, host, usb
  <2>8. TypeOK'
    BY <2>2, <2>5, <2>6, <2>7 DEF HidInv, TypeOK
  <2> QED
    BY <2>1, <2>3, <2>4, <2>7, <2>8, HandledInv DEF HidInv, OnePlace
<1>3. CASE Validate
  <2>1. PICK c \in Cmd : asked = <<c>> /\ outbuf = None /\ in = None /\ Serving(c)
    BY <1>3, Packets DEF HidInv, OnePlace, Validate, AtRest
  <2>2. length' = length /\ length' \in BOOLEAN /\ lock' = lock /\ lock' \in BOOLEAN
    BY <1>3, Zenon DEF HidInv, OnePlace, TypeOK, Validate
  <2>3. in' = T!Response(c)
    BY <1>3, <2>1 DEF Validate, Serving
  <2>4. TypeOK'
    BY <1>1, <1>3, <2>2, <2>3, Packets DEF HidInv, OnePlace, TypeOK, Validate, host
  <2> QED
    BY <1>1, <1>3, <2>1, <2>2, <2>3, <2>4, HandledInv DEF HidInv, OnePlace, Validate, AtRest, Serving, host
<1>4. CASE Unlock \/ Clear
  <2>1. length' \in BOOLEAN /\ lock' \in BOOLEAN
    BY <1>4, Zenon DEF HidInv, OnePlace, TypeOK, Unlock, Clear
  <2>2. lock' <=> pc' \in {"fill", "validate", "unlock"}
    BY <1>4 DEF HidInv, OnePlace, Unlock, Clear
  <2>3. ~\E c \in Cmd : Serving(c) \/ (outbuf = T!Command(c) /\ pc = "poll")
    BY <1>4 DEF Serving, Unlock, Clear
  <2>4. AtRest'
    BY <1>4, <2>3 DEF HidInv, OnePlace, AtRest, Unlock, Clear
  <2>5. TypeOK'
    BY <1>1, <1>4, <2>1 DEF HidInv, OnePlace, TypeOK, Unlock, Clear, host, usb
  <2> QED
    BY <1>1, <1>4, <2>2, <2>3, <2>4, <2>5, HandledInv DEF HidInv, OnePlace, Unlock, Clear, host, usb
<1> QED BY <1>2, <1>3, <1>4 DEF Service

\* HidInv depends on no variable but vars.
LEMMA IdleInv == HidInv /\ UNCHANGED vars => HidInv'
<1> SUFFICES ASSUME HidInv, UNCHANGED vars PROVE HidInv'
  OBVIOUS
<1>1. UNCHANGED <<asked, got, out, outbuf, in, pma, length, rxbuffer, txbuffer, pc, lock>>
  BY Zenon DEF vars, host, usb
<1>2. TypeOK'
  BY <1>1, Zenon DEF HidInv, TypeOK
<1>3. OnePlace'
  BY <1>1, Zenon DEF HidInv, OnePlace, AtRest, Serving
<1>4. Handled'
  BY <1>1 DEF HidInv, Handled
<1> QED BY <1>1, <1>2, <1>3, <1>4, Zenon DEF HidInv

\* A command, or its response, is in exactly one place in every reachable
\* state, whatever the commands and however interrupts fall.
THEOREM HidInvariant ==
  ASSUME Prompt
  PROVE  Spec => []HidInv
<1>1. HidInv /\ [Next]_vars => HidInv'
  BY DebuggerInv, DataOutInv, ServiceInv, IdleInv DEF Next, Poll
<1> QED BY InitHidInv, <1>1, PTL DEF Spec

\* Whatever the commands, packets of the two kinds stay where they belong.
THEOREM HidTypes ==
  ASSUME Prompt
  PROVE  Spec => []TypeOK
<1>1. HidInv => TypeOK
  BY DEF HidInv
<1> QED BY HidInvariant, <1>1, PTL

\* Only a message that has been handled is marked as handled: none that came
\* in between, and none is marked by the interrupt.
THEOREM HidMarksHandled ==
  ASSUME Prompt
  PROVE  Spec => MarksHandled
<1>1. HidInv /\ [Next]_vars => [length /\ ~length' => rxbuffer.done \/ rxbuffer.cmd \in Vendor]_vars
  <2> SUFFICES ASSUME HidInv, Next, length, ~length' PROVE rxbuffer.done \/ rxbuffer.cmd \in Vendor
    OBVIOUS
  <2>1. Clear
    BY Zenon DEF Next, Ask, Take, DataOut, Poll, Service, Extend, Handle, Copy, Lock, Fill, Validate, Unlock,
                 vars, usb
  <2>2. pc = "clear"
    BY <2>1 DEF Clear
  <2> QED BY <2>2 DEF HidInv, Handled
<1> QED BY HidInvariant, <1>1, PTL DEF Spec, MarksHandled

\* Nothing is received over the message the main loop is working on.
THEOREM HidBuffersKept ==
  ASSUME Prompt
  PROVE  Spec => []BuffersKept
<1>1. HidInv => BuffersKept
  BY DEF HidInv, OnePlace, BuffersKept, AtRest
<1> QED BY HidInvariant, <1>1, PTL

\* The interrupt always finds the HAL unlocked.
THEOREM HidNeverBusy ==
  ASSUME Prompt
  PROVE  Spec => []NeverBusy
<1>1. HidInv => NeverBusy
  BY DEF HidInv, OnePlace, NeverBusy, AtRest
<1> QED BY HidInvariant, <1>1, PTL

\* The firmware implements the safety part of the transport the debugger
\* relies on: each step is one of DapTransport or does not show.
THEOREM HidImplementsTransport ==
  ASSUME Prompt
  PROVE  Spec => T!Init /\ [][T!Next]_(T!vars)
<1>1. Init => T!Init
  BY DEF Init
<1>2. HidInv /\ [Next]_vars => [T!Next]_(T!vars)
  <2> SUFFICES ASSUME HidInv, [Next]_vars PROVE [T!Next]_(T!vars)
    OBVIOUS
  <2>1. CASE Take
    <3>1. PICK c \in Cmd : asked = <<c>> /\ in = T!Response(c)
      BY <2>1, HidAssumption, Packets DEF HidInv, OnePlace, Take
    <3>2. Head(asked) = c /\ asked # <<>>
      BY <3>1
    <3> QED BY <2>1, <3>1, <3>2 DEF Take, T!Next, T!Answer
  <2>2. ASSUME NEW c \in Cmd, Ask(c) PROVE T!Next
    BY <2>2 DEF Ask, T!Next, T!Ask
  <2>3. CASE DataOut \/ Poll \/ Service \/ UNCHANGED vars
    BY <2>3 DEF DataOut, Poll, Service, Extend, Handle, Copy, Lock, Fill, Validate, Unlock,
               Clear, host, vars, T!vars
  <2> QED BY <2>1, <2>2, <2>3 DEF Next
<1> QED BY HidInvariant, <1>1, <1>2, PTL DEF Spec
=============================================================================
