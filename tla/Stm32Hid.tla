------------------------------ MODULE Stm32Hid ------------------------------
(***************************************************************************)
(* The way of a command through the STM32F0x2 firmware: the USB interrupt  *)
(* (USBD_VendorHID_DataOut and VendorHID_Callback), which may come between *)
(* any two steps of the main loop, and the main loop (VendorHID_Service),  *)
(* which processes the command and hands the response to the HAL.          *)
(*                                                                         *)
(* The interrupt runs to its end before the main loop goes on, so each of  *)
(* its handlers is one step.  The main loop is cut where shared state is   *)
(* read or written: message, the lock of the HAL handle, the endpoint.     *)
(***************************************************************************)
EXTENDS Naturals, Sequences

CONSTANTS
  Cmd,      \* commands
  None,     \* no packet
  Vendor,   \* those with an ID_DAP_Vendor number, answered by vendor_extension
  Prompt    \* TRUE: a response taken from the endpoint is followed by the next
            \* command no sooner than the main loop takes to the end of its pass

\* Slip: a debugger told that it may send ahead.
PacketCountTwo == 2

DAP_PACKET_COUNT == 1

VARIABLES
  asked,   \* commands the debugger has sent and not seen answered
  got,     \* the last response it has seen
  out,     \* OUT endpoint: "valid" (takes a packet) or "nak"
  outbuf,  \* its packet memory, None when no reception is pending
  in,      \* IN endpoint: the packet it sends when polled, None for "nak"
  pma,     \* packet memory of the IN endpoint
  length,  \* message.length # 0
  rxbuffer, txbuffer,   \* message.rxbuffer, message.txbuffer
  pc,      \* where VendorHID_Service is
  lock     \* hpcd.Lock

host == <<asked, got>>
usb  == <<out, outbuf, in, pma>>
vars == <<host, usb, length, rxbuffer, txbuffer, pc, lock>>

T == INSTANCE DapTransport WITH PacketCount <- DAP_PACKET_COUNT

ASSUME HidAssumption ==
  Vendor \subseteq Cmd /\ Prompt \in BOOLEAN /\ None \notin T!Commands \cup T!Responses

\* After USBD_VendorHID_Init: the OUT endpoint waits for the first command.
Init ==
  /\ T!Init
  /\ out = "valid" /\ outbuf = None /\ in = None /\ pma = None
  /\ length = FALSE /\ rxbuffer = None /\ txbuffer = None
  /\ pc = "poll" /\ lock = FALSE

-----------------------------------------------------------------------------
\* The debugger (external).  Its next command goes out in a later USB frame
\* than the response it took: with Prompt the main loop has moved on by then.
Ask(c) ==
  /\ Len(asked) < DAP_PACKET_COUNT
  /\ out = "valid"
  /\ Prompt => pc \notin {"unlock", "clear"}
  /\ asked' = Append(asked, c)
  /\ out' = "nak" /\ outbuf' = T!Command(c)
  /\ UNCHANGED <<got, in, pma, length, rxbuffer, txbuffer, pc, lock>>

Take ==
  /\ in # None
  /\ got' = in /\ in' = None
  /\ asked' = Tail(asked)
  /\ UNCHANGED <<out, outbuf, pma, length, rxbuffer, txbuffer, pc, lock>>

-----------------------------------------------------------------------------
\* USB interrupt, packet received: USBD_VendorHID_DataOut copies it, readies
\* the endpoint and passes it on; where the HAL is locked it does neither.
DataOut ==
  /\ outbuf # None
  /\ outbuf' = None
  /\ IF lock THEN UNCHANGED <<out, rxbuffer, length>>
             ELSE out' = "valid" /\ rxbuffer' = outbuf /\ length' = TRUE
  /\ UNCHANGED <<host, in, pma, txbuffer, pc, lock>>

-----------------------------------------------------------------------------
\* The main loop: nothing received yet, ...
Poll ==
  /\ pc = "poll" /\ ~length
  /\ UNCHANGED vars

\* ... a command of the vendor's, ...
Extend ==
  /\ pc = "poll" /\ length /\ rxbuffer.cmd \in Vendor
  /\ txbuffer' = T!Response(rxbuffer.cmd)
  /\ pc' = "lock"
  /\ UNCHANGED <<host, usb, length, rxbuffer, lock>>

\* Slip: the response left where only dap_handler sees it.
HandleNoCopyBack ==
  /\ pc = "poll" /\ length /\ rxbuffer.cmd \notin Vendor
  /\ pc' = "copy"
  /\ UNCHANGED <<host, usb, length, rxbuffer, txbuffer, lock>>

\* ... or one for dap_handler, which leaves the response in its place, ...
Handle ==
  /\ pc = "poll" /\ length /\ rxbuffer.cmd \notin Vendor
  /\ rxbuffer' = T!Response(rxbuffer.cmd)
  /\ pc' = "copy"
  /\ UNCHANGED <<host, usb, length, txbuffer, lock>>

Copy ==
  /\ pc = "copy"
  /\ txbuffer' = rxbuffer
  /\ pc' = "lock"
  /\ UNCHANGED <<host, usb, length, rxbuffer, lock>>

\* ... then HAL_PCD_EP_Transmit, whose HAL_BUSY nobody looks at, ...
Lock ==
  /\ pc = "lock"
  /\ lock' = TRUE
  /\ pc' = IF lock THEN "clear" ELSE "fill"
  /\ UNCHANGED <<host, usb, length, rxbuffer, txbuffer>>

Fill ==
  /\ pc = "fill"
  /\ pma' = txbuffer
  /\ pc' = "validate"
  /\ UNCHANGED <<host, out, outbuf, in, length, rxbuffer, txbuffer, lock>>

Validate ==
  /\ pc = "validate"
  /\ in' = pma
  /\ pc' = "unlock"
  /\ UNCHANGED <<host, out, outbuf, pma, length, rxbuffer, txbuffer, lock>>

\* Slip: the HAL left locked.
UnlockNever ==
  /\ pc = "unlock"
  /\ pc' = "clear"
  /\ UNCHANGED <<host, usb, length, rxbuffer, txbuffer, lock>>

Unlock ==
  /\ pc = "unlock"
  /\ lock' = FALSE
  /\ pc' = "clear"
  /\ UNCHANGED <<host, usb, length, rxbuffer, txbuffer>>

\* Slip: the message left to be handled once more.
ClearNothing ==
  /\ pc = "clear"
  /\ pc' = "poll"
  /\ UNCHANGED <<host, usb, length, rxbuffer, txbuffer, lock>>

\* ... and the message is marked as handled.
Clear ==
  /\ pc = "clear"
  /\ length' = FALSE
  /\ pc' = "poll"
  /\ UNCHANGED <<host, usb, rxbuffer, txbuffer, lock>>

Service == Extend \/ Handle \/ Copy \/ Lock \/ Fill \/ Validate \/ Unlock \/ Clear

Next == (\E c \in Cmd : Ask(c)) \/ Take \/ DataOut \/ Poll \/ Service

\* The debugger polls the IN endpoint, interrupts are served, and the main
\* loop does nothing but call VendorHID_Service.
Spec == Init /\ [][Next]_vars /\ WF_vars(Take) /\ WF_vars(DataOut) /\ WF_vars(Service)
-----------------------------------------------------------------------------
\* Commands go in and responses come out; rxbuffer holds both in turn.
TypeOK ==
  /\ asked \in Seq(Cmd) /\ got \in T!Responses \cup {None}
  /\ out \in {"valid", "nak"} /\ outbuf \in T!Commands \cup {None}
  /\ in \in T!Responses \cup {None} /\ pma \in T!Responses \cup {None}
  /\ length \in BOOLEAN
  /\ rxbuffer \in T!Commands \cup T!Responses \cup {None}
  /\ txbuffer \in T!Responses \cup {None}
  /\ pc \in {"poll", "copy", "lock", "fill", "validate", "unlock", "clear"}
  /\ lock \in BOOLEAN

\* The buffers are in one pair of hands at a time, though nothing guards
\* them: while the main loop is between reading a command and having its
\* response sent, no reception is pending that would overwrite rxbuffer.
BuffersKept == pc \in {"copy", "lock", "fill", "validate"} => outbuf = None

\* The interrupt never finds the HAL locked by the main loop: it would lose
\* the command and leave the endpoint deaf.
NeverBusy == outbuf # None => ~lock

\* "mark that we've handled the message": the mark is only put on a message
\* that has been handled, not on one that arrived in between.
MarksHandled == [][length /\ ~length' => rxbuffer.done \/ rxbuffer.cmd \in Vendor]_vars

\* The main loop has no message in hand, or only the end of one.
AtRest == (pc = "poll" /\ ~length) \/ (pc \in {"unlock", "clear"} /\ length)

\* The main loop is at work on command c.
Serving(c) ==
  /\ length
  /\ \/ pc = "poll" /\ rxbuffer = T!Command(c)
     \/ pc = "copy" /\ rxbuffer = T!Response(c)
     \/ pc \in {"lock", "fill"} /\ txbuffer = T!Response(c)
     \/ pc = "validate" /\ pma = T!Response(c)

\* There is at most one command on its way, and it or its response is in
\* exactly one place.
OnePlace ==
  \/ asked = <<>> /\ outbuf = None /\ in = None /\ AtRest
  \/ \E c \in Cmd :
       /\ asked = <<c>>
       /\ \/ outbuf = T!Command(c) /\ in = None /\ pc = "poll" /\ ~length
          \/ outbuf = None /\ in = None /\ Serving(c)
          \/ outbuf = None /\ in = T!Response(c) /\ AtRest

\* What lies in rxbuffer once the response is ready has been handled.
Handled ==
  pc \in {"lock", "fill", "validate", "unlock", "clear"} => rxbuffer.done \/ rxbuffer.cmd \in Vendor

\* What the steps preserve under Prompt.
HidInv ==
  /\ TypeOK
  /\ OnePlace
  /\ Handled
  /\ lock <=> pc \in {"fill", "validate", "unlock"}
  /\ outbuf = None <=> out = "valid"

\* Every command the debugger sends is answered, by the response to it.
Contract == T!Spec
=============================================================================
