------------------------------- MODULE Samd11 -------------------------------
(***************************************************************************)
(* The SAMD11 firmware on the bus: all of it runs in the USB interrupt     *)
(* (USB_Handler), the main loop is empty.  To answer a control request the *)
(* handler waits, in the interrupt, until the host has taken the answer:   *)
(* it comes in two steps, up to the wait and on from it.                   *)
(*                                                                         *)
(* Every descriptor of this firmware is shorter than endpoint 0.           *)
(***************************************************************************)
EXTENDS UsbHost

SamRequests ==
  {SetAddress, SetConfig, Unknown, GetDesc(1, 2), ClearHalt(ToDevice), ClearHalt(ToHost)}

\* This is the firmware the device runs.
Sam == dev.fw = "samd11"

\* udc_init.
SamInit ==
  dev = [fw |-> "samd11",
         dadd |-> 0,           \* DADD.DADD
         bus |-> FALSE,        \* EORST: the bus has been reset
         setup |-> None,       \* RXSTP: a SETUP packet that has not been served
         wait |-> None,        \* the request whose answer the handler waits to see taken
         in0 |-> FALSE,        \* BK1RDY of endpoint 0: that answer is to be taken
         out0 |-> FALSE,       \* BK0RDY clear: endpoint 0 takes a packet
         stall0 |-> FALSE,     \* STALLRQ1
         in1 |-> None,         \* response in the IN endpoint
         ev1 |-> FALSE,        \* TRCPT1: the response has been taken
         out1 |-> FALSE,       \* the OUT endpoint takes a command
         buf1 |-> None,        \* app_request_buffer, TRCPT0: a command has come
         toggle |-> <<0, 0>>,  \* DTGLOUT and DTGLIN: of the next packet each way
         host |-> <<0, 0>>]    \* the host's

\* The answer to a request is in and the handler goes on, in no time a host
\* could tell: 2 ms after SET_ADDRESS, 10 ms after a reset.
SamTaken == dev.wait # None /\ ~dev.in0
SamAddr ==
  IF dev.bus THEN 0
  ELSE IF SamTaken /\ dev.wait.kind = "address" THEN dev.wait.arg ELSE dev.dadd
SamRecovered == Sam /\ ~dev.bus /\ SamAddr = dev.dadd

SamHeard == Sam /\ dev.dadd = hostaddr /\ ~dev.bus
SamReady == SamHeard /\ dev.setup = None

\* The handler waits for a host that has turned to something else.
SamLost == dev.wait # None /\ dev.in0 /\ (dev.bus \/ dev.setup # None \/ xfer = None)
-----------------------------------------------------------------------------
\* With care, the device is not configured while a command has just come in,
\* and a halt is cleared only where the toggle is DATA0 all the same.
SamCare(r) ==
  /\ r.kind = "config" => dev.buf1 = None
  /\ r.kind = "clear" => dev.toggle[r.arg] = 0

\* The host's actions, and what the peripheral makes of them.
SamSetup ==
  \E r \in SamRequests :
    /\ SamRecovered
    /\ HostSetup(r, SamCare(r))
    /\ dev' = IF SamHeard
              THEN [dev EXCEPT !.setup = r, !.stall0 = FALSE,
                               !.host = IF r.kind = "config" THEN <<0, 0>> ELSE @]
              ELSE dev

\* The answer, data or not, in one packet.
SamAnswer == IF dev.wait.kind = "get" THEN Packet(dev.wait, 0) ELSE Zero(dev.wait)

SamControlIn ==
  /\ SamReady /\ ~dev.stall0 /\ dev.in0
  /\ HostData(SamAnswer) \/ HostStatusIn(SamAnswer)
  /\ dev' = [dev EXCEPT !.in0 = FALSE,
                        !.host = IF dev.wait.kind = "clear" THEN [@ EXCEPT ![dev.wait.arg] = 0] ELSE @]

SamControlOut ==
  /\ SamReady /\ dev.out0
  /\ HostStatusOut
  /\ dev' = [dev EXCEPT !.out0 = FALSE]

SamControlStall == SamReady /\ dev.stall0 /\ HostStalled /\ UNCHANGED dev

SamAbandon == Sam /\ HostAbandon(TRUE) /\ UNCHANGED dev

\* Whether what is in the endpoints outlives the reset is the hardware's.
SamBusReset ==
  /\ Sam
  /\ HostReset(TRUE)
  /\ \E c \in {dev.in1, None}, q \in {dev.buf1, None} :
       dev' = [dev EXCEPT !.bus = TRUE, !.in1 = c, !.buf1 = q]

\* A packet of the other toggle is acknowledged and ignored at either end.
SamAsk ==
  \E c \in Cmd :
    /\ SamHeard /\ dev.out1 /\ ~SamTaken
    /\ HostAsk
    /\ dev' = IF dev.toggle[ToDevice] = dev.host[ToDevice]
              THEN [dev EXCEPT !.out1 = FALSE, !.buf1 = c,
                               !.toggle[ToDevice] = 1 - @, !.host[ToDevice] = 1 - @]
              ELSE [dev EXCEPT !.host[ToDevice] = 1 - @]

SamTake ==
  /\ SamHeard /\ dev.in1 # None
  /\ IF dev.toggle[ToHost] = dev.host[ToHost]
     THEN HostTake(dev.in1) ELSE waiting > 0 /\ UNCHANGED hostvars
  /\ dev' = [dev EXCEPT !.in1 = None, !.ev1 = TRUE, !.toggle[ToHost] = 1 - @,
                        !.host[ToHost] = IF @ = dev.toggle[ToHost] THEN 1 - @ ELSE @]

-----------------------------------------------------------------------------
\* The handler, part by part.  A bus reset: no address, no endpoint but 0.
SamServeBus(d) ==
  IF d.bus
  THEN [d EXCEPT !.bus = FALSE, !.dadd = 0, !.in0 = FALSE, !.out0 = TRUE, !.out1 = FALSE]
  ELSE d

\* A SETUP packet: an answer to be taken, by udc_control_send, or STALL.  An
\* endpoint that does not say STALL is left as it is when its halt is cleared
\* (udc_endpoint_clear_feature).
SamServeSetup(d) ==
  IF d.setup = None THEN d
  ELSE LET e == [d EXCEPT !.setup = None, !.out0 = TRUE]
       IN IF d.setup.kind = "unknown" THEN [e EXCEPT !.stall0 = TRUE]
          ELSE [e EXCEPT !.wait = d.setup, !.in0 = TRUE]

\* A taken response: BK1RDY is cleared, usb_send_callback does nothing.
SamServeIn(d) == IF d.ev1 THEN [d EXCEPT !.ev1 = FALSE, !.in1 = None] ELSE d

\* A command, in usb_recv_callback: dap_handler, usb_send, usb_recv.
SamServeOut(d) ==
  IF d.buf1 # None
  THEN [d EXCEPT !.buf1 = None, !.in1 = d.buf1, !.out1 = TRUE]
  ELSE d

\* Slip: the endpoints served from the last to the first.
SamEndpointsBackwards(d) == SamServeIn(SamServeOut(d))

\* The endpoints in their order, that of the responses first.
SamEndpoints(d) == SamServeOut(SamServeIn(d))

\* The interrupt, up to the wait if there is one.
SamHandler ==
  /\ Sam /\ dev.wait = None
  /\ LET d == SamServeSetup(SamServeBus(dev))
     IN dev' = IF d.wait = None THEN SamEndpoints(d) ELSE d
  /\ dev' # dev
  /\ UNCHANGED hostvars

\* Slip: a response left in the endpoint that is configured.
SamConfiguredFull(d) == [d EXCEPT !.out1 = TRUE, !.toggle = <<0, 0>>]

\* udc_configure_endpoint clears BK1RDY and the toggles; then
\* usb_configuration_callback asks for a command.
SamConfigured(d) == [d EXCEPT !.in1 = None, !.out1 = TRUE, !.toggle = <<0, 0>>]

\* usb_handle_standard_request after the wait.
SamAnswered(d) ==
  LET e == [d EXCEPT !.wait = None]
  IN CASE d.wait.kind = "address" -> [e EXCEPT !.dadd = d.wait.arg]
       [] d.wait.kind = "config"  -> SamConfigured(e)
       [] OTHER                   -> e

\* The interrupt on from the wait.
SamWaited ==
  /\ Sam /\ SamTaken
  /\ dev' = SamEndpoints(SamAnswered(dev))
  /\ UNCHANGED hostvars

SamPolls == SamControlIn \/ SamControlOut \/ SamControlStall
SamHost == SamSetup \/ SamPolls \/ SamAbandon \/ SamBusReset \/ SamAsk \/ SamTake

SamNext == SamHost \/ SamHandler \/ SamWaited

\* The host polls the endpoints it waits for, and the interrupt is served.
SamFairness ==
  /\ WF_usbvars(SamPolls)
  /\ WF_usbvars(SamTake)
  /\ WF_usbvars(SamHandler \/ SamWaited)
-----------------------------------------------------------------------------
\* The commands it has not answered, oldest first.
SamOwed == Held(dev.in1) \o Held(dev.buf1)

\* The toggles of the packets to come, the peripheral's and the host's.
SamToggles == Sam /\ conf /\ dev.wait = None => dev.toggle = dev.host

\* usb_recv_callback writes app_response_buffer, from which the USB peripheral
\* reads the last response, without a look at the endpoint: it holds none.
ResponseTaken == Sam /\ conf /\ dev.buf1 # None => dev.in1 = None

-----------------------------------------------------------------------------
\* The fields of the device.
SamDevice ==
  [fw : {"samd11"}, dadd : {0, Address}, bus : BOOLEAN,
           setup : SamRequests \cup {None}, wait : SamRequests \cup {None},
           in0 : BOOLEAN, out0 : BOOLEAN, stall0 : BOOLEAN,
           in1 : Cmd \cup {None}, ev1 : BOOLEAN, out1 : BOOLEAN, buf1 : Cmd \cup {None},
           toggle : [1..2 -> 0..1], host : [1..2 -> 0..1]]

\* The handler is between a SET_CONFIGURATION and its answer, or just behind it.
SamConfiguring == dev.wait # None /\ dev.wait.kind = "config"

\* The host and the device mean the same transfer and the same address, but
\* for the time from the end of SET_ADDRESS to the handler's next step.
SamControlInv ==
  /\ dev.bus => xfer = None /\ hostaddr = 0 /\ ~conf
  /\ ~dev.bus => hostaddr = IF SamTaken /\ dev.wait.kind = "address" THEN dev.wait.arg ELSE dev.dadd
  /\ xfer # None /\ dev.setup # None => dev.setup = xfer.req
  /\ dev.in0 => dev.wait # None
  /\ xfer # None /\ dev.setup = None /\ dev.in0 => dev.wait = xfer.req

\* One command at a time, and toggles that agree: those of a configuration
\* once the handler goes on from its answer.
SamSessionInv ==
  /\ Is("config") => dev.buf1 = None /\ dev.host = <<0, 0>>
  /\ Is("clear") => dev.toggle[xfer.req.arg] = 0
  /\ (dev.setup # None /\ dev.setup.kind = "config") \/ (SamConfiguring /\ dev.in0) => ~conf
  /\ conf /\ dev.buf1 # None => waiting = 1 /\ dev.in1 = None
  /\ IF SamConfiguring
     THEN conf => dev.buf1 = None /\ waiting = 0 /\ dev.host = <<0, 0>>
     ELSE conf => dev.toggle = dev.host /\ (dev.in1 # None => waiting = 1)

SamInv == Sam => SamControlInv /\ SamSessionInv

\* A response that has been taken is not in its endpoint any more.
SamReplyInv == Sam /\ dev.ev1 => dev.in1 = None

\* A request is answered from its start, and STALL said only to what is not
\* known.
SamDataInv ==
  Sam =>
    /\ dev.wait # None => dev.wait.kind # "unknown"
    /\ dev.setup # None => ~dev.stall0
    /\ xfer # None =>
         /\ dev.setup # None \/ dev.in0 => xfer.n = 0
         /\ dev.setup = None /\ dev.stall0 => xfer.req.kind = "unknown"
=============================================================================
