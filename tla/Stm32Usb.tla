------------------------------ MODULE Stm32Usb ------------------------------
(***************************************************************************)
(* The STM32F0x2 firmware on the bus: control requests, the bus reset and  *)
(* the debugger's endpoints, through the HAL's PCD driver and the USB      *)
(* device core.  The interrupt (HAL_PCD_IRQHandler) serves one event after *)
(* the other, and may come while the main loop (VendorHID_Service) has the *)
(* HAL locked to send a response: what it then asks of the HAL is refused, *)
(* and nobody looks at HAL_BUSY.  Stm32Hid has the steps of the main loop. *)
(*                                                                         *)
(* The configuration descriptor is longer than endpoint 0, none is a       *)
(* multiple of its size, so that no empty packet ends the data.  The       *)
(* toggles of the debugger's endpoints are left out: both ends start them  *)
(* again by the same requests.                                             *)
(***************************************************************************)
EXTENDS UsbHost

StmRequests ==
  {SetAddress, SetConfig, Unknown, GetDesc(3, 2), GetDesc(3, 4), ClearHalt(ToDevice), ClearHalt(ToHost)}

\* This is the firmware the device runs.
Stm == dev.fw = "stm32f0x2"

\* HAL_PCD_Init and USBD_Start.
StmInit ==
  dev = [fw |-> "stm32f0x2",
         daddr |-> 0,          \* DADDR
         address |-> 0,        \* hpcd.USB_Address, to be put into DADDR
         state |-> "default",  \* dev_state
         bus |-> FALSE,        \* ISTR.RESET: the bus has been reset
         setup |-> None,       \* CTR_RX and SETUP: a SETUP packet to be served
         in0 |-> None,         \* packet of the control IN endpoint, None for NAK
         sent |-> FALSE,       \* CTR_TX: it has been taken
         data |-> None,        \* where the data sent last start, while ep0_state is
                               \* USBD_EP0_DATA_IN
         out0 |-> TRUE,        \* the control OUT endpoint takes a packet
         came |-> FALSE,       \* CTR_RX without SETUP: it has taken one
         stall0 |-> FALSE,     \* both say STALL
         in1 |-> None,         \* response in the IN endpoint, None for NAK
         last |-> None,        \* the last response put into its packet memory
         out1 |-> FALSE,       \* the OUT endpoint takes a command
         buf1 |-> None,        \* CTR_RX of the OUT endpoint: the command taken
         message |-> None,     \* command the main loop has in message
         lock |-> FALSE,       \* hpcd.Lock, held by the main loop
         refused |-> FALSE]    \* what the interrupt asked for has been refused

\* The address the device answers to once what has happened is served.
StmAddr ==
  IF dev.bus THEN 0
  ELSE IF dev.address # 0 /\ dev.sent THEN dev.address ELSE dev.daddr
StmRecovered == Stm /\ ~dev.bus /\ StmAddr = dev.daddr

StmHeard == Stm /\ dev.daddr = hostaddr /\ ~dev.bus
StmReady == StmHeard /\ dev.setup = None

\* With care, a request waits for the end of the last to be served, and the
\* device is configured once after each reset, with no command in the works.
\* No halt is cleared of the IN endpoint.
StmCare(r) ==
  /\ ~dev.sent
  /\ r.kind = "config" => dev.state # "configured" /\ dev.message = None
  /\ r # ClearHalt(ToHost)
-----------------------------------------------------------------------------
\* The host's actions, and what the peripheral makes of them.
StmSetup ==
  \E r \in StmRequests :
    /\ StmRecovered
    /\ HostSetup(r, StmCare(r))
    /\ dev' = IF StmHeard
              THEN [dev EXCEPT !.setup = r, !.in0 = None, !.out0 = FALSE, !.came = FALSE,
                               !.stall0 = FALSE]
              ELSE dev

StmControlIn ==
  /\ StmReady /\ dev.in0 # None
  /\ HostData(dev.in0) \/ HostStatusIn(dev.in0)
  /\ dev' = [dev EXCEPT !.in0 = None, !.sent = TRUE]

StmControlOut ==
  /\ StmReady /\ dev.out0
  /\ HostStatusOut
  /\ dev' = [dev EXCEPT !.out0 = FALSE, !.came = TRUE]

StmControlStall == StmReady /\ dev.stall0 /\ HostStalled /\ UNCHANGED dev

\* With care, a transfer that gives an address is not given up, unless it has
\* been refused, ...
StmGivenAddress ==
  xfer.req.kind = "address" /\ ~(dev.refused /\ dev.setup = None /\ dev.address = 0)

StmAbandon ==
  /\ Stm /\ HostAbandon(~StmGivenAddress /\ xfer.req.kind # "clear")
  /\ UNCHANGED dev

\* ... nor is the bus reset in it.  The reset disables the endpoints, and
\* leaves the flags of what has been taken.
StmBusReset ==
  /\ Stm /\ ~dev.bus
  /\ HostReset(xfer # None => ~StmGivenAddress)
  /\ dev' = [dev EXCEPT !.bus = TRUE, !.in0 = None, !.out0 = FALSE, !.stall0 = FALSE,
                        !.in1 = None, !.out1 = FALSE]

StmAsk ==
  \E c \in Cmd :
    /\ StmHeard /\ dev.out1
    /\ HostAsk
    /\ dev' = [dev EXCEPT !.out1 = FALSE, !.buf1 = c]

StmTake ==
  /\ StmHeard /\ dev.in1 # None
  /\ HostTake(dev.in1)
  /\ dev' = [dev EXCEPT !.in1 = None]

-----------------------------------------------------------------------------
\* What the interrupt asks of the HAL: done as e, or refused.
StmAsks(d, e) == IF d.lock THEN [d EXCEPT !.refused = TRUE] ELSE e

\* USBD_LL_Transmit of the data of r from k on, or of an empty packet, on
\* endpoint 0; USBD_CtlError.
StmSend(d, r, k) ==
  LET e == [d EXCEPT !.data = [req |-> r, from |-> k]]
  IN StmAsks(e, [e EXCEPT !.in0 = Packet(r, k)])
StmStatus(d, r) == StmAsks(d, [d EXCEPT !.in0 = Zero(r)])
StmStall(d)     == StmAsks(d, [d EXCEPT !.stall0 = TRUE])

\* USBD_SetAddress: the address waits for the status stage to end.
StmSetAddress(d, r) ==
  IF d.state = "configured" THEN StmStall(d)
  ELSE [StmStatus(StmAsks(d, [d EXCEPT !.address = r.arg]), r) EXCEPT !.state = "addressed"]

\* Slip: an endpoint opened with what it held.
StmOpenedFull(d) == StmAsks(d, [d EXCEPT !.out1 = TRUE])

\* USBD_VendorHID_Init: the endpoints opened, a command asked for.
StmOpened(d) == StmAsks(d, [d EXCEPT !.in1 = None, !.out1 = TRUE])

\* USBD_SetConfig: the endpoints are opened on the way from "addressed" only.
StmSetConfig(d, r) ==
  CASE d.state = "addressed"  -> StmStatus([StmOpened(d) EXCEPT !.state = "configured"], r)
    [] d.state = "configured" -> StmStatus(d, r)
    [] d.state = "default"    -> StmStall(d)

\* HAL_PCD_EP_ClrStall: the endpoint valid, whether there is a packet or not.
StmClear(d, dir) ==
  StmAsks(d, IF dir = ToHost THEN [d EXCEPT !.in1 = d.last] ELSE [d EXCEPT !.out1 = TRUE])

\* HAL_PCD_EP_SetStall of such an endpoint: it neither sends nor takes.
StmStallEp(d, dir) ==
  StmAsks(d, IF dir = ToHost THEN [d EXCEPT !.in1 = None] ELSE [d EXCEPT !.out1 = FALSE])

\* USBD_StdEPReq: without a configuration it is the endpoint that says STALL,
\* and endpoint 0 nothing.
StmClearFeature(d, r) ==
  CASE d.state = "configured" -> StmStatus(StmClear(d, r.arg), r)
    [] d.state = "addressed"  -> StmStallEp(d, r.arg)
    [] d.state = "default"    -> StmStall(d)

\* USBD_LL_SetupStage.
StmServeSetup(d) ==
  LET r == d.setup
      e == [d EXCEPT !.setup = None, !.data = None]
  IN CASE r.kind = "get"     -> StmSend(e, r, 0)
       [] r.kind = "address" -> StmSetAddress(e, r)
       [] r.kind = "config"  -> StmSetConfig(e, r)
       [] r.kind = "clear"   -> StmClearFeature(e, r)
       [] r.kind = "unknown" -> StmStall(e)

\* More of the data is to be sent.
StmMore(d) == d.data # None /\ d.data.from + MaxPacket0 < Total(d.data.req)

\* Slip: the status stage not prepared.
StmDataInOnly(d) ==
  IF StmMore(d) THEN StmSend(d, d.data.req, d.data.from + MaxPacket0) ELSE d

\* USBD_LL_DataInStage: more data, or the status stage after the last of them.
StmDataIn(d) ==
  IF d.data = None THEN d
  ELSE IF StmMore(d) THEN StmSend(d, d.data.req, d.data.from + MaxPacket0)
  ELSE StmAsks([d EXCEPT !.data = None], [d EXCEPT !.data = None, !.out0 = TRUE])

\* The control IN packet has been taken: the next, then the address if one
\* waits and this is the last.
StmServeIn(d) ==
  LET e == StmDataIn([d EXCEPT !.sent = FALSE])
  IN IF d.address # 0 /\ ~StmMore(e)
     THEN [e EXCEPT !.daddr = d.address, !.address = 0]
     ELSE e

\* USBD_LL_DataOutStage: the end of a request for data.
StmServeOut(d) == [d EXCEPT !.came = FALSE, !.out0 = TRUE]

\* USBD_VendorHID_DataOut: the endpoint first, then the command passed on.
StmServeCommand(d) ==
  LET e == [d EXCEPT !.buf1 = None]
  IN IF d.state # "configured" THEN e
     ELSE StmAsks(e, [e EXCEPT !.out1 = TRUE, !.message = d.buf1])

\* USBD_LL_Reset and HAL_PCD_SetAddress: endpoint 0 opened, the debugger's
\* closed, no address.
StmServeBus(d) ==
  LET e == [d EXCEPT !.bus = FALSE, !.state = "default"]
  IN StmAsks(e, [e EXCEPT !.daddr = 0, !.out0 = TRUE, !.in0 = None, !.in1 = None,
                          !.out1 = FALSE, !.refused = FALSE])

\* The events one after the other: endpoint 0 first, in it SETUP and OUT
\* before IN, ...
StmControl ==
  /\ Stm
  /\ \/ dev.setup # None /\ dev' = StmServeSetup(dev)
     \/ dev.setup = None /\ dev.came /\ dev' = StmServeOut(dev)
     \/ dev.setup = None /\ ~dev.came /\ dev.sent /\ dev' = StmServeIn(dev)
  /\ UNCHANGED hostvars

\* ... then a command, and the reset when all transfers are served.
StmControlDone == Stm /\ dev.setup = None /\ ~dev.came /\ ~dev.sent

StmCommand ==
  /\ StmControlDone /\ dev.buf1 # None
  /\ dev' = StmServeCommand(dev)
  /\ UNCHANGED hostvars

StmReset ==
  /\ StmControlDone /\ dev.buf1 = None /\ dev.bus
  /\ dev' = StmServeBus(dev)
  /\ UNCHANGED hostvars

\* The main loop: dap_handler, and the HAL locked to send the response; ...
StmService ==
  /\ Stm /\ dev.message # None /\ ~dev.lock
  /\ dev' = [dev EXCEPT !.lock = TRUE]
  /\ UNCHANGED hostvars

\* Slip: the message left to be handled once more.
StmServicedAgain ==
  /\ Stm /\ dev.lock
  /\ dev' = [dev EXCEPT !.lock = FALSE, !.in1 = dev.message, !.last = dev.message]
  /\ UNCHANGED hostvars

\* ... the response sent, the HAL unlocked and the message marked as handled.
StmServiced ==
  /\ Stm /\ dev.lock
  /\ dev' = [dev EXCEPT !.lock = FALSE, !.in1 = dev.message, !.last = dev.message,
                        !.message = None]
  /\ UNCHANGED hostvars

StmInterrupt == StmControl \/ StmCommand \/ StmReset
StmPolls == StmControlIn \/ StmControlOut \/ StmControlStall
StmHost == StmSetup \/ StmPolls \/ StmAbandon \/ StmBusReset \/ StmAsk \/ StmTake

StmNext == StmHost \/ StmInterrupt \/ StmService \/ StmServiced

\* The host polls the endpoints it waits for, the interrupt is served, faster
\* than SETUP packets come, and the main loop goes round.
StmFairness ==
  /\ WF_usbvars(StmPolls)
  /\ WF_usbvars(StmTake)
  /\ WF_usbvars(StmInterrupt)
  /\ SF_usbvars(StmCommand)
  /\ WF_usbvars(StmService \/ StmServiced)
-----------------------------------------------------------------------------
\* The commands it has not answered, oldest first.
StmOwed == Held(dev.in1) \o Held(dev.message) \o Held(dev.buf1)

\* No command reaches message while another is in it, though the interrupt
\* looks only at the endpoint.
MessageKept ==
  Stm /\ dev.state = "configured" /\ dev.buf1 # None => dev.message = None

-----------------------------------------------------------------------------
\* The fields of the device.
StmDevice ==
  [fw : {"stm32f0x2"}, daddr : {0, Address}, address : {0, Address},
           state : {"default", "addressed", "configured"}, bus : BOOLEAN,
           setup : StmRequests \cup {None}, in0 : Packets \cup {None}, sent : BOOLEAN,
           data : [req : Requests, from : Int] \cup {None}, out0 : BOOLEAN,
           came : BOOLEAN, stall0 : BOOLEAN, in1 : Cmd \cup {None}, last : Cmd \cup {None},
           out1 : BOOLEAN, buf1 : Cmd \cup {None}, message : Cmd \cup {None},
           lock : BOOLEAN, refused : BOOLEAN]

\* The host and the device mean the same transfer.  A device whose reset the
\* HAL has refused keeps its address, and nobody talks to it.
StmControlInv ==
  /\ dev.bus => xfer = None /\ hostaddr = 0 /\ ~conf
  /\ dev.setup # None =>
       /\ ~dev.sent /\ dev.in0 = None
       /\ ~dev.bus => dev.daddr = hostaddr
       /\ xfer # None => dev.setup = xfer.req
  /\ dev.sent => dev.in0 = None
  /\ dev.data # None => dev.data.req.kind = "get"
  /\ dev.data # None /\ dev.in0 # None => dev.data.req = dev.in0.req
  /\ xfer # None /\ dev.setup = None =>
       /\ dev.in0 # None /\ dev.daddr = hostaddr => dev.in0.req = xfer.req
       /\ dev.data # None /\ dev.sent => dev.data.req = xfer.req

\* The command the debugger waits for is in one place.
StmOnePlace ==
  /\ dev.buf1 # None => dev.state = "configured" /\ dev.message = None
  /\ dev.lock => dev.message # None
  /\ conf => dev.state = "configured"
  /\ conf /\ (dev.in1 # None \/ dev.message # None \/ dev.buf1 # None) => waiting = 1
  /\ conf /\ dev.in1 # None => dev.message = None /\ dev.buf1 = None

\* A configured session starts with nothing of the one before.
StmFreshSession ==
  /\ dev.setup # ClearHalt(ToHost)
  /\ Is("config") => dev.message = None /\ dev.buf1 = None
  /\ dev.setup # None /\ dev.setup.kind = "config" =>
       dev.message = None /\ dev.buf1 = None /\ dev.state # "configured"
  /\ dev.in0 # None /\ dev.in0.req.kind = "config" =>
       /\ dev.in1 = None /\ dev.message = None /\ dev.buf1 = None
       /\ dev.state = "configured" /\ ~conf

StmInv == Stm => StmControlInv /\ StmOnePlace /\ StmFreshSession

\* Between SET_ADDRESS and the end of its status stage the address waits in
\* USB_Address, and nothing comes in between.
StmAddressInv ==
  /\ dev.address # 0 =>
       /\ dev.data = None /\ dev.setup = None /\ dev.state = "addressed"
       /\ dev.sent \/ (Is("address") /\ ~dev.stall0)
  /\ dev.in0 # None /\ dev.in0.req.kind = "address" => dev.address # 0
  /\ dev.setup # None /\ dev.setup.kind = "address" => xfer # None
  /\ dev.setup # None /\ dev.setup.kind = "config" /\ ~dev.bus => hostaddr # 0
  /\ ~dev.refused /\ ~dev.bus =>
       /\ StmAddr = hostaddr
       /\ IF hostaddr = 0 THEN dev.state # "configured" ELSE dev.state # "default"

\* The packet that goes out is the next of the transfer's, data says which it
\* was, and STALL is said only to what is not known.
StmDataInv ==
  /\ dev.in0 # None => dev.in0.req.kind # "unknown"
  /\ dev.setup # None => ~dev.stall0
  /\ xfer # None /\ dev.setup # None => xfer.n = 0
  /\ xfer # None /\ dev.setup = None /\ dev.daddr = hostaddr =>
       /\ dev.in0 # None => dev.in0 = Packet(xfer.req, xfer.n)
       /\ dev.in0 # None /\ dev.data # None => dev.data.from = xfer.n
       /\ dev.sent /\ dev.data # None =>
            xfer.n = dev.data.from + Packet(dev.data.req, dev.data.from).len
  /\ xfer # None /\ dev.setup = None /\ dev.stall0 /\ ~dev.refused => xfer.req.kind = "unknown"

StmTransferInv == Stm => StmAddressInv /\ StmDataInv
=============================================================================
