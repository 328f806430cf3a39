------------------------------- MODULE Pic16 -------------------------------
(***************************************************************************)
(* The PIC16F145x firmware on the bus: the M-Stack, whose usb_service      *)
(* handles a bus reset and one token of endpoint 0 in a pass of the main   *)
(* loop, and the rest of that pass, which answers a command.  No interrupt *)
(* is used, and what comes in between waits for the next pass.             *)
(*                                                                         *)
(* A packet goes to or comes from a buffer the firmware has handed to the  *)
(* USB peripheral (UOWN).  The descriptors are longer than endpoint 0, and *)
(* none is a multiple of its size, so that control_need_zlp is never set.  *)
(* Tokens of endpoint 1 are taken from the peripheral's queue and ignored. *)
(***************************************************************************)
EXTENDS UsbHost

PicRequests ==
  {SetAddress, SetConfig, Unknown, GetDesc(3, 2), GetDesc(3, 4), ClearHalt(ToDevice), ClearHalt(ToHost)}

\* This is the firmware the device runs.
Pic == dev.fw = "pic16"

\* usb_init.
PicInit ==
  dev = [fw |-> "pic16",
         uaddr |-> 0,          \* UADDR
         addr |-> 0,           \* addr while addr_pending, else 0
         bus |-> FALSE,        \* URSTIF: the bus has been reset
         pktdis |-> FALSE,     \* PKTDIS: no packet is processed
         tokens |-> <<>>,      \* USTAT queue: "setup", "in" and "out" of endpoint 0
         setup |-> None,       \* request in ep0_buf.out
         out0 |-> TRUE,        \* that buffer is the peripheral's
         in0 |-> None,         \* packet in ep0_buf.in, when that is the peripheral's
         stall0 |-> FALSE,     \* BSTALL
         stage |-> None,       \* ep0_data_stage_in_buffer: the packet to send next
         configured |-> FALSE, \* g_configuration
         in1 |-> None,         \* response and its DTS, in a buffer of the peripheral
         tx_dts |-> 0,         \* EP_TX_DTS, EP_RX_DTS of endpoint 1
         rx_dts |-> 1,
         out1 |-> TRUE,        \* the OUT buffer of endpoint 1 is the peripheral's, ...
         dts |-> 0,            \* ... which takes a packet of this DTS
         buf1 |-> None,        \* command in it when it is not
         hin |-> 0, hout |-> 0] \* the host's toggles

\* The address the device answers to once what has happened is served.
PicAddr ==
  IF dev.bus THEN 0
  ELSE IF dev.addr # 0 /\ dev.tokens # <<>> /\ Head(dev.tokens) = "in" THEN dev.addr
  ELSE dev.uaddr
PicRecovered == Pic /\ ~dev.bus /\ PicAddr = dev.uaddr

PicHeard == Pic /\ dev.uaddr = hostaddr /\ ~dev.bus /\ ~dev.pktdis

\* Packets are disabled, and no SETUP packet is left whose handling would
\* enable them.
PicLost == dev.pktdis /\ (dev.bus \/ dev.tokens = <<>>)
-----------------------------------------------------------------------------
\* The host's actions, and what the peripheral makes of them.  A SETUP packet
\* is repeated until it is taken, and disables all others.  With care, the
\* device is configured once after each reset.
PicSetup ==
  \E r \in PicRequests :
    /\ PicRecovered /\ (PicHeard => dev.out0) /\ (dev.pktdis => PicLost)
    /\ HostSetup(r, r.kind = "config" => ~dev.configured)
    /\ dev' = IF PicHeard
              THEN [dev EXCEPT !.setup = r, !.out0 = FALSE, !.pktdis = TRUE,
                               !.tokens = Append(@, "setup"),
                               !.hin = IF r.kind = "config" THEN 0 ELSE @,
                               !.hout = IF r.kind = "config" THEN 0 ELSE @]
              ELSE dev

PicControlIn ==
  /\ PicHeard /\ ~dev.stall0 /\ dev.in0 # None
  /\ HostData(dev.in0) \/ HostStatusIn(dev.in0)
  /\ dev' = [dev EXCEPT !.in0 = None, !.tokens = Append(@, "in"),
                        !.hin = IF dev.in0.req = ClearHalt(ToHost) THEN 0 ELSE @,
                        !.hout = IF dev.in0.req = ClearHalt(ToDevice) THEN 0 ELSE @]

PicControlOut ==
  /\ PicHeard /\ dev.out0
  /\ HostStatusOut
  /\ dev' = [dev EXCEPT !.out0 = FALSE, !.tokens = Append(@, "out")]

PicControlStall == PicHeard /\ dev.stall0 /\ HostStalled /\ UNCHANGED dev

\* With care, a transfer that gives an address or clears a halt is not given
\* up.
PicAbandon == Pic /\ HostAbandon(xfer.req.kind \notin {"address", "clear"}) /\ UNCHANGED dev

\* Whether a reset enables packets is the hardware's.
PicBusReset ==
  /\ Pic /\ ~dev.bus
  /\ HostReset(TRUE)
  /\ \E p \in {dev.pktdis, FALSE} : dev' = [dev EXCEPT !.bus = TRUE, !.pktdis = p]

\* A packet of the other toggle is taken for one that has come before: it is
\* acknowledged and ignored, by the device as by the host.
PicAsk ==
  \E c \in Cmd :
    /\ PicHeard /\ dev.out1
    /\ HostAsk
    /\ dev' = IF dev.hout = dev.dts
              THEN [dev EXCEPT !.out1 = FALSE, !.buf1 = c, !.hout = 1 - @]
              ELSE [dev EXCEPT !.hout = 1 - @]

PicTake ==
  /\ PicHeard /\ dev.in1 # None
  /\ IF dev.in1.dts = dev.hin
     THEN HostTake(dev.in1.cmd) /\ dev' = [dev EXCEPT !.in1 = None, !.hin = 1 - @]
     ELSE waiting > 0 /\ UNCHANGED hostvars /\ dev' = [dev EXCEPT !.in1 = None]

-----------------------------------------------------------------------------
\* usb_service, part by part.  A bus reset: usb_init, which flushes USTAT and
\* clears the buffer descriptors, and leaves PKTDIS.
PicServeBus(d) ==
  IF d.bus
  THEN [d EXCEPT !.bus = FALSE, !.uaddr = 0, !.addr = 0, !.tokens = <<>>, !.setup = None,
                 !.out0 = TRUE, !.in0 = None, !.stall0 = FALSE, !.stage = None,
                 !.configured = FALSE, !.in1 = None, !.tx_dts = 0, !.rx_dts = 1,
                 !.out1 = TRUE, !.dts = 0, !.buf1 = None]
  ELSE d

\* The packet of request r from k on goes out, what follows it stays.
PicSend(d, r, k) ==
  LET next == k + Packet(r, k).len
  IN [d EXCEPT !.in0 = Packet(r, k),
               !.stage = IF next < Total(r) THEN [req |-> r, from |-> next] ELSE None]

\* CLEAR_FEATURE: the endpoint's buffer as after usb_init.
PicClear(d, dir) ==
  IF dir = ToHost THEN [d EXCEPT !.in1 = None, !.tx_dts = 0]
  ELSE [d EXCEPT !.out1 = TRUE, !.buf1 = None, !.dts = 0, !.rx_dts = 1]

\* handle_standard_control_request.
PicHandle(d, r) ==
  CASE r.kind = "get"     -> PicSend(d, r, 0)
    [] r.kind = "address" -> [d EXCEPT !.addr = r.arg, !.in0 = Zero(r)]
    [] r.kind = "config"  -> [d EXCEPT !.in0 = Zero(r), !.configured = TRUE]
    [] r.kind = "clear"   -> [PicClear(d, r.arg) EXCEPT !.in0 = Zero(r)]
    [] r.kind = "unknown" -> [d EXCEPT !.stall0 = TRUE]

\* Slip: what is left of the transfer before goes out in this one.
PicServeSetupStale(d) ==
  LET e == [d EXCEPT !.setup = None, !.in0 = None, !.stall0 = FALSE]
  IN [PicHandle(e, d.setup) EXCEPT !.pktdis = FALSE, !.out0 = TRUE]

\* handle_ep0_setup: what is left of the transfer before is dropped, the
\* request handled, and packets enabled again.
PicServeSetup(d) ==
  LET e == [d EXCEPT !.setup = None, !.in0 = None, !.stall0 = FALSE, !.stage = None]
  IN [PicHandle(e, d.setup) EXCEPT !.pktdis = FALSE, !.out0 = TRUE]

\* handle_ep0_out: the status stage of a request for data.
PicServeEp0Out(d) == [d EXCEPT !.stage = None, !.out0 = TRUE]

\* Slip: the data sent from their start once more.
PicServeEp0InAgain(d) ==
  LET e == [d EXCEPT !.uaddr = IF d.addr # 0 THEN d.addr ELSE @, !.addr = 0]
  IN IF e.stage = None THEN e ELSE PicSend(e, e.stage.req, 0)

\* handle_ep0_in: an address that waits is set, and more data are sent.
PicServeEp0In(d) ==
  LET e == [d EXCEPT !.uaddr = IF d.addr # 0 THEN d.addr ELSE @, !.addr = 0]
  IN IF e.stage = None THEN e ELSE PicSend(e, e.stage.req, e.stage.from)

\* One token in a pass, the oldest.
PicServeToken(d) ==
  IF d.tokens = <<>> THEN d
  ELSE LET e == [d EXCEPT !.tokens = Tail(@)]
       IN CASE Head(d.tokens) = "setup" -> PicServeSetup(e)
            [] Head(d.tokens) = "out"   -> PicServeEp0Out(e)
            [] Head(d.tokens) = "in"    -> PicServeEp0In(e)

PicUsbService ==
  /\ Pic
  /\ dev' = PicServeToken(PicServeBus(dev))
  /\ dev' # dev
  /\ UNCHANGED hostvars

\* Slip: the buffer handed back without a change of toggle.
PicArmSame(d) == [d EXCEPT !.out1 = TRUE, !.buf1 = None, !.dts = d.rx_dts]

\* usb_arm_out_endpoint.
PicArm(d) == [d EXCEPT !.out1 = TRUE, !.buf1 = None, !.dts = d.rx_dts, !.rx_dts = 1 - @]

\* The rest of the pass: dap_handler, usb_send_in_buffer, usb_arm_out_endpoint.
PicMain ==
  /\ Pic /\ dev.configured /\ dev.in1 = None /\ ~dev.out1
  /\ dev' = PicArm([dev EXCEPT !.in1 = [cmd |-> dev.buf1, dts |-> dev.tx_dts],
                               !.tx_dts = 1 - @])
  /\ UNCHANGED hostvars

PicPolls == PicControlIn \/ PicControlOut \/ PicControlStall
PicHost == PicSetup \/ PicPolls \/ PicAbandon \/ PicBusReset \/ PicAsk \/ PicTake

PicNext == PicHost \/ PicUsbService \/ PicMain

\* The host polls the endpoints it waits for, and the main loop goes round.
\* Packets are disabled now and then, but not each time the host polls.
PicFairness ==
  /\ WF_usbvars(PicPolls)
  /\ SF_usbvars(PicTake)
  /\ WF_usbvars(PicUsbService)
  /\ WF_usbvars(PicMain)
-----------------------------------------------------------------------------
\* The commands it has not answered, oldest first.
PicOwed ==
  (IF dev.in1 = None THEN <<>> ELSE <<dev.in1.cmd>>) \o Held(dev.buf1)

\* The toggles of the packets to come, the firmware's and the host's: the host
\* starts again from DATA0 only when it hears that a halt has been cleared.
PicToggles ==
  Pic /\ conf /\ (xfer # None => xfer.req.kind # "clear") =>
    /\ dev.out1 => dev.dts = dev.hout
    /\ dev.in1 # None => dev.in1.dts = dev.hin

-----------------------------------------------------------------------------
\* The fields of the device.
PicDevice ==
  [fw : {"pic16"}, uaddr : {0, Address}, addr : {0, Address}, bus : BOOLEAN,
           pktdis : BOOLEAN, tokens : Seq({"setup", "in", "out"}),
           setup : PicRequests \cup {None}, out0 : BOOLEAN, in0 : Packets \cup {None},
           stall0 : BOOLEAN, stage : [req : Requests, from : Int] \cup {None},
           configured : BOOLEAN, in1 : [cmd : Cmd, dts : 0..1] \cup {None},
           tx_dts : 0..1, rx_dts : 0..1, out1 : BOOLEAN, dts : 0..1, buf1 : Cmd \cup {None},
           hin : 0..1, hout : 0..1]

\* A SETUP packet stops the packets after it, so that its token is the last.
PicTokens(d) ==
  /\ ~d.bus /\ d.setup # None =>
       d.pktdis /\ d.tokens # <<>> /\ d.tokens[Len(d.tokens)] = "setup"
  /\ ~d.bus => \A i \in 1..Len(d.tokens) :
                  d.tokens[i] = "setup" => i = Len(d.tokens) /\ d.setup # None
  /\ ~d.out1 => d.buf1 # None

\* The host and the device mean the same transfer and the same address, but
\* for the time from the end of SET_ADDRESS to the pass that sees it.
PicControlInv ==
  /\ dev.bus => xfer = None /\ hostaddr = 0 /\ ~conf
  /\ ~dev.bus =>
       IF dev.addr = 0 THEN dev.uaddr = hostaddr
       ELSE /\ dev.setup = None /\ ~dev.pktdis /\ dev.uaddr = 0
            /\ \/ Is("address") /\ dev.tokens = <<>> /\ dev.uaddr = hostaddr
               \/ xfer = None /\ dev.tokens = <<"in">> /\ dev.addr = hostaddr
  /\ xfer # None /\ dev.setup # None => dev.setup = xfer.req
  /\ ~dev.bus /\ dev.setup # None /\ dev.setup.kind \in {"address", "clear"} => xfer # None
  /\ dev.stage # None => dev.stage.req.kind = "get"
  /\ xfer # None /\ ~dev.pktdis =>
       /\ dev.in0 # None => dev.in0.req = xfer.req
       /\ dev.stage # None => dev.stage.req = xfer.req
       /\ dev.stall0 => xfer.req.kind = "unknown"
       /\ Is("address") /\ dev.in0 # None => dev.addr # 0

\* The endpoints as usb_init leaves them.
PicFresh ==
  dev.in1 = None /\ dev.out1 /\ dev.tx_dts = 0 /\ dev.dts = 0 /\ dev.rx_dts = 1

\* One command at a time, and toggles that agree, but for those of a halt
\* that is being cleared, which the host has not heard of yet.
PicSessionInv ==
  /\ ~dev.bus /\ ~dev.configured => PicFresh
  /\ ~dev.bus /\ ~dev.pktdis /\ dev.in0 # None /\ dev.in0.req.kind = "config" => dev.configured
  /\ Is("config") =>
       PicFresh /\ (dev.setup # None \/ ~dev.pktdis => dev.hin = 0 /\ dev.hout = 0)
  /\ conf =>
       /\ dev.configured
       /\ ~dev.out1 => waiting = 1 /\ dev.in1 = None
       /\ dev.in1 # None => waiting = 1
       /\ dev.rx_dts = IF dev.out1 THEN 1 - dev.dts ELSE dev.hout
  /\ conf /\ ~Is("clear") =>
       /\ dev.out1 => dev.dts = dev.hout
       /\ IF dev.in1 = None THEN dev.tx_dts = dev.hin
          ELSE dev.tx_dts = 1 - dev.hin /\ dev.in1.dts = dev.hin
  /\ Is("clear") =>
       /\ dev.in1 = None /\ dev.out1
       /\ IF xfer.req.arg = ToHost THEN dev.dts = dev.hout ELSE dev.tx_dts = dev.hin
       /\ dev.in0 # None /\ ~dev.pktdis =>
            IF xfer.req.arg = ToHost THEN dev.tx_dts = 0 ELSE dev.dts = 0

PicInv == Pic => PicControlInv /\ PicSessionInv

\* An armed OUT endpoint holds no command.
PicArmedInv == Pic /\ dev.out1 => dev.buf1 = None

\* The packet that goes out is the next of the transfer's, and what stays the
\* one behind it: each is sent by the token of the one before.
PicDataInv ==
  Pic /\ xfer # None =>
    /\ dev.pktdis => xfer.n = 0
    /\ ~dev.pktdis =>
         /\ Len(dev.tokens) <= 1
         /\ dev.in0 # None =>
              dev.in0 = Packet(xfer.req, xfer.n) /\ xfer.req.kind # "unknown" /\ dev.tokens = <<>>
         /\ dev.stage # None =>
              dev.stage.from = xfer.n + (IF dev.in0 = None THEN 0 ELSE dev.in0.len)
=============================================================================
