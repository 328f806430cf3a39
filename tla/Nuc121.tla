------------------------------- MODULE Nuc121 -------------------------------
(***************************************************************************)
(* The NUC121 firmware on the bus: the USB peripheral's events, and the    *)
(* main loop that polls them (usb_task) and serves the debugger's commands *)
(* (usb_vendorhid_task).  No interrupt is used, so each of the two tasks   *)
(* is one step; what comes in while usb_task runs waits for its next pass. *)
(*                                                                         *)
(* Every descriptor of this firmware is shorter than endpoint 0, so that   *)
(* no control transfer needs a second packet.                              *)
(***************************************************************************)
EXTENDS UsbHost

NucRequests ==
  {SetAddress, SetConfig, Unknown, GetDesc(1, 2), ClearHalt(ToDevice), ClearHalt(ToHost)}

\* This is the firmware the device runs.
Nuc == dev.fw = "nuc121"

\* usb_hw_init: no address, no endpoint but 0.
NucInit ==
  dev = [fw |-> "nuc121",
         faddr |-> 0,          \* USBD->FADDR
         assigned |-> 0,       \* assigned_address
         bus |-> FALSE,        \* BUSIF: the bus has been reset
         setup |-> None,       \* a SETUP packet that has not been served
         in0 |-> None,         \* packet in the control IN endpoint
         out0 |-> FALSE,       \* the control OUT endpoint takes a packet
         stall0 |-> FALSE,     \* both say STALL
         ev0 |-> FALSE,        \* EPEVT0: the control IN packet has been taken
         ev1 |-> FALSE,        \* EPEVT1: a control OUT packet has come
         in1 |-> None,         \* response in the IN endpoint
         out1 |-> FALSE,       \* the OUT endpoint takes a command
         buf1 |-> None,        \* the command it has taken: EPEVT3
         ev2 |-> FALSE,        \* EPEVT2: the response has been taken
         dap_buffer |-> None,  \* the command in it while epout_pending
         epin_pending |-> FALSE]

\* The address the device answers to once what has happened is served.
NucAddr ==
  IF dev.bus THEN 0
  ELSE IF dev.ev0 /\ dev.faddr = 0 THEN dev.assigned ELSE dev.faddr

\* A host leaves the device 10 ms after a reset and 2 ms after SET_ADDRESS.
NucRecovered == Nuc /\ ~dev.bus /\ NucAddr = dev.faddr

\* Host and device talk at the same address, endpoint 0 when it is ready.
NucHeard == Nuc /\ dev.faddr = hostaddr /\ ~dev.bus
NucReady == NucHeard /\ dev.setup = None

\* With care, the first request after a reset gives again the address given
\* before, and such a request waits for the end of the last to be served; no
\* halt is cleared.
NucCare(r) ==
  /\ hostaddr = 0 /\ dev.assigned # 0 => r.kind = "address"
  /\ r.kind = "address" => ~dev.ev0
  /\ r.kind # "clear"
-----------------------------------------------------------------------------
\* The host's actions, and what the peripheral makes of them.
NucSetup ==
  \E r \in NucRequests :
    /\ NucRecovered
    /\ HostSetup(r, NucCare(r))
    /\ dev' = IF NucHeard THEN [dev EXCEPT !.setup = r, !.stall0 = FALSE] ELSE dev

NucControlIn ==
  /\ NucReady /\ ~dev.stall0 /\ dev.in0 # None
  /\ HostData(dev.in0) \/ HostStatusIn(dev.in0)
  /\ dev' = [dev EXCEPT !.in0 = None, !.ev0 = TRUE]

NucControlOut ==
  /\ NucReady /\ ~dev.stall0 /\ dev.out0
  /\ HostStatusOut
  /\ dev' = [dev EXCEPT !.out0 = FALSE, !.ev1 = TRUE]

NucControlStall == NucReady /\ dev.stall0 /\ HostStalled /\ UNCHANGED dev

NucAbandon == Nuc /\ HostAbandon(xfer.req.kind # "address") /\ UNCHANGED dev

\* Whether a response in the IN endpoint outlives the reset is the hardware's.
\* The end of a control transfer has been served by then.
NucBusReset ==
  /\ Nuc /\ ~dev.bus /\ ~dev.ev0
  /\ HostReset(TRUE)
  /\ \E c \in {dev.in1, None} : dev' = [dev EXCEPT !.bus = TRUE, !.in1 = c]

\* A command goes out in a later frame than the last response came in: the
\* main loop, with no command to handle, has been round by then.
NucAsk ==
  \E c \in Cmd :
    /\ NucHeard /\ dev.out1 /\ ~dev.ev2
    /\ HostAsk
    /\ dev' = [dev EXCEPT !.out1 = FALSE, !.buf1 = c]

NucTake ==
  /\ NucHeard /\ dev.in1 # None
  /\ HostTake(dev.in1)
  /\ dev' = [dev EXCEPT !.in1 = None, !.ev2 = TRUE]

-----------------------------------------------------------------------------
\* usb_task, part by part.  A bus reset: rewind_ctrlin, no address.
NucServeBus(d) == IF d.bus THEN [d EXCEPT !.bus = FALSE, !.faddr = 0] ELSE d

\* usb_configuration_callback after usb_configure_endpoint: commands wanted.
NucConfigured(d) ==
  [d EXCEPT !.out1 = TRUE, !.epin_pending = FALSE, !.dap_buffer = None]

\* Slip: the address set at once.
NucHandleAtOnce(d, r) ==
  CASE r.kind = "get"     -> [d EXCEPT !.in0 = Packet(r, 0)]
    [] r.kind = "address" -> [d EXCEPT !.in0 = Zero(r), !.assigned = r.arg, !.faddr = r.arg]
    [] r.kind = "config"  -> NucConfigured([d EXCEPT !.in0 = Zero(r)])

\* usb_handle_standard_request: usb_control_send, usb_control_send_zlp with
\* usb_set_address, or FALSE.
NucHandle(d, r) ==
  CASE r.kind = "get"     -> [d EXCEPT !.in0 = Packet(r, 0)]
    [] r.kind = "address" -> [d EXCEPT !.in0 = Zero(r), !.assigned = r.arg]
    [] r.kind = "config"  -> NucConfigured([d EXCEPT !.in0 = Zero(r)])

\* A SETUP packet: CLRRDY on both control endpoints; then the answer, and the
\* control OUT endpoint ready for the status stage, or usb_control_stall.
\* usb_endpoint_configured takes the position of a field for its mask, and so
\* finds no endpoint whose halt could be cleared.
NucServeSetup(d) ==
  IF d.setup = None THEN d
  ELSE LET e == [d EXCEPT !.setup = None, !.in0 = None, !.out0 = FALSE]
       IN IF d.setup.kind \in {"unknown", "clear"} THEN [e EXCEPT !.stall0 = TRUE]
          ELSE [NucHandle(e, d.setup) EXCEPT !.out0 = TRUE]

\* periph_ep0_callback: an address that waits for its ACK is set, ...
NucServeEp0(d) ==
  IF d.ev0
  THEN [d EXCEPT !.ev0 = FALSE,
                 !.faddr = IF d.faddr # d.assigned /\ d.faddr = 0 THEN d.assigned ELSE d.faddr]
  ELSE d

\* ... periph_ep1_callback, and the callbacks of the debugger's endpoints.
NucServeEp1(d) == IF d.ev1 THEN [d EXCEPT !.ev1 = FALSE, !.out0 = TRUE] ELSE d
NucServeEp2(d) == IF d.ev2 THEN [d EXCEPT !.ev2 = FALSE, !.epin_pending = FALSE] ELSE d
NucServeEp3(d) ==
  IF d.buf1 # None THEN [d EXCEPT !.buf1 = None, !.dap_buffer = d.buf1] ELSE d

\* The SETUP packet goes before the events of the endpoints.
NucUsbTask ==
  /\ Nuc
  /\ LET d == NucServeSetup(NucServeBus(dev))
     IN dev' = NucServeEp3(NucServeEp2(NucServeEp1(NucServeEp0(d))))
  /\ dev' # dev
  /\ UNCHANGED hostvars

\* usb_vendorhid_task: dap_handler answers in place, usb_send and usb_recv.
NucVendorHidTask ==
  /\ Nuc /\ dev.dap_buffer # None /\ ~dev.epin_pending
  /\ dev' = [dev EXCEPT !.in1 = dev.dap_buffer, !.out1 = TRUE,
                        !.epin_pending = TRUE, !.dap_buffer = None]
  /\ UNCHANGED hostvars

NucHost ==
  \/ NucSetup \/ NucControlIn \/ NucControlOut \/ NucControlStall
  \/ NucAbandon \/ NucBusReset \/ NucAsk \/ NucTake

NucNext == NucHost \/ NucUsbTask \/ NucVendorHidTask

\* The host polls the endpoints it waits for, and the main loop goes round.
NucPolls == NucControlIn \/ NucControlOut \/ NucControlStall
NucFairness ==
  /\ WF_usbvars(NucPolls)
  /\ WF_usbvars(NucTake)
  /\ WF_usbvars(NucUsbTask)
  /\ WF_usbvars(NucVendorHidTask)
-----------------------------------------------------------------------------
\* The commands it has not answered, oldest first.
NucOwed == Held(dev.in1) \o Held(dev.dap_buffer) \o Held(dev.buf1)

\* "given ACK from host has happened, we can now set the address": the device
\* takes no address that the host has not seen it acknowledge.
AddressAfterAck == Nuc => dev.bus \/ dev.faddr \in {0, hostaddr}

-----------------------------------------------------------------------------
\* The fields of the device.
NucDevice ==
  [fw : {"nuc121"}, faddr : {0, Address}, assigned : {0, Address}, bus : BOOLEAN,
           setup : NucRequests \cup {None}, in0 : Packets \cup {None}, out0 : BOOLEAN,
           stall0 : BOOLEAN, ev0 : BOOLEAN, ev1 : BOOLEAN,
           in1 : Cmd \cup {None}, out1 : BOOLEAN, buf1 : Cmd \cup {None}, ev2 : BOOLEAN,
           dap_buffer : Cmd \cup {None}, epin_pending : BOOLEAN]

\* The host and the device mean the same transfer.
NucControlInv ==
  /\ dev.bus => xfer = None /\ hostaddr = 0 /\ ~dev.ev0
  /\ xfer # None /\ dev.setup # None => dev.setup = xfer.req
  /\ xfer # None /\ dev.setup = None /\ dev.in0 # None => dev.in0.req = xfer.req

\* They mean the same address, but for the time from the end of SET_ADDRESS to
\* the next pass of usb_task; and an EPEVT0 that finds an address assigned and
\* none set is of the transfer that gave it.
NucAddressInv ==
  /\ ~dev.bus => \/ dev.faddr = hostaddr
                 \/ dev.ev0 /\ dev.faddr = 0 /\ dev.assigned = hostaddr
  /\ dev.in0 # None /\ dev.in0.req.kind = "address" => dev.assigned = Address
  /\ dev.setup # None /\ dev.setup.kind = "address" => ~dev.ev0
  /\ xfer # None /\ hostaddr = 0 /\ dev.assigned # 0 => xfer.req.kind = "address"
  /\ dev.ev0 /\ dev.faddr = 0 /\ dev.assigned # 0 => hostaddr = dev.assigned

NucInv == Nuc => NucControlInv /\ NucAddressInv

\* A session starts with no command of the one before in the OUT endpoint, and
\* the next one finds that endpoint empty.
NucSessionInv ==
  Nuc =>
    /\ dev.setup # None /\ dev.setup.kind = "config" => ~conf
    /\ Is("config") /\ dev.setup = None => dev.buf1 = None
    /\ conf /\ waiting = 0 /\ ~dev.ev2 => dev.buf1 = None

\* A request is answered from its start, and STALL said only to what is not
\* known.
NucDataInv ==
  Nuc =>
    /\ dev.in0 # None => dev.in0 = Packet(dev.in0.req, 0) /\ dev.in0.req.kind # "unknown"
    /\ dev.setup # None => ~dev.stall0
    /\ xfer # None =>
         /\ xfer.req.kind # "clear"
         /\ dev.setup # None \/ dev.in0 # None => xfer.n = 0
         /\ dev.setup = None /\ dev.stall0 => xfer.req.kind = "unknown"
=============================================================================
