------------------------------ MODULE UsbHost ------------------------------
(***************************************************************************)
(* The host's end of the bus, for the USB code of the four firmwares: what *)
(* its USB stack and its debugger do (external), and the rules of the bus  *)
(* the firmware builds on.  A firmware's module says, for each of these    *)
(* actions, what its USB peripheral makes of it.                           *)
(*                                                                         *)
(* A SETUP packet is always taken, and endpoint 0 sends NAK until the      *)
(* firmware has served it.  Of a packet only the request it belongs to,    *)
(* where its data starts and their length are kept.                        *)
(***************************************************************************)
EXTENDS Integers, Sequences

CONSTANTS
  Cmd,        \* commands of the debugger
  None,       \* no packet, no transfer
  Address,    \* the address the host gives the device, not 0
  MaxPacket0, \* size of endpoint 0, scaled down with the descriptors
  Calm        \* firmwares whose host takes the care their code depends on


VARIABLES
  xfer,      \* the control transfer under way
  outcome,   \* how the last one ended
  hostaddr,  \* the address the host uses
  conf,      \* the host's idea of whether the device is configured
  waiting,   \* commands the debugger waits for the answer to
  got,       \* the last response it has seen
  dev        \* the device: its memory and its USB peripheral

hostvars == <<xfer, outcome, hostaddr, conf, waiting, got>>
usbvars == <<hostvars, dev>>

DAP_PACKET_COUNT == 1

-----------------------------------------------------------------------------
\* Requests, by what the firmwares tell apart.  A descriptor has a length; a
\* request for it says how much of it is wanted.
SetAddress      == [kind |-> "address", arg |-> Address, want |-> 0]
SetConfig       == [kind |-> "config", arg |-> 1, want |-> 0]
GetDesc(len, n) == [kind |-> "get", arg |-> len, want |-> n]
Unknown         == [kind |-> "unknown", arg |-> 0, want |-> 0]

\* CLEAR_FEATURE(ENDPOINT_HALT) of a debugger's endpoint, halted or not: both
\* ends start again from DATA0.
ToDevice        == 1
ToHost          == 2
ClearHalt(dir)  == [kind |-> "clear", arg |-> dir, want |-> 0]

\* Those a host may make of one firmware or another.
Requests ==
  {SetAddress, SetConfig, Unknown, GetDesc(1, 2), GetDesc(3, 2), GetDesc(3, 4),
   ClearHalt(ToDevice), ClearHalt(ToHost)}

\* What is sent of the data of a request, and its packet starting at k.
Total(r)     == IF r.want < r.arg THEN r.want ELSE r.arg
Smaller(m, n) == IF m < n THEN m ELSE n
Packet(r, k) == [req |-> r, from |-> k, len |-> Smaller(MaxPacket0, Total(r) - k)]
Zero(r)      == [req |-> r, from |-> 0, len |-> 0]
Packets      == [req : Requests, from : Int, len : Int]

\* None is neither a request, a packet, a response, a command nor a transfer.
ASSUME HostAssumption ==
  /\ Address \in Nat \ {0} /\ MaxPacket0 \in Nat \ {0}
  /\ None \notin Cmd /\ None \notin Requests /\ None \notin [cmd : Cmd, dts : 0..1]
  /\ None \notin Packets
  /\ None \notin [req : Requests, n : {0}, last : {None}, stage : {"data", "status"}]

\* The command or response in a place that may be empty.
Held(c) == IF c = None THEN <<>> ELSE <<c>>

-----------------------------------------------------------------------------
\* At power-up.
HostInit ==
  /\ xfer = None /\ outcome = "none" /\ hostaddr = 0
  /\ conf = FALSE
  /\ waiting = 0 /\ got = None

\* An address is given at address 0, all but descriptors asked for later.  A
\* halt is cleared when nothing is under way on the endpoint.
Legal(r) ==
  CASE r.kind = "address" -> hostaddr = 0
    [] r.kind = "config"  -> hostaddr # 0
    [] r.kind = "clear"   -> conf /\ waiting = 0
    [] OTHER              -> TRUE

\* What a host may do to a device, and with care does only when careful.
WithCare(careful) == dev.fw \in Calm => careful

\* A transfer starts.  SET_CONFIGURATION takes the device from the debugger.
HostSetup(r, careful) ==
  /\ xfer = None
  /\ Legal(r) /\ WithCare(careful)
  /\ xfer' = [req |-> r, n |-> 0, last |-> None,
              stage |-> IF r.kind = "get" THEN "data" ELSE "status"]
  /\ IF r.kind = "config" THEN conf' = FALSE /\ waiting' = 0 ELSE UNCHANGED <<conf, waiting>>
  /\ outcome' = "none"
  /\ UNCHANGED <<hostaddr, got>>

\* Data come; less than a full packet, or all that was wanted, ends the stage.
HostData(p) ==
  /\ xfer # None /\ xfer.stage = "data"
  /\ xfer' = [xfer EXCEPT !.n = @ + p.len, !.last = p,
                          !.stage = IF p.len < MaxPacket0 \/ xfer.n + p.len >= xfer.req.want
                                    THEN "status" ELSE "data"]
  /\ UNCHANGED <<outcome, hostaddr, conf, waiting, got>>

\* The status stage: the device sends no data to say that it is done, or the
\* host does, after those it has received.
HostStatusIn(p) ==
  /\ xfer # None /\ xfer.stage = "status" /\ xfer.req.kind # "get"
  /\ p.len = 0
  /\ xfer' = None /\ outcome' = "done"
  /\ hostaddr' = IF xfer.req.kind = "address" THEN xfer.req.arg ELSE hostaddr
  /\ conf' = (conf \/ xfer.req.kind = "config")
  /\ UNCHANGED <<waiting, got>>

HostStatusOut ==
  /\ xfer # None /\ xfer.stage = "status" /\ xfer.req.kind = "get"
  /\ xfer' = None /\ outcome' = "done"
  /\ UNCHANGED <<hostaddr, conf, waiting, got>>

\* The device says STALL.
HostStalled ==
  /\ xfer # None
  /\ xfer' = None /\ outcome' = "refused"
  /\ UNCHANGED <<hostaddr, conf, waiting, got>>

\* The host gives a transfer up.
HostAbandon(careful) ==
  /\ xfer # None /\ WithCare(careful)
  /\ xfer' = None /\ outcome' = "none"
  /\ UNCHANGED <<hostaddr, conf, waiting, got>>

\* A bus reset takes the address and the debugger's session with it.
HostReset(careful) ==
  /\ WithCare(careful)
  /\ xfer' = None /\ outcome' = "none" /\ hostaddr' = 0 /\ conf' = FALSE /\ waiting' = 0
  /\ UNCHANGED got

-----------------------------------------------------------------------------
\* The debugger sends a command, and takes what the IN endpoint has for it.
HostAsk ==
  /\ conf /\ waiting < DAP_PACKET_COUNT
  /\ xfer # None => xfer.req.kind # "clear"
  /\ waiting' = waiting + 1 /\ got' = None
  /\ UNCHANGED <<xfer, outcome, hostaddr, conf>>

HostTake(c) ==
  /\ conf /\ waiting > 0
  /\ waiting' = waiting - 1 /\ got' = c
  /\ UNCHANGED <<xfer, outcome, hostaddr, conf>>

-----------------------------------------------------------------------------
\* A transfer of this kind is under way.
Is(kind) == xfer # None /\ xfer.req.kind = kind

\* The host's own part of what it knows: an address is given at address 0, a
\* session is closed by what configures the device, and a halt is cleared
\* between commands.
HostInv ==
  /\ hostaddr \in {0, Address} /\ conf \in BOOLEAN /\ waiting \in 0..DAP_PACKET_COUNT
  /\ waiting > 0 => conf
  /\ xfer # None =>
       /\ DOMAIN xfer = {"req", "n", "last", "stage"} /\ xfer.req \in Requests
       /\ xfer.stage \in {"data", "status"}
       /\ xfer.stage = "data" => xfer.req.kind = "get"
       /\ xfer.req.kind = "address" => hostaddr = 0
       /\ xfer.req.kind = "config" => ~conf
       /\ xfer.req.kind = "clear" => conf /\ waiting = 0

\* What has come of the data asked for, all of it in the status stage.
HostTransferInv ==
  xfer # None =>
    /\ xfer.n \in 0..Total(xfer.req)
    /\ xfer.stage = "status" => xfer.n = Total(xfer.req)
    /\ xfer.req.kind = "config" => hostaddr # 0
=============================================================================
