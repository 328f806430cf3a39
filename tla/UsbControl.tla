----------------------------- MODULE UsbControl -----------------------------
(***************************************************************************)
(* What a host may rely on in the control transfers of a device: the data  *)
(* it asked for come in order and whole, each packet from the request it   *)
(* belongs to and no more than asked for; the device takes an address only *)
(* by the transfer that gives it and loses it only by a bus reset.         *)
(***************************************************************************)
EXTENDS Naturals

CONSTANTS None, MaxPacket0

VARIABLES
  xfer,  \* the transfer under way
  outcome,  \* how the last one ended
  addr,  \* the address the device answers to
  lost   \* the device is past keeping its promise

vars == <<xfer, outcome, addr, lost>>

Least(m, n) == IF m < n THEN m ELSE n
Offer(r) == Least(r.arg, r.want)

Init == xfer = None /\ outcome = "none" /\ addr = 0 /\ ~lost

Start ==
  /\ xfer = None
  /\ xfer' # None /\ xfer'.n = 0 /\ xfer'.last = None
  /\ xfer'.stage = IF xfer'.req.kind = "get" THEN "data" ELSE "status"
  /\ outcome' = "none" /\ UNCHANGED addr

\* The next data of the request, the last of them in less than a full packet
\* when they are fewer than wanted.
Data ==
  /\ xfer # None /\ xfer.stage = "data"
  /\ LET r   == xfer.req
         len == Least(MaxPacket0, Offer(r) - xfer.n)
         n   == xfer.n + len
     IN xfer' = [req |-> r, n |-> n, last |-> [req |-> r, from |-> xfer.n, len |-> len],
                 stage |-> IF n < r.want /\ len = MaxPacket0 THEN "data" ELSE "status"]
  /\ UNCHANGED <<outcome, addr>>

\* What can be done is done, ...
Acknowledge ==
  /\ xfer # None /\ xfer.stage = "status" /\ xfer.req.kind # "unknown"
  /\ xfer.req.kind = "get" => xfer.n = Offer(xfer.req)
  /\ xfer' = None /\ outcome' = "done"
  /\ addr' = IF xfer.req.kind = "address" THEN xfer.req.arg ELSE addr

\* ... and only what cannot is refused.
Refuse ==
  /\ xfer # None /\ xfer.req.kind = "unknown"
  /\ xfer' = None /\ outcome' = "refused"
  /\ UNCHANGED addr

Abandon == xfer # None /\ xfer' = None /\ outcome' = "none" /\ UNCHANGED addr

Reset == xfer' = None /\ outcome' = "none" /\ addr' = 0

Next ==
  \/ lost \/ lost'
  \/ /\ UNCHANGED lost
     /\ Start \/ Data \/ Acknowledge \/ Refuse \/ Abandon \/ Reset

Spec == Init /\ [][Next]_vars
=============================================================================
