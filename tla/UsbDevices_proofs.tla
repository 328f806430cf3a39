------------------------- MODULE UsbDevices_proofs -------------------------
(***************************************************************************)
(* Proofs about UsbDevices: whatever the host does, the device keeps its   *)
(* fields, and with the care its code depends on, each of the four         *)
(* firmwares and the host agree on the transfer under way, on the address  *)
(* and on the debugger's session, at every step.                           *)
(*                                                                         *)
(* The host's half of every step comes first, then what each firmware's    *)
(* steps leave of its fields, then, firmware by firmware, of what it and   *)
(* the host agree on.                                                      *)
(***************************************************************************)
EXTENDS UsbDevices, TLAPS

-----------------------------------------------------------------------------
(* The host                                                                *)

\* The requests differ by their kinds.
LEMMA RequestKinds ==
  /\ \A r \in Requests : /\ r.kind \in {"address", "config", "get", "unknown", "clear"}
                         /\ r.kind = "address" => r = SetAddress
                         /\ r.kind = "config" => r = SetConfig
                         /\ r.kind = "unknown" => r = Unknown
                         /\ r.kind = "clear" => r.arg \in 1..2 /\ r = ClearHalt(r.arg)
  /\ SetAddress.kind = "address" /\ SetAddress.arg = Address
  /\ SetConfig.kind = "config"
  /\ NucRequests \subseteq Requests /\ SamRequests \subseteq Requests
  /\ PicRequests \subseteq Requests /\ StmRequests \subseteq Requests
  /\ None \notin Requests
BY HostAssumption DEF Requests, SetAddress, SetConfig, Unknown, GetDesc, ClearHalt, ToDevice, ToHost,
   NucRequests, SamRequests, PicRequests, StmRequests

\* At power-up.
LEMMA HostStart == HostInit => HostInv
<1>1. HostInit => conf \in BOOLEAN /\ conf = FALSE
  BY Zenon DEF HostInit
<1>. QED BY <1>1 DEF HostInit, HostInv, DAP_PACKET_COUNT

\* A transfer starts.
LEMMA HostSetupInv ==
  ASSUME HostInv, NEW r \in Requests, Legal(r),
         xfer' = [req |-> r, n |-> 0, last |-> None,
                  stage |-> IF r.kind = "get" THEN "data" ELSE "status"],
         IF r.kind = "config" THEN conf' = FALSE /\ waiting' = 0 ELSE UNCHANGED <<conf, waiting>>,
         UNCHANGED hostaddr
  PROVE  HostInv'
<1>1. conf' \in BOOLEAN /\ (conf' = conf \/ conf' = FALSE) /\ conf \in BOOLEAN
  BY Zenon DEF HostInv
<1>2. /\ r.kind = "config" => conf' = FALSE /\ waiting' = 0
      /\ r.kind # "config" => waiting' = waiting /\ conf' = conf
  OBVIOUS
<1>3. /\ r.kind = "address" => hostaddr = 0
      /\ r.kind = "clear" => conf /\ waiting = 0
  <2>1. CASE r.kind = "address"
    BY <2>1 DEF Legal
  <2>2. CASE r.kind = "clear"
    BY <2>2 DEF Legal
  <2>. QED BY <2>1, <2>2
<1>. QED BY <1>1, <1>2, <1>3 DEF HostInv, DAP_PACKET_COUNT

\* A packet of data leaves the request that is under way.
LEMMA HostDataInv ==
  ASSUME HostInv, NEW p, HostData(p)
  PROVE  /\ HostInv' /\ xfer'.req = xfer.req /\ xfer.req.kind = "get" /\ xfer # None
         /\ UNCHANGED <<hostaddr, waiting>> /\ conf' = conf /\ conf' \in BOOLEAN /\ conf \in BOOLEAN
<1>1. conf' \in BOOLEAN /\ conf' = conf /\ conf \in BOOLEAN
  BY Zenon DEF HostData, HostInv
<1>2. DOMAIN xfer' = DOMAIN xfer /\ xfer'.req = xfer.req /\ xfer.stage = "data" /\ xfer # None
      /\ xfer'.stage \in {"data", "status"} /\ hostaddr' = hostaddr /\ waiting' = waiting
  BY DEF HostData, HostInv
<1>. QED BY <1>1, <1>2 DEF HostInv

\* The end of a transfer leaves nothing to be said about it.
LEMMA HostEndInv ==
  ASSUME HostInv, xfer' = None, hostaddr' \in {0, Address}, conf' \in BOOLEAN,
         \/ waiting' = waiting /\ (conf => conf')
         \/ waiting' = 0
  PROVE  HostInv'
<1>1. conf \in BOOLEAN
  BY Zenon DEF HostInv
<1>. QED BY <1>1 DEF HostInv, DAP_PACKET_COUNT

\* The status stage ends the transfer, and says what the request changes.
LEMMA HostStatusInv ==
  ASSUME HostInv, NEW p, HostStatusIn(p)
  PROVE  /\ HostInv' /\ xfer' = None /\ xfer # None /\ xfer.req.kind # "get"
         /\ hostaddr' = IF xfer.req.kind = "address" THEN Address ELSE hostaddr
         /\ waiting' = waiting /\ conf' = (conf \/ xfer.req.kind = "config") /\ conf' \in BOOLEAN
         /\ conf \in BOOLEAN
<1>1. /\ conf' \in BOOLEAN /\ conf' = (conf \/ xfer.req.kind = "config") /\ (conf => conf')
      /\ conf \in BOOLEAN
  BY Zenon DEF HostStatusIn, HostInv
<1>2. xfer.req \in Requests /\ xfer # None
  BY DEF HostInv, HostStatusIn
<1>3. hostaddr' = IF xfer.req.kind = "address" THEN Address ELSE hostaddr
  BY <1>2, RequestKinds DEF HostStatusIn
<1>4. hostaddr' \in {0, Address}
  BY <1>3 DEF HostInv
<1>. QED BY <1>1, <1>2, <1>3, <1>4, HostEndInv DEF HostStatusIn

\* A transfer that is refused, given up or acknowledged by the host changes nothing else.
LEMMA HostStopInv ==
  ASSUME HostInv, xfer' = None, UNCHANGED <<hostaddr, conf, waiting>>
  PROVE  HostInv' /\ conf' = conf /\ conf' \in BOOLEAN /\ conf \in BOOLEAN
<1>1. conf' \in BOOLEAN /\ conf' = conf /\ conf \in BOOLEAN
  BY Zenon DEF HostInv
<1>2. hostaddr' \in {0, Address}
  BY DEF HostInv
<1>. QED BY <1>1, <1>2, HostEndInv

\* So does a bus reset.
LEMMA HostResetInv ==
  ASSUME HostInv, xfer' = None, hostaddr' = 0, conf' = FALSE, waiting' = 0
  PROVE  HostInv' /\ xfer' = None /\ hostaddr' = 0 /\ conf' \in BOOLEAN /\ ~conf' /\ waiting' = 0
<1>1. conf' \in BOOLEAN /\ ~conf'
  BY Zenon
<1>2. hostaddr' \in {0, Address}
  OBVIOUS
<1>. QED BY <1>1, <1>2, HostEndInv

\* The debugger's packets.
LEMMA HostAskInv ==
  ASSUME HostInv, HostAsk
  PROVE  /\ HostInv' /\ conf /\ conf' = conf /\ conf' \in BOOLEAN /\ conf \in BOOLEAN
         /\ waiting = 0 /\ waiting' = 1 /\ UNCHANGED <<xfer, hostaddr>>
         /\ ~Is("clear") /\ ~Is("config")
<1>1. conf /\ conf' \in BOOLEAN /\ conf' = conf /\ conf \in BOOLEAN
  BY Zenon DEF HostAsk, HostInv
<1>2. /\ waiting = 0 /\ waiting' = 1 /\ xfer' = xfer /\ hostaddr' = hostaddr
      /\ ~Is("clear") /\ ~Is("config")
  BY <1>1 DEF HostAsk, HostInv, DAP_PACKET_COUNT, Is
<1>. QED BY <1>1, <1>2 DEF HostInv, DAP_PACKET_COUNT, Is

\* The debugger takes its response.
LEMMA HostTakeInv ==
  ASSUME HostInv, NEW c, HostTake(c)
  PROVE  /\ HostInv' /\ conf /\ conf' = conf /\ conf' \in BOOLEAN /\ conf \in BOOLEAN
         /\ waiting = 1 /\ waiting' = 0 /\ UNCHANGED <<xfer, hostaddr>>
         /\ ~Is("clear") /\ ~Is("config")
<1>1. conf /\ conf' \in BOOLEAN /\ conf' = conf /\ conf \in BOOLEAN
  BY Zenon DEF HostTake, HostInv
<1>2. /\ waiting = 1 /\ waiting' = 0 /\ xfer' = xfer /\ hostaddr' = hostaddr
      /\ ~Is("clear") /\ ~Is("config")
  BY <1>1 DEF HostTake, HostInv, DAP_PACKET_COUNT, Is
<1>. QED BY <1>1, <1>2 DEF HostInv, DAP_PACKET_COUNT, Is

\* The device's own steps.
LEMMA HostWaitsInv ==
  ASSUME HostInv, UNCHANGED hostvars
  PROVE  HostInv' /\ conf' = conf /\ conf' \in BOOLEAN /\ conf \in BOOLEAN
         /\ UNCHANGED <<xfer, hostaddr, waiting>>
<1>1. conf' \in BOOLEAN /\ conf' = conf /\ conf \in BOOLEAN
  BY Zenon DEF hostvars, HostInv
<1>. QED BY <1>1 DEF hostvars, HostInv, DAP_PACKET_COUNT

\* Packets of a request are packets, and name it.
LEMMA PacketTyped ==
  ASSUME NEW r \in Requests, NEW k \in Int
  PROVE  /\ Packet(r, k) \in Packets /\ Packet(r, k).req = r
         /\ Zero(r) \in Packets /\ Zero(r).req = r /\ Zero(r).len = 0
         /\ Packet(r, k).len \in Int
<1>1. r.want \in Int /\ r.arg \in Int
  BY HostAssumption DEF Requests, SetAddress, SetConfig, Unknown, GetDesc, ClearHalt, ToDevice, ToHost
<1>2. Smaller(MaxPacket0, Total(r) - k) \in Int
  BY <1>1, HostAssumption DEF Smaller, Total
<1>. QED BY <1>2 DEF Packet, Zero, Packets

-----------------------------------------------------------------------------
(* The fields of the NUC121's device                                       *)

\* The request is answered from the device's fields.
LEMMA NucHandleTyped ==
  ASSUME NEW d \in NucDevice, NEW r \in NucRequests, r.kind \notin {"unknown", "clear"}
  PROVE  NucHandle(d, r) \in NucDevice
<1>1. r \in Requests /\ r.kind \in {"address", "config", "get"} /\ (r.kind = "address" => r.arg = Address)
  BY RequestKinds
<1>2. Packet(r, 0) \in Packets /\ Zero(r) \in Packets
  BY <1>1, PacketTyped
<1>3. CASE r.kind = "get"
  <2>1. NucHandle(d, r) = [d EXCEPT !.in0 = Packet(r, 0)]
    BY <1>3 DEF NucHandle
  <2>. QED BY <1>2, <2>1 DEF NucDevice
<1>4. CASE r.kind = "address"
  <2>1. NucHandle(d, r) = [d EXCEPT !.in0 = Zero(r), !.assigned = r.arg]
    BY <1>4 DEF NucHandle
  <2>. QED BY <1>1, <1>2, <1>4, <2>1 DEF NucDevice
<1>5. CASE r.kind = "config"
  <2>1. NucHandle(d, r) = NucConfigured([d EXCEPT !.in0 = Zero(r)])
    BY <1>5 DEF NucHandle
  <2>2. [d EXCEPT !.in0 = Zero(r)] \in NucDevice
    BY <1>2 DEF NucDevice
  <2>3. \A e \in NucDevice : NucConfigured(e) \in NucDevice
    <3>. TAKE e \in NucDevice
    <3>. QED BY DEF NucConfigured, NucDevice
  <2>. QED BY <2>1, <2>2, <2>3
<1>. QED BY <1>1, <1>3, <1>4, <1>5

\* usb_task leaves a device.
LEMMA NucServeTyped ==
  ASSUME NEW d \in NucDevice
  PROVE  /\ NucServeBus(d) \in NucDevice /\ NucServeSetup(d) \in NucDevice
         /\ NucServeEp0(d) \in NucDevice /\ NucServeEp1(d) \in NucDevice
         /\ NucServeEp2(d) \in NucDevice /\ NucServeEp3(d) \in NucDevice
<1>1. NucServeBus(d) \in NucDevice
  <2>1. NucServeBus(d) \in {[d EXCEPT !.bus = FALSE, !.faddr = 0], d}
    BY DEF NucServeBus
  <2>. QED BY <2>1 DEF NucDevice
<1>2. NucServeEp0(d) \in NucDevice
  <2>1. PICK a \in {d.assigned, d.faddr} :
          NucServeEp0(d) \in {[d EXCEPT !.ev0 = FALSE, !.faddr = a], d}
    BY DEF NucServeEp0
  <2>. QED BY <2>1 DEF NucDevice
<1>3. NucServeEp1(d) \in NucDevice
  <2>1. NucServeEp1(d) \in {[d EXCEPT !.ev1 = FALSE, !.out0 = TRUE], d}
    BY DEF NucServeEp1
  <2>. QED BY <2>1 DEF NucDevice
<1>4. NucServeEp2(d) \in NucDevice
  <2>1. NucServeEp2(d) \in {[d EXCEPT !.ev2 = FALSE, !.epin_pending = FALSE], d}
    BY DEF NucServeEp2
  <2>. QED BY <2>1 DEF NucDevice
<1>5. NucServeEp3(d) \in NucDevice
  <2>1. NucServeEp3(d) \in {[d EXCEPT !.buf1 = None, !.dap_buffer = d.buf1], d}
    BY DEF NucServeEp3
  <2>. QED BY <2>1 DEF NucDevice
<1>6. NucServeSetup(d) \in NucDevice
  <2>1. CASE d.setup = None
    BY <2>1 DEF NucServeSetup
  <2>2. CASE d.setup # None
    <3>. DEFINE e == [d EXCEPT !.setup = None, !.in0 = None, !.out0 = FALSE]
    <3>1. e \in NucDevice /\ d.setup \in NucRequests
      BY <2>2 DEF NucDevice
    <3>2. CASE d.setup.kind \in {"unknown", "clear"}
      <4>1. NucServeSetup(d) = [e EXCEPT !.stall0 = TRUE]
        BY <2>2, <3>2 DEF NucServeSetup
      <4>. HIDE DEF e
      <4>. QED BY <3>1, <4>1 DEF NucDevice
    <3>3. CASE d.setup.kind \notin {"unknown", "clear"}
      <4>1. NucServeSetup(d) = [NucHandle(e, d.setup) EXCEPT !.out0 = TRUE]
        BY <2>2, <3>3 DEF NucServeSetup
      <4>2. NucHandle(e, d.setup) \in NucDevice
        BY <3>1, <3>3, NucHandleTyped
      <4>. QED BY <4>1, <4>2 DEF NucDevice
    <3>. QED BY <3>2, <3>3
  <2>. QED BY <2>1, <2>2
<1>. QED BY <1>1, <1>2, <1>3, <1>4, <1>5, <1>6

\* The NUC121 keeps its fields.
LEMMA NucTyped == ASSUME dev \in NucDevice, NucNext PROVE dev' \in NucDevice
<1>1. CASE NucSetup
  <2>1. PICK r \in NucRequests : dev' \in {[dev EXCEPT !.setup = r, !.stall0 = FALSE], dev}
    BY <1>1 DEF NucSetup
  <2>. QED BY <2>1 DEF NucDevice
<1>2. CASE NucControlIn
  BY <1>2 DEF NucControlIn, NucDevice
<1>3. CASE NucControlOut
  BY <1>3 DEF NucControlOut, NucDevice
<1>4. CASE NucControlStall \/ NucAbandon
  BY <1>4 DEF NucControlStall, NucAbandon
<1>5. CASE NucBusReset
  <2>1. PICK c \in {dev.in1, None} : dev' = [dev EXCEPT !.bus = TRUE, !.in1 = c]
    BY <1>5 DEF NucBusReset
  <2>. QED BY <2>1 DEF NucDevice
<1>6. CASE NucAsk
  <2>1. PICK c \in Cmd : dev' = [dev EXCEPT !.out1 = FALSE, !.buf1 = c]
    BY <1>6 DEF NucAsk
  <2>. QED BY <2>1 DEF NucDevice
<1>7. CASE NucTake
  BY <1>7 DEF NucTake, NucDevice
<1>8. CASE NucUsbTask
  BY <1>8, NucServeTyped DEF NucUsbTask
<1>9. CASE NucVendorHidTask
  BY <1>9 DEF NucVendorHidTask, NucDevice
<1>. QED BY <1>1, <1>2, <1>3, <1>4, <1>5, <1>6, <1>7, <1>8, <1>9 DEF NucNext, NucHost

-----------------------------------------------------------------------------
(* The fields of the SAMD11's device                                       *)

\* The endpoints armed.
LEMMA SamArmed ==
  ASSUME NEW d \in SamDevice, NEW c \in Cmd \cup {None}
  PROVE  [d EXCEPT !.buf1 = None, !.in1 = c, !.out1 = TRUE] \in SamDevice
BY DEF SamDevice

\* Toggles stay toggles when one is cleared.
LEMMA TogglesFromData0 ==
  ASSUME NEW h \in [1..2 -> 0..1], NEW a
  PROVE  [h EXCEPT ![a] = 0] \in [1..2 -> 0..1]
<1>1. [i \in 1..2 |-> IF i = a THEN 0 ELSE h[i]] \in [1..2 -> 0..1]
  OBVIOUS
<1>2. [h EXCEPT ![a] = 0] = [i \in 1..2 |-> IF i = a THEN 0 ELSE h[i]]
  OBVIOUS
<1>. QED BY <1>1, <1>2

\* The interrupt handler leaves a device.
LEMMA SamServeTyped ==
  ASSUME NEW d \in SamDevice
  PROVE  /\ SamServeBus(d) \in SamDevice /\ SamServeSetup(d) \in SamDevice
         /\ SamEndpoints(d) \in SamDevice
         /\ d.wait # None => SamAnswered(d) \in SamDevice
<1>1. SamServeBus(d) \in SamDevice
  BY DEF SamServeBus, SamDevice
<1>2. SamServeSetup(d) \in SamDevice
  BY DEF SamServeSetup, SamDevice
<1>3. \A e \in SamDevice : SamServeIn(e) \in SamDevice
  <2>. TAKE e \in SamDevice
  <2>. QED BY DEF SamServeIn, SamDevice
<1>4. \A e \in SamDevice : SamServeOut(e) \in SamDevice
  <2>. TAKE e \in SamDevice
  <2>1. e.buf1 \in Cmd \cup {None}
    BY DEF SamDevice
  <2>2. [e EXCEPT !.buf1 = None, !.in1 = e.buf1, !.out1 = TRUE] \in SamDevice
    BY <2>1, SamArmed
  <2>. QED BY <2>2 DEF SamServeOut
<1>5. ASSUME d.wait # None PROVE SamAnswered(d) \in SamDevice
  <2>1. d.wait \in SamRequests /\ (d.wait.kind = "address" => d.wait.arg = Address)
    BY <1>5, RequestKinds DEF SamDevice
  <2>2. CASE d.wait.kind = "address"
    <3>1. SamAnswered(d) = [[d EXCEPT !.wait = None] EXCEPT !.dadd = d.wait.arg]
      BY <2>2 DEF SamAnswered
    <3>. QED BY <2>1, <2>2, <3>1 DEF SamDevice
  <2>3. CASE d.wait.kind = "config"
    <3>1. SamAnswered(d) = SamConfigured([d EXCEPT !.wait = None])
      BY <2>3 DEF SamAnswered
    <3>2. [d EXCEPT !.wait = None] \in SamDevice
      BY DEF SamDevice
    <3>3. \A e \in SamDevice : SamConfigured(e) \in SamDevice
      <4>. TAKE e \in SamDevice
      <4>1. <<0, 0>> \in [1..2 -> 0..1]
        OBVIOUS
      <4>. QED BY <4>1 DEF SamConfigured, SamDevice
    <3>. QED BY <3>1, <3>2, <3>3
  <2>4. CASE d.wait.kind \notin {"address", "config"}
    <3>1. SamAnswered(d) = [d EXCEPT !.wait = None]
      BY <2>4 DEF SamAnswered
    <3>. QED BY <3>1 DEF SamDevice
  <2>. QED BY <2>2, <2>3, <2>4
<1>. QED BY <1>1, <1>2, <1>3, <1>4, <1>5 DEF SamEndpoints

\* The SAMD11 keeps its fields.
LEMMA SamTyped == ASSUME dev \in SamDevice, SamNext PROVE dev' \in SamDevice
<1>0. <<0, 0>> \in [1..2 -> 0..1] /\ dev.toggle \in [1..2 -> 0..1] /\ dev.host \in [1..2 -> 0..1]
  BY DEF SamDevice
<1>1. CASE SamSetup
  <2>1. PICK r \in SamRequests, h \in {<<0, 0>>, dev.host} :
          dev' \in {[dev EXCEPT !.setup = r, !.stall0 = FALSE, !.host = h], dev}
    BY <1>1 DEF SamSetup
  <2>. QED BY <1>0, <2>1 DEF SamDevice
<1>2. CASE SamControlIn
  <2>1. PICK h : /\ dev' = [dev EXCEPT !.in0 = FALSE, !.host = h]
                 /\ h = IF dev.wait.kind = "clear" THEN [dev.host EXCEPT ![dev.wait.arg] = 0] ELSE dev.host
    BY <1>2 DEF SamControlIn
  <2>2. h \in [1..2 -> 0..1]
    BY <1>0, <2>1, TogglesFromData0
  <2>. QED BY <2>1, <2>2 DEF SamDevice
<1>3. CASE SamControlOut
  BY <1>3 DEF SamControlOut, SamDevice
<1>4. CASE SamControlStall \/ SamAbandon
  BY <1>4 DEF SamControlStall, SamAbandon
<1>5. CASE SamBusReset
  <2>1. PICK c \in {dev.in1, None}, q \in {dev.buf1, None} :
          dev' = [dev EXCEPT !.bus = TRUE, !.in1 = c, !.buf1 = q]
    BY <1>5 DEF SamBusReset
  <2>. QED BY <2>1 DEF SamDevice
<1>6. CASE SamAsk
  <2>1. PICK c \in Cmd :
          dev' \in {[dev EXCEPT !.out1 = FALSE, !.buf1 = c,
                               !.toggle[ToDevice] = 1 - @, !.host[ToDevice] = 1 - @],
                    [dev EXCEPT !.host[ToDevice] = 1 - @]}
    BY <1>6 DEF SamAsk
  <2>2. [dev.toggle EXCEPT ![1] = 1 - @] \in [1..2 -> 0..1] /\ [dev.host EXCEPT ![1] = 1 - @] \in [1..2 -> 0..1]
    BY <1>0
  <2>3. dev' \in {[dev EXCEPT !.out1 = FALSE, !.buf1 = c,
                               !.toggle = [dev.toggle EXCEPT ![1] = 1 - @], !.host = [dev.host EXCEPT ![1] = 1 - @]],
                    [dev EXCEPT !.host = [dev.host EXCEPT ![1] = 1 - @]]}
    BY <2>1 DEF ToDevice, SamDevice
  <2>. QED BY <2>2, <2>3 DEF SamDevice
<1>7. CASE SamTake
  <2>. DEFINE h == IF dev.host[2] = dev.toggle[2] THEN 1 - dev.host[2] ELSE dev.host[2]
              t == 1 - dev.toggle[2]
  <2>1. dev' = [dev EXCEPT !.in1 = None, !.ev1 = TRUE, !.toggle = [dev.toggle EXCEPT ![2] = t],
                           !.host = [dev.host EXCEPT ![2] = h]]
    BY <1>7 DEF SamTake, ToHost, SamDevice
  <2>2. [dev.toggle EXCEPT ![2] = t] \in [1..2 -> 0..1] /\ [dev.host EXCEPT ![2] = h] \in [1..2 -> 0..1]
    BY <1>0
  <2>. HIDE DEF h, t
  <2>. QED BY <2>1, <2>2 DEF SamDevice
<1>8. CASE SamHandler
  BY <1>8, SamServeTyped DEF SamHandler
<1>9. CASE SamWaited
  BY <1>9, SamServeTyped DEF SamWaited, SamTaken
<1>. QED BY <1>1, <1>2, <1>3, <1>4, <1>5, <1>6, <1>7, <1>8, <1>9 DEF SamNext, SamHost, SamPolls

-----------------------------------------------------------------------------
(* The fields of the PIC16's device                                        *)

\* The toggles of its endpoints, and the endpoints as usb_init leaves them.
LEMMA PicTogglesTyped ==
  ASSUME NEW d \in PicDevice, NEW a \in 0..1, NEW b \in 0..1
  PROVE  /\ [d EXCEPT !.in1 = None, !.tx_dts = a, !.rx_dts = b] \in PicDevice
         /\ [d EXCEPT !.in1 = None, !.tx_dts = a] \in PicDevice
         /\ [d EXCEPT !.out1 = TRUE, !.dts = a, !.buf1 = None] \in PicDevice
         /\ [d EXCEPT !.out1 = TRUE, !.buf1 = None, !.dts = a, !.rx_dts = b] \in PicDevice
<1>1. [d EXCEPT !.in1 = None, !.tx_dts = a, !.rx_dts = b] \in PicDevice
  BY DEF PicDevice
<1>2. [d EXCEPT !.in1 = None, !.tx_dts = a] \in PicDevice
  BY DEF PicDevice
<1>3. [d EXCEPT !.out1 = TRUE, !.dts = a, !.buf1 = None] \in PicDevice
  BY DEF PicDevice
<1>4. [d EXCEPT !.out1 = TRUE, !.buf1 = None, !.dts = a, !.rx_dts = b] \in PicDevice
  BY DEF PicDevice
<1>. QED BY <1>1, <1>2, <1>3, <1>4

\* A reset leaves what usb_init does.
LEMMA PicServeBusTyped ==
  ASSUME NEW d \in PicDevice PROVE PicServeBus(d) \in PicDevice
<1>0. 0 \in 0..1 /\ 1 \in 0..1
  OBVIOUS
<1>1. <<>> \in Seq({"setup", "in", "out"})
  OBVIOUS
<1>2. CASE d.bus
  <2>. DEFINE e == [d EXCEPT !.bus = FALSE, !.uaddr = 0, !.addr = 0, !.tokens = <<>>,
                             !.setup = None]
              f == [e EXCEPT !.out0 = TRUE, !.in0 = None, !.stall0 = FALSE, !.stage = None,
                             !.configured = FALSE]
              g == [f EXCEPT !.in1 = None, !.tx_dts = 0, !.rx_dts = 1]
  <2>1. PicServeBus(d) = [g EXCEPT !.out1 = TRUE, !.dts = 0, !.buf1 = None]
    BY <1>2 DEF PicServeBus
  <2>2. e \in PicDevice
    BY <1>1 DEF PicDevice
  <2>. HIDE DEF e
  <2>3. f \in PicDevice
    BY <2>2 DEF PicDevice
  <2>. HIDE DEF f
  <2>4. g \in PicDevice
    BY <1>0, <2>3, PicTogglesTyped, Zenon
  <2>. HIDE DEF g
  <2>. QED BY <1>0, <2>1, <2>4, PicTogglesTyped, Zenon
<1>3. CASE ~d.bus
  BY <1>3 DEF PicServeBus
<1>. QED BY <1>2, <1>3

\* A packet of a request sent.
LEMMA PicSendTyped ==
  ASSUME NEW d \in PicDevice, NEW r \in Requests, NEW k \in Int
  PROVE  PicSend(d, r, k) \in PicDevice
<1>. DEFINE next == k + Packet(r, k).len
            s == IF next < Total(r) THEN [req |-> r, from |-> next] ELSE None
<1>1. Packet(r, k) \in Packets /\ next \in Int
  BY PacketTyped
<1>2. s \in [req : Requests, from : Int] \cup {None}
  <2>. HIDE DEF next
  <2>. QED BY <1>1
<1>3. PicSend(d, r, k) = [d EXCEPT !.in0 = Packet(r, k), !.stage = s]
  BY DEF PicSend
<1>. HIDE DEF s, next
<1>. QED BY <1>1, <1>2, <1>3 DEF PicDevice

\* A request handled.
LEMMA PicHandleTyped ==
  ASSUME NEW d \in PicDevice, NEW r \in PicRequests
  PROVE  PicHandle(d, r) \in PicDevice
<1>0. 0 \in 0..1 /\ 1 \in 0..1
  OBVIOUS
<1>1. r \in Requests /\ r.kind \in {"address", "config", "get", "unknown", "clear"}
      /\ (r.kind = "address" => r.arg = Address) /\ (r.kind = "clear" => r.arg \in 1..2)
  BY RequestKinds
<1>2. Zero(r) \in Packets
  BY <1>1, PacketTyped
<1>3. CASE r.kind = "get"
  BY <1>1, <1>3, PicSendTyped DEF PicHandle
<1>4. CASE r.kind = "address"
  <2>1. PicHandle(d, r) = [d EXCEPT !.addr = r.arg, !.in0 = Zero(r)]
    BY <1>4 DEF PicHandle
  <2>. QED BY <1>1, <1>2, <1>4, <2>1 DEF PicDevice
<1>5. CASE r.kind = "config"
  <2>1. PicHandle(d, r) = [d EXCEPT !.in0 = Zero(r), !.configured = TRUE]
    BY <1>5 DEF PicHandle
  <2>. QED BY <1>2, <2>1 DEF PicDevice
<1>6. CASE r.kind = "clear"
  <2>1. PicHandle(d, r) = [PicClear(d, r.arg) EXCEPT !.in0 = Zero(r)]
    BY <1>6 DEF PicHandle
  <2>2. PicClear(d, r.arg) \in {[d EXCEPT !.in1 = None, !.tx_dts = 0],
          [d EXCEPT !.out1 = TRUE, !.buf1 = None, !.dts = 0, !.rx_dts = 1]}
    BY DEF PicClear
  <2>3. PicClear(d, r.arg) \in PicDevice
    <3>1. /\ [d EXCEPT !.in1 = None, !.tx_dts = 0] \in PicDevice
          /\ [d EXCEPT !.out1 = TRUE, !.buf1 = None, !.dts = 0, !.rx_dts = 1] \in PicDevice
      BY <1>0, PicTogglesTyped, Zenon
    <3>. QED BY <2>2, <3>1, Zenon
  <2>. QED BY <1>2, <2>1, <2>3 DEF PicDevice
<1>7. CASE r.kind = "unknown"
  <2>1. PicHandle(d, r) = [d EXCEPT !.stall0 = TRUE]
    BY <1>7 DEF PicHandle
  <2>. QED BY <2>1 DEF PicDevice
<1>. QED BY <1>1, <1>3, <1>4, <1>5, <1>6, <1>7

\* A token handled; a SETUP token has its request.
LEMMA PicServeTokenTyped ==
  ASSUME NEW d \in PicDevice,
         d.tokens # <<>> /\ Head(d.tokens) = "setup" => d.setup # None
  PROVE  PicServeToken(d) \in PicDevice
<1>1. CASE d.tokens = <<>>
  BY <1>1 DEF PicServeToken
<1>2. CASE d.tokens # <<>>
  <2>. DEFINE e == [d EXCEPT !.tokens = Tail(d.tokens)]
  <2>1. d.tokens \in Seq({"setup", "in", "out"})
    BY DEF PicDevice
  <2>2. Head(d.tokens) \in {"setup", "in", "out"} /\ Tail(d.tokens) \in Seq({"setup", "in", "out"})
    BY <1>2, <2>1
  <2>3. e \in PicDevice /\ e.setup = d.setup
    BY <2>2 DEF PicDevice
  <2>4. CASE Head(d.tokens) = "setup"
    <3>. DEFINE f == [e EXCEPT !.setup = None, !.in0 = None, !.stall0 = FALSE, !.stage = None]
    <3>1. f \in PicDevice
      <4>. HIDE DEF e
      <4>. QED BY <2>3 DEF PicDevice
    <3>2. d.setup \in PicRequests
      BY <1>2, <2>4 DEF PicDevice
    <3>3. PicHandle(f, d.setup) \in PicDevice
      <4>. HIDE DEF f
      <4>. QED BY <3>1, <3>2, PicHandleTyped
    <3>4. PicServeToken(d) = [PicHandle(f, d.setup) EXCEPT !.pktdis = FALSE, !.out0 = TRUE]
      <4>1. PicServeToken(d) = PicServeSetup(e)
        BY <1>2, <2>4 DEF PicServeToken
      <4>2. PicServeSetup(e) = [PicHandle(f, e.setup) EXCEPT !.pktdis = FALSE, !.out0 = TRUE]
        BY DEF PicServeSetup
      <4>. QED BY <2>3, <4>1, <4>2
    <3>. HIDE DEF f
    <3>. QED BY <3>3, <3>4 DEF PicDevice
  <2>5. CASE Head(d.tokens) = "out"
    <3>1. PicServeToken(d) = [e EXCEPT !.stage = None, !.out0 = TRUE]
      BY <1>2, <2>5 DEF PicServeToken, PicServeEp0Out
    <3>. HIDE DEF e
    <3>. QED BY <2>3, <3>1 DEF PicDevice
  <2>6. CASE Head(d.tokens) = "in"
    <3>1. PicServeToken(d) = PicServeEp0In(e)
      BY <1>2, <2>6 DEF PicServeToken
    <3>. HIDE DEF e
    <3>. DEFINE a == IF e.addr # 0 THEN e.addr ELSE e.uaddr
                f == [e EXCEPT !.uaddr = a, !.addr = 0]
    <3>2. a \in {0, Address}
      BY <2>3 DEF PicDevice
    <3>3. f \in PicDevice
      <4>. HIDE DEF a
      <4>. QED BY <2>3, <3>2 DEF PicDevice
    <3>4. PicServeEp0In(e) = IF f.stage = None THEN f ELSE PicSend(f, f.stage.req, f.stage.from)
      BY DEF PicServeEp0In
    <3>. HIDE DEF f
    <3>5. f.stage # None => f.stage.req \in Requests /\ f.stage.from \in Int
      BY <3>3 DEF PicDevice
    <3>. QED BY <3>1, <3>3, <3>4, <3>5, PicSendTyped
  <2>. QED BY <2>2, <2>4, <2>5, <2>6
<1>. QED BY <1>1, <1>2

\* A request handled leaves the tokens, and an armed endpoint armed.
LEMMA PicHandleKeeps ==
  ASSUME NEW d \in PicDevice, NEW r \in PicRequests
  PROVE  /\ PicHandle(d, r).tokens = d.tokens /\ PicHandle(d, r).bus = d.bus
         /\ PicHandle(d, r).setup = d.setup
         /\ PicHandle(d, r).out1 # d.out1 => PicHandle(d, r).out1
         /\ PicHandle(d, r).out1 = d.out1 /\ ~d.out1 => PicHandle(d, r).buf1 = d.buf1
<1>1. r.kind \in {"address", "config", "get", "unknown", "clear"}
  BY RequestKinds
<1>2. CASE r.kind = "get"
  <2>1. PicHandle(d, r) = PicSend(d, r, 0)
    BY <1>2 DEF PicHandle
  <2>. QED BY <2>1 DEF PicSend, PicDevice
<1>3. CASE r.kind = "address"
  <2>1. PicHandle(d, r) = [d EXCEPT !.addr = r.arg, !.in0 = Zero(r)]
    BY <1>3 DEF PicHandle
  <2>. QED BY <2>1 DEF PicDevice
<1>4. CASE r.kind = "config"
  <2>1. PicHandle(d, r) = [d EXCEPT !.in0 = Zero(r), !.configured = TRUE]
    BY <1>4 DEF PicHandle
  <2>. QED BY <2>1 DEF PicDevice
<1>5. CASE r.kind = "clear"
  <2>1. PicHandle(d, r) = [PicClear(d, r.arg) EXCEPT !.in0 = Zero(r)]
    BY <1>5 DEF PicHandle
  <2>. QED BY <2>1 DEF PicClear, PicDevice
<1>6. CASE r.kind = "unknown"
  <2>1. PicHandle(d, r) = [d EXCEPT !.stall0 = TRUE]
    BY <1>6 DEF PicHandle
  <2>. QED BY <2>1 DEF PicDevice
<1>. QED BY <1>1, <1>2, <1>3, <1>4, <1>5, <1>6

\* A token handled is gone; that of a SETUP packet takes the request with it.
LEMMA PicServeTokenKeeps ==
  ASSUME NEW d \in PicDevice, d.tokens # <<>>, ~d.bus, ~d.out1 => d.buf1 # None,
         Head(d.tokens) = "setup" => d.setup # None
  PROVE  /\ PicServeToken(d).tokens = Tail(d.tokens) /\ PicServeToken(d).bus = FALSE
         /\ ~PicServeToken(d).out1 => PicServeToken(d).buf1 # None
         /\ IF Head(d.tokens) = "setup" THEN PicServeToken(d).setup = None
            ELSE PicServeToken(d).setup = d.setup /\ PicServeToken(d).pktdis = d.pktdis
<1>. DEFINE e == [d EXCEPT !.tokens = Tail(d.tokens)]
<1>1. d.tokens \in Seq({"setup", "in", "out"})
  BY DEF PicDevice
<1>2. Head(d.tokens) \in {"setup", "in", "out"} /\ Tail(d.tokens) \in Seq({"setup", "in", "out"})
  BY <1>1
<1>3. /\ e \in PicDevice /\ e.setup = d.setup /\ e.tokens = Tail(d.tokens) /\ e.bus = FALSE
      /\ e.pktdis = d.pktdis /\ e.out1 = d.out1 /\ e.buf1 = d.buf1
  BY <1>2 DEF PicDevice
<1>4. CASE Head(d.tokens) = "setup"
  <2>. DEFINE f == [e EXCEPT !.setup = None, !.in0 = None, !.stall0 = FALSE, !.stage = None]
  <2>1. PicServeToken(d) = PicServeSetup(e)
    BY <1>4 DEF PicServeToken
  <2>2. PicServeSetup(e) = [PicHandle(f, e.setup) EXCEPT !.pktdis = FALSE, !.out0 = TRUE]
    BY DEF PicServeSetup
  <2>. HIDE DEF e
  <2>3. /\ f \in PicDevice /\ f.setup = None /\ f.tokens = Tail(d.tokens) /\ f.bus = FALSE
        /\ f.out1 = d.out1 /\ f.buf1 = d.buf1
    BY <1>3 DEF PicDevice
  <2>. HIDE DEF f
  <2>4. e.setup \in PicRequests
    BY <1>3, <1>4 DEF PicDevice
  <2>. DEFINE g == PicHandle(f, e.setup)
  <2>5. g \in PicDevice /\ g.setup = None /\ g.tokens = Tail(d.tokens) /\ g.bus = FALSE
        /\ (~g.out1 => g.buf1 # None)
    BY <2>3, <2>4, PicHandleKeeps, PicHandleTyped DEF PicDevice
  <2>. HIDE DEF g
  <2>6. PicServeToken(d) = [g EXCEPT !.pktdis = FALSE, !.out0 = TRUE]
    BY <2>1, <2>2 DEF g
  <2>. QED BY <1>4, <2>5, <2>6 DEF PicDevice
<1>5. CASE Head(d.tokens) = "out"
  <2>1. PicServeToken(d) = [e EXCEPT !.stage = None, !.out0 = TRUE]
    BY <1>5 DEF PicServeToken, PicServeEp0Out
  <2>. HIDE DEF e
  <2>. QED BY <1>3, <1>5, <2>1 DEF PicDevice
<1>6. CASE Head(d.tokens) = "in"
  <2>. DEFINE f == [e EXCEPT !.uaddr = IF e.addr # 0 THEN e.addr ELSE e.uaddr, !.addr = 0]
  <2>1. PicServeToken(d) = PicServeEp0In(e)
    BY <1>6 DEF PicServeToken
  <2>2. PicServeEp0In(e) = IF f.stage = None THEN f ELSE PicSend(f, f.stage.req, f.stage.from)
    BY DEF PicServeEp0In
  <2>. HIDE DEF e
  <2>. QED BY <1>3, <1>6, <2>1, <2>2 DEF PicDevice, PicSend
<1>. QED BY <1>2, <1>4, <1>5, <1>6

\* The host flips its toggles.
LEMMA PicHostTogglesTyped ==
  ASSUME NEW d \in PicDevice, NEW a \in 0..1
  PROVE  [d EXCEPT !.hout = a] \in PicDevice /\ [d EXCEPT !.hin = a] \in PicDevice
<1>1. [d EXCEPT !.hout = a] \in PicDevice
  BY DEF PicDevice
<1>2. [d EXCEPT !.hin = a] \in PicDevice
  BY DEF PicDevice
<1>. QED BY <1>1, <1>2

\* The PIC16 keeps its fields.
LEMMA PicTyped ==
  ASSUME dev \in PicDevice, PicTokens(dev), PicNext
  PROVE  dev' \in PicDevice /\ PicTokens(dev)'
<1>0. 0 \in 0..1 /\ 1 \in 0..1 /\ dev.hin \in 0..1 /\ dev.hout \in 0..1
      /\ dev.tokens \in Seq({"setup", "in", "out"})
  BY DEF PicDevice
<1>1. CASE PicSetup
  <2>1. PICK r \in PicRequests, a \in 0..1, b \in 0..1 :
          \/ /\ dev' = [dev EXCEPT !.setup = r, !.out0 = FALSE, !.pktdis = TRUE,
                               !.tokens = Append(dev.tokens, "setup"), !.hin = a, !.hout = b]
             /\ ~dev.bus /\ ~dev.pktdis
          \/ dev' = dev
    <3>1. PICK r \in PicRequests :
            \/ /\ dev' = [dev EXCEPT !.setup = r, !.out0 = FALSE, !.pktdis = TRUE,
                               !.tokens = Append(dev.tokens, "setup"),
                               !.hin = IF r.kind = "config" THEN 0 ELSE dev.hin,
                               !.hout = IF r.kind = "config" THEN 0 ELSE dev.hout]
               /\ ~dev.bus /\ ~dev.pktdis
            \/ dev' = dev
      BY <1>1 DEF PicSetup, PicHeard
    <3>2. (IF r.kind = "config" THEN 0 ELSE dev.hin) \in 0..1
          /\ (IF r.kind = "config" THEN 0 ELSE dev.hout) \in 0..1
      BY <1>0
    <3>. QED BY <3>1, <3>2
  <2>2. CASE dev' = dev
    BY <2>2 DEF PicTokens
  <2>3. CASE dev' # dev
    <3>. DEFINE t == Append(dev.tokens, "setup")
    <3>1. /\ dev' = [dev EXCEPT !.setup = r, !.out0 = FALSE, !.pktdis = TRUE,
                               !.tokens = t, !.hin = a, !.hout = b]
          /\ ~dev.bus /\ ~dev.pktdis
      BY <2>1, <2>3
    <3>2. /\ t \in Seq({"setup", "in", "out"}) /\ Len(t) = Len(dev.tokens) + 1
          /\ Len(dev.tokens) \in Nat
          /\ \A i \in 1..Len(dev.tokens) : t[i] = dev.tokens[i]
          /\ t # <<>> /\ t[Len(t)] = "setup"
      BY <1>0
    <3>. HIDE DEF t
    <3>3. r # None
      BY RequestKinds
    <3>4. dev' \in PicDevice
      BY <3>1, <3>2 DEF PicDevice
    <3>5. dev'.tokens = t /\ dev'.setup = r /\ dev'.pktdis /\ dev'.bus = dev.bus
          /\ dev'.out1 = dev.out1 /\ dev'.buf1 = dev.buf1
      BY <3>1 DEF PicDevice
    <3>6. \A i \in 1..Len(dev.tokens) : dev.tokens[i] # "setup"
      BY <3>1 DEF PicTokens
    <3>7. \A i \in 1..Len(t) : t[i] = "setup" => i = Len(t)
      BY <3>2, <3>6
    <3>8. ~dev.out1 => dev.buf1 # None
      BY DEF PicTokens
    <3>9. dev'.pktdis /\ dev'.tokens # <<>> /\ dev'.tokens[Len(dev'.tokens)] = "setup"
      BY <3>2, <3>5
    <3>10. \A i \in 1..Len(dev'.tokens) :
              dev'.tokens[i] = "setup" => i = Len(dev'.tokens) /\ dev'.setup # None
      BY <3>3, <3>5, <3>7
    <3>11. ~dev'.out1 => dev'.buf1 # None
      BY <3>5, <3>8
    <3>. QED BY <3>4, <3>9, <3>10, <3>11 DEF PicTokens
  <2>. QED BY <2>2, <2>3
<1>2. CASE PicControlIn \/ PicControlOut
  <2>1. PICK k \in {"in", "out"}, o \in BOOLEAN, c \in {None, dev.in0}, a \in 0..1, b \in 0..1 :
          /\ dev' = [dev EXCEPT !.in0 = c, !.out0 = o, !.tokens = Append(dev.tokens, k),
                                !.hin = a, !.hout = b]
          /\ ~dev.bus /\ ~dev.pktdis
    <3>1. CASE PicControlIn
      <4>. DEFINE a == IF dev.in0.req = ClearHalt(ToHost) THEN 0 ELSE dev.hin
                  b == IF dev.in0.req = ClearHalt(ToDevice) THEN 0 ELSE dev.hout
      <4>1. a \in 0..1 /\ b \in 0..1
        BY <1>0
      <4>2. dev' = [dev EXCEPT !.in0 = None, !.tokens = Append(dev.tokens, "in"), !.hin = a, !.hout = b]
            /\ ~dev.bus /\ ~dev.pktdis
        BY <3>1 DEF PicControlIn, PicHeard
      <4>. HIDE DEF a, b
      <4>3. dev' = [dev EXCEPT !.in0 = None, !.out0 = dev.out0, !.tokens = Append(dev.tokens, "in"),
                               !.hin = a, !.hout = b]
        BY <4>2 DEF PicDevice
      <4>4. dev.out0 \in BOOLEAN
        BY DEF PicDevice
      <4>. QED BY <4>1, <4>2, <4>3, <4>4
    <3>2. CASE PicControlOut
      <4>1. dev' = [dev EXCEPT !.out0 = FALSE, !.tokens = Append(dev.tokens, "out")]
            /\ ~dev.bus /\ ~dev.pktdis
        BY <3>2 DEF PicControlOut, PicHeard
      <4>2. dev' = [dev EXCEPT !.in0 = dev.in0, !.out0 = FALSE, !.tokens = Append(dev.tokens, "out"),
                               !.hin = dev.hin, !.hout = dev.hout]
        BY <4>1 DEF PicDevice
      <4>. QED BY <1>0, <4>1, <4>2
    <3>. QED BY <1>2, <3>1, <3>2
  <2>. DEFINE t == Append(dev.tokens, k)
  <2>2. t \in Seq({"setup", "in", "out"}) /\ Len(t) = Len(dev.tokens) + 1 /\ Len(dev.tokens) \in Nat
        /\ t[Len(t)] = k /\ \A i \in 1..Len(dev.tokens) : t[i] = dev.tokens[i]
    BY <1>0
  <2>3. dev' = [dev EXCEPT !.in0 = c, !.out0 = o, !.tokens = t, !.hin = a, !.hout = b]
    BY <2>1
  <2>. HIDE DEF t
  <2>4. dev' \in PicDevice
    BY <2>2, <2>3 DEF PicDevice
  <2>5. dev'.tokens = t /\ dev'.setup = dev.setup /\ dev'.pktdis = dev.pktdis /\ dev'.bus = dev.bus
        /\ dev'.out1 = dev.out1 /\ dev'.buf1 = dev.buf1
    BY <2>3 DEF PicDevice
  <2>6. dev.setup = None /\ \A i \in 1..Len(dev.tokens) : dev.tokens[i] # "setup"
    BY <2>1 DEF PicTokens
  <2>7. \A i \in 1..Len(t) : t[i] # "setup"
    <3>. TAKE i \in 1..Len(t)
    <3>1. CASE i = Len(t)
      BY <2>2, <3>1
    <3>2. CASE i # Len(t)
      BY <2>2, <2>6, <3>2
    <3>. QED BY <3>1, <3>2
  <2>. QED BY <2>1, <2>4, <2>5, <2>6, <2>7 DEF PicTokens
<1>3. CASE PicControlStall \/ PicAbandon
  BY <1>3 DEF PicControlStall, PicAbandon, PicTokens
<1>4. CASE PicBusReset
  <2>1. PICK p \in {dev.pktdis, FALSE} : dev' = [dev EXCEPT !.bus = TRUE, !.pktdis = p]
    BY <1>4 DEF PicBusReset
  <2>. QED BY <2>1 DEF PicDevice, PicTokens
<1>5. CASE PicAsk
  <2>. DEFINE h == 1 - dev.hout
  <2>1. h \in 0..1
    BY <1>0
  <2>2. PICK c \in Cmd : dev' \in {[dev EXCEPT !.out1 = FALSE, !.buf1 = c, !.hout = h],
                                   [dev EXCEPT !.hout = h]}
    BY <1>5 DEF PicAsk
  <2>3. c # None
    BY HostAssumption
  <2>. HIDE DEF h
  <2>. DEFINE e == [dev EXCEPT !.out1 = FALSE, !.buf1 = c]
  <2>4. e \in PicDevice
    BY DEF PicDevice
  <2>5. dev' \in {[e EXCEPT !.hout = h], [dev EXCEPT !.hout = h]}
    BY <2>2
  <2>6. dev' \in PicDevice
    <3>1. [e EXCEPT !.hout = h] \in PicDevice
      BY <2>1, <2>4, PicHostTogglesTyped, Zenon
    <3>2. [dev EXCEPT !.hout = h] \in PicDevice
      BY <2>1, PicHostTogglesTyped, Zenon
    <3>. HIDE DEF e
    <3>. QED BY <2>5, <3>1, <3>2
  <2>7. dev'.bus = dev.bus /\ dev'.tokens = dev.tokens /\ dev'.setup = dev.setup
        /\ dev'.pktdis = dev.pktdis
        /\ ((dev'.out1 = dev.out1 /\ dev'.buf1 = dev.buf1) \/ dev'.buf1 = c)
    BY <2>2 DEF PicDevice
  <2>. QED BY <2>3, <2>6, <2>7 DEF PicTokens
<1>6. CASE PicTake
  <2>. DEFINE h == 1 - dev.hin
  <2>1. h \in 0..1
    BY <1>0
  <2>. DEFINE e == [dev EXCEPT !.in1 = None]
  <2>2. dev' \in {[e EXCEPT !.hin = h], e}
    BY <1>6 DEF PicTake
  <2>3. e \in PicDevice
    BY DEF PicDevice
  <2>. HIDE DEF h
  <2>4. [e EXCEPT !.hin = h] \in PicDevice
    BY <2>1, <2>3, PicHostTogglesTyped, Zenon
  <2>5. dev'.bus = dev.bus /\ dev'.tokens = dev.tokens /\ dev'.setup = dev.setup
        /\ dev'.pktdis = dev.pktdis /\ dev'.out1 = dev.out1 /\ dev'.buf1 = dev.buf1
    BY <2>2 DEF PicDevice
  <2>. HIDE DEF e
  <2>. QED BY <2>2, <2>3, <2>4, <2>5 DEF PicTokens
<1>7. CASE PicUsbService
  <2>. DEFINE d == PicServeBus(dev)
  <2>1. dev' = PicServeToken(d) /\ d \in PicDevice
    BY <1>7, PicServeBusTyped DEF PicUsbService
  <2>2. PicTokens(d) /\ ~d.bus
    BY DEF PicServeBus, PicTokens, PicDevice
  <2>. HIDE DEF d
  <2>3. d.tokens \in Seq({"setup", "in", "out"})
    BY <2>1 DEF PicDevice
  <2>4. d.tokens # <<>> /\ Head(d.tokens) = "setup" => d.setup # None /\ Len(d.tokens) = 1
    <3>. SUFFICES ASSUME d.tokens # <<>>, Head(d.tokens) = "setup"
                  PROVE  d.setup # None /\ Len(d.tokens) = 1
      OBVIOUS
    <3>1. 1 \in 1..Len(d.tokens) /\ d.tokens[1] = "setup"
      BY <2>3
    <3>. QED BY <2>2, <3>1 DEF PicTokens
  <2>5. dev' \in PicDevice
    BY <2>1, <2>4, PicServeTokenTyped
  <2>6. PicTokens(dev)'
    <3>1. CASE d.tokens = <<>>
      BY <2>1, <2>2, <3>1 DEF PicServeToken, PicTokens
    <3>. SUFFICES ASSUME d.tokens # <<>> PROVE PicTokens(dev)'
      BY <3>1
    <3>2. dev'.tokens = Tail(d.tokens) /\ dev'.bus = FALSE /\ (~dev'.out1 => dev'.buf1 # None)
          /\ IF Head(d.tokens) = "setup" THEN dev'.setup = None
             ELSE dev'.setup = d.setup /\ dev'.pktdis = d.pktdis
      <4>1. ~d.out1 => d.buf1 # None
        BY <2>2 DEF PicTokens
      <4>. QED BY <2>1, <2>2, <2>4, <4>1, PicServeTokenKeeps
    <3>3. Tail(d.tokens) \in Seq({"setup", "in", "out"}) /\ Len(Tail(d.tokens)) = Len(d.tokens) - 1
          /\ \A i \in 1..Len(Tail(d.tokens)) : Tail(d.tokens)[i] = d.tokens[i + 1]
          /\ Len(d.tokens) \in Nat \ {0}
      BY <2>3
    <3>. DEFINE t == Tail(d.tokens)
    <3>4. CASE Head(d.tokens) = "setup"
      BY <2>4, <3>2, <3>3, <3>4 DEF PicTokens
    <3>5. CASE Head(d.tokens) # "setup"
      <4>1. \A i \in 1..Len(Tail(d.tokens)) : Tail(d.tokens)[i] = "setup" =>
               i = Len(Tail(d.tokens)) /\ d.setup # None
        BY <2>2, <3>3 DEF PicTokens
      <4>. QED BY <2>2, <3>2, <3>5, <4>1 DEF PicTokens
    <3>. QED BY <3>4, <3>5
  <2>. QED BY <2>5, <2>6
<1>8. CASE PicMain
  <2>. DEFINE h == 1 - dev.tx_dts
              e == [dev EXCEPT !.in1 = [cmd |-> dev.buf1, dts |-> dev.tx_dts], !.tx_dts = h]
              q == 1 - e.rx_dts
  <2>1. dev' = [e EXCEPT !.out1 = TRUE, !.buf1 = None, !.dts = e.rx_dts, !.rx_dts = q]
    BY <1>8 DEF PicMain, PicArm
  <2>2. h \in 0..1 /\ dev.buf1 \in Cmd /\ dev.tx_dts \in 0..1
    BY <1>8 DEF PicMain, PicDevice, PicTokens
  <2>3. e \in PicDevice
    <3>. HIDE DEF h
    <3>. QED BY <2>2 DEF PicDevice
  <2>. HIDE DEF e
  <2>4. q \in 0..1 /\ e.rx_dts \in 0..1
    BY <2>3 DEF PicDevice
  <2>. HIDE DEF q
  <2>5. dev' \in PicDevice
    BY <2>1, <2>3, <2>4, PicTogglesTyped, Zenon
  <2>6. dev'.out1 /\ dev'.bus = dev.bus /\ dev'.tokens = dev.tokens /\ dev'.setup = dev.setup
        /\ dev'.pktdis = dev.pktdis
    BY <2>1, <2>3 DEF PicDevice, e
  <2>. QED BY <2>5, <2>6 DEF PicTokens
<1>. QED BY <1>1, <1>2, <1>3, <1>4, <1>5, <1>6, <1>7, <1>8 DEF PicNext, PicHost, PicPolls

-----------------------------------------------------------------------------
(* The fields of the STM32's device                                        *)

\* Fields changed together.
LEMMA StmAddressTyped ==
  ASSUME NEW d \in StmDevice, NEW a \in {0, Address}
  PROVE  [d EXCEPT !.daddr = a, !.address = 0] \in StmDevice
BY DEF StmDevice

\* STALL set or cleared.
LEMMA StmStallTyped ==
  ASSUME NEW d \in StmDevice, NEW s \in BOOLEAN PROVE [d EXCEPT !.stall0 = s] \in StmDevice
BY DEF StmDevice

\* The debugger's endpoints closed.
LEMMA StmClosedTyped ==
  ASSUME NEW d \in StmDevice
  PROVE  [d EXCEPT !.in1 = None, !.out1 = FALSE, !.refused = FALSE] \in StmDevice
BY DEF StmDevice

\* What the HAL is asked, done or refused, leaves a device.
LEMMA StmAsksTyped ==
  ASSUME NEW d \in StmDevice, NEW e \in StmDevice PROVE StmAsks(d, e) \in StmDevice
<1>1. [d EXCEPT !.refused = TRUE] \in StmDevice
  BY DEF StmDevice
<1>. QED BY <1>1 DEF StmAsks

\* So do the answers to a request.
LEMMA StmSendTyped ==
  ASSUME NEW d \in StmDevice, NEW r \in Requests, NEW k \in Int
  PROVE  StmSend(d, r, k) \in StmDevice
<1>. DEFINE e == [d EXCEPT !.data = [req |-> r, from |-> k]]
            f == [e EXCEPT !.in0 = Packet(r, k)]
<1>1. StmSend(d, r, k) = StmAsks(e, f)
  BY DEF StmSend
<1>2. e \in StmDevice
  BY DEF StmDevice
<1>. HIDE DEF e
<1>3. f \in StmDevice
  BY <1>2, PacketTyped DEF StmDevice
<1>. HIDE DEF f
<1>. QED BY <1>1, <1>2, <1>3, StmAsksTyped

\* A status packet given to endpoint 0.
LEMMA StmStatusTyped ==
  ASSUME NEW d \in StmDevice, NEW r \in Requests
  PROVE  StmStatus(d, r) \in StmDevice /\ StmStall(d) \in StmDevice
<1>1. Zero(r) \in Packets
  <2>1. 0 \in Int
    OBVIOUS
  <2>. QED BY <2>1, PacketTyped, Zenon
<1>2. [d EXCEPT !.in0 = Zero(r)] \in StmDevice
  BY <1>1 DEF StmDevice
<1>3. [d EXCEPT !.stall0 = TRUE] \in StmDevice
  BY DEF StmDevice
<1>. QED BY <1>2, <1>3, StmAsksTyped DEF StmStatus, StmStall

\* A state of the device.
LEMMA StmStateTyped ==
  ASSUME NEW d \in StmDevice, NEW s \in {"default", "addressed", "configured"}
  PROVE  [d EXCEPT !.state = s] \in StmDevice
BY DEF StmDevice

\* And so does a device whose endpoint 1 changed, or whose lock was met.
LEMMA StmEndpointTyped ==
  ASSUME NEW d \in StmDevice
  PROVE  /\ [d EXCEPT !.in1 = d.last] \in StmDevice
         /\ [d EXCEPT !.in1 = None] \in StmDevice
         /\ [d EXCEPT !.out1 = TRUE] \in StmDevice
         /\ [d EXCEPT !.out1 = FALSE] \in StmDevice
         /\ [d EXCEPT !.refused = TRUE] \in StmDevice
<1>1. [d EXCEPT !.in1 = d.last] \in StmDevice
  BY DEF StmDevice
<1>2. [d EXCEPT !.in1 = None] \in StmDevice
  BY DEF StmDevice
<1>3. [d EXCEPT !.out1 = TRUE] \in StmDevice
  BY DEF StmDevice
<1>4. [d EXCEPT !.out1 = FALSE] \in StmDevice
  BY DEF StmDevice
<1>5. [d EXCEPT !.refused = TRUE] \in StmDevice
  BY DEF StmDevice
<1>. QED BY <1>1, <1>2, <1>3, <1>4, <1>5

\* A request served.
LEMMA StmServeSetupTyped ==
  ASSUME NEW d \in StmDevice, d.setup # None PROVE StmServeSetup(d) \in StmDevice
<1>. DEFINE r == d.setup
            e == [d EXCEPT !.setup = None, !.data = None]
<1>1. r \in Requests /\ r.kind \in {"address", "config", "get", "unknown", "clear"}
      /\ (r.kind = "address" => r.arg = Address)
  BY RequestKinds DEF StmDevice
<1>2. e \in StmDevice
  BY DEF StmDevice
<1>3. CASE r.kind = "get"
  <2>1. StmServeSetup(d) = StmSend(e, r, 0)
    BY <1>3 DEF StmServeSetup
  <2>. HIDE DEF e, r
  <2>. QED BY <1>1, <1>2, <2>1, StmSendTyped
<1>4. CASE r.kind = "address"
  <2>1. StmServeSetup(d) = StmSetAddress(e, r)
    BY <1>4 DEF StmServeSetup
  <2>. HIDE DEF e, r
  <2>2. StmStall(e) \in StmDevice
    BY <1>1, <1>2, StmStatusTyped
  <2>. DEFINE f == StmAsks(e, [e EXCEPT !.address = r.arg])
              g == StmStatus(f, r)
  <2>3. f \in StmDevice
    <3>1. [e EXCEPT !.address = r.arg] \in StmDevice
      BY <1>1, <1>2, <1>4 DEF StmDevice
    <3>. QED BY <1>2, <3>1, StmAsksTyped
  <2>. HIDE DEF f
  <2>4. g \in StmDevice
    BY <1>1, <2>3, StmStatusTyped
  <2>5. StmSetAddress(e, r) \in {StmStall(e), [g EXCEPT !.state = "addressed"]}
    BY DEF StmSetAddress, f
  <2>. HIDE DEF g
  <2>6. [g EXCEPT !.state = "addressed"] \in StmDevice
    BY <2>4, StmStateTyped, Zenon
  <2>. QED BY <2>1, <2>2, <2>5, <2>6
<1>5. CASE r.kind = "config"
  <2>1. StmServeSetup(d) = StmSetConfig(e, r)
    BY <1>5 DEF StmServeSetup
  <2>. HIDE DEF e, r
  <2>2. e.state \in {"default", "addressed", "configured"}
    BY <1>2 DEF StmDevice
  <2>. DEFINE f == StmOpened(e)
              g == [f EXCEPT !.state = "configured"]
  <2>3. f \in StmDevice
    <3>1. [e EXCEPT !.in1 = None, !.out1 = TRUE] \in StmDevice
      BY <1>2 DEF StmDevice
    <3>. QED BY <1>2, <3>1, StmAsksTyped DEF StmOpened
  <2>4. StmSetConfig(e, r) \in {StmStatus(g, r), StmStatus(e, r), StmStall(e)}
    BY <2>2 DEF StmSetConfig
  <2>. HIDE DEF f
  <2>5. g \in StmDevice
    BY <2>3, StmStateTyped, Zenon
  <2>. HIDE DEF g
  <2>. QED BY <1>1, <1>2, <2>1, <2>4, <2>5, StmStatusTyped
<1>6. CASE r.kind = "clear"
  <2>1. StmServeSetup(d) = StmClearFeature(e, r)
    BY <1>6 DEF StmServeSetup
  <2>. HIDE DEF e, r
  <2>2. StmClear(e, r.arg) \in StmDevice
    <3>1. [e EXCEPT !.in1 = e.last] \in StmDevice
      BY <1>2, StmEndpointTyped, Zenon
    <3>2. [e EXCEPT !.out1 = TRUE] \in StmDevice
      BY <1>2, StmEndpointTyped, Zenon
    <3>. QED BY <1>2, <3>1, <3>2, StmAsksTyped DEF StmClear
  <2>3. StmStallEp(e, r.arg) \in StmDevice
    <3>1. [e EXCEPT !.in1 = None] \in StmDevice
      BY <1>2, StmEndpointTyped, Zenon
    <3>2. [e EXCEPT !.out1 = FALSE] \in StmDevice
      BY <1>2, StmEndpointTyped, Zenon
    <3>. QED BY <1>2, <3>1, <3>2, StmAsksTyped DEF StmStallEp
  <2>4. e.state \in {"default", "addressed", "configured"}
    BY <1>2 DEF StmDevice
  <2>. QED BY <1>1, <1>2, <2>1, <2>2, <2>3, <2>4, StmStatusTyped DEF StmClearFeature
<1>7. CASE r.kind = "unknown"
  <2>1. StmServeSetup(d) = StmStall(e)
    BY <1>7 DEF StmServeSetup
  <2>. HIDE DEF e, r
  <2>. QED BY <1>1, <1>2, <2>1, StmStatusTyped
<1>. QED BY <1>1, <1>3, <1>4, <1>5, <1>6, <1>7

\* A control packet that has been taken.
LEMMA StmServeInTyped ==
  ASSUME NEW d \in StmDevice PROVE StmServeIn(d) \in StmDevice
<1>. DEFINE c == [d EXCEPT !.sent = FALSE]
            e == StmDataIn(c)
<1>1. c \in StmDevice
  BY DEF StmDevice
<1>2. e \in StmDevice
  <2>. HIDE DEF c
  <2>1. CASE c.data = None
    BY <1>1, <2>1 DEF StmDataIn
  <2>2. CASE c.data # None /\ StmMore(c)
    <3>1. c.data.req \in Requests /\ c.data.from + MaxPacket0 \in Int
      BY <1>1, <2>2, HostAssumption DEF StmDevice
    <3>2. e = StmSend(c, c.data.req, c.data.from + MaxPacket0)
      BY <2>2 DEF StmDataIn
    <3>. HIDE DEF e
    <3>. QED BY <1>1, <3>1, <3>2, StmSendTyped
  <2>3. CASE c.data # None /\ ~StmMore(c)
    <3>1. [c EXCEPT !.data = None] \in StmDevice
      BY <1>1 DEF StmDevice
    <3>2. [c EXCEPT !.data = None, !.out0 = TRUE] \in StmDevice
      BY <1>1 DEF StmDevice
    <3>3. e = StmAsks([c EXCEPT !.data = None], [c EXCEPT !.data = None, !.out0 = TRUE])
      BY <2>3 DEF StmDataIn
    <3>. HIDE DEF e
    <3>. QED BY <3>1, <3>2, <3>3, StmAsksTyped
  <2>. QED BY <2>1, <2>2, <2>3
<1>3. StmServeIn(d) \in {[e EXCEPT !.daddr = d.address, !.address = 0], e}
  BY DEF StmServeIn
<1>4. d.address \in {0, Address}
  BY DEF StmDevice
<1>. HIDE DEF c, e
<1>5. [e EXCEPT !.daddr = d.address, !.address = 0] \in StmDevice
  BY <1>2, <1>4, StmAddressTyped, Zenon
<1>. QED BY <1>2, <1>3, <1>5

\* The STM32 keeps its fields.
LEMMA StmTyped == ASSUME dev \in StmDevice, StmNext PROVE dev' \in StmDevice
<1>1. CASE StmSetup
  <2>1. PICK r \in StmRequests :
          dev' \in {[dev EXCEPT !.setup = r, !.in0 = None, !.out0 = FALSE, !.came = FALSE,
                               !.stall0 = FALSE], dev}
    BY <1>1 DEF StmSetup
  <2>. DEFINE e == [dev EXCEPT !.setup = r, !.in0 = None, !.out0 = FALSE, !.came = FALSE]
  <2>2. e \in StmDevice
    BY DEF StmDevice
  <2>3. dev' \in {[e EXCEPT !.stall0 = FALSE], dev}
    BY <2>1
  <2>. HIDE DEF e
  <2>4. [e EXCEPT !.stall0 = FALSE] \in StmDevice
    BY <2>2, FALSE \in BOOLEAN, StmStallTyped, Zenon
  <2>. QED BY <2>3, <2>4
<1>2. CASE StmControlIn \/ StmControlOut
  <2>1. [dev EXCEPT !.in0 = None, !.sent = TRUE] \in StmDevice
    BY DEF StmDevice
  <2>2. [dev EXCEPT !.out0 = FALSE, !.came = TRUE] \in StmDevice
    BY DEF StmDevice
  <2>. QED BY <1>2, <2>1, <2>2 DEF StmControlIn, StmControlOut
<1>3. CASE StmControlStall \/ StmAbandon
  BY <1>3 DEF StmControlStall, StmAbandon
<1>4. CASE StmBusReset
  <2>. DEFINE e == [dev EXCEPT !.bus = TRUE, !.in0 = None, !.out0 = FALSE, !.stall0 = FALSE]
  <2>1. dev' = [e EXCEPT !.in1 = None, !.out1 = FALSE]
    BY <1>4 DEF StmBusReset
  <2>2. e \in StmDevice
    BY DEF StmDevice
  <2>. HIDE DEF e
  <2>. QED BY <2>1, <2>2 DEF StmDevice
<1>5. CASE StmAsk
  <2>1. PICK c \in Cmd : dev' = [dev EXCEPT !.out1 = FALSE, !.buf1 = c]
    BY <1>5 DEF StmAsk
  <2>. QED BY <2>1 DEF StmDevice
<1>6. CASE StmTake
  BY <1>6 DEF StmTake, StmDevice
<1>7. CASE StmControl
  <2>1. CASE dev.setup # None /\ dev' = StmServeSetup(dev)
    BY <2>1, StmServeSetupTyped
  <2>2. CASE dev' = StmServeOut(dev)
    BY <2>2 DEF StmServeOut, StmDevice
  <2>3. CASE dev' = StmServeIn(dev)
    BY <2>3, StmServeInTyped
  <2>. QED BY <1>7, <2>1, <2>2, <2>3 DEF StmControl
<1>8. CASE StmCommand
  <2>. DEFINE e == [dev EXCEPT !.buf1 = None]
              f == [e EXCEPT !.out1 = TRUE, !.message = dev.buf1]
  <2>1. dev' \in {e, StmAsks(e, f)}
    BY <1>8 DEF StmCommand, StmServeCommand
  <2>2. e \in StmDevice /\ dev.buf1 \in Cmd \cup {None}
    BY DEF StmDevice
  <2>. HIDE DEF e
  <2>3. f \in StmDevice
    BY <2>2 DEF StmDevice
  <2>. HIDE DEF f
  <2>. QED BY <2>1, <2>2, <2>3, StmAsksTyped
<1>9. CASE StmReset
  <2>. DEFINE e == [dev EXCEPT !.bus = FALSE, !.state = "default"]
              g == [e EXCEPT !.daddr = 0, !.out0 = TRUE, !.in0 = None]
              f == [g EXCEPT !.in1 = None, !.out1 = FALSE, !.refused = FALSE]
  <2>1. dev' = StmAsks(e, f)
    BY <1>9 DEF StmReset, StmServeBus
  <2>2. e \in StmDevice
    BY DEF StmDevice
  <2>. HIDE DEF e
  <2>4. g \in StmDevice
    BY <2>2 DEF StmDevice
  <2>. HIDE DEF g
  <2>3. f \in StmDevice
    BY <2>4, StmClosedTyped, Zenon
  <2>. HIDE DEF f
  <2>. QED BY <2>1, <2>2, <2>3, StmAsksTyped
<1>10. CASE StmService
  BY <1>10 DEF StmService, StmDevice
<1>11. CASE StmServiced
  BY <1>11 DEF StmServiced, StmDevice
<1>. QED BY <1>1, <1>2, <1>3, <1>4, <1>5, <1>6, <1>7, <1>8, <1>9, <1>10, <1>11
     DEF StmNext, StmHost, StmInterrupt, StmPolls

-----------------------------------------------------------------------------
(* The device                                                              *)

\* At power-up.
LEMMA DeviceStart == Init => DeviceTypes
<1>1. ASSUME NucInit PROVE dev \in NucDevice
  BY <1>1 DEF NucInit, NucDevice
<1>2. ASSUME SamInit PROVE dev \in SamDevice
  <2>1. <<0, 0>> \in [1..2 -> 0..1]
    OBVIOUS
  <2>. QED BY <1>2, <2>1 DEF SamInit, SamDevice
<1>3. ASSUME PicInit PROVE dev \in PicDevice /\ PicTokens(dev)
  <2>1. <<>> \in Seq({"setup", "in", "out"}) /\ Len(<<>>) = 0
    OBVIOUS
  <2>2. dev \in PicDevice
    BY <1>3, <2>1 DEF PicInit, PicDevice
  <2>3. dev.tokens = <<>> /\ dev.setup = None /\ dev.out1
    BY <1>3 DEF PicInit
  <2>. QED BY <2>1, <2>2, <2>3 DEF PicTokens
<1>4. ASSUME StmInit PROVE dev \in StmDevice
  BY <1>4 DEF StmInit, StmDevice
<1>. QED BY <1>1, <1>2, <1>3, <1>4 DEF Init, DeviceTypes

\* The fields say which firmware it is, and only that one takes steps.
LEMMA Firmware ==
  /\ dev \in NucDevice => Nuc /\ ~Sam /\ ~Pic /\ ~Stm
  /\ dev \in SamDevice => Sam /\ ~Nuc /\ ~Pic /\ ~Stm
  /\ dev \in PicDevice => Pic /\ ~Nuc /\ ~Sam /\ ~Stm
  /\ dev \in StmDevice => Stm /\ ~Nuc /\ ~Sam /\ ~Pic
  /\ NucNext => Nuc
  /\ SamNext => Sam
  /\ PicNext => Pic
  /\ StmNext => Stm
<1>1. dev \in NucDevice => Nuc /\ ~Sam /\ ~Pic /\ ~Stm
  BY DEF NucDevice, Nuc, Sam, Pic, Stm
<1>2. dev \in SamDevice => Sam /\ ~Nuc /\ ~Pic /\ ~Stm
  BY DEF SamDevice, Nuc, Sam, Pic, Stm
<1>3. dev \in PicDevice => Pic /\ ~Nuc /\ ~Sam /\ ~Stm
  BY DEF PicDevice, Nuc, Sam, Pic, Stm
<1>4. dev \in StmDevice => Stm /\ ~Nuc /\ ~Sam /\ ~Pic
  BY DEF StmDevice, Nuc, Sam, Pic, Stm
<1>5. NucNext => Nuc
  BY DEF NucNext, NucHost, NucSetup, NucControlIn, NucControlOut, NucControlStall, NucAbandon,
     NucBusReset, NucAsk, NucTake, NucUsbTask, NucVendorHidTask, NucHeard, NucReady, NucRecovered
<1>6. SamNext => Sam
  BY DEF SamNext, SamHost, SamPolls, SamSetup, SamControlIn, SamControlOut, SamControlStall,
     SamAbandon, SamBusReset, SamAsk, SamTake, SamHandler, SamWaited, SamHeard, SamReady, SamRecovered
<1>7. PicNext => Pic
  BY DEF PicNext, PicHost, PicPolls, PicSetup, PicControlIn, PicControlOut, PicControlStall,
     PicAbandon, PicBusReset, PicAsk, PicTake, PicUsbService, PicMain, PicHeard, PicRecovered
<1>8. StmNext => Stm
  BY DEF StmNext, StmHost, StmPolls, StmInterrupt, StmSetup, StmControlIn, StmControlOut,
     StmControlStall, StmAbandon, StmBusReset, StmAsk, StmTake, StmControl, StmCommand, StmReset,
     StmControlDone, StmService, StmServiced, StmHeard, StmReady, StmRecovered
<1>. QED BY <1>1, <1>2, <1>3, <1>4, <1>5, <1>6, <1>7, <1>8

\* It stays that firmware.
LEMMA FirmwareAfter ==
  /\ dev' \in NucDevice => ~Sam' /\ ~Pic' /\ ~Stm'
  /\ dev' \in SamDevice => ~Nuc' /\ ~Pic' /\ ~Stm'
  /\ dev' \in PicDevice => ~Nuc' /\ ~Sam' /\ ~Stm'
  /\ dev' \in StmDevice => ~Nuc' /\ ~Sam' /\ ~Pic'
BY DEF NucDevice, SamDevice, PicDevice, StmDevice, Nuc, Sam, Pic, Stm

\* A step leaves the device its fields.
LEMMA DeviceStep ==
  ASSUME DeviceTypes, [Next]_usbvars PROVE DeviceTypes'
<1>1. CASE UNCHANGED usbvars
  BY <1>1 DEF usbvars, DeviceTypes, PicTokens
<1>2. CASE NucNext
  BY <1>2, Firmware, NucTyped DEF DeviceTypes
<1>3. CASE SamNext
  BY <1>3, Firmware, SamTyped DEF DeviceTypes
<1>4. CASE PicNext
  BY <1>4, Firmware, PicTyped DEF DeviceTypes
<1>5. CASE StmNext
  BY <1>5, Firmware, StmTyped DEF DeviceTypes
<1>. QED BY <1>1, <1>2, <1>3, <1>4, <1>5 DEF Next

\* Whatever the host does, the device keeps its fields.
THEOREM DeviceFields == Spec => []DeviceTypes
<1>1. DeviceTypes /\ [Next]_usbvars => DeviceTypes'
  BY DeviceStep
<1>. QED BY <1>1, DeviceStart, PTL DEF Spec

-----------------------------------------------------------------------------
(* The SAMD11's sessions                                                   *)

\* The host's steps leave what host and SAMD11 agree on.
LEMMA SamHostStep ==
  ASSUME "samd11" \in Calm, dev \in SamDevice, HostInv, SamControlInv, SamSessionInv, SamHost
  PROVE  HostInv' /\ SamControlInv' /\ SamSessionInv'
<1>. USE DEF SamControlInv, SamSessionInv, SamConfiguring, SamTaken, Is
<1>0. /\ dev.toggle \in [1..2 -> 0..1] /\ dev.host \in [1..2 -> 0..1] /\ dev.fw \in Calm
      /\ dev.wait \in SamRequests \cup {None} /\ dev.setup \in SamRequests \cup {None}
      /\ conf \in BOOLEAN /\ waiting \in 0..1
      /\ waiting > 0 => conf
      /\ xfer # None => xfer.req \in Requests
      /\ Is("config") => ~conf
      /\ Is("clear") => conf /\ waiting = 0
  BY DEF SamDevice, HostInv, DAP_PACKET_COUNT
<1>1. CASE SamSetup
  <2>1. PICK r \in SamRequests :
          /\ SamRecovered /\ HostSetup(r, SamCare(r))
          /\ dev' = IF SamHeard
                    THEN [dev EXCEPT !.setup = r, !.stall0 = FALSE,
                                     !.host = IF r.kind = "config" THEN <<0, 0>> ELSE @]
                    ELSE dev
    BY <1>1 DEF SamSetup
  <2>2. /\ xfer' = [req |-> r, n |-> 0, last |-> None,
                    stage |-> IF r.kind = "get" THEN "data" ELSE "status"]
        /\ IF r.kind = "config" THEN conf' = FALSE /\ waiting' = 0 ELSE UNCHANGED <<conf, waiting>>
        /\ hostaddr' = hostaddr /\ Legal(r) /\ SamCare(r)
    BY <1>0, <2>1 DEF HostSetup, WithCare
  <2>3. HostInv'
    BY <2>2, RequestKinds, HostSetupInv
  <2>4. conf' \in BOOLEAN /\ (conf' = conf \/ ~conf')
    BY <1>0, <2>2, Zenon
  <2>5. SamHeard
    BY <2>1, HostAssumption DEF SamRecovered, SamAddr, SamHeard
  <2>6. /\ dev'.setup = r /\ dev'.host = (IF r.kind = "config" THEN <<0, 0>> ELSE dev.host)
        /\ dev'.bus = FALSE /\ dev'.in0 = dev.in0 /\ dev'.wait = dev.wait /\ dev'.dadd = dev.dadd
        /\ dev'.buf1 = dev.buf1 /\ dev'.in1 = dev.in1 /\ dev'.toggle = dev.toggle
    BY <2>1, <2>5 DEF SamDevice, SamHeard
  <2>7. r # None /\ xfer'.req = r
    BY <2>2, RequestKinds
  <2>8. SamControlInv'
    BY <2>2, <2>5, <2>6, <2>7 DEF SamHeard
  <2>9. SamSessionInv'
    BY <1>0, <2>2, <2>4, <2>6, <2>7 DEF SamCare
  <2>. QED BY <2>3, <2>8, <2>9
<1>2. CASE SamControlIn
  <2>. DEFINE h == IF dev.wait.kind = "clear" THEN [dev.host EXCEPT ![dev.wait.arg] = 0] ELSE dev.host
  <2>1. /\ SamReady /\ dev.in0
        /\ HostData(SamAnswer) \/ HostStatusIn(SamAnswer)
        /\ dev' = [dev EXCEPT !.in0 = FALSE, !.host = h]
    BY <1>2 DEF SamControlIn
  <2>2. /\ dev.setup = None /\ ~dev.bus /\ dev.dadd = hostaddr /\ dev.wait # None
    BY <2>1 DEF SamReady, SamHeard
  <2>3. /\ dev'.setup = None /\ dev'.host = h
        /\ dev'.bus = FALSE /\ dev'.in0 = FALSE /\ dev'.wait = dev.wait /\ dev'.dadd = dev.dadd
        /\ dev'.buf1 = dev.buf1 /\ dev'.in1 = dev.in1 /\ dev'.toggle = dev.toggle
    BY <2>1, <2>2 DEF SamDevice
  <2>. HIDE DEF h
  <2>4. xfer # None
    BY <2>1 DEF HostData, HostStatusIn
  <2>5. dev.wait = xfer.req /\ dev.wait \in SamRequests
    BY <1>0, <2>1, <2>2, <2>4
  <2>6. CASE HostData(SamAnswer)
    <3>1. HostInv' /\ xfer'.req = xfer.req /\ xfer.req.kind = "get" /\ hostaddr' = hostaddr
          /\ waiting' = waiting /\ conf' = conf /\ conf' \in BOOLEAN
      BY <2>6, HostDataInv
    <3>2. h = dev.host
      BY <2>5, <3>1 DEF h
    <3>3. SamControlInv'
      BY <2>2, <2>3, <2>5, <3>1
    <3>4. SamSessionInv'
      BY <1>0, <2>2, <2>3, <2>4, <2>5, <3>1, <3>2
    <3>. QED BY <3>1, <3>3, <3>4
  <2>7. CASE HostStatusIn(SamAnswer)
    <3>1. /\ HostInv' /\ xfer' = None
          /\ hostaddr' = IF xfer.req.kind = "address" THEN Address ELSE hostaddr
          /\ waiting' = waiting /\ conf' = (conf \/ xfer.req.kind = "config") /\ conf' \in BOOLEAN
      BY <2>7, HostStatusInv
    <3>2. SamControlInv'
      BY <2>2, <2>3, <2>5, <3>1, RequestKinds
    <3>3. CASE dev.wait.kind = "config"
      <4>1. ~conf /\ waiting = 0 /\ h = dev.host /\ dev.buf1 = None /\ dev.host = <<0, 0>>
        BY <1>0, <2>4, <2>5, <3>3 DEF h
      <4>. QED BY <2>2, <2>3, <3>1, <3>2, <3>3, <4>1
    <3>4. CASE dev.wait.kind # "config"
      <4>1. conf' = conf
        BY <1>0, <2>5, <3>1, <3>4, Zenon
      <4>2. conf => h = dev.host
        <5>. SUFFICES ASSUME conf, dev.wait.kind = "clear" PROVE h = dev.host
          BY DEF h
        <5>1. dev.toggle = dev.host /\ dev.toggle[dev.wait.arg] = 0
          BY <2>4, <2>5
        <5>2. h = [dev.host EXCEPT ![dev.wait.arg] = 0]
          BY DEF h
        <5>. QED BY <1>0, <5>1, <5>2
      <4>3. SamSessionInv'
        BY <1>0, <2>2, <2>3, <2>4, <2>5, <3>1, <3>4, <4>1, <4>2
      <4>. QED BY <3>1, <3>2, <4>3
    <3>. QED BY <3>3, <3>4
  <2>. QED BY <2>1, <2>6, <2>7
<1>3. CASE SamControlOut \/ SamControlStall \/ SamAbandon
  <2>1. xfer' = None /\ UNCHANGED <<hostaddr, conf, waiting>>
    BY <1>3 DEF SamControlOut, SamControlStall, SamAbandon, HostStatusOut, HostStalled, HostAbandon
  <2>2. HostInv' /\ conf' = conf /\ conf' \in BOOLEAN
    BY <2>1, HostStopInv
  <2>3. /\ dev'.setup = dev.setup /\ dev'.host = dev.host
        /\ dev'.bus = dev.bus /\ dev'.in0 = dev.in0 /\ dev'.wait = dev.wait /\ dev'.dadd = dev.dadd
        /\ dev'.buf1 = dev.buf1 /\ dev'.in1 = dev.in1 /\ dev'.toggle = dev.toggle
    BY <1>3 DEF SamControlOut, SamControlStall, SamAbandon, SamDevice
  <2>4. SamControlInv'
    BY <2>1, <2>2, <2>3
  <2>5. SamSessionInv'
    BY <2>1, <2>2, <2>3
  <2>. QED BY <2>2, <2>4, <2>5
<1>4. CASE SamBusReset
  <2>1. xfer' = None /\ hostaddr' = 0 /\ conf' = FALSE /\ waiting' = 0
    BY <1>4 DEF SamBusReset, HostReset
  <2>2. HostInv' /\ conf' \in BOOLEAN /\ ~conf'
    BY <2>1, HostResetInv
  <2>3. PICK c \in {dev.in1, None}, q \in {dev.buf1, None} :
          dev' = [dev EXCEPT !.bus = TRUE, !.in1 = c, !.buf1 = q]
    BY <1>4 DEF SamBusReset
  <2>4. dev'.bus /\ dev'.in0 = dev.in0 /\ dev'.wait = dev.wait
    BY <2>3 DEF SamDevice
  <2>5. SamControlInv' /\ SamSessionInv'
    BY <2>1, <2>2, <2>4
  <2>. QED BY <2>2, <2>5
<1>5. CASE SamAsk
  <2>1. HostAsk /\ SamHeard /\ ~SamTaken
    BY <1>5 DEF SamAsk
  <2>2. /\ HostInv' /\ conf /\ conf' = conf /\ conf' \in BOOLEAN /\ waiting = 0 /\ waiting' = 1
        /\ xfer' = xfer /\ hostaddr' = hostaddr /\ ~Is("clear") /\ ~Is("config")
    BY <2>1, HostAskInv
  <2>3. ~dev.bus /\ ~SamConfiguring /\ dev.toggle = dev.host /\ dev.in1 = None
    BY <2>1, <2>2 DEF SamHeard
  <2>4. PICK c \in Cmd : dev' = [dev EXCEPT !.out1 = FALSE, !.buf1 = c,
                               !.toggle[ToDevice] = 1 - @, !.host[ToDevice] = 1 - @]
    BY <1>5, <2>3 DEF SamAsk
  <2>5. /\ dev'.setup = dev.setup /\ dev'.in1 = None /\ dev'.bus = FALSE
        /\ dev'.in0 = dev.in0 /\ dev'.wait = dev.wait /\ dev'.dadd = dev.dadd
        /\ dev'.toggle = [dev.toggle EXCEPT ![ToDevice] = 1 - @]
        /\ dev'.host = [dev.host EXCEPT ![ToDevice] = 1 - @]
    BY <2>3, <2>4 DEF SamDevice
  <2>6. dev'.toggle = dev'.host
    BY <2>3, <2>5
  <2>7. SamControlInv'
    BY <2>2, <2>3, <2>5
  <2>8. SamSessionInv'
    BY <2>2, <2>3, <2>5, <2>6
  <2>. QED BY <2>2, <2>7, <2>8
<1>6. CASE SamTake
  <2>1. waiting > 0 /\ SamHeard /\ dev.in1 # None
    BY <1>6 DEF SamTake, HostTake
  <2>2. conf /\ ~SamConfiguring /\ dev.toggle = dev.host /\ dev.buf1 = None /\ ~dev.bus
    BY <1>0, <2>1 DEF SamHeard
  <2>3. HostTake(dev.in1)
    BY <1>6, <2>2 DEF SamTake
  <2>4. /\ HostInv' /\ conf' = conf /\ conf' \in BOOLEAN /\ waiting' = 0
        /\ xfer' = xfer /\ hostaddr' = hostaddr /\ ~Is("clear") /\ ~Is("config")
    BY <2>3, HostTakeInv
  <2>5. dev' = [dev EXCEPT !.in1 = None, !.ev1 = TRUE, !.toggle[ToHost] = 1 - @,
                        !.host[ToHost] = 1 - @]
    BY <1>6, <2>2 DEF SamTake
  <2>6. /\ dev'.setup = dev.setup /\ dev'.in1 = None /\ dev'.bus = FALSE /\ dev'.buf1 = None
        /\ dev'.in0 = dev.in0 /\ dev'.wait = dev.wait /\ dev'.dadd = dev.dadd
        /\ dev'.toggle = [dev.toggle EXCEPT ![ToHost] = 1 - @]
        /\ dev'.host = [dev.host EXCEPT ![ToHost] = 1 - @]
    BY <2>2, <2>5 DEF SamDevice
  <2>7. dev'.toggle = dev'.host
    BY <2>2, <2>6
  <2>8. SamControlInv'
    BY <2>2, <2>4, <2>6
  <2>9. SamSessionInv'
    BY <2>2, <2>4, <2>6, <2>7
  <2>. QED BY <2>4, <2>8, <2>9
<1>. QED BY <1>1, <1>2, <1>3, <1>4, <1>5, <1>6 DEF SamHost, SamPolls

\* The endpoints served: a command is answered in place of the response taken.
LEMMA SamEndpointsOf ==
  ASSUME NEW d \in SamDevice
  PROVE  /\ SamEndpoints(d).buf1 = None
         /\ SamEndpoints(d).in1 # None => d.in1 # None \/ d.buf1 # None
         /\ \A f \in {"setup", "bus", "in0", "wait", "dadd", "toggle", "host"} :
              SamEndpoints(d)[f] = d[f]
<1>. DEFINE e == SamServeIn(d)
<1>1. e \in {[d EXCEPT !.ev1 = FALSE, !.in1 = None], d}
  BY DEF SamServeIn
<1>2. /\ e.buf1 = d.buf1 /\ (e.in1 = None \/ e.in1 = d.in1)
      /\ \A f \in {"setup", "bus", "in0", "wait", "dadd", "toggle", "host"} : e[f] = d[f]
      /\ e \in SamDevice
  BY <1>1 DEF SamDevice
<1>3. SamEndpoints(d) = SamServeOut(e)
  BY DEF SamEndpoints
<1>. HIDE DEF e
<1>4. SamServeOut(e) = IF e.buf1 # None THEN [e EXCEPT !.buf1 = None, !.in1 = e.buf1, !.out1 = TRUE] ELSE e
  BY DEF SamServeOut
<1>. QED BY <1>2, <1>3, <1>4 DEF SamDevice

\* The handler's steps leave it too.
LEMMA SamHandlerStep ==
  ASSUME "samd11" \in Calm, dev \in SamDevice, HostInv, SamControlInv, SamSessionInv,
         SamHandler \/ SamWaited
  PROVE  HostInv' /\ SamControlInv' /\ SamSessionInv'
<1>. USE DEF SamControlInv, SamSessionInv, SamConfiguring, SamTaken, Is
<1>0. /\ dev.toggle \in [1..2 -> 0..1] /\ dev.host \in [1..2 -> 0..1]
      /\ conf \in BOOLEAN /\ waiting \in 0..1 /\ (waiting > 0 => conf)
      /\ dev.setup \in SamRequests \cup {None}
      /\ Is("config") => ~conf
      /\ Is("clear") => conf /\ waiting = 0 /\ xfer.req.arg \in 1..2
  <2>1. /\ dev.toggle \in [1..2 -> 0..1] /\ dev.host \in [1..2 -> 0..1]
        /\ dev.setup \in SamRequests \cup {None}
    BY DEF SamDevice
  <2>2. /\ conf \in BOOLEAN /\ waiting \in 0..1 /\ (waiting > 0 => conf)
        /\ Is("config") => ~conf
        /\ Is("clear") => conf /\ waiting = 0 /\ xfer.req \in Requests
    BY DEF HostInv, DAP_PACKET_COUNT
  <2>3. Is("clear") => xfer.req.arg \in 1..2
    BY <2>2, RequestKinds
  <2>. QED BY <2>1, <2>2, <2>3
<1>1. UNCHANGED hostvars
  BY DEF SamHandler, SamWaited
<1>2. HostInv' /\ conf' = conf /\ conf' \in BOOLEAN /\ UNCHANGED <<xfer, hostaddr, waiting>>
  BY <1>1, HostWaitsInv
<1>3. CASE SamHandler
  <2>. DEFINE b == SamServeBus(dev)
              d == SamServeSetup(b)
  <2>1. dev.wait = None /\ dev' = (IF d.wait = None THEN SamEndpoints(d) ELSE d) /\ d \in SamDevice
    BY <1>3, SamServeTyped DEF SamHandler
  <2>2. /\ b \in SamDevice /\ b.bus = FALSE /\ b.in0 = (IF dev.bus THEN FALSE ELSE dev.in0)
        /\ b.dadd = (IF dev.bus THEN 0 ELSE dev.dadd)
        /\ \A f \in {"setup", "wait", "toggle", "host", "buf1", "in1"} : b[f] = dev[f]
    BY DEF SamServeBus, SamDevice
  <2>. HIDE DEF b
  <2>3. CASE dev.setup = None \/ dev.setup.kind = "unknown"
    <3>1. d.wait = None /\ d.in0 = b.in0 /\ d.setup = None /\ d.bus = FALSE
          /\ \A f \in {"dadd", "toggle", "host", "buf1", "in1"} : d[f] = b[f]
      <4>0. b.setup = dev.setup /\ b.wait = None
        BY <2>1, <2>2
      <4>1. CASE dev.setup = None
        BY <2>2, <4>0, <4>1 DEF SamServeSetup
      <4>2. CASE dev.setup # None
        <5>1. d = [[b EXCEPT !.setup = None, !.out0 = TRUE] EXCEPT !.stall0 = TRUE]
          BY <2>3, <4>0, <4>2 DEF SamServeSetup
        <5>. QED BY <2>2, <4>0, <5>1 DEF SamDevice
      <4>. QED BY <4>1, <4>2
    <3>. HIDE DEF d
    <3>2. /\ dev'.buf1 = None /\ dev'.setup = None /\ dev'.bus = FALSE /\ dev'.wait = None
          /\ dev'.in0 = b.in0 /\ dev'.dadd = b.dadd /\ dev'.toggle = dev.toggle /\ dev'.host = dev.host
          /\ (dev'.in1 # None => dev.in1 # None \/ dev.buf1 # None)
      BY <2>1, <2>2, <3>1, SamEndpointsOf
    <3>3. SamControlInv'
      BY <1>2, <2>1, <2>2, <3>2
    <3>4. SamSessionInv'
      BY <1>0, <1>2, <2>1, <2>2, <3>2
    <3>. QED BY <1>2, <3>3, <3>4
  <2>4. CASE dev.setup # None /\ dev.setup.kind # "unknown"
    <3>1. d.wait = dev.setup /\ d.in0 = TRUE /\ d.setup = None /\ d.bus = FALSE
          /\ \A f \in {"dadd", "toggle", "host", "buf1", "in1"} : d[f] = b[f]
      BY <2>2, <2>4 DEF SamServeSetup, SamDevice
    <3>. HIDE DEF d
    <3>2. /\ dev'.buf1 = dev.buf1 /\ dev'.setup = None /\ dev'.bus = FALSE /\ dev'.wait = dev.setup
          /\ dev'.in0 /\ dev'.dadd = b.dadd /\ dev'.toggle = dev.toggle /\ dev'.host = dev.host
          /\ dev'.in1 = dev.in1
      BY <2>1, <2>2, <2>4, <3>1
    <3>3. SamControlInv'
      BY <1>2, <2>1, <2>2, <2>4, <3>2
    <3>4. SamSessionInv'
      BY <1>0, <1>2, <2>1, <2>2, <2>4, <3>2
    <3>. QED BY <1>2, <3>3, <3>4
  <2>. QED BY <2>3, <2>4
<1>4. CASE SamWaited
  <2>. DEFINE d == SamAnswered(dev)
  <2>1. dev.wait # None /\ ~dev.in0 /\ dev' = SamEndpoints(d) /\ d \in SamDevice
    BY <1>4, SamServeTyped DEF SamWaited
  <2>2. /\ d.wait = None /\ d.in0 = FALSE /\ d.setup = dev.setup /\ d.bus = dev.bus
        /\ d.dadd = (IF dev.wait.kind = "address" THEN dev.wait.arg ELSE dev.dadd)
        /\ d.host = dev.host /\ d.buf1 = dev.buf1
        /\ d.toggle = (IF dev.wait.kind = "config" THEN <<0, 0>> ELSE dev.toggle)
        /\ d.in1 = (IF dev.wait.kind = "config" THEN None ELSE dev.in1)
    <3>1. CASE dev.wait.kind = "address"
      <4>1. d = [[dev EXCEPT !.wait = None] EXCEPT !.dadd = dev.wait.arg]
        BY <3>1 DEF SamAnswered
      <4>. QED BY <2>1, <3>1, <4>1 DEF SamDevice
    <3>2. CASE dev.wait.kind = "config"
      <4>1. d = SamConfigured([dev EXCEPT !.wait = None])
        BY <3>2 DEF SamAnswered
      <4>. QED BY <2>1, <3>2, <4>1 DEF SamConfigured, SamDevice
    <3>3. CASE dev.wait.kind \notin {"address", "config"}
      <4>1. d = [dev EXCEPT !.wait = None]
        BY <3>3 DEF SamAnswered
      <4>. QED BY <2>1, <3>3, <4>1 DEF SamDevice
    <3>. QED BY <3>1, <3>2, <3>3
  <2>. HIDE DEF d
  <2>3. /\ dev'.buf1 = None /\ dev'.setup = dev.setup /\ dev'.bus = dev.bus /\ dev'.wait = None
        /\ dev'.in0 = FALSE /\ dev'.dadd = d.dadd /\ dev'.toggle = d.toggle /\ dev'.host = dev.host
        /\ (dev'.in1 # None => d.in1 # None \/ dev.buf1 # None)
    BY <2>1, <2>2, SamEndpointsOf
  <2>4. SamControlInv'
    BY <1>2, <2>1, <2>2, <2>3
  <2>5. CASE dev.wait.kind = "config"
    <3>1. dev'.toggle = <<0, 0>> /\ (dev'.in1 # None => dev.buf1 # None)
      BY <2>2, <2>3, <2>5
    <3>2. SamSessionInv'
      BY <1>0, <1>2, <2>1, <2>3, <2>5, <3>1
    <3>. QED BY <1>2, <2>4, <3>2
  <2>6. CASE dev.wait.kind # "config"
    <3>1. dev'.toggle = dev.toggle /\ (dev'.in1 # None => dev.in1 # None \/ dev.buf1 # None)
      BY <2>2, <2>3, <2>6
    <3>2. SamSessionInv'
      BY <1>0, <1>2, <2>1, <2>3, <2>6, <3>1
    <3>. QED BY <1>2, <2>4, <3>2
  <2>. QED BY <2>5, <2>6
<1>. QED BY <1>3, <1>4

\* With the care its code depends on, SAMD11 and host agree.
THEOREM SamInvariant ==
  ASSUME "samd11" \in Calm
  PROVE  Spec => [](Sam => HostInv /\ SamInv)
<1>. DEFINE I == DeviceTypes /\ (Sam => HostInv /\ SamControlInv /\ SamSessionInv)
<1>1. Init => I
  <2>. SUFFICES ASSUME Init, Sam PROVE HostInv /\ SamControlInv /\ SamSessionInv
    BY DeviceStart
  <2>1. SamInit /\ HostInit
    BY DEF Init, Sam, NucInit, PicInit, StmInit
  <2>2. conf \in BOOLEAN /\ ~conf
    BY <2>1, Zenon DEF HostInit
  <2>3. SamControlInv /\ SamSessionInv
    BY <2>1, <2>2 DEF HostInit, SamInit, SamControlInv, SamSessionInv, SamConfiguring, SamTaken, Is
  <2>. QED BY <2>1, <2>3, HostStart
<1>2. I /\ [Next]_usbvars => I'
  <2>. SUFFICES ASSUME I, [Next]_usbvars, Sam' PROVE HostInv' /\ SamControlInv' /\ SamSessionInv'
    BY DeviceStep
  <2>1. CASE UNCHANGED usbvars
    <3>1. Sam
      BY <2>1 DEF usbvars, Sam
    <3>2. HostInv'
      BY <2>1, <3>1, HostWaitsInv DEF usbvars
    <3>3. conf' \in BOOLEAN /\ conf' = conf
      BY <2>1, <3>1, HostWaitsInv DEF usbvars
    <3>. QED BY <2>1, <3>1, <3>2, <3>3 DEF usbvars, hostvars, SamControlInv, SamSessionInv,
           SamConfiguring, SamTaken, Is
  <2>2. CASE SamNext
    BY <2>2, Firmware, SamHostStep, SamHandlerStep DEF SamNext, DeviceTypes
  <2>3. CASE NucNext
    BY <2>3, Firmware, NucTyped, FirmwareAfter DEF DeviceTypes
  <2>4. CASE PicNext
    BY <2>4, Firmware, PicTyped, FirmwareAfter DEF DeviceTypes
  <2>5. CASE StmNext
    BY <2>5, Firmware, StmTyped, FirmwareAfter DEF DeviceTypes
  <2>. QED BY <2>1, <2>2, <2>3, <2>4, <2>5 DEF Next
<1>3. I => (Sam => HostInv /\ SamInv)
  BY DEF SamInv
<1>. QED BY <1>1, <1>2, <1>3, PTL DEF Spec

\* A command is written where the last response was only when that has been
\* taken (usb_recv_callback).
THEOREM SamResponseTaken ==
  ASSUME "samd11" \in Calm
  PROVE  Spec => []ResponseTaken
<1>1. (Sam => HostInv /\ SamInv) => ResponseTaken
  BY DEF SamInv, SamSessionInv, ResponseTaken
<1>. QED BY <1>1, SamInvariant, PTL

-----------------------------------------------------------------------------
(* The NUC121's address                                                    *)

\* A request served: what it answers is that request's, and the address it
\* gives is noted.
LEMMA NucServeSetupOf ==
  ASSUME NEW d \in NucDevice
  PROVE  /\ NucServeSetup(d).setup = None
         /\ \A f \in {"bus", "ev0", "faddr"} : NucServeSetup(d)[f] = d[f]
         /\ d.setup = None => NucServeSetup(d) = d
         /\ d.setup # None =>
              /\ NucServeSetup(d).in0 # None =>
                   /\ NucServeSetup(d).in0.req = d.setup
              /\ NucServeSetup(d).assigned = IF d.setup.kind = "address" THEN Address ELSE d.assigned
<1>1. CASE d.setup = None
  BY <1>1 DEF NucServeSetup
<1>2. CASE d.setup # None
  <2>. DEFINE r == d.setup
              e == [d EXCEPT !.setup = None, !.in0 = None, !.out0 = FALSE]
  <2>1. r \in NucRequests /\ r \in Requests /\ (r.kind = "address" => r.arg = Address)
        /\ r.kind \in {"address", "config", "get", "unknown", "clear"}
    BY <1>2, RequestKinds DEF NucDevice
  <2>2. e \in NucDevice /\ e.setup = None /\ e.in0 = None /\ e.assigned = d.assigned
        /\ e.bus = d.bus /\ e.ev0 = d.ev0 /\ e.faddr = d.faddr
    BY DEF NucDevice
  <2>3. Packet(r, 0).req = r /\ Zero(r).req = r
    BY DEF Packet, Zero
  <2>4. CASE r.kind \in {"unknown", "clear"}
    <3>1. NucServeSetup(d) = [e EXCEPT !.stall0 = TRUE]
      BY <1>2, <2>4 DEF NucServeSetup
    <3>. HIDE DEF e
    <3>. QED BY <1>2, <2>2, <2>4, <3>1 DEF NucDevice
  <2>5. CASE r.kind \notin {"unknown", "clear"}
    <3>1. NucServeSetup(d) = [NucHandle(e, r) EXCEPT !.out0 = TRUE]
      BY <1>2, <2>5 DEF NucServeSetup
    <3>. HIDE DEF e
    <3>2. CASE r.kind = "get"
      <4>1. NucHandle(e, r) = [e EXCEPT !.in0 = Packet(r, 0)]
        BY <3>2 DEF NucHandle
      <4>. QED BY <1>2, <2>2, <2>3, <3>1, <3>2, <4>1 DEF NucDevice
    <3>3. CASE r.kind = "address"
      <4>1. NucHandle(e, r) = [e EXCEPT !.in0 = Zero(r), !.assigned = r.arg]
        BY <3>3 DEF NucHandle
      <4>. QED BY <1>2, <2>1, <2>2, <2>3, <3>1, <3>3, <4>1 DEF NucDevice
    <3>4. CASE r.kind = "config"
      <4>1. NucHandle(e, r) = NucConfigured([e EXCEPT !.in0 = Zero(r)])
        BY <3>4 DEF NucHandle
      <4>. QED BY <1>2, <2>2, <2>3, <3>1, <3>4, <4>1 DEF NucConfigured, NucDevice
    <3>. QED BY <2>1, <2>5, <3>2, <3>3, <3>4
  <2>. QED BY <2>4, <2>5
<1>. QED BY <1>1, <1>2

\* The endpoints' events served: an address that waits for its ACK is set.
LEMMA NucServeEventsOf ==
  ASSUME NEW d \in NucDevice
  PROVE  LET e == NucServeEp3(NucServeEp2(NucServeEp1(NucServeEp0(d))))
         IN /\ e.bus = d.bus /\ e.setup = d.setup /\ e.in0 = d.in0 /\ e.assigned = d.assigned
            /\ e.ev0 = FALSE
            /\ e.faddr = IF d.ev0 /\ d.faddr = 0 THEN d.assigned ELSE d.faddr
<1>. DEFINE a == NucServeEp0(d)
            b == NucServeEp1(a)
            c == NucServeEp2(b)
            e == NucServeEp3(c)
<1>1. a \in NucDevice /\ b \in NucDevice /\ c \in NucDevice
  BY NucServeTyped
<1>2. /\ a.bus = d.bus /\ a.setup = d.setup /\ a.in0 = d.in0 /\ a.assigned = d.assigned
      /\ a.ev0 = FALSE
      /\ a.faddr = IF d.ev0 /\ d.faddr = 0 THEN d.assigned ELSE d.faddr
  BY DEF NucServeEp0, NucDevice
<1>. DEFINE F == {"bus", "setup", "in0", "assigned", "ev0", "faddr"}
<1>3. \A f \in F : b[f] = a[f]
  <2>. HIDE DEF a
  <2>. QED BY <1>1 DEF NucServeEp1, NucDevice
<1>4. \A f \in F : c[f] = b[f]
  <2>. HIDE DEF b
  <2>. QED BY <1>1 DEF NucServeEp2, NucDevice
<1>5. \A f \in F : e[f] = c[f]
  <2>. HIDE DEF c
  <2>. QED BY <1>1 DEF NucServeEp3, NucDevice
<1>6. e.bus = a.bus /\ e.setup = a.setup /\ e.in0 = a.in0 /\ e.assigned = a.assigned
      /\ e.ev0 = a.ev0 /\ e.faddr = a.faddr
  <2>. HIDE DEF a, b, c, e
  <2>. QED BY <1>3, <1>4, <1>5
<1>7. /\ e.bus = d.bus /\ e.setup = d.setup /\ e.in0 = d.in0 /\ e.assigned = d.assigned
      /\ e.ev0 = FALSE
      /\ e.faddr = IF d.ev0 /\ d.faddr = 0 THEN d.assigned ELSE d.faddr
  <2>. HIDE DEF a, b, c, e
  <2>. QED BY <1>2, <1>6
<1>. QED BY <1>7, Zenon

\* Host and NUC121 go on meaning the same address.
LEMMA NucStep ==
  ASSUME "nuc121" \in Calm, dev \in NucDevice, HostInv, NucControlInv, NucAddressInv, NucNext
  PROVE  HostInv' /\ NucControlInv' /\ NucAddressInv'
<1>. USE DEF NucControlInv, NucAddressInv
<1>0. /\ dev.fw \in Calm /\ dev.faddr \in {0, Address} /\ dev.assigned \in {0, Address}
      /\ dev.setup \in NucRequests \cup {None} /\ Address # 0
      /\ xfer # None => xfer.req \in Requests /\ (xfer.req.kind = "address" => hostaddr = 0)
      /\ hostaddr \in {0, Address}
  BY HostAssumption DEF NucDevice, HostInv
<1>1. CASE NucSetup
  <2>1. PICK r \in NucRequests :
          /\ NucRecovered /\ HostSetup(r, NucCare(r))
          /\ dev' = IF NucHeard THEN [dev EXCEPT !.setup = r, !.stall0 = FALSE] ELSE dev
    BY <1>1 DEF NucSetup
  <2>2. /\ xfer' = [req |-> r, n |-> 0, last |-> None,
                    stage |-> IF r.kind = "get" THEN "data" ELSE "status"]
        /\ IF r.kind = "config" THEN conf' = FALSE /\ waiting' = 0 ELSE UNCHANGED <<conf, waiting>>
        /\ hostaddr' = hostaddr /\ Legal(r) /\ NucCare(r)
    BY <1>0, <2>1 DEF HostSetup, WithCare
  <2>3. HostInv'
    BY <2>2, RequestKinds, HostSetupInv
  <2>4. NucHeard
    BY <1>0, <2>1 DEF NucRecovered, NucAddr, NucHeard
  <2>5. dev'.setup = r /\ dev'.bus = FALSE /\ dev'.ev0 = dev.ev0 /\ dev'.faddr = dev.faddr
        /\ dev'.assigned = dev.assigned /\ dev'.in0 = dev.in0
    BY <2>1, <2>4 DEF NucDevice, NucHeard
  <2>6. xfer'.req = r /\ r # None
    BY <2>2, RequestKinds
  <2>7. NucControlInv' /\ NucAddressInv'
    BY <2>2, <2>4, <2>5, <2>6 DEF NucCare, NucHeard
  <2>. QED BY <2>3, <2>7
<1>2. CASE NucControlIn
  <2>1. /\ dev.faddr = hostaddr /\ ~dev.bus /\ dev.setup = None /\ dev.in0 # None
        /\ HostData(dev.in0) \/ HostStatusIn(dev.in0)
        /\ xfer # None
    BY <1>2 DEF NucControlIn, NucReady, NucHeard, HostData, HostStatusIn
  <2>2. dev'.setup = None /\ dev'.bus = FALSE /\ dev'.ev0 /\ dev'.faddr = dev.faddr
        /\ dev'.assigned = dev.assigned /\ dev'.in0 = None
    BY <1>2, <2>1 DEF NucControlIn, NucDevice
  <2>3. CASE HostData(dev.in0)
    <3>1. HostInv' /\ xfer'.req = xfer.req /\ xfer.req.kind = "get" /\ hostaddr' = hostaddr
      BY <2>3, HostDataInv
    <3>. QED BY <2>1, <2>2, <3>1
  <2>4. CASE HostStatusIn(dev.in0)
    <3>1. /\ HostInv' /\ xfer' = None
          /\ hostaddr' = IF xfer.req.kind = "address" THEN Address ELSE hostaddr
      BY <2>4, HostStatusInv
    <3>. QED BY <1>0, <2>1, <2>2, <3>1
  <2>. QED BY <2>1, <2>3, <2>4
<1>3. CASE NucControlOut \/ NucControlStall \/ NucAbandon
  <2>1. xfer' = None /\ UNCHANGED <<hostaddr, conf, waiting>>
    BY <1>3 DEF NucControlOut, NucControlStall, NucAbandon, HostStatusOut, HostStalled, HostAbandon
  <2>2. HostInv'
    BY <2>1, HostStopInv
  <2>3. \A f \in {"bus", "setup", "in0", "assigned", "ev0", "faddr"} : dev'[f] = dev[f]
    BY <1>3 DEF NucControlOut, NucControlStall, NucAbandon, NucDevice
  <2>4. NucControlInv' /\ NucAddressInv'
    BY <2>1, <2>3
  <2>. QED BY <2>2, <2>4
<1>4. CASE NucBusReset
  <2>1. xfer' = None /\ hostaddr' = 0 /\ conf' = FALSE /\ waiting' = 0 /\ ~dev.ev0
    BY <1>4 DEF NucBusReset, HostReset
  <2>2. HostInv'
    BY <2>1, HostResetInv
  <2>3. PICK c \in {dev.in1, None} : dev' = [dev EXCEPT !.bus = TRUE, !.in1 = c]
    BY <1>4 DEF NucBusReset
  <2>4. dev'.bus /\ dev'.ev0 = FALSE /\ dev'.in0 = dev.in0 /\ dev'.assigned = dev.assigned
    BY <2>1, <2>3 DEF NucDevice
  <2>5. NucControlInv' /\ NucAddressInv'
    BY <2>1, <2>4
  <2>. QED BY <2>2, <2>5
<1>5. CASE NucAsk \/ NucTake \/ NucVendorHidTask
  <2>1. HostInv' /\ xfer' = xfer /\ hostaddr' = hostaddr
    BY <1>5, HostAskInv, HostTakeInv, HostWaitsInv DEF NucAsk, NucTake, NucVendorHidTask
  <2>2. dev'.setup = dev.setup /\ dev'.bus = dev.bus /\ dev'.ev0 = dev.ev0 /\ dev'.faddr = dev.faddr
        /\ dev'.assigned = dev.assigned /\ dev'.in0 = dev.in0
    BY <1>5 DEF NucAsk, NucTake, NucVendorHidTask, NucDevice
  <2>3. NucControlInv' /\ NucAddressInv'
    BY <2>1, <2>2
  <2>. QED BY <2>1, <2>3
<1>6. CASE NucUsbTask
  <2>1. HostInv' /\ xfer' = xfer /\ hostaddr' = hostaddr
    BY <1>6, HostWaitsInv DEF NucUsbTask
  <2>. DEFINE b == NucServeBus(dev)
              d == NucServeSetup(b)
  <2>2. b \in NucDevice /\ d \in NucDevice
    BY NucServeTyped
  <2>3. b.bus = FALSE /\ b.faddr = (IF dev.bus THEN 0 ELSE dev.faddr)
        /\ b.setup = dev.setup /\ b.ev0 = dev.ev0 /\ b.in0 = dev.in0 /\ b.assigned = dev.assigned
    BY DEF NucServeBus, NucDevice
  <2>. HIDE DEF b
  <2>4. /\ d.setup = None /\ d.bus = FALSE /\ d.ev0 = dev.ev0 /\ d.faddr = b.faddr
        /\ dev.setup = None => d.in0 = dev.in0 /\ d.assigned = dev.assigned
        /\ dev.setup # None =>
             /\ d.in0 # None => d.in0.req = dev.setup
             /\ d.assigned = IF dev.setup.kind = "address" THEN Address ELSE dev.assigned
    BY <2>2, <2>3, NucServeSetupOf
  <2>5. dev' = NucServeEp3(NucServeEp2(NucServeEp1(NucServeEp0(d))))
    BY <1>6 DEF NucUsbTask, b
  <2>. HIDE DEF d
  <2>6. /\ dev'.bus = FALSE /\ dev'.setup = None /\ dev'.in0 = d.in0 /\ dev'.assigned = d.assigned
        /\ dev'.ev0 = FALSE
        /\ dev'.faddr = IF dev.ev0 /\ d.faddr = 0 THEN d.assigned ELSE d.faddr
    BY <2>2, <2>4, <2>5, NucServeEventsOf
  <2>7. NucControlInv'
    BY <2>1, <2>4, <2>6
  <2>8. dev'.faddr = hostaddr
    <3>1. CASE dev.bus
      BY <2>3, <2>4, <2>6, <3>1
    <3>2. CASE ~dev.bus /\ ~dev.ev0
      BY <2>3, <2>4, <2>6, <3>2
    <3>3. CASE ~dev.bus /\ dev.ev0
      <4>1. d.assigned = dev.assigned /\ d.faddr = dev.faddr
        BY <2>3, <2>4, <3>3
      <4>. QED BY <1>0, <2>6, <3>3, <4>1
    <3>. QED BY <3>1, <3>2, <3>3
  <2>9. NucAddressInv'
    BY <1>0, <2>1, <2>4, <2>6, <2>8
  <2>. QED BY <2>1, <2>7, <2>9
<1>. QED BY <1>1, <1>2, <1>3, <1>4, <1>5, <1>6 DEF NucNext, NucHost

\* With the care its code depends on, NUC121 and host mean the same address.
THEOREM NucInvariant ==
  ASSUME "nuc121" \in Calm
  PROVE  Spec => [](Nuc => HostInv /\ NucInv)
<1>. DEFINE I == DeviceTypes /\ (Nuc => HostInv /\ NucControlInv /\ NucAddressInv)
<1>1. Init => I
  <2>. SUFFICES ASSUME Init, Nuc PROVE HostInv /\ NucControlInv /\ NucAddressInv
    BY DeviceStart
  <2>1. NucInit /\ HostInit
    BY DEF Init, Nuc, SamInit, PicInit, StmInit
  <2>2. NucControlInv /\ NucAddressInv
    BY <2>1 DEF HostInit, NucInit, NucControlInv, NucAddressInv
  <2>. QED BY <2>1, <2>2, HostStart
<1>2. I /\ [Next]_usbvars => I'
  <2>. SUFFICES ASSUME I, [Next]_usbvars, Nuc' PROVE HostInv' /\ NucControlInv' /\ NucAddressInv'
    BY DeviceStep
  <2>1. CASE UNCHANGED usbvars
    <3>1. Nuc
      BY <2>1 DEF usbvars, Nuc
    <3>2. HostInv'
      BY <2>1, <3>1, HostWaitsInv DEF usbvars
    <3>. QED BY <2>1, <3>1, <3>2 DEF usbvars, hostvars, NucControlInv, NucAddressInv
  <2>2. CASE NucNext
    BY <2>2, Firmware, NucStep DEF DeviceTypes
  <2>3. CASE SamNext
    BY <2>3, Firmware, SamTyped, FirmwareAfter DEF DeviceTypes
  <2>4. CASE PicNext
    BY <2>4, Firmware, PicTyped, FirmwareAfter DEF DeviceTypes
  <2>5. CASE StmNext
    BY <2>5, Firmware, StmTyped, FirmwareAfter DEF DeviceTypes
  <2>. QED BY <2>1, <2>2, <2>3, <2>4, <2>5 DEF Next
<1>3. I => (Nuc => HostInv /\ NucInv)
  BY DEF NucInv
<1>. QED BY <1>1, <1>2, <1>3, PTL DEF Spec

\* The device takes no address that the host has not seen it acknowledge
\* (periph_ep0_callback).
THEOREM NucAddressAfterAck ==
  ASSUME "nuc121" \in Calm
  PROVE  Spec => []AddressAfterAck
<1>1. (Nuc => HostInv /\ NucInv) => AddressAfterAck
  BY DEF NucInv, NucAddressInv, AddressAfterAck
<1>. QED BY <1>1, NucInvariant, PTL

-----------------------------------------------------------------------------
(* The STM32's commands                                                    *)

\* Flags set.
LEMMA StmFlagsTyped ==
  ASSUME NEW d \in StmDevice
  PROVE  /\ [d EXCEPT !.refused = TRUE] \in StmDevice /\ [d EXCEPT !.out0 = TRUE] \in StmDevice
         /\ [d EXCEPT !.setup = None, !.data = None] \in StmDevice
         /\ [d EXCEPT !.sent = FALSE] \in StmDevice
<1>3. [d EXCEPT !.setup = None, !.data = None] \in StmDevice
  BY DEF StmDevice
<1>4. [d EXCEPT !.sent = FALSE] \in StmDevice
  BY DEF StmDevice
<1>1. [d EXCEPT !.refused = TRUE] \in StmDevice
  BY DEF StmDevice
<1>2. [d EXCEPT !.out0 = TRUE] \in StmDevice
  BY DEF StmDevice
<1>. QED BY <1>1, <1>2, <1>3, <1>4

\* What an answer to a request changes: the packet, its data, and whether the
\* HAL has refused it.
LEMMA StmAnswerOf ==
  ASSUME NEW d \in StmDevice, NEW r \in Requests
  PROVE  /\ \A f \in {"bus", "sent", "buf1", "message", "lock", "daddr", "setup", "state", "in1"} :
              /\ \A k \in Int : StmSend(d, r, k)[f] = d[f]
              /\ StmStatus(d, r)[f] = d[f] /\ StmStall(d)[f] = d[f]
         /\ \A k \in Int :
              /\ StmSend(d, r, k).in0 = d.in0 \/ StmSend(d, r, k).in0.req = r
              /\ StmSend(d, r, k).data # None => StmSend(d, r, k).data.req = r
         /\ StmStatus(d, r).in0 = d.in0 \/ (StmStatus(d, r).in0.req = r /\ ~d.lock)
         /\ StmStatus(d, r).data = d.data
         /\ StmStall(d).data = d.data /\ StmStall(d).in0 = d.in0
<1>. DEFINE F == {"bus", "sent", "buf1", "message", "lock", "daddr", "setup", "state", "in1"}
<1>1. ASSUME NEW k \in Int
      PROVE  /\ \A f \in F : StmSend(d, r, k)[f] = d[f]
             /\ StmSend(d, r, k).in0 = d.in0 \/ StmSend(d, r, k).in0.req = r
             /\ StmSend(d, r, k).data # None => StmSend(d, r, k).data.req = r
  <2>. DEFINE e == [d EXCEPT !.data = [req |-> r, from |-> k]]
              g == [e EXCEPT !.in0 = Packet(r, k)]
              h == [e EXCEPT !.refused = TRUE]
  <2>1. StmSend(d, r, k) \in {g, h}
    BY DEF StmSend, StmAsks
  <2>2. e \in StmDevice /\ e.data.req = r /\ e.in0 = d.in0 /\ \A f \in F : e[f] = d[f]
    BY DEF StmDevice
  <2>. HIDE DEF e
  <2>3. g.in0.req = r /\ g.data = e.data /\ \A f \in F : g[f] = e[f]
    BY <2>2 DEF StmDevice, Packet
  <2>4. h.in0 = e.in0 /\ h.data = e.data /\ \A f \in F : h[f] = e[f]
    BY <2>2 DEF StmDevice
  <2>. HIDE DEF g, h
  <2>. QED BY <2>1, <2>2, <2>3, <2>4
<1>2. /\ \A f \in F : StmStatus(d, r)[f] = d[f]
      /\ StmStatus(d, r).in0 = d.in0 \/ (StmStatus(d, r).in0.req = r /\ ~d.lock)
      /\ StmStatus(d, r).data = d.data
  <2>1. StmStatus(d, r) = IF d.lock THEN [d EXCEPT !.refused = TRUE] ELSE [d EXCEPT !.in0 = Zero(r)]
    BY DEF StmStatus, StmAsks
  <2>. QED BY <2>1 DEF StmDevice, Zero
<1>3. /\ \A f \in F : StmStall(d)[f] = d[f]
      /\ StmStall(d).data = d.data /\ StmStall(d).in0 = d.in0
  <2>1. StmStall(d) \in {[d EXCEPT !.refused = TRUE], [d EXCEPT !.stall0 = TRUE]}
    BY DEF StmStall, StmAsks
  <2>. QED BY <2>1 DEF StmDevice
<1>. QED BY <1>1, <1>2, <1>3

\* A request served: what it answers is that request's, and a configuration
\* that is answered has emptied the endpoint.
LEMMA StmServeSetupOf ==
  ASSUME NEW d \in StmDevice, d.setup # None, d.in0 = None, d.setup # ClearHalt(ToHost),
         d.setup.kind = "config" => d.state # "configured" /\ ~d.lock
  PROVE  LET e == StmServeSetup(d)
         IN /\ e.setup = None /\ e.bus = d.bus /\ e.sent = d.sent /\ e.buf1 = d.buf1
            /\ e.message = d.message /\ e.lock = d.lock /\ e.daddr = d.daddr
            /\ e.in0 # None => e.in0.req = d.setup
            /\ e.data # None => e.data.req = d.setup /\ d.setup.kind = "get"
            /\ d.state = "configured" => e.state = "configured"
            /\ e.in1 = d.in1 \/ e.in1 = None
            /\ d.setup.kind # "config" => e.in1 = d.in1
            /\ e.in0 # None /\ d.setup.kind = "config" => e.in1 = None /\ e.state = "configured"
<1>. DEFINE r == d.setup
            c == [d EXCEPT !.setup = None, !.data = None]
            e == StmServeSetup(d)
            F == {"bus", "sent", "buf1", "message", "lock", "daddr", "setup", "state", "in1"}
<1>1. r \in Requests /\ r.kind \in {"address", "config", "get", "unknown", "clear"}
      /\ (r.kind = "address" => r.arg = Address)
      /\ (r.kind = "clear" => r.arg # ToHost)
  BY RequestKinds DEF StmDevice
<1>2. c \in StmDevice /\ c.setup = None /\ c.data = None /\ c.in0 = None
      /\ \A f \in F \ {"setup"} : c[f] = d[f]
  <2>1. c \in StmDevice
    BY StmFlagsTyped, Zenon
  <2>2. c.setup = None /\ c.data = None /\ c.in0 = d.in0 /\ \A f \in F \ {"setup"} : c[f] = d[f]
    BY DEF StmDevice
  <2>. QED BY <2>1, <2>2
<1>3. SUFFICES
        /\ e.setup = None /\ e.bus = c.bus /\ e.sent = c.sent /\ e.buf1 = c.buf1
        /\ e.message = c.message /\ e.lock = c.lock /\ e.daddr = c.daddr
        /\ e.in0 # None => e.in0.req = r
        /\ e.data # None => e.data.req = r /\ r.kind = "get"
        /\ c.state = "configured" => e.state = "configured"
        /\ e.in1 = c.in1 \/ e.in1 = None
        /\ r.kind # "config" => e.in1 = c.in1
        /\ e.in0 # None /\ r.kind = "config" => e.in1 = None /\ e.state = "configured"
  <2>. HIDE DEF e, c
  <2>. QED BY <1>2 DEF e
<1>4. CASE r.kind = "get"
  <2>1. e = StmSend(c, r, 0)
    BY <1>4 DEF StmServeSetup
  <2>. HIDE DEF e, c, r
  <2>. QED BY <1>1, <1>2, <1>4, <2>1, StmAnswerOf
<1>5. CASE r.kind = "unknown"
  <2>1. e = StmStall(c)
    BY <1>5 DEF StmServeSetup
  <2>. HIDE DEF e, c, r
  <2>. QED BY <1>1, <1>2, <1>5, <2>1, StmAnswerOf
<1>6. CASE r.kind = "address"
  <2>1. e = StmSetAddress(c, r)
    BY <1>6 DEF StmServeSetup
  <2>. HIDE DEF e, c, r
  <2>2. CASE c.state = "configured"
    <3>1. e = StmStall(c)
      BY <2>1, <2>2 DEF StmSetAddress
    <3>. QED BY <1>1, <1>2, <1>6, <3>1, StmAnswerOf
  <2>3. CASE c.state # "configured"
    <3>. DEFINE a == StmAsks(c, [c EXCEPT !.address = r.arg])
                g == StmStatus(a, r)
    <3>1. a \in StmDevice /\ a.in0 = None /\ a.data = None /\ \A f \in F : a[f] = c[f]
      <4>1. [c EXCEPT !.address = r.arg] \in StmDevice
        BY <1>1, <1>2, <1>6 DEF StmDevice
      <4>2. a \in {[c EXCEPT !.refused = TRUE], [c EXCEPT !.address = r.arg]}
        BY DEF StmAsks
      <4>3. a \in StmDevice
        BY <1>2, <4>1, StmAsksTyped
      <4>. QED BY <1>2, <4>2, <4>3 DEF StmDevice
    <3>. HIDE DEF a
    <3>2. g \in StmDevice
      BY <1>1, <3>1, StmStatusTyped
    <3>3. /\ \A f \in F : g[f] = a[f]
          /\ g.in0 = a.in0 \/ g.in0.req = r
          /\ g.data = None
      BY <1>1, <3>1, StmAnswerOf
    <3>4. e = [g EXCEPT !.state = "addressed"]
      BY <2>1, <2>3 DEF StmSetAddress, a
    <3>. HIDE DEF g
    <3>5. e.in0 = g.in0 /\ e.data = g.data /\ \A f \in F \ {"state"} : e[f] = g[f]
      BY <3>2, <3>4 DEF StmDevice
    <3>. QED BY <1>2, <1>6, <2>3, <3>1, <3>3, <3>5
  <2>. QED BY <2>2, <2>3
<1>7. CASE r.kind = "config"
  <2>1. e = StmSetConfig(c, r)
    BY <1>7 DEF StmServeSetup
  <2>2. c.state \in {"default", "addressed"} /\ ~c.lock
    BY <1>2, <1>7 DEF StmDevice
  <2>. HIDE DEF e, c, r
  <2>3. CASE c.state = "default"
    <3>1. e = StmStall(c)
      BY <2>1, <2>3 DEF StmSetConfig
    <3>. QED BY <1>1, <1>2, <1>7, <2>3, <3>1, StmAnswerOf
  <2>4. CASE c.state = "addressed"
    <3>. DEFINE a == [c EXCEPT !.in1 = None, !.out1 = TRUE]
                g == [a EXCEPT !.state = "configured"]
    <3>1. a \in StmDevice /\ a.in1 = None /\ a.in0 = None /\ a.data = None
          /\ \A f \in F \ {"in1"} : a[f] = c[f]
      BY <1>2 DEF StmDevice
    <3>2. StmOpened(c) = a
      BY <2>2 DEF StmOpened, StmAsks
    <3>. HIDE DEF a
    <3>3. g \in StmDevice /\ g.state = "configured" /\ g.in0 = None /\ g.data = None
          /\ \A f \in F \ {"state"} : g[f] = a[f]
      BY <3>1 DEF StmDevice
    <3>4. e = StmStatus(g, r)
      BY <2>1, <2>4, <3>2 DEF StmSetConfig
    <3>. HIDE DEF g
    <3>5. /\ \A f \in F : e[f] = g[f]
          /\ e.in0 = g.in0 \/ e.in0.req = r
          /\ e.data = g.data
      BY <1>1, <3>3, <3>4, StmAnswerOf
    <3>. QED BY <1>2, <1>7, <3>1, <3>3, <3>5
  <2>. QED BY <2>2, <2>3, <2>4
<1>8. CASE r.kind = "clear"
  <2>1. e = StmClearFeature(c, r)
    BY <1>8 DEF StmServeSetup
  <2>. HIDE DEF e, c, r
  <2>2. CASE c.state = "default"
    <3>1. e = StmStall(c)
      BY <2>1, <2>2 DEF StmClearFeature
    <3>. QED BY <1>1, <1>2, <1>8, <2>2, <3>1, StmAnswerOf
  <2>4. CASE c.state = "addressed"
    <3>1. e \in {[c EXCEPT !.refused = TRUE], [c EXCEPT !.out1 = FALSE]}
      BY <1>1, <1>8, <2>1, <2>4 DEF StmClearFeature, StmStallEp, StmAsks
    <3>2. e.in0 = None /\ e.data = None /\ \A f \in F : e[f] = c[f]
      BY <1>2, <3>1 DEF StmDevice
    <3>. QED BY <1>2, <1>8, <2>4, <3>2
  <2>3. CASE c.state = "configured"
    <3>. DEFINE a == StmClear(c, r.arg)
    <3>1. a \in {[c EXCEPT !.refused = TRUE], [c EXCEPT !.out1 = TRUE]}
      BY <1>1, <1>8 DEF StmClear, StmAsks
    <3>2. a \in StmDevice /\ a.in0 = None /\ a.data = None /\ \A f \in F : a[f] = c[f]
      <4>1. a \in StmDevice
        <5>1. [c EXCEPT !.out1 = TRUE] \in StmDevice
          BY <1>2, StmEndpointTyped, Zenon
        <5>2. [c EXCEPT !.refused = TRUE] \in StmDevice
          BY <1>2, StmEndpointTyped, Zenon
        <5>. QED BY <3>1, <5>1, <5>2
      <4>. QED BY <1>2, <3>1, <4>1 DEF StmDevice
    <3>3. e = StmStatus(a, r)
      BY <2>1, <2>3 DEF StmClearFeature
    <3>. HIDE DEF a
    <3>4. /\ \A f \in F : e[f] = a[f]
          /\ e.in0 = a.in0 \/ e.in0.req = r
          /\ e.data = a.data
      BY <1>1, <3>2, <3>3, StmAnswerOf
    <3>. QED BY <1>2, <1>8, <2>3, <3>2, <3>4
  <2>5. c.state \in {"default", "addressed", "configured"}
    BY <1>2 DEF StmDevice
  <2>. QED BY <2>2, <2>3, <2>4, <2>5
<1>. QED BY <1>1, <1>4, <1>5, <1>6, <1>7, <1>8

\* The next packet of the data is of the same request.
LEMMA StmServeInOf ==
  ASSUME NEW d \in StmDevice, d.in0 = None
  PROVE  LET e == StmServeIn(d)
         IN /\ e.sent = FALSE
            /\ e.setup = d.setup /\ e.bus = d.bus /\ e.buf1 = d.buf1 /\ e.message = d.message
            /\ e.lock = d.lock /\ e.state = d.state /\ e.in1 = d.in1
            /\ e.in0 # None => d.data # None /\ e.in0.req = d.data.req
            /\ e.data # None => d.data # None /\ e.data.req = d.data.req
<1>. DEFINE F == {"bus", "sent", "buf1", "message", "lock", "setup", "state", "in1"}
            c == [d EXCEPT !.sent = FALSE]
            a == StmDataIn(c)
            e == StmServeIn(d)
<1>1. c \in StmDevice /\ c.sent = FALSE /\ c.in0 = None /\ c.data = d.data
      /\ \A f \in F \ {"sent"} : c[f] = d[f]
  <2>1. c \in StmDevice
    BY StmFlagsTyped, Zenon
  <2>2. c.sent = FALSE /\ c.in0 = d.in0 /\ c.data = d.data /\ \A f \in F \ {"sent"} : c[f] = d[f]
    BY DEF StmDevice
  <2>. QED BY <2>1, <2>2
<1>2. /\ a \in StmDevice /\ \A f \in F : a[f] = c[f]
      /\ a.in0 # None => c.data # None /\ a.in0.req = c.data.req
      /\ a.data # None => c.data # None /\ a.data.req = c.data.req
  <2>. HIDE DEF c
  <2>1. CASE c.data = None
    BY <1>1, <2>1 DEF StmDataIn
  <2>2. CASE c.data # None /\ StmMore(c)
    <3>. DEFINE k == c.data.from + MaxPacket0
    <3>1. c.data.req \in Requests /\ k \in Int
      BY <1>1, <2>2, HostAssumption DEF StmDevice
    <3>2. a = StmSend(c, c.data.req, k)
      BY <2>2 DEF StmDataIn
    <3>. HIDE DEF a, k
    <3>3. a \in StmDevice
      BY <1>1, <3>1, <3>2, StmSendTyped
    <3>4. /\ \A f \in F : a[f] = c[f]
          /\ a.in0 = c.in0 \/ a.in0.req = c.data.req
          /\ a.data # None => a.data.req = c.data.req
      BY <1>1, <3>1, <3>2, StmAnswerOf
    <3>. QED BY <1>1, <2>2, <3>3, <3>4
  <2>3. CASE c.data # None /\ ~StmMore(c)
    <3>. DEFINE b == [c EXCEPT !.data = None]
    <3>1. a \in {[b EXCEPT !.refused = TRUE], [b EXCEPT !.out0 = TRUE]}
      BY <2>3 DEF StmDataIn, StmAsks
    <3>2. b \in StmDevice /\ b.data = None /\ b.in0 = None /\ \A f \in F : b[f] = c[f]
      BY <1>1 DEF StmDevice
    <3>. HIDE DEF b, a
    <3>3. [b EXCEPT !.refused = TRUE] \in StmDevice
      BY <3>2, StmFlagsTyped, Zenon
    <3>4. [b EXCEPT !.out0 = TRUE] \in StmDevice
      BY <3>2, StmFlagsTyped, Zenon
    <3>5. a.data = None /\ a.in0 = None /\ \A f \in F : a[f] = b[f]
      BY <3>1, <3>2 DEF StmDevice
    <3>. QED BY <3>1, <3>2, <3>3, <3>4, <3>5
  <2>. QED BY <2>1, <2>2, <2>3
<1>3. e \in {[a EXCEPT !.daddr = d.address, !.address = 0], a}
  BY DEF StmServeIn
<1>. HIDE DEF a
<1>4. e.in0 = a.in0 /\ e.data = a.data /\ \A f \in F : e[f] = a[f]
  BY <1>2, <1>3 DEF StmDevice
<1>. HIDE DEF c
<1>5. /\ e.sent = FALSE
      /\ e.setup = d.setup /\ e.bus = d.bus /\ e.buf1 = d.buf1 /\ e.message = d.message
      /\ e.lock = d.lock /\ e.state = d.state /\ e.in1 = d.in1
      /\ e.in0 # None => d.data # None /\ e.in0.req = d.data.req
      /\ e.data # None => d.data # None /\ e.data.req = d.data.req
  <2>. HIDE DEF e
  <2>. QED BY <1>1, <1>2, <1>4
<1>. QED BY <1>5, Zenon

\* The host's steps leave what host and STM32 agree on.
LEMMA StmHostStep ==
  ASSUME "stm32f0x2" \in Calm, dev \in StmDevice, HostInv,
         StmControlInv, StmOnePlace, StmFreshSession, StmHost
  PROVE  HostInv' /\ StmControlInv' /\ StmOnePlace' /\ StmFreshSession'
<1>. USE DEF StmControlInv, StmOnePlace, StmFreshSession, Is
<1>0. /\ dev.fw \in Calm
      /\ conf \in BOOLEAN /\ waiting \in 0..1 /\ (waiting > 0 => conf)
      /\ dev.setup \in StmRequests \cup {None}
      /\ xfer # None => xfer.req \in Requests
      /\ Is("config") => ~conf
  BY DEF StmDevice, HostInv, DAP_PACKET_COUNT
<1>1. CASE StmSetup
  <2>1. PICK r \in StmRequests :
          /\ StmRecovered /\ HostSetup(r, StmCare(r))
          /\ dev' = IF StmHeard
                    THEN [dev EXCEPT !.setup = r, !.in0 = None, !.out0 = FALSE, !.came = FALSE,
                                     !.stall0 = FALSE]
                    ELSE dev
    BY <1>1 DEF StmSetup
  <2>2. /\ xfer = None
        /\ xfer' = [req |-> r, n |-> 0, last |-> None,
                    stage |-> IF r.kind = "get" THEN "data" ELSE "status"]
        /\ IF r.kind = "config" THEN conf' = FALSE /\ waiting' = 0 ELSE UNCHANGED <<conf, waiting>>
        /\ hostaddr' = hostaddr /\ Legal(r) /\ StmCare(r)
    BY <1>0, <2>1 DEF HostSetup, WithCare
  <2>3. HostInv'
    BY <2>2, RequestKinds, HostSetupInv
  <2>4. conf' \in BOOLEAN /\ (conf' = conf \/ ~conf')
    BY <1>0, <2>2, Zenon
  <2>5. r # None /\ xfer'.req = r /\ ~dev.bus /\ ~dev.sent /\ r # ClearHalt(ToHost)
        /\ (r.kind = "config" => dev.state # "configured" /\ dev.message = None /\ dev.buf1 = None)
    BY <2>1, <2>2, RequestKinds DEF StmRecovered, StmCare
  <2>6. \A f \in {"bus", "sent", "state", "in1", "buf1", "message", "lock", "data", "daddr"} :
          dev'[f] = dev[f]
    BY <2>1 DEF StmDevice
  <2>7. CASE StmHeard
    <3>1. dev'.setup = r /\ dev'.in0 = None
      BY <2>1, <2>7 DEF StmDevice
    <3>2. StmControlInv'
      BY <2>2, <2>5, <2>6, <2>7, <3>1 DEF StmHeard
    <3>3. StmOnePlace'
      BY <1>0, <2>2, <2>4, <2>6
    <3>4. StmFreshSession'
      BY <2>2, <2>5, <2>6, <3>1
    <3>. QED BY <2>3, <3>2, <3>3, <3>4
  <2>8. CASE ~StmHeard
    <3>1. dev' = dev /\ dev.daddr # hostaddr /\ dev.setup = None
      <4>1. dev.daddr # hostaddr
        BY <2>1, <2>5, <2>8 DEF StmHeard, StmRecovered
      <4>. QED BY <2>1, <2>5, <2>8, <4>1
    <3>2. StmControlInv'
      BY <2>2, <2>5, <3>1
    <3>3. StmOnePlace'
      BY <1>0, <2>2, <2>4, <2>6
    <3>4. StmFreshSession'
      BY <2>2, <2>4, <2>5, <3>1
    <3>. QED BY <2>3, <3>2, <3>3, <3>4
  <2>. QED BY <2>7, <2>8
<1>2. CASE StmControlIn
  <2>1. /\ dev.daddr = hostaddr /\ ~dev.bus /\ dev.setup = None /\ dev.in0 # None
        /\ HostData(dev.in0) \/ HostStatusIn(dev.in0)
        /\ xfer # None
    BY <1>2 DEF StmControlIn, StmReady, StmHeard, HostData, HostStatusIn
  <2>2. /\ dev'.in0 = None /\ dev'.sent
        /\ \A f \in {"bus", "setup", "state", "in1", "buf1", "message", "lock", "data", "daddr"} :
             dev'[f] = dev[f]
    BY <1>2 DEF StmControlIn, StmDevice
  <2>3. dev.in0.req = xfer.req
    BY <2>1
  <2>4. CASE HostData(dev.in0)
    <3>1. HostInv' /\ xfer'.req = xfer.req /\ xfer.req.kind = "get" /\ hostaddr' = hostaddr
          /\ waiting' = waiting /\ conf' = conf /\ conf' \in BOOLEAN
      BY <2>4, HostDataInv
    <3>2. StmControlInv'
      BY <2>1, <2>2, <2>3, <3>1
    <3>3. StmOnePlace'
      BY <2>2, <3>1
    <3>4. StmFreshSession'
      BY <2>1, <2>2, <3>1
    <3>. QED BY <3>1, <3>2, <3>3, <3>4
  <2>5. CASE HostStatusIn(dev.in0)
    <3>1. /\ HostInv' /\ xfer' = None
          /\ waiting' = waiting /\ conf' = (conf \/ xfer.req.kind = "config") /\ conf' \in BOOLEAN
      BY <2>5, HostStatusInv
    <3>2. StmControlInv'
      BY <2>1, <2>2, <2>3, <3>1
    <3>3. StmOnePlace'
      BY <2>1, <2>2, <2>3, <3>1
    <3>4. StmFreshSession'
      BY <2>1, <2>2, <3>1
    <3>. QED BY <3>1, <3>2, <3>3, <3>4
  <2>. QED BY <2>1, <2>4, <2>5
<1>3. CASE StmControlOut \/ StmControlStall \/ StmAbandon
  <2>1. xfer' = None /\ UNCHANGED <<hostaddr, conf, waiting>>
    BY <1>3 DEF StmControlOut, StmControlStall, StmAbandon, HostStatusOut, HostStalled, HostAbandon
  <2>2. HostInv' /\ conf' = conf /\ conf' \in BOOLEAN
    BY <2>1, HostStopInv
  <2>3. \A f \in {"bus", "setup", "state", "in1", "buf1", "message", "lock", "data", "daddr", "in0", "sent"} :
          dev'[f] = dev[f]
    BY <1>3 DEF StmControlOut, StmControlStall, StmAbandon, StmDevice
  <2>4. StmControlInv'
    BY <2>1, <2>2, <2>3
  <2>5. StmOnePlace'
    BY <2>1, <2>2, <2>3
  <2>6. StmFreshSession'
    BY <2>1, <2>2, <2>3
  <2>. QED BY <2>2, <2>4, <2>5, <2>6
<1>4. CASE StmBusReset
  <2>1. xfer' = None /\ hostaddr' = 0 /\ conf' = FALSE /\ waiting' = 0
    BY <1>4 DEF StmBusReset, HostReset
  <2>2. HostInv' /\ conf' \in BOOLEAN /\ ~conf'
    BY <2>1, HostResetInv
  <2>3. /\ dev'.in0 = None /\ dev'.bus
        /\ \A f \in {"setup", "state", "buf1", "message", "lock", "data", "daddr", "sent"} :
             dev'[f] = dev[f]
    BY <1>4 DEF StmBusReset, StmDevice
  <2>4. StmControlInv'
    BY <2>1, <2>2, <2>3
  <2>5. StmOnePlace'
    BY <2>1, <2>2, <2>3
  <2>6. StmFreshSession'
    BY <2>1, <2>2, <2>3
  <2>. QED BY <2>2, <2>4, <2>5, <2>6
<1>5. CASE StmAsk
  <2>1. HostAsk /\ StmHeard
    BY <1>5 DEF StmAsk
  <2>2. /\ HostInv' /\ conf /\ conf' = conf /\ conf' \in BOOLEAN /\ waiting = 0 /\ waiting' = 1
        /\ xfer' = xfer /\ hostaddr' = hostaddr /\ ~Is("config")
    BY <2>1, HostAskInv
  <2>3. dev.in1 = None /\ dev.message = None /\ dev.state = "configured"
    BY <2>2
  <2>4. PICK c \in Cmd : dev' = [dev EXCEPT !.out1 = FALSE, !.buf1 = c]
    BY <1>5 DEF StmAsk
  <2>5. \A f \in {"bus", "setup", "state", "in1", "message", "lock", "data", "daddr", "in0", "sent"} :
          dev'[f] = dev[f]
    BY <2>4 DEF StmDevice
  <2>6. StmControlInv'
    BY <2>2, <2>5
  <2>7. StmOnePlace'
    BY <2>2, <2>3, <2>5
  <2>8. StmFreshSession'
    BY <2>2, <2>3, <2>5
  <2>. QED BY <2>2, <2>6, <2>7, <2>8
<1>6. CASE StmTake
  <2>1. HostTake(dev.in1) /\ dev.in1 # None
    BY <1>6 DEF StmTake
  <2>2. /\ HostInv' /\ conf /\ conf' = conf /\ conf' \in BOOLEAN /\ waiting' = 0
        /\ xfer' = xfer /\ hostaddr' = hostaddr
    BY <2>1, HostTakeInv
  <2>3. /\ dev'.in1 = None
        /\ \A f \in {"bus", "setup", "state", "buf1", "message", "lock", "data", "daddr", "in0", "sent"} :
             dev'[f] = dev[f]
    BY <1>6 DEF StmTake, StmDevice
  <2>4. StmControlInv'
    BY <2>2, <2>3
  <2>5. StmOnePlace'
    BY <2>1, <2>2, <2>3
  <2>6. StmFreshSession'
    BY <2>2, <2>3
  <2>. QED BY <2>2, <2>4, <2>5, <2>6
<1>. QED BY <1>1, <1>2, <1>3, <1>4, <1>5, <1>6 DEF StmHost, StmPolls

\* The interrupt and the main loop leave it too.
LEMMA StmDeviceStep ==
  ASSUME dev \in StmDevice, HostInv, StmControlInv, StmOnePlace, StmFreshSession,
         StmInterrupt \/ StmService \/ StmServiced
  PROVE  HostInv' /\ StmControlInv' /\ StmOnePlace' /\ StmFreshSession'
<1>. USE DEF StmControlInv, StmOnePlace, StmFreshSession, Is
<1>0. HostInv' /\ conf' = conf /\ conf' \in BOOLEAN /\ UNCHANGED <<xfer, hostaddr, waiting>>
  <2>1. UNCHANGED hostvars
    BY DEF StmInterrupt, StmControl, StmCommand, StmReset, StmService, StmServiced
  <2>. QED BY <2>1, HostWaitsInv
<1>1. CASE dev.setup # None /\ dev' = StmServeSetup(dev)
  <2>. DEFINE r == dev.setup
  <2>1. /\ dev.in0 = None /\ ~dev.sent /\ (xfer # None => r = xfer.req) /\ r # ClearHalt(ToHost)
        /\ (r.kind = "config" => dev.state # "configured" /\ ~dev.lock)
    BY <1>1
  <2>2. /\ dev'.setup = None /\ dev'.bus = dev.bus /\ dev'.sent = dev.sent /\ dev'.buf1 = dev.buf1
        /\ dev'.message = dev.message /\ dev'.lock = dev.lock /\ dev'.daddr = dev.daddr
        /\ dev'.in0 # None => dev'.in0.req = r
        /\ dev'.data # None => dev'.data.req = r /\ r.kind = "get"
        /\ dev.state = "configured" => dev'.state = "configured"
        /\ dev'.in1 = dev.in1 \/ dev'.in1 = None
        /\ dev'.in0 # None /\ r.kind = "config" => dev'.in1 = None /\ dev'.state = "configured"
    BY <1>1, <2>1, StmServeSetupOf
  <2>3. r.kind = "config" => dev.message = None /\ dev.buf1 = None /\ ~conf
    BY <1>1
  <2>4. StmControlInv'
    BY <1>0, <2>1, <2>2
  <2>5. StmOnePlace'
    BY <1>0, <2>1, <2>2
  <2>6. StmFreshSession'
    <3>1. None # ClearHalt(ToHost)
      BY HostAssumption DEF Requests
    <3>. QED BY <1>0, <2>1, <2>2, <2>3, <3>1
  <2>. QED BY <1>0, <2>4, <2>5, <2>6
<1>2. CASE dev.setup = None /\ dev' = StmServeOut(dev)
  <2>1. \A f \in {"bus", "setup", "state", "in1", "buf1", "message", "lock", "data", "daddr", "in0", "sent"} :
          dev'[f] = dev[f]
    BY <1>2 DEF StmServeOut, StmDevice
  <2>2. StmControlInv'
    BY <1>0, <2>1
  <2>3. StmOnePlace'
    BY <1>0, <2>1
  <2>4. StmFreshSession'
    BY <1>0, <2>1
  <2>. QED BY <1>0, <2>2, <2>3, <2>4
<1>3. CASE dev.setup = None /\ dev.sent /\ dev' = StmServeIn(dev)
  <2>1. dev.in0 = None
    BY <1>3
  <2>2. /\ dev'.sent = FALSE
        /\ dev'.setup = None /\ dev'.bus = dev.bus /\ dev'.buf1 = dev.buf1
        /\ dev'.message = dev.message
        /\ dev'.lock = dev.lock /\ dev'.state = dev.state /\ dev'.in1 = dev.in1
        /\ dev'.in0 # None => dev.data # None /\ dev'.in0.req = dev.data.req
        /\ dev'.data # None => dev.data # None /\ dev'.data.req = dev.data.req
    BY <1>3, <2>1, StmServeInOf
  <2>3. StmControlInv'
    BY <1>0, <1>3, <2>2
  <2>4. StmOnePlace'
    BY <1>0, <2>2
  <2>5. StmFreshSession'
    BY <1>0, <1>3, <2>2
  <2>. QED BY <1>0, <2>3, <2>4, <2>5
<1>4. CASE StmCommand
  <2>1. dev.buf1 # None /\ dev.setup = None /\ dev.state = "configured" /\ dev.message = None /\ ~dev.lock
    BY <1>4 DEF StmCommand, StmControlDone
  <2>2. dev' = [[dev EXCEPT !.buf1 = None] EXCEPT !.out1 = TRUE, !.message = dev.buf1]
    BY <1>4, <2>1 DEF StmCommand, StmServeCommand, StmAsks, StmDevice
  <2>3. /\ dev'.buf1 = None /\ dev'.message = dev.buf1
        /\ \A f \in {"bus", "setup", "state", "in1", "lock", "data", "daddr", "in0", "sent"} :
             dev'[f] = dev[f]
    BY <2>2 DEF StmDevice
  <2>4. StmControlInv'
    BY <1>0, <2>3
  <2>5. StmOnePlace'
    BY <1>0, <2>1, <2>3
  <2>6. StmFreshSession'
    BY <1>0, <2>1, <2>3
  <2>. QED BY <1>0, <2>4, <2>5, <2>6
<1>5. CASE StmReset
  <2>. DEFINE e == [dev EXCEPT !.bus = FALSE, !.state = "default"]
  <2>1. dev.bus /\ dev.setup = None /\ ~dev.sent /\ dev.buf1 = None /\ xfer = None /\ ~conf
    BY <1>5 DEF StmReset, StmControlDone
  <2>2. dev' \in {[e EXCEPT !.refused = TRUE],
                  [e EXCEPT !.daddr = 0, !.out0 = TRUE, !.in0 = None, !.in1 = None,
                            !.out1 = FALSE, !.refused = FALSE]}
        /\ (dev' = [e EXCEPT !.refused = TRUE] => dev'.lock \/ dev'.in0 = None)
    <3>1. dev' = StmAsks(e, [e EXCEPT !.daddr = 0, !.out0 = TRUE, !.in0 = None, !.in1 = None,
                                      !.out1 = FALSE, !.refused = FALSE])
      BY <1>5 DEF StmReset, StmServeBus
    <3>2. e.lock = dev.lock
      BY DEF StmDevice
    <3>3. e \in StmDevice
      BY DEF StmDevice
    <3>. HIDE DEF e
    <3>. QED BY <3>1, <3>3 DEF StmAsks, StmDevice
  <2>3. \A f \in {"setup", "buf1", "message", "lock", "data", "sent"} : dev'[f] = dev[f]
    BY <2>2 DEF StmDevice
  <2>4. dev'.bus = FALSE /\ (dev'.in0 = None \/ (dev'.in0 = dev.in0 /\ dev.message # None))
    BY <2>2, <2>3 DEF StmDevice
  <2>5. StmControlInv'
    BY <1>0, <2>1, <2>3, <2>4
  <2>6. StmOnePlace'
    BY <1>0, <2>1, <2>3
  <2>7. StmFreshSession'
    BY <1>0, <2>1, <2>3, <2>4
  <2>. QED BY <1>0, <2>5, <2>6, <2>7
<1>6. CASE StmService
  <2>1. /\ dev.message # None /\ dev'.lock
        /\ \A f \in {"bus", "setup", "state", "in1", "buf1", "message", "data", "daddr", "in0", "sent"} :
             dev'[f] = dev[f]
    BY <1>6 DEF StmService, StmDevice
  <2>2. StmControlInv'
    BY <1>0, <2>1
  <2>3. StmOnePlace'
    BY <1>0, <2>1
  <2>4. StmFreshSession'
    BY <1>0, <2>1
  <2>. QED BY <1>0, <2>2, <2>3, <2>4
<1>7. CASE StmServiced
  <2>1. /\ dev.message # None /\ dev'.lock = FALSE /\ dev'.message = None
        /\ \A f \in {"bus", "setup", "state", "buf1", "data", "daddr", "in0", "sent"} :
             dev'[f] = dev[f]
    BY <1>7 DEF StmServiced, StmDevice
  <2>2. StmControlInv'
    BY <1>0, <2>1
  <2>3. StmOnePlace'
    BY <1>0, <2>1
  <2>4. StmFreshSession'
    BY <1>0, <2>1
  <2>. QED BY <1>0, <2>2, <2>3, <2>4
<1>. QED BY <1>1, <1>2, <1>3, <1>4, <1>5, <1>6, <1>7 DEF StmInterrupt, StmControl

\* With the care its code depends on, STM32 and host agree.
THEOREM StmInvariant ==
  ASSUME "stm32f0x2" \in Calm
  PROVE  Spec => [](Stm => HostInv /\ StmInv)
<1>. DEFINE I == DeviceTypes /\ (Stm => HostInv /\ StmControlInv /\ StmOnePlace /\ StmFreshSession)
<1>1. Init => I
  <2>. SUFFICES ASSUME Init, Stm
                PROVE  HostInv /\ StmControlInv /\ StmOnePlace /\ StmFreshSession
    BY DeviceStart
  <2>1. StmInit /\ HostInit
    BY DEF Init, Stm, SamInit, PicInit, NucInit
  <2>2. conf \in BOOLEAN /\ ~conf
    BY <2>1, Zenon DEF HostInit
  <2>3. None # ClearHalt(ToHost)
    BY HostAssumption DEF Requests
  <2>4. StmControlInv /\ StmOnePlace /\ StmFreshSession
    BY <2>1, <2>2, <2>3 DEF HostInit, StmInit, StmControlInv, StmOnePlace, StmFreshSession, Is
  <2>. QED BY <2>1, <2>4, HostStart
<1>2. I /\ [Next]_usbvars => I'
  <2>. SUFFICES ASSUME I, [Next]_usbvars, Stm'
                PROVE  HostInv' /\ StmControlInv' /\ StmOnePlace' /\ StmFreshSession'
    BY DeviceStep
  <2>1. CASE UNCHANGED usbvars
    <3>1. Stm
      BY <2>1 DEF usbvars, Stm
    <3>2. HostInv' /\ conf' \in BOOLEAN /\ conf' = conf
      BY <2>1, <3>1, HostWaitsInv DEF usbvars
    <3>. QED BY <2>1, <3>1, <3>2 DEF usbvars, hostvars, StmControlInv, StmOnePlace, StmFreshSession, Is
  <2>2. CASE StmNext
    BY <2>2, Firmware, StmHostStep, StmDeviceStep DEF StmNext, DeviceTypes
  <2>3. CASE NucNext
    BY <2>3, Firmware, NucTyped, FirmwareAfter DEF DeviceTypes
  <2>4. CASE PicNext
    BY <2>4, Firmware, PicTyped, FirmwareAfter DEF DeviceTypes
  <2>5. CASE SamNext
    BY <2>5, Firmware, SamTyped, FirmwareAfter DEF DeviceTypes
  <2>. QED BY <2>1, <2>2, <2>3, <2>4, <2>5 DEF Next
<1>3. I => (Stm => HostInv /\ StmInv)
  BY DEF StmInv
<1>. QED BY <1>1, <1>2, <1>3, PTL DEF Spec

\* No command reaches message while another is in it (USBD_VendorHID_DataOut).
THEOREM StmMessageKept ==
  ASSUME "stm32f0x2" \in Calm
  PROVE  Spec => []MessageKept
<1>1. (Stm => HostInv /\ StmInv) => MessageKept
  BY DEF StmInv, StmOnePlace, MessageKept
<1>. QED BY <1>1, StmInvariant, PTL

-----------------------------------------------------------------------------
(* The PIC16's toggles                                                     *)

\* A SETUP packet served: what it answers is that request's; only CLEAR_FEATURE
\* touches the debugger's endpoint.
LEMMA PicServeSetupOf ==
  ASSUME NEW d \in PicDevice, d.setup # None
  PROVE  LET e == PicServeSetup(d)
             r == d.setup
         IN /\ \A f \in {"bus", "uaddr", "tokens", "hin", "hout"} : e[f] = d[f]
            /\ e.setup = None /\ e.pktdis = FALSE
            /\ e.addr = IF r.kind = "address" THEN Address ELSE d.addr
            /\ IF r.kind = "config" THEN e.configured = TRUE ELSE e.configured = d.configured
            /\ e.in0 # None => e.in0.req = r
            /\ e.stage # None => e.stage.req = r /\ r.kind = "get"
            /\ e.stall0 => r.kind = "unknown"
            /\ IF r.kind = "clear" /\ r.arg = ToHost THEN e.in1 = None /\ e.tx_dts = 0
               ELSE e.in1 = d.in1 /\ e.tx_dts = d.tx_dts
            /\ IF r.kind = "clear" /\ r.arg # ToHost
               THEN e.out1 /\ e.buf1 = None /\ e.dts = 0 /\ e.rx_dts = 1
               ELSE \A f \in {"out1", "buf1", "dts", "rx_dts"} : e[f] = d[f]
<1>. DEFINE r == d.setup
            c == [d EXCEPT !.setup = None, !.in0 = None, !.stall0 = FALSE, !.stage = None]
            a == PicHandle(c, r)
            e == PicServeSetup(d)
            F == {"bus", "uaddr", "tokens", "hin", "hout"}
            G == {"in1", "tx_dts"}
            H == {"out1", "buf1", "dts", "rx_dts"}
<1>1. r \in PicRequests /\ r \in Requests /\ r.kind \in {"address", "config", "get", "unknown", "clear"}
      /\ (r.kind = "address" => r.arg = Address)
  BY RequestKinds DEF PicDevice
<1>2. /\ c \in PicDevice
      /\ c.setup = None /\ c.in0 = None /\ c.stall0 = FALSE /\ c.stage = None
      /\ \A f \in F \cup G \cup H \cup {"addr", "configured"} : c[f] = d[f]
  <2>1. c \in PicDevice
    BY DEF PicDevice
  <2>2. /\ c.setup = None /\ c.in0 = None /\ c.stall0 = FALSE /\ c.stage = None
        /\ \A f \in F \cup G \cup H \cup {"addr", "configured"} : c[f] = d[f]
    BY DEF PicDevice
  <2>. QED BY <2>1, <2>2
<1>3. e = [a EXCEPT !.pktdis = FALSE, !.out0 = TRUE] /\ a \in PicDevice
  BY <1>1, <1>2, PicHandleTyped DEF PicServeSetup
<1>. HIDE DEF c
<1>4. Zero(r).req = r
  BY DEF Zero
<1>5. /\ \A f \in F : a[f] = c[f]
      /\ a.setup = None
      /\ a.addr = IF r.kind = "address" THEN Address ELSE c.addr
      /\ IF r.kind = "config" THEN a.configured = TRUE ELSE a.configured = c.configured
      /\ a.in0 # None => a.in0.req = r
      /\ a.stage # None => a.stage.req = r /\ r.kind = "get"
      /\ a.stall0 => r.kind = "unknown"
      /\ IF r.kind = "clear" /\ r.arg = ToHost THEN a.in1 = None /\ a.tx_dts = 0
         ELSE \A f \in G : a[f] = c[f]
      /\ IF r.kind = "clear" /\ r.arg # ToHost
         THEN a.out1 /\ a.buf1 = None /\ a.dts = 0 /\ a.rx_dts = 1
         ELSE \A f \in H : a[f] = c[f]
  <2>1. CASE r.kind = "get"
    <3>. DEFINE s == IF 0 + Packet(r, 0).len < Total(r) THEN [req |-> r, from |-> 0 + Packet(r, 0).len]
                     ELSE None
    <3>1. a = [c EXCEPT !.in0 = Packet(r, 0), !.stage = s]
      BY <2>1 DEF PicHandle, PicSend
    <3>2. (s # None => s.req = r) /\ Packet(r, 0).req = r
      BY DEF Packet
    <3>. HIDE DEF a, s, r
    <3>. QED BY <1>2, <2>1, <3>1, <3>2 DEF PicDevice
  <2>2. CASE r.kind = "address"
    <3>1. a = [c EXCEPT !.addr = r.arg, !.in0 = Zero(r)]
      BY <2>2 DEF PicHandle
    <3>. HIDE DEF a, r
    <3>. QED BY <1>1, <1>2, <1>4, <2>2, <3>1 DEF PicDevice
  <2>3. CASE r.kind = "config"
    <3>1. a = [c EXCEPT !.in0 = Zero(r), !.configured = TRUE]
      BY <2>3 DEF PicHandle
    <3>. HIDE DEF a, r
    <3>. QED BY <1>2, <1>4, <2>3, <3>1 DEF PicDevice
  <2>4. CASE r.kind = "clear"
    <3>. DEFINE b == PicClear(c, r.arg)
    <3>1. a = [b EXCEPT !.in0 = Zero(r)]
      BY <2>4 DEF PicHandle
    <3>2. b = IF r.arg = ToHost THEN [c EXCEPT !.in1 = None, !.tx_dts = 0]
              ELSE [c EXCEPT !.out1 = TRUE, !.buf1 = None, !.dts = 0, !.rx_dts = 1]
      BY DEF PicClear
    <3>. HIDE DEF a, b, r
    <3>. QED BY <1>2, <1>4, <2>4, <3>1, <3>2 DEF PicDevice
  <2>5. CASE r.kind = "unknown"
    <3>1. a = [c EXCEPT !.stall0 = TRUE]
      BY <2>5 DEF PicHandle
    <3>. HIDE DEF a, r
    <3>. QED BY <1>2, <2>5, <3>1 DEF PicDevice
  <2>. QED BY <1>1, <2>1, <2>2, <2>3, <2>4, <2>5
<1>6. /\ e.pktdis = FALSE
      /\ \A f \in F \cup G \cup H \cup {"addr", "configured", "setup", "in0", "stage", "stall0"} : e[f] = a[f]
  <2>. HIDE DEF a
  <2>. QED BY <1>3 DEF PicDevice
<1>7. /\ \A f \in F : e[f] = d[f]
      /\ e.setup = None /\ e.pktdis = FALSE
      /\ e.addr = IF r.kind = "address" THEN Address ELSE d.addr
      /\ IF r.kind = "config" THEN e.configured = TRUE ELSE e.configured = d.configured
      /\ e.in0 # None => e.in0.req = r
      /\ e.stage # None => e.stage.req = r /\ r.kind = "get"
      /\ e.stall0 => r.kind = "unknown"
      /\ IF r.kind = "clear" /\ r.arg = ToHost THEN e.in1 = None /\ e.tx_dts = 0
         ELSE e.in1 = d.in1 /\ e.tx_dts = d.tx_dts
      /\ IF r.kind = "clear" /\ r.arg # ToHost
         THEN e.out1 /\ e.buf1 = None /\ e.dts = 0 /\ e.rx_dts = 1
         ELSE \A f \in H : e[f] = d[f]
  <2>. HIDE DEF a, e, r
  <2>. QED BY <1>2, <1>5, <1>6
<1>. QED BY <1>7, Zenon

\* A token of the status stage or of a packet taken: an address that waits is
\* set, and the next packet is of the same request.
LEMMA PicServeTakenOf ==
  ASSUME NEW d \in PicDevice
  PROVE  /\ \A f \in {"bus", "uaddr", "tokens", "hin", "hout", "setup", "pktdis", "addr", "configured",
                      "stall0", "in0", "in1", "tx_dts", "out1", "buf1", "dts", "rx_dts"} :
              PicServeEp0Out(d)[f] = d[f]
         /\ PicServeEp0Out(d).stage = None
         /\ \A f \in {"bus", "tokens", "hin", "hout", "setup", "pktdis", "configured",
                      "stall0", "in1", "tx_dts", "out1", "buf1", "dts", "rx_dts"} :
              PicServeEp0In(d)[f] = d[f]
         /\ PicServeEp0In(d).addr = 0
         /\ PicServeEp0In(d).uaddr = IF d.addr # 0 THEN d.addr ELSE d.uaddr
         /\ d.stage = None => PicServeEp0In(d).in0 = d.in0 /\ PicServeEp0In(d).stage = None
         /\ d.stage # None =>
              /\ PicServeEp0In(d).in0.req = d.stage.req
              /\ PicServeEp0In(d).stage # None => PicServeEp0In(d).stage.req = d.stage.req
<1>. DEFINE F == {"bus", "tokens", "hin", "hout", "setup", "pktdis", "configured",
                  "stall0", "in1", "tx_dts", "out1", "buf1", "dts", "rx_dts"}
<1>1. /\ \A f \in F \cup {"uaddr", "addr", "in0"} : PicServeEp0Out(d)[f] = d[f]
      /\ PicServeEp0Out(d).stage = None
  BY DEF PicServeEp0Out, PicDevice
<1>. DEFINE u == IF d.addr # 0 THEN d.addr ELSE d.uaddr
            a == [d EXCEPT !.uaddr = u, !.addr = 0]
            e == PicServeEp0In(d)
<1>2. e = IF a.stage = None THEN a ELSE PicSend(a, a.stage.req, a.stage.from)
  BY DEF PicServeEp0In
<1>3. a.addr = 0 /\ a.uaddr = u /\ a.stage = d.stage /\ a.in0 = d.in0 /\ \A f \in F : a[f] = d[f]
      /\ a \in PicDevice
  <2>1. u \in {0, Address}
    BY DEF PicDevice
  <2>. HIDE DEF u
  <2>2. a \in PicDevice
    BY <2>1 DEF PicDevice
  <2>3. a.addr = 0 /\ a.uaddr = u /\ a.stage = d.stage /\ a.in0 = d.in0 /\ \A f \in F : a[f] = d[f]
    BY DEF PicDevice
  <2>. QED BY <2>2, <2>3
<1>4. ASSUME NEW r, NEW k
      PROVE  /\ PicSend(a, r, k).in0.req = r
             /\ PicSend(a, r, k).stage # None => PicSend(a, r, k).stage.req = r
             /\ \A f \in F \cup {"addr", "uaddr"} : PicSend(a, r, k)[f] = a[f]
  <2>. DEFINE p == Packet(r, k)
              s == IF k + p.len < Total(r) THEN [req |-> r, from |-> k + p.len] ELSE None
  <2>1. PicSend(a, r, k) = [a EXCEPT !.in0 = p, !.stage = s]
    BY DEF PicSend
  <2>2. p.req = r /\ (s # None => s.req = r)
    BY DEF Packet
  <2>. HIDE DEF a, p, s
  <2>. QED BY <1>3, <2>1, <2>2 DEF PicDevice
<1>5. /\ \A f \in F : e[f] = d[f]
      /\ e.addr = 0 /\ e.uaddr = u
      /\ d.stage = None => e.in0 = d.in0 /\ e.stage = None
      /\ d.stage # None => e.in0.req = d.stage.req /\ (e.stage # None => e.stage.req = d.stage.req)
  <2>1. CASE a.stage = None
    <3>1. e = a
      BY <1>2, <2>1
    <3>. HIDE DEF e, a, u
    <3>. QED BY <1>3, <2>1, <3>1
  <2>2. CASE a.stage # None
    <3>1. e = PicSend(a, a.stage.req, a.stage.from)
      BY <1>2, <2>2
    <3>. HIDE DEF e, a, u
    <3>. QED BY <1>3, <1>4, <2>2, <3>1
  <2>. QED BY <2>1, <2>2
<1>6. /\ \A f \in {"bus", "uaddr", "tokens", "hin", "hout", "setup", "pktdis", "addr", "configured",
                   "stall0", "in0", "in1", "tx_dts", "out1", "buf1", "dts", "rx_dts"} :
            PicServeEp0Out(d)[f] = d[f]
  BY <1>1
<1>. QED BY <1>1, <1>5, <1>6, Zenon

\* The host's transfers leave what host and PIC16 agree on.
LEMMA PicControlStep ==
  ASSUME "pic16" \in Calm, dev \in PicDevice, PicTokens(dev), HostInv,
         PicControlInv, PicSessionInv,
         PicSetup \/ PicPolls \/ PicAbandon
  PROVE  HostInv' /\ PicControlInv' /\ PicSessionInv'
<1>. USE DEF PicControlInv, PicSessionInv, PicFresh, Is
<1>0. /\ dev.fw \in Calm
      /\ conf \in BOOLEAN /\ waiting \in 0..1 /\ (waiting > 0 => conf)
      /\ dev.setup \in PicRequests \cup {None}
      /\ dev.hin \in 0..1 /\ dev.hout \in 0..1 /\ dev.dts \in 0..1 /\ dev.tx_dts \in 0..1
      /\ xfer # None => xfer.req \in Requests
      /\ Is("address") => hostaddr = 0
      /\ Is("config") => ~conf /\ waiting = 0
      /\ Is("clear") => conf /\ waiting = 0
      /\ Address # 0
  BY HostAssumption DEF PicDevice, HostInv, DAP_PACKET_COUNT
<1>1. CASE PicSetup
  <2>1. PICK r \in PicRequests :
          /\ PicRecovered /\ (dev.pktdis => PicLost)
          /\ HostSetup(r, r.kind = "config" => ~dev.configured)
          /\ dev' = IF PicHeard
                    THEN [dev EXCEPT !.setup = r, !.out0 = FALSE, !.pktdis = TRUE,
                               !.tokens = Append(@, "setup"),
                               !.hin = IF r.kind = "config" THEN 0 ELSE @,
                               !.hout = IF r.kind = "config" THEN 0 ELSE @]
                    ELSE dev
    BY <1>1 DEF PicSetup
  <2>2. /\ xfer = None
        /\ xfer' = [req |-> r, n |-> 0, last |-> None,
                    stage |-> IF r.kind = "get" THEN "data" ELSE "status"]
        /\ IF r.kind = "config" THEN conf' = FALSE /\ waiting' = 0 ELSE UNCHANGED <<conf, waiting>>
        /\ hostaddr' = hostaddr /\ Legal(r) /\ (r.kind = "config" => ~dev.configured)
    BY <1>0, <2>1 DEF HostSetup, WithCare
  <2>3. HostInv'
    BY <2>2, RequestKinds, HostSetupInv
  <2>4. conf' \in BOOLEAN /\ (r.kind # "config" => conf' = conf) /\ (r.kind = "config" => ~conf')
    BY <1>0, <2>2, Zenon
  <2>5. /\ r # None /\ xfer'.req = r /\ ~dev.bus /\ dev.addr = 0 /\ dev.uaddr = hostaddr
        /\ (r.kind = "clear" => conf /\ waiting = 0 /\ r.arg \in 1..2)
        /\ (r.kind # "config" => waiting' = waiting)
        /\ xfer' # None
    <3>1. dev.addr = 0 /\ ~dev.bus
      <4>1. ~dev.bus /\ PicAddr = dev.uaddr
        BY <2>1 DEF PicRecovered
      <4>2. CASE dev.addr # 0
        <5>1. dev.uaddr = 0 /\ dev.tokens = <<"in">>
          BY <2>2, <4>1, <4>2
        <5>2. Head(<<"in">>) = "in" /\ <<"in">> # <<>>
          OBVIOUS
        <5>. QED BY <4>1, <4>2, <5>1, <5>2 DEF PicAddr
      <4>. QED BY <4>1, <4>2
    <3>2. r.kind = "clear" => conf /\ waiting = 0
      <4>1. CASE r.kind = "clear"
        BY <2>2, <4>1 DEF Legal
      <4>. QED BY <4>1
    <3>3. xfer' # None
      <4>1. r \in Requests /\ r.kind \in {"address", "config", "get", "unknown", "clear"}
        BY RequestKinds
      <4>. QED BY <2>2, <4>1, HostAssumption
    <3>. QED BY <2>2, <3>1, <3>2, <3>3, RequestKinds
  <2>6. \A f \in {"bus", "uaddr", "addr", "stage", "configured", "in1", "tx_dts", "rx_dts", "out1", "dts", "in0"} :
          dev'[f] = dev[f]
    BY <2>1 DEF PicDevice
  <2>7. CASE PicHeard
    <3>1. /\ dev'.setup = r /\ dev'.pktdis = TRUE
          /\ dev'.hin = IF r.kind = "config" THEN 0 ELSE dev.hin
          /\ dev'.hout = IF r.kind = "config" THEN 0 ELSE dev.hout
      BY <2>1, <2>7 DEF PicDevice
    <3>2. PicControlInv'
      BY <2>2, <2>5, <2>6, <3>1
    <3>3. PicSessionInv'
      BY <1>0, <2>2, <2>4, <2>5, <2>6, <3>1 DEF ToHost
    <3>. QED BY <2>3, <3>2, <3>3
  <2>8. CASE ~PicHeard
    <3>1. dev' = dev /\ dev.pktdis /\ dev.setup = None
      BY <2>1, <2>5, <2>8 DEF PicHeard, PicRecovered, PicLost, PicTokens
    <3>2. PicControlInv'
      BY <2>2, <2>5, <3>1
    <3>3. PicSessionInv'
      BY <1>0, <2>2, <2>4, <2>5, <3>1 DEF ToHost
    <3>. QED BY <2>3, <3>2, <3>3
  <2>. QED BY <2>7, <2>8
<1>2. CASE PicControlIn
  <2>1. /\ ~dev.bus /\ ~dev.pktdis /\ dev.in0 # None /\ dev.setup = None
        /\ HostData(dev.in0) \/ HostStatusIn(dev.in0)
        /\ xfer # None
    BY <1>2 DEF PicControlIn, PicHeard, HostData, HostStatusIn, PicTokens
  <2>2. /\ dev'.in0 = None /\ dev'.tokens = Append(dev.tokens, "in")
        /\ dev'.hin = (IF dev.in0.req = ClearHalt(ToHost) THEN 0 ELSE dev.hin)
        /\ dev'.hout = (IF dev.in0.req = ClearHalt(ToDevice) THEN 0 ELSE dev.hout)
        /\ \A f \in {"bus", "uaddr", "addr", "pktdis", "setup", "stall0", "stage", "configured",
                     "in1", "tx_dts", "rx_dts", "out1", "dts"} :
             dev'[f] = dev[f]
    BY <1>2 DEF PicControlIn, PicDevice
  <2>3. dev.in0.req = xfer.req
    BY <2>1
  <2>4. /\ xfer.req.kind # "clear" => dev'.hin = dev.hin /\ dev'.hout = dev.hout
        /\ Is("clear") /\ xfer.req.arg = ToHost => dev'.hin = 0 /\ dev'.hout = dev.hout
        /\ Is("clear") /\ xfer.req.arg # ToHost => dev'.hin = dev.hin /\ dev'.hout = 0
    BY <1>0, <2>1, <2>2, <2>3, RequestKinds DEF ClearHalt, ToHost, ToDevice
  <2>5. CASE HostData(dev.in0)
    <3>1. HostInv' /\ xfer'.req = xfer.req /\ xfer.req.kind = "get" /\ hostaddr' = hostaddr
          /\ waiting' = waiting /\ conf' = conf /\ conf' \in BOOLEAN
      BY <2>5, HostDataInv
    <3>2. PicControlInv'
      BY <2>1, <2>2, <3>1
    <3>3. PicSessionInv'
      BY <1>0, <2>1, <2>2, <2>4, <3>1
    <3>. QED BY <3>1, <3>2, <3>3
  <2>6. CASE HostStatusIn(dev.in0)
    <3>1. /\ HostInv' /\ xfer' = None
          /\ hostaddr' = IF xfer.req.kind = "address" THEN Address ELSE hostaddr
          /\ waiting' = waiting /\ conf' = (conf \/ xfer.req.kind = "config") /\ conf' \in BOOLEAN
      BY <2>6, HostStatusInv
    <3>2. dev.tokens = <<>> => dev'.tokens = <<"in">>
      BY <2>2
    <3>3. dev.addr \in {0, Address}
      BY DEF PicDevice
    <3>4. PicControlInv'
      BY <2>1, <2>2, <2>3, <3>1, <3>2, <3>3
    <3>5. PicSessionInv'
      <4>1. CASE xfer.req.kind = "config"
        BY <1>0, <2>1, <2>2, <2>3, <2>4, <3>1, <4>1
      <4>2. CASE xfer.req.kind = "clear"
        BY <1>0, <2>1, <2>2, <2>3, <2>4, <3>1, <4>2
      <4>3. CASE xfer.req.kind \notin {"config", "clear"}
        BY <1>0, <2>1, <2>2, <2>3, <2>4, <3>1, <4>3
      <4>. QED BY <4>1, <4>2, <4>3
    <3>. QED BY <3>1, <3>4, <3>5
  <2>. QED BY <2>1, <2>5, <2>6
<1>3. CASE PicControlOut \/ PicControlStall \/ PicAbandon
  <2>1. xfer' = None /\ UNCHANGED <<hostaddr, conf, waiting>> /\ xfer # None
    BY <1>3 DEF PicControlOut, PicControlStall, PicAbandon, HostStatusOut, HostStalled, HostAbandon
  <2>2. HostInv' /\ conf' = conf /\ conf' \in BOOLEAN
    BY <2>1, HostStopInv
  <2>3. \A f \in {"bus", "uaddr", "addr", "pktdis", "setup", "in0", "stall0", "stage", "configured",
                  "in1", "tx_dts", "rx_dts", "out1", "dts", "hin", "hout"} :
          dev'[f] = dev[f]
    <3>1. CASE PicControlOut
      BY <3>1 DEF PicControlOut, PicDevice
    <3>2. CASE UNCHANGED dev
      BY <3>2
    <3>. QED BY <1>3, <3>1, <3>2 DEF PicControlStall, PicAbandon
  <2>4. xfer.req.kind \notin {"address", "clear"}
    <3>1. CASE PicControlOut
      BY <3>1 DEF PicControlOut, HostStatusOut
    <3>2. CASE PicControlStall
      BY <2>1, <3>2 DEF PicControlStall, PicHeard
    <3>3. CASE PicAbandon
      BY <1>0, <3>3 DEF PicAbandon, HostAbandon, WithCare
    <3>. QED BY <1>3, <3>1, <3>2, <3>3
  <2>5. PicControlInv'
    BY <2>1, <2>3, <2>4
  <2>6. PicSessionInv'
    BY <1>0, <2>1, <2>2, <2>3, <2>4
  <2>. QED BY <2>2, <2>5, <2>6
<1>. QED BY <1>1, <1>2, <1>3 DEF PicPolls

\* So do a bus reset and the debugger's packets.
LEMMA PicPacketStep ==
  ASSUME dev \in PicDevice, HostInv, PicControlInv, PicSessionInv,
         PicBusReset \/ PicAsk \/ PicTake
  PROVE  HostInv' /\ PicControlInv' /\ PicSessionInv'
<1>. USE DEF PicControlInv, PicSessionInv, PicFresh, Is
<1>0. dev.hin \in 0..1 /\ dev.hout \in 0..1 /\ dev.dts \in 0..1 /\ dev.tx_dts \in 0..1
  BY DEF PicDevice
<1>1. CASE PicBusReset
  <2>1. xfer' = None /\ hostaddr' = 0 /\ conf' = FALSE /\ waiting' = 0
    BY <1>1 DEF PicBusReset, HostReset
  <2>2. HostInv' /\ conf' \in BOOLEAN /\ ~conf'
    BY <2>1, HostResetInv
  <2>3. dev'.bus /\ dev'.stage = dev.stage
    BY <1>1 DEF PicBusReset, PicDevice
  <2>4. PicControlInv'
    BY <2>1, <2>2, <2>3
  <2>5. PicSessionInv'
    BY <2>1, <2>2, <2>3
  <2>. QED BY <2>2, <2>4, <2>5
<1>2. CASE PicAsk
  <2>1. HostAsk /\ PicHeard /\ dev.out1
    BY <1>2 DEF PicAsk
  <2>2. /\ HostInv' /\ conf /\ conf' = conf /\ conf' \in BOOLEAN /\ waiting = 0 /\ waiting' = 1
        /\ xfer' = xfer /\ hostaddr' = hostaddr /\ ~Is("config") /\ ~Is("clear")
    BY <2>1, HostAskInv
  <2>3. /\ dev.in1 = None /\ dev.configured /\ dev.hout = dev.dts /\ dev.tx_dts = dev.hin
        /\ dev.rx_dts = 1 - dev.dts
    BY <2>1, <2>2
  <2>4. PICK c \in Cmd : dev' = [dev EXCEPT !.out1 = FALSE, !.buf1 = c, !.hout = 1 - dev.hout]
    BY <1>2, <2>3 DEF PicAsk
  <2>5. /\ dev'.out1 = FALSE /\ dev'.hout = 1 - dev.hout
        /\ \A f \in {"bus", "uaddr", "addr", "pktdis", "tokens", "setup", "in0", "stall0", "stage",
                     "configured", "in1", "tx_dts", "rx_dts", "dts", "hin"} :
             dev'[f] = dev[f]
    BY <2>4 DEF PicDevice
  <2>6. PicControlInv'
    BY <2>2, <2>5
  <2>7. PicSessionInv'
    BY <1>0, <2>2, <2>3, <2>5
  <2>. QED BY <2>2, <2>6, <2>7
<1>3. CASE PicTake
  <2>0. conf \in BOOLEAN /\ waiting \in 0..1 /\ (waiting > 0 => conf)
    BY DEF HostInv, DAP_PACKET_COUNT
  <2>1. conf /\ waiting > 0 /\ dev.in1 # None
    BY <2>0, <1>3 DEF PicTake, HostTake
  <2>2. ~Is("clear") /\ dev.in1.dts = dev.hin /\ dev.out1
    BY <2>0, <2>1
  <2>3. HostTake(dev.in1.cmd) /\ dev' = [dev EXCEPT !.in1 = None, !.hin = 1 - dev.hin]
    BY <1>3, <2>2 DEF PicTake
  <2>4. /\ HostInv' /\ conf' = conf /\ conf' \in BOOLEAN /\ waiting = 1 /\ waiting' = 0
        /\ xfer' = xfer /\ hostaddr' = hostaddr /\ ~Is("config")
    BY <2>3, HostTakeInv
  <2>5. /\ dev'.in1 = None /\ dev'.hin = 1 - dev.hin
        /\ \A f \in {"bus", "uaddr", "addr", "pktdis", "tokens", "setup", "in0", "stall0", "stage",
                     "configured", "out1", "tx_dts", "rx_dts", "dts", "hout"} :
             dev'[f] = dev[f]
    BY <2>3 DEF PicDevice
  <2>6. PicControlInv'
    BY <2>4, <2>5
  <2>7. PicSessionInv'
    BY <1>0, <2>1, <2>2, <2>4, <2>5
  <2>. QED BY <2>4, <2>6, <2>7
<1>. QED BY <1>1, <1>2, <1>3

\* A token served leaves it.
LEMMA PicTokenStep ==
  ASSUME dev \in PicDevice, PicTokens(dev), HostInv, PicControlInv, PicSessionInv,
         HostInv', conf' = conf, conf' \in BOOLEAN, UNCHANGED <<xfer, hostaddr, waiting>>,
         ~dev.bus, dev.tokens # <<>>, dev' = PicServeToken(dev)
  PROVE  PicControlInv' /\ PicSessionInv'
<1>. USE DEF PicControlInv, PicSessionInv, PicFresh, Is
<1>. DEFINE e == [dev EXCEPT !.tokens = Tail(dev.tokens)]
<1>0. /\ dev.hin \in 0..1 /\ dev.hout \in 0..1 /\ dev.dts \in 0..1 /\ dev.tx_dts \in 0..1
      /\ dev.addr \in {0, Address} /\ Address # 0
      /\ Is("address") => hostaddr = 0
  BY HostAssumption DEF PicDevice, HostInv
<1>1. dev.tokens \in Seq({"setup", "in", "out"})
  BY DEF PicDevice
<1>2. Head(dev.tokens) \in {"setup", "in", "out"} /\ Tail(dev.tokens) \in Seq({"setup", "in", "out"})
  BY <1>1
<1>3. /\ e \in PicDevice /\ e.tokens = Tail(dev.tokens)
      /\ \A f \in {"bus", "uaddr", "addr", "pktdis", "setup", "in0", "stall0", "stage",
                   "configured", "in1", "out1", "buf1", "tx_dts", "rx_dts", "dts", "hin", "hout"} :
           e[f] = dev[f]
  <2>1. e \in PicDevice
    BY <1>2 DEF PicDevice
  <2>2. /\ e.tokens = Tail(dev.tokens)
        /\ \A f \in {"bus", "uaddr", "addr", "pktdis", "setup", "in0", "stall0", "stage",
                     "configured", "in1", "out1", "buf1", "tx_dts", "rx_dts", "dts", "hin", "hout"} :
             e[f] = dev[f]
    BY DEF PicDevice
  <2>. QED BY <2>1, <2>2
<1>4. CASE Head(dev.tokens) = "setup"
  <2>. DEFINE r == dev.setup
  <2>1. dev' = PicServeSetup(e)
    BY <1>4 DEF PicServeToken
  <2>2. dev.setup # None /\ dev.pktdis /\ Tail(dev.tokens) = <<>>
    <3>1. 1 \in 1..Len(dev.tokens) /\ dev.tokens[1] = "setup"
      BY <1>1, <1>4
    <3>2. dev.setup # None /\ Len(dev.tokens) = 1
      BY <3>1 DEF PicTokens
    <3>3. dev.pktdis
      BY <3>2 DEF PicTokens
    <3>4. Tail(dev.tokens) = <<>>
      <4>1. Tail(dev.tokens) \in Seq({"setup", "in", "out"}) /\ Len(Tail(dev.tokens)) = 0
        BY <1>1, <3>2
      <4>2. \A q \in Seq({"setup", "in", "out"}) : Len(q) = 0 => q = <<>>
        OBVIOUS
      <4>. QED BY <4>1, <4>2
    <3>. QED BY <3>2, <3>3, <3>4
  <2>. HIDE DEF e
  <2>3. /\ \A f \in {"bus", "uaddr", "tokens", "hin", "hout"} : dev'[f] = e[f]
        /\ dev'.setup = None /\ dev'.pktdis = FALSE
        /\ dev'.addr = IF r.kind = "address" THEN Address ELSE e.addr
        /\ IF r.kind = "config" THEN dev'.configured = TRUE ELSE dev'.configured = e.configured
        /\ dev'.in0 # None => dev'.in0.req = r
        /\ dev'.stage # None => dev'.stage.req = r /\ r.kind = "get"
        /\ dev'.stall0 => r.kind = "unknown"
        /\ IF r.kind = "clear" /\ r.arg = ToHost THEN dev'.in1 = None /\ dev'.tx_dts = 0
           ELSE dev'.in1 = e.in1 /\ dev'.tx_dts = e.tx_dts
        /\ IF r.kind = "clear" /\ r.arg # ToHost
           THEN dev'.out1 /\ dev'.buf1 = None /\ dev'.dts = 0 /\ dev'.rx_dts = 1
           ELSE \A f \in {"out1", "buf1", "dts", "rx_dts"} : dev'[f] = e[f]
    <3>1. e.setup = r /\ e \in PicDevice /\ e.setup # None
      BY <1>3, <2>2
    <3>2. LET a == PicServeSetup(e)
          IN /\ \A f \in {"bus", "uaddr", "tokens", "hin", "hout"} : a[f] = e[f]
             /\ a.setup = None /\ a.pktdis = FALSE
             /\ a.addr = IF e.setup.kind = "address" THEN Address ELSE e.addr
             /\ IF e.setup.kind = "config" THEN a.configured = TRUE ELSE a.configured = e.configured
             /\ a.in0 # None => a.in0.req = e.setup
             /\ a.stage # None => a.stage.req = e.setup /\ e.setup.kind = "get"
             /\ a.stall0 => e.setup.kind = "unknown"
             /\ IF e.setup.kind = "clear" /\ e.setup.arg = ToHost THEN a.in1 = None /\ a.tx_dts = 0
                ELSE a.in1 = e.in1 /\ a.tx_dts = e.tx_dts
             /\ IF e.setup.kind = "clear" /\ e.setup.arg # ToHost
                THEN a.out1 /\ a.buf1 = None /\ a.dts = 0 /\ a.rx_dts = 1
                ELSE \A f \in {"out1", "buf1", "dts", "rx_dts"} : a[f] = e[f]
      BY <3>1, PicServeSetupOf, Zenon
    <3>. HIDE DEF r
    <3>. QED BY <2>1, <3>1, <3>2
  <2>4. /\ xfer # None => r = xfer.req
        /\ r.kind \in {"address", "clear"} => xfer # None
        /\ dev.addr = 0 /\ dev.uaddr = hostaddr
    BY <2>2
  <2>5. /\ ~dev'.bus /\ dev'.uaddr = dev.uaddr /\ dev'.tokens = <<>>
        /\ dev'.addr = IF r.kind = "address" THEN Address ELSE 0
    <3>1. ~dev'.bus /\ dev'.uaddr = dev.uaddr
      BY <1>3, <2>3
    <3>2. dev'.tokens = <<>>
      BY <1>3, <2>2, <2>3
    <3>3. dev'.addr = IF r.kind = "address" THEN Address ELSE 0
      BY <1>3, <2>3, <2>4
    <3>. QED BY <3>1, <3>2, <3>3
  <2>6. PicControlInv'
    BY <1>0, <2>3, <2>4, <2>5
  <2>7. PicSessionInv'
    <3>. HIDE DEF r
    <3>1. CASE r.kind = "clear"
      <4>1. Is("clear") /\ xfer.req = r
        BY <2>4, <3>1
      <4>2. CASE r.arg = ToHost
        BY <1>0, <1>3, <2>2, <2>3, <2>5, <3>1, <4>1, <4>2
      <4>3. CASE r.arg # ToHost
        BY <1>0, <1>3, <2>2, <2>3, <2>5, <3>1, <4>1, <4>3
      <4>. QED BY <4>2, <4>3
    <3>2. CASE r.kind # "clear"
      <4>1. ~Is("clear")
        BY <2>4, <3>2
      <4>2. \A f \in {"out1", "dts", "rx_dts", "in1", "tx_dts", "hin", "hout"} : dev'[f] = dev[f]
        BY <1>3, <2>3, <3>2
      <4>3. Is("config") => dev.hin = 0 /\ dev.hout = 0
        BY <2>2
      <4>. QED BY <1>0, <1>3, <2>3, <2>4, <2>5, <3>2, <4>1, <4>2, <4>3
    <3>. QED BY <3>1, <3>2
  <2>. QED BY <2>6, <2>7
<1>5. CASE Head(dev.tokens) = "out"
  <2>1. dev' = PicServeEp0Out(e)
    BY <1>5 DEF PicServeToken
  <2>. HIDE DEF e
  <2>2. /\ \A f \in {"bus", "uaddr", "addr", "pktdis", "setup", "in0", "stall0",
                   "configured", "in1", "out1", "buf1", "tx_dts", "rx_dts", "dts", "hin", "hout"} :
             dev'[f] = dev[f]
        /\ dev'.stage = None
    BY <1>3, <2>1, PicServeTakenOf
  <2>3. dev.addr = 0
    <3>1. Head(<<"in">>) = "in"
      OBVIOUS
    <3>. QED BY <1>5, <3>1
  <2>4. PicControlInv'
    BY <2>2, <2>3
  <2>5. PicSessionInv'
    BY <2>2
  <2>. QED BY <2>4, <2>5
<1>6. CASE Head(dev.tokens) = "in"
  <2>1. dev' = PicServeEp0In(e)
    BY <1>6 DEF PicServeToken
  <2>. HIDE DEF e
  <2>2. /\ \A f \in {"bus", "pktdis", "setup", "stall0",
                     "configured", "in1", "out1", "buf1", "tx_dts", "rx_dts", "dts", "hin", "hout"} :
             dev'[f] = dev[f]
        /\ dev'.addr = 0
        /\ dev'.uaddr = IF dev.addr # 0 THEN dev.addr ELSE dev.uaddr
        /\ dev.stage = None => dev'.in0 = dev.in0 /\ dev'.stage = None
        /\ dev.stage # None =>
              /\ dev'.in0.req = dev.stage.req
              /\ dev'.stage # None => dev'.stage.req = dev.stage.req
    BY <1>3, <2>1, PicServeTakenOf
  <2>3. dev'.uaddr = hostaddr
    BY <2>2
  <2>4. Is("address") /\ ~dev.pktdis => dev'.in0 = None
    BY <2>2
  <2>5. PicControlInv'
    BY <2>2, <2>3, <2>4
  <2>6. PicSessionInv'
    BY <2>2
  <2>. QED BY <2>5, <2>6
<1>. QED BY <1>2, <1>4, <1>5, <1>6

\* So does a pass of the main loop.
LEMMA PicDeviceStep ==
  ASSUME dev \in PicDevice, PicTokens(dev), HostInv, PicControlInv, PicSessionInv,
         PicUsbService \/ PicMain
  PROVE  HostInv' /\ PicControlInv' /\ PicSessionInv'
<1>0. HostInv' /\ conf' = conf /\ conf' \in BOOLEAN /\ UNCHANGED <<xfer, hostaddr, waiting>>
  <2>1. UNCHANGED hostvars
    BY DEF PicUsbService, PicMain
  <2>. QED BY <2>1, HostWaitsInv
<1>1. CASE PicUsbService /\ dev.bus
  <2>1. dev' = PicServeBus(dev)
    <3>1. PicServeBus(dev).tokens = <<>>
      BY <1>1 DEF PicServeBus, PicDevice
    <3>. QED BY <1>1, <3>1 DEF PicUsbService, PicServeToken
  <2>2. /\ dev'.bus = FALSE /\ dev'.uaddr = 0 /\ dev'.addr = 0 /\ dev'.setup = None
        /\ dev'.in0 = None /\ dev'.stage = None /\ dev'.configured = FALSE /\ dev'.in1 = None
        /\ dev'.tx_dts = 0 /\ dev'.rx_dts = 1 /\ dev'.out1 = TRUE /\ dev'.dts = 0
    BY <1>1, <2>1 DEF PicServeBus, PicDevice
  <2>3. xfer' = None /\ hostaddr' = 0 /\ ~conf'
    BY <1>0, <1>1 DEF PicControlInv
  <2>4. PicControlInv'
    BY <2>2, <2>3 DEF PicControlInv, Is
  <2>5. PicSessionInv'
    BY <2>2, <2>3 DEF PicSessionInv, PicFresh, Is
  <2>. QED BY <1>0, <2>4, <2>5
<1>2. CASE PicUsbService /\ ~dev.bus
  <2>1. dev' = PicServeToken(dev) /\ dev.tokens # <<>>
    <3>1. PicServeBus(dev) = dev
      BY <1>2 DEF PicServeBus
    <3>2. dev' = PicServeToken(dev) /\ dev' # dev
      BY <1>2, <3>1 DEF PicUsbService
    <3>3. dev.tokens = <<>> => PicServeToken(dev) = dev
      BY DEF PicServeToken
    <3>. QED BY <3>2, <3>3
  <2>. QED BY <1>0, <1>2, <2>1, PicTokenStep
<1>3. CASE PicMain
  <2>. USE DEF PicControlInv, PicSessionInv, PicFresh, Is
  <2>0. /\ dev.hin \in 0..1 /\ dev.hout \in 0..1 /\ dev.dts \in 0..1 /\ dev.tx_dts \in 0..1
        /\ dev.rx_dts \in 0..1 /\ dev.buf1 \in Cmd
    BY <1>3 DEF PicMain, PicDevice, PicTokens
  <2>. DEFINE b == [cmd |-> dev.buf1, dts |-> dev.tx_dts]
              e == [dev EXCEPT !.in1 = b, !.tx_dts = 1 - dev.tx_dts]
  <2>1. dev.configured /\ dev.in1 = None /\ ~dev.out1
    BY <1>3 DEF PicMain
  <2>2. b # None /\ b.dts = dev.tx_dts
    BY <2>0, HostAssumption
  <2>3. dev' = [e EXCEPT !.out1 = TRUE, !.buf1 = None, !.dts = e.rx_dts, !.rx_dts = 1 - e.rx_dts]
    BY <1>3 DEF PicMain, PicArm
  <2>. HIDE DEF b
  <2>4. /\ dev'.in1 = b /\ dev'.tx_dts = 1 - dev.tx_dts /\ dev'.out1 = TRUE
        /\ dev'.dts = dev.rx_dts /\ dev'.rx_dts = 1 - dev.rx_dts
        /\ \A f \in {"bus", "uaddr", "addr", "pktdis", "tokens", "setup", "in0", "stall0", "stage",
                     "configured", "hin", "hout"} :
             dev'[f] = dev[f]
    BY <2>3 DEF PicDevice
  <2>5. PicControlInv'
    BY <1>0, <2>4
  <2>6. PicSessionInv'
    BY <1>0, <2>0, <2>1, <2>2, <2>4
  <2>. QED BY <1>0, <2>5, <2>6
<1>. QED BY <1>1, <1>2, <1>3

\* With the care its code depends on, PIC16 and host agree.
THEOREM PicInvariant ==
  ASSUME "pic16" \in Calm
  PROVE  Spec => [](Pic => HostInv /\ PicInv)
<1>. DEFINE I == DeviceTypes /\ (Pic => HostInv /\ PicControlInv /\ PicSessionInv)
<1>1. Init => I
  <2>. SUFFICES ASSUME Init, Pic PROVE HostInv /\ PicControlInv /\ PicSessionInv
    BY DeviceStart
  <2>1. PicInit /\ HostInit
    BY DEF Init, Pic, NucInit, SamInit, StmInit
  <2>2. conf \in BOOLEAN /\ ~conf
    BY <2>1, Zenon DEF HostInit
  <2>3. PicControlInv /\ PicSessionInv
    BY <2>1, <2>2 DEF HostInit, PicInit, PicControlInv, PicSessionInv, PicFresh, Is
  <2>. QED BY <2>1, <2>3, HostStart
<1>2. I /\ [Next]_usbvars => I'
  <2>. SUFFICES ASSUME I, [Next]_usbvars, Pic' PROVE HostInv' /\ PicControlInv' /\ PicSessionInv'
    BY DeviceStep
  <2>1. CASE UNCHANGED usbvars
    <3>1. Pic
      BY <2>1 DEF usbvars, Pic
    <3>2. HostInv'
      BY <2>1, <3>1, HostWaitsInv DEF usbvars
    <3>3. conf' \in BOOLEAN /\ conf' = conf
      BY <2>1, <3>1, HostWaitsInv DEF usbvars
    <3>. QED BY <2>1, <3>1, <3>2, <3>3 DEF usbvars, hostvars, PicControlInv, PicSessionInv,
           PicFresh, Is
  <2>2. CASE PicNext
    <3>1. dev \in PicDevice /\ PicTokens(dev) /\ HostInv /\ PicControlInv /\ PicSessionInv
      BY <2>2, Firmware DEF DeviceTypes
    <3>. QED BY <2>2, <3>1, PicControlStep, PicPacketStep, PicDeviceStep DEF PicNext, PicHost
  <2>3. CASE NucNext
    BY <2>3, Firmware, NucTyped, FirmwareAfter DEF DeviceTypes
  <2>4. CASE SamNext
    BY <2>4, Firmware, SamTyped, FirmwareAfter DEF DeviceTypes
  <2>5. CASE StmNext
    BY <2>5, Firmware, StmTyped, FirmwareAfter DEF DeviceTypes
  <2>. QED BY <2>1, <2>2, <2>3, <2>4, <2>5 DEF Next
<1>3. I => (Pic => HostInv /\ PicInv)
  BY DEF PicInv
<1>. QED BY <1>1, <1>2, <1>3, PTL DEF Spec

\* Neither end ever takes a packet of the debugger's for one it has seen
\* (usb_arm_out_endpoint, usb_send_in_buffer, udc_reset_endpoint).
THEOREM TogglesInStep ==
  ASSUME "samd11" \in Calm, "pic16" \in Calm
  PROVE  Spec => []TogglesAgree
<1>1. (Sam => HostInv /\ SamInv) /\ (Pic => HostInv /\ PicInv) => TogglesAgree
  <2>. SUFFICES ASSUME Sam => HostInv /\ SamInv, Pic => HostInv /\ PicInv
                PROVE  TogglesAgree
    OBVIOUS
  <2>1. PicToggles
    BY DEF PicToggles, PicInv, PicSessionInv, Is
  <2>2. SamToggles
    BY DEF SamToggles, SamInv, SamSessionInv, SamConfiguring
  <2>. QED BY <2>1, <2>2 DEF TogglesAgree
<1>. QED BY <1>1, SamInvariant, PicInvariant, PTL

=============================================================================
