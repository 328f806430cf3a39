------------------------------ MODULE Stm32Cdc ------------------------------
(***************************************************************************)
(* The serial port beside the debugger: one UART of usbd_cdc.c.            *)
(*                                                                         *)
(* Inbound, a circular DMA fills InboundBuffer from the UART, and the      *)
(* start-of-frame interrupt hands what is new to the IN endpoint, which    *)
(* sends it in packets.  Outbound, a packet of the OUT endpoint is given   *)
(* to a second DMA, whose completion prepares the endpoint for the next.   *)
(*                                                                         *)
(* Three contexts run this code.  The main loop, when it sends a debugger's *)
(* response, holds the lock of the PCD handle; the USB interrupt comes     *)
(* over the main loop, and the DMA interrupt over both (its priority 5 is  *)
(* 1 in the two bits of the NVIC, above the USB's 3).  A context that finds *)
(* the lock taken gets HAL_BUSY, for whoever holds it cannot go on.  The   *)
(* DMA interrupt runs to its end, so it is one step; the USB interrupt is  *)
(* cut where it takes and gives back the lock.                             *)
(***************************************************************************)
EXTENDS Integers, Sequences

CONSTANTS
  INBOUND_BUFFER_SIZE,  \* bytes of InboundBuffer (1024)
  MaxPacket,            \* bytes of a packet of the IN endpoint (64)
  VendorHid,            \* whether the build has the debugger (NUM_OF_VENDORHID)
  Troubles              \* what the port may meet that it does not get over:
                        \* "again": SET_LINE_CODING once the buffer was filled
                        \* "cutoff": SET_LINE_CODING while a packet is sent
                        \* "empty": an empty packet from the host
                        \* "cleared": a completion wiped out by a clear of the
                        \* other direction's

ASSUME CdcAssumption ==
  /\ INBOUND_BUFFER_SIZE \in Nat /\ MaxPacket \in Nat \ {0}
  /\ INBOUND_BUFFER_SIZE >= 2 * MaxPacket
  /\ VendorHid \in BOOLEAN
  /\ Troubles \subseteq {"again", "cutoff", "empty", "cleared"}

VARIABLES
  lock,     \* hpcd.Lock
  hid,      \* main loop: inside HAL_PCD_EP_Transmit for a response
  usb,      \* where the USB interrupt is, "out" when it is not running
  \* inbound
  ring,     \* InboundBuffer: the number of the byte in each place
  cndtr,    \* places the receive DMA has left before it starts over
  started,  \* lock of hdma_rx: the DMA has not come round since its start
  read,     \* InboundBufferReadIndex
  progress, \* InboundTransferInProgress
  buff, len,\* xfer_buff and xfer_len of the IN endpoint
  in,       \* IN endpoint: "nak", "valid" or "sent" (CTR_TX pending)
  packet,   \* its packet memory
  came,     \* history: number of the next byte from the UART
  got,      \* history: number of the next byte the host is due
  \* outbound
  out,      \* OUT endpoint: "valid", "nak", or CTR_RX pending: "full", "empty"
  state,    \* UartHandle.State: "rx" or "tx_rx"
  renewal,  \* OutboundTransferNeedsRenewal
  broken    \* history: the ways, "in" or "out", that a trouble has stopped

inbound  == <<ring, cndtr, started, read, progress, buff, len, in, packet, came, got>>
outbound == <<out, state, renewal, broken>>
vars     == <<lock, hid, usb, inbound, outbound>>

\* Bytes are numbered modulo twice the buffer: one that is late or early by a
\* lap has another number.
Numbers == 0..(2 * INBOUND_BUFFER_SIZE - 1)

Plus(b, n) == (b + n) % (2 * INBOUND_BUFFER_SIZE)

Places == 0..(INBOUND_BUFFER_SIZE - 1)

\* After USBD_CDC_Init: the DMA receives and the OUT endpoint is prepared.
Init ==
  /\ lock = FALSE /\ hid = FALSE /\ usb = "out"
  /\ ring = [p \in Places |-> 0] /\ cndtr = INBOUND_BUFFER_SIZE /\ started = TRUE
  /\ read = 0 /\ progress = FALSE /\ buff = 0 /\ len = 0
  /\ in = "nak" /\ packet = <<>> /\ came = 0 /\ got = 0
  /\ out = "valid" /\ state = "rx" /\ renewal = FALSE /\ broken = {}

\* Bytes in the endpoint's packet memory that the host has not taken.
Loaded == IF in = "valid" THEN Len(packet) ELSE 0

\* Bytes in the buffer that are not yet in packet memory.
Waiting == Plus(came, 2 * INBOUND_BUFFER_SIZE - got - Loaded)

-----------------------------------------------------------------------------
(* The UART, the host and the main loop                                    *)

\* A byte arrives, and the DMA stores it.  INBOUND_BUFFER_SIZE is assumed to
\* be large enough for the rate of the UART: nothing is overrun.
Arrive ==
  /\ cndtr > 0 /\ Waiting < INBOUND_BUFFER_SIZE - 1
  /\ ring' = [ring EXCEPT ![INBOUND_BUFFER_SIZE - cndtr] = came]
  /\ cndtr' = cndtr - 1
  /\ came' = Plus(came, 1)
  /\ UNCHANGED <<lock, hid, usb, started, read, progress, buff, len, in, packet, got, outbound>>

\* The circular DMA starts over; its completion interrupt unlocks hdma_rx.
StartOver ==
  /\ cndtr = 0
  /\ cndtr' = INBOUND_BUFFER_SIZE /\ started' = FALSE
  /\ UNCHANGED <<lock, hid, usb, ring, read, progress, buff, len, in, packet, came, got, outbound>>

\* The host polls the IN endpoint.
Take ==
  /\ in = "valid" /\ in' = "sent"
  /\ got' = Plus(got, Len(packet))
  /\ UNCHANGED <<lock, hid, usb, ring, cndtr, started, read, progress, buff, len, packet, came, outbound>>

\* The host sends a packet.
Send ==
  /\ out = "valid"
  /\ out' \in {"full"} \cup (Troubles \cap {"empty"})
  /\ UNCHANGED <<lock, hid, usb, inbound, state, renewal, broken>>

\* The main loop sends a response: HAL_PCD_EP_Transmit from lock ...
HidLock ==
  /\ VendorHid /\ usb = "out" /\ ~hid /\ ~lock
  /\ hid' = TRUE /\ lock' = TRUE
  /\ UNCHANGED <<usb, inbound, outbound>>

\* ... to unlock.
HidUnlock ==
  /\ usb = "out" /\ hid
  /\ hid' = FALSE /\ lock' = FALSE
  /\ UNCHANGED <<usb, inbound, outbound>>

-----------------------------------------------------------------------------
(* Outbound                                                                *)

\* Slip: a transfer the HAL had no time for is forgotten.
ForgetfulReceivePacket ==
  IF lock THEN UNCHANGED <<out, renewal>> ELSE out' = "valid" /\ renewal' = FALSE

\* USBD_CDC_ReceivePacket, where nothing comes between its lock and unlock.
ReceivePacket ==
  IF lock THEN renewal' = TRUE /\ UNCHANGED out
  ELSE out' = "valid" /\ renewal' = FALSE

\* PCD_CLEAR_RX_EP_CTR writes the endpoint's register back as it was read: if
\* the host takes a packet in between, CTR_TX is wiped out.
ClearRx ==
  \/ UNCHANGED <<in, got>>
  \/ /\ "cleared" \in Troubles
     /\ in = "valid" /\ in' = "nak"
     /\ got' = Plus(got, Len(packet))

\* Slip: the endpoint is prepared for the next packet at once.
DataOutAndOn ==
  /\ usb = "out" /\ out = "full"
  /\ out' = "valid"
  /\ state' = "tx_rx"
  /\ UNCHANGED <<lock, hid, usb, inbound, renewal, broken>>

\* PCD_EP_ISR_Handler and USBD_CDC_DataOut: the packet goes to the DMA, if
\* HAL_UART_Transmit_DMA finds the transmitter idle and the packet not empty.
\* Only the DMA's completion would prepare the endpoint again.
DataOut ==
  /\ usb = "out" /\ out \in {"full", "empty"}
  /\ out' = "nak"
  /\ state' = IF out = "full" THEN "tx_rx" ELSE state
  /\ ClearRx
  /\ broken' = broken \cup (IF in' # in THEN {"in"} ELSE {})
                     \cup (IF out = "empty" THEN {"out"} ELSE {})
  /\ UNCHANGED <<lock, hid, usb, ring, cndtr, started, read, progress, buff, len, packet, came, renewal>>

\* The DMA interrupt, over anything: HAL_UART_TxCpltCallback.
TxCplt ==
  /\ state = "tx_rx"
  /\ state' = "rx"
  /\ ReceivePacket
  /\ UNCHANGED <<lock, hid, usb, inbound, broken>>

-----------------------------------------------------------------------------
(* Inbound                                                                 *)

\* HAL_PCD_EP_Transmit from its unlock on: the packet is in packet memory,
\* the endpoint valid.  xfer_len is what remains for packets after it.
Load ==
  /\ packet' = [i \in 1..(IF len < MaxPacket THEN len ELSE MaxPacket) |-> ring[buff + i - 1]]
  /\ len' = len - Len(packet')
  /\ in' = "valid"
  /\ lock' = FALSE

\* PCD_CLEAR_TX_EP_CTR, the other way about: CTR_RX is wiped out if the host
\* sends a packet in between.
ClearTx ==
  /\ \/ UNCHANGED <<out, broken>>
     \/ /\ "cleared" \in Troubles
        /\ out = "valid" /\ out' = "nak"
        /\ broken' = broken \cup {"out"}
  /\ UNCHANGED <<state, renewal>>

\* Slip: the transfer is not noted as over.
DataInLastUnnoted ==
  /\ usb = "out" /\ in = "sent" /\ len = 0
  /\ in' = "nak"
  /\ buff' = buff + Len(packet)
  /\ UNCHANGED <<lock, hid, usb, ring, cndtr, started, read, progress, len, packet, came, got, outbound>>

\* PCD_EP_ISR_Handler, the transfer over: USBD_CDC_DataIn.
DataInLast ==
  /\ usb = "out" /\ in = "sent" /\ len = 0
  /\ in' = "nak" /\ progress' = FALSE
  /\ buff' = buff + Len(packet)
  /\ ClearTx
  /\ UNCHANGED <<lock, hid, usb, ring, cndtr, started, read, len, packet, came, got>>

\* PCD_EP_ISR_Handler, more to send: HAL_PCD_EP_Transmit, whose result is
\* not looked at.
DataInMore ==
  /\ usb = "out" /\ in = "sent" /\ len > 0
  /\ in' = "nak"
  /\ buff' = buff + Len(packet)
  /\ ClearTx
  /\ IF lock THEN UNCHANGED <<lock, usb>> ELSE lock' = TRUE /\ usb' = "more"
  /\ UNCHANGED <<hid, ring, cndtr, started, read, progress, len, packet, came, got>>

DataInLoad ==
  /\ usb = "more" /\ usb' = "out"
  /\ Load
  /\ UNCHANGED <<hid, ring, cndtr, started, read, progress, buff, came, got, outbound>>

\* Where the DMA writes next; the place after the last is the first.
WriteIndex == IF cndtr = 0 THEN 0 ELSE INBOUND_BUFFER_SIZE - cndtr

\* Slip: over the buffer's end in one piece.
BuffsizeAcross ==
  IF read > WriteIndex THEN INBOUND_BUFFER_SIZE - read + WriteIndex ELSE WriteIndex - read

Buffsize == IF read > WriteIndex THEN INBOUND_BUFFER_SIZE - read ELSE WriteIndex - read

\* USBD_CDC_SOF, inbound: nothing new, a transfer in progress (in which case
\* the endpoint is left alone) or the lock taken; ...
SofSkip ==
  /\ usb = "out"
  /\ read = WriteIndex \/ progress \/ lock
  /\ usb' = "renew"
  /\ IF read = WriteIndex \/ progress THEN UNCHANGED <<buff, len>>
     ELSE buff' = read /\ len' = Buffsize
  /\ UNCHANGED <<lock, hid, ring, cndtr, started, read, progress, in, packet, came, got, outbound>>

\* Slip: a second transfer over the one in progress.
SofLockAlways ==
  /\ usb = "out" /\ read # WriteIndex /\ ~lock
  /\ buff' = read /\ len' = Buffsize
  /\ lock' = TRUE /\ usb' = "transmit"
  /\ UNCHANGED <<hid, ring, cndtr, started, read, progress, in, packet, came, got, outbound>>

\* ... or USBD_CDC_TransmitPacket of what is there up to the buffer's end.
SofLock ==
  /\ usb = "out" /\ read # WriteIndex /\ ~progress /\ ~lock
  /\ buff' = read /\ len' = Buffsize
  /\ lock' = TRUE /\ usb' = "transmit"
  /\ UNCHANGED <<hid, ring, cndtr, started, read, progress, in, packet, came, got, outbound>>

\* Slip: the read index is left at the buffer's end.
LoopNot(p) == p

Loop(p) == IF p = INBOUND_BUFFER_SIZE THEN 0 ELSE p

SofLoad ==
  /\ usb = "transmit" /\ usb' = "renew"
  /\ Load
  /\ progress' = TRUE
  /\ read' = Loop(read + len)
  /\ UNCHANGED <<hid, ring, cndtr, started, buff, came, got, outbound>>

\* USBD_CDC_SOF, outbound: no renewal is needed, ...
SofDone ==
  /\ usb = "renew" /\ ~renewal
  /\ usb' = "out"
  /\ UNCHANGED <<lock, hid, inbound, outbound>>

\* ... or USBD_CDC_ReceivePacket, the lock taken again or ...
SofBusy ==
  /\ usb = "renew" /\ renewal /\ lock
  /\ ReceivePacket
  /\ usb' = "out"
  /\ UNCHANGED <<lock, hid, inbound, state, broken>>

\* ... not: HAL_PCD_EP_Receive, ...
SofReceive ==
  /\ usb = "renew" /\ renewal /\ ~lock
  /\ out' = "valid"
  /\ usb' = "renewed"
  /\ UNCHANGED <<lock, hid, inbound, state, renewal, broken>>

\* ... and only then the flag: the host and the DMA may have been there first.
SofRenewed ==
  /\ usb = "renewed" /\ usb' = "out"
  /\ renewal' = FALSE
  /\ UNCHANGED <<lock, hid, inbound, out, state, broken>>

-----------------------------------------------------------------------------

\* CDC_SET_LINE_CODING: ComPort_Config starts the UART and the receive DMA
\* again.  HAL_DMA_Start_IT gives up on a locked handle, and the DMA then goes
\* on from where it was.  Of a packet that is being sent HAL_UART_DeInit takes
\* away the DMA's requests, so that its completion never comes.
SetLineCoding ==
  /\ usb = "out" /\ cndtr > 0
  /\ started \/ "again" \in Troubles
  /\ state = "rx" \/ "cutoff" \in Troubles
  /\ cndtr' = IF started THEN cndtr ELSE INBOUND_BUFFER_SIZE
  /\ started' = TRUE
  /\ state' = "rx"
  /\ broken' = IF state = "rx" THEN broken ELSE broken \cup {"out"}
  /\ UNCHANGED <<lock, hid, usb, ring, read, progress, buff, len, in, packet, came, got, out, renewal>>

-----------------------------------------------------------------------------

Sof == SofSkip \/ SofLock

DataIn == DataInLast \/ DataInMore

\* The USB interrupt once it has begun.
UsbGoesOn ==
  DataInLoad \/ SofLoad \/ SofDone \/ SofBusy \/ SofReceive \/ SofRenewed

Next ==
  \/ Arrive \/ StartOver \/ Take \/ Send
  \/ HidLock \/ HidUnlock
  \/ DataOut \/ TxCplt \/ DataIn \/ Sof \/ UsbGoesOn
  \/ SetLineCoding

\* An interrupt under way comes to its end; the host polls; the DMAs go on.
\* The pending causes of the USB interrupt and the main loop take turns, so
\* each gets its own again and again.  A response holds the lock for some
\* microseconds of a frame: not every start of frame falls among them.
Fairness ==
  /\ WF_vars(UsbGoesOn) /\ WF_vars(Take) /\ WF_vars(TxCplt) /\ WF_vars(StartOver)
  /\ SF_vars(DataIn) /\ SF_vars(DataOut) /\ SF_vars(HidUnlock)
  /\ SF_vars(Sof /\ ~lock)

Spec == Init /\ [][Next]_vars /\ Fairness

-----------------------------------------------------------------------------

TypeOK ==
  /\ lock \in BOOLEAN /\ hid \in BOOLEAN
  /\ usb \in {"out", "more", "transmit", "renew", "renewed"}
  /\ ring \in [Places -> Numbers] /\ came \in Numbers /\ got \in Numbers
  /\ cndtr \in 0..INBOUND_BUFFER_SIZE /\ started \in BOOLEAN
  /\ read \in Places /\ progress \in BOOLEAN
  /\ buff \in 0..INBOUND_BUFFER_SIZE /\ len \in 0..INBOUND_BUFFER_SIZE
  /\ in \in {"nak", "valid", "sent"}
  /\ packet \in Seq(Numbers) /\ Len(packet) <= MaxPacket
  /\ out \in {"valid", "nak", "full", "empty"} /\ state \in {"rx", "tx_rx"}
  /\ renewal \in BOOLEAN /\ broken \subseteq {"in", "out"}

\* Every byte from the UART reaches the host once and in its place, over the
\* buffer's end and over the packets of a transfer (USBD_CDC_SOF).
InOrder ==
  in = "valid" => \A i \in 1..Len(packet) : packet[i] = Plus(got, i - 1)

-----------------------------------------------------------------------------
(* Why the bytes stay in order                                             *)

\* The number of the next byte to go to packet memory, and the place of a
\* byte by its number.
Due == Plus(got, Loaded)

Place(n) == IF n < INBOUND_BUFFER_SIZE THEN n ELSE n - INBOUND_BUFFER_SIZE

\* The buffer holds what waits, each byte in its place, and the DMA writes
\* behind it.
RingInv ==
  /\ came \in {WriteIndex, WriteIndex + INBOUND_BUFFER_SIZE}
  /\ Waiting < INBOUND_BUFFER_SIZE
  /\ \A k \in 0..(Waiting - 1) : ring[Place(Plus(Due, k))] = Plus(Due, k)

\* Where the rest of the transfer starts: past the packet it was sent up to.
Rest == IF in = "nak" THEN buff ELSE buff + Len(packet)

\* A transfer in progress goes from the byte due to the read index or, there
\* looped, to the end of the buffer.  With its completion wiped out it goes
\* no further.  Without one, the byte due is at the read index.
TransferInv ==
  /\ in # "nak" => progress
  /\ usb = "more" => progress /\ in = "nak" /\ len > 0
  /\ usb = "transmit" => ~progress /\ buff = read /\ len > 0
                         /\ read + len <= INBOUND_BUFFER_SIZE /\ len <= Waiting
  /\ "in" \in broken => progress /\ in = "nak" /\ usb # "more"
  /\ IF progress
     THEN "in" \notin broken =>
            /\ Rest + len <= INBOUND_BUFFER_SIZE /\ len <= Waiting
            /\ Loop(Rest) = Place(Due) /\ Loop(Rest + len) = read
     ELSE read = Place(Due)

\* What keeps the bytes in order: the ring buffer, the transfer and the endpoint
\* agree on the byte the host is due (USBD_CDC_SOF, USBD_CDC_DataIn).
CdcInv == TypeOK /\ RingInv /\ TransferInv /\ InOrder

-----------------------------------------------------------------------------
\* OutboundBuffer belongs to the DMA until it is through: no context prepares
\* the OUT endpoint before, so no packet comes on top of it, and none finds
\* HAL_UART_Transmit_DMA busy and is dropped (USBD_CDC_DataOut).
OutboundOwned == out # "nak" => state = "rx"

\* The OUT endpoint takes the next packet in the end, though the DMA interrupt
\* finds the PCD handle locked by either of the contexts it came over and
\* whatever stops the inbound way.  It is left unprepared in three ways only:
\* after an empty packet, a SET_LINE_CODING that cuts a packet off, and a CTR_RX
\* wiped out.
OutRearmed == (out # "valid") ~> (out = "valid" \/ "out" \in broken)

\* What the comment in USBD_CDC_SOF says: "send all data between read index
\* and write index" (usbd_cdc.c:276).  The oldest byte the host is due reaches
\* it in the end.
AllDataSent == \A n \in Numbers : (got = n /\ came # n) ~> (got # n)

\* The HAL has refused the rest of a transfer, which nobody asks for again.
Refused == progress /\ usb = "out" /\ in = "nak" /\ len > 0

\* But for that, and a CTR_TX wiped out, every byte does reach the host: over
\* the packets of a transfer, the buffer's end, starts of frame that find the
\* handle locked, and an outbound way that has stopped.
DataSentOrRefused ==
  \A n \in Numbers : (got = n /\ came # n) ~> (got # n \/ Refused \/ "in" \in broken)

\* What the comment on the other branch says: when the read index is above
\* it, the "write index has looped around" (usbd_cdc.c:271), and what is from
\* the read index to the end of the buffer is new.
LoopedAround ==
  read > WriteIndex =>
    ring[read] = Plus(got, Loaded + IF progress THEN len ELSE 0)
=============================================================================
