--------------------------- MODULE Stm32Cdc_proofs ---------------------------
(***************************************************************************)
(* For every size of the buffers, with and without a debugger beside the   *)
(* port and however the three contexts interleave:                         *)
(*                                                                         *)
(* - OutboundBuffer has one owner.  The lock plays no part in it: what     *)
(*   keeps a second packet away is that a renewal is due only while the    *)
(*   endpoint and the DMA rest.                                            *)
(*                                                                         *)
(* - The bytes from the UART reach the host in order.  What keeps them so  *)
(*   is that a transfer in progress covers the buffer from the byte due to *)
(*   the read index, and that what waits never fills the buffer.           *)
(***************************************************************************)
EXTENDS Stm32Cdc, TLAPS

\* A renewal is due, or under way, only while nothing is sent.
RenewalInv ==
  /\ usb = "renewed" => state = "rx"
  /\ renewal = TRUE /\ usb # "renewed" => state = "rx" /\ out = "nak"

OwnedInv == renewal \in BOOLEAN /\ RenewalInv /\ OutboundOwned

\* The first packet finds the transmitter idle.
LEMMA InitOwned == Init => OwnedInv
<1>. SUFFICES ASSUME Init PROVE OwnedInv
  OBVIOUS
<1>1. renewal \in BOOLEAN /\ renewal = FALSE
  BY Zenon DEF Init
<1>. QED BY <1>1 DEF Init, OwnedInv, RenewalInv, OutboundOwned

\* What leaves the outbound path alone, and does not end a renewal.
LEMMA OthersOwned ==
  ASSUME OwnedInv, UNCHANGED outbound,
         usb' = usb \/ (usb # "renewed" /\ usb' # "renewed")
  PROVE  OwnedInv'
<1>1. renewal' \in BOOLEAN /\ renewal' = renewal /\ out' = out /\ state' = state
  BY Zenon DEF OwnedInv, outbound
<1>. QED BY <1>1 DEF OwnedInv, RenewalInv, OutboundOwned

\* The UART, the host, the main loop and most of the inbound path are such
\* steps.
LEMMA InboundOwned ==
  ASSUME OwnedInv,
         \/ Arrive \/ StartOver \/ Take \/ HidLock \/ HidUnlock
         \/ Sof \/ DataInLoad \/ SofLoad \/ SofDone
  PROVE  OwnedInv'
<1>1. UNCHANGED outbound
  BY DEF Arrive, StartOver, Take, HidLock, HidUnlock,
         Sof, SofSkip, SofLock, DataInLoad, SofLoad, SofDone
<1>2. usb' = usb \/ (usb # "renewed" /\ usb' # "renewed")
  BY DEF Arrive, StartOver, Take, HidLock, HidUnlock,
         Sof, SofSkip, SofLock, DataInLoad, SofLoad, SofDone
<1>. QED BY <1>1, <1>2, OthersOwned

\* An inbound completion can leave the OUT endpoint unprepared, and a new line
\* coding the transmitter idle: neither makes a packet and the DMA meet.
LEMMA StoppedOwned ==
  ASSUME OwnedInv, DataIn \/ SetLineCoding PROVE OwnedInv'
<1>1. renewal' \in BOOLEAN /\ renewal' = renewal
  BY Zenon DEF OwnedInv, DataIn, DataInLast, DataInMore, ClearTx, SetLineCoding
<1>2. CASE DataIn
  <2>1. usb' # "renewed" /\ usb = "out" /\ state' = state /\ (out' = out \/ out' = "nak")
    BY <1>2 DEF DataIn, DataInLast, DataInMore, ClearTx
  <2>. QED BY <1>1, <2>1 DEF OwnedInv, RenewalInv, OutboundOwned
<1>3. CASE SetLineCoding
  <2>1. usb' = usb /\ usb = "out" /\ state' = "rx" /\ out' = out
    BY <1>3 DEF SetLineCoding
  <2>. QED BY <1>1, <2>1 DEF OwnedInv, RenewalInv, OutboundOwned
<1>. QED BY <1>2, <1>3

\* A packet is sent by the host, given to the DMA, and done with.
LEMMA PacketOwned == ASSUME OwnedInv, Send \/ DataOut \/ TxCplt PROVE OwnedInv'
<1>. renewal \in BOOLEAN
  BY Zenon DEF OwnedInv
<1>1. CASE Send
  <2>1. renewal' \in BOOLEAN /\ renewal' = renewal
    BY <1>1, Zenon DEF Send, OwnedInv
  <2>. QED BY <1>1, <2>1 DEF Send, OwnedInv, RenewalInv, OutboundOwned
<1>2. CASE DataOut
  <2>1. renewal' \in BOOLEAN /\ renewal' = renewal
    BY <1>2, Zenon DEF DataOut, OwnedInv
  <2>. QED BY <1>2, <2>1 DEF DataOut, OwnedInv, RenewalInv, OutboundOwned
<1>3. CASE TxCplt
  <2>1. state = "tx_rx" /\ state' = "rx" /\ usb' = usb /\ out = "nak" /\ usb # "renewed"
    BY <1>3 DEF TxCplt, OwnedInv, RenewalInv, OutboundOwned
  <2>2. CASE lock
    <3>1. renewal' = TRUE /\ out' = out
      BY <1>3, <2>2 DEF TxCplt, ReceivePacket
    <3>. QED BY <2>1, <3>1 DEF OwnedInv, RenewalInv, OutboundOwned
  <2>3. CASE ~lock
    <3>1. renewal' = FALSE /\ out' = "valid"
      BY <1>3, <2>3 DEF TxCplt, ReceivePacket
    <3>. QED BY <2>1, <3>1 DEF OwnedInv, RenewalInv, OutboundOwned
  <2>. QED BY <2>2, <2>3
<1>. QED BY <1>1, <1>2, <1>3

\* A transfer that found the lock taken is renewed by the start of frame.
LEMMA RenewalOwned ==
  ASSUME OwnedInv, SofBusy \/ SofReceive \/ SofRenewed PROVE OwnedInv'
<1>1. CASE SofBusy
  <2>1. renewal' = TRUE /\ out' = out
    BY <1>1 DEF SofBusy, ReceivePacket
  <2>2. state' = state /\ renewal = TRUE /\ usb = "renew" /\ usb' = "out"
    <3>1. renewal \in BOOLEAN /\ renewal
      BY <1>1, Zenon DEF SofBusy, OwnedInv
    <3>. QED BY <1>1, <3>1 DEF SofBusy
  <2>. QED BY <2>1, <2>2 DEF OwnedInv, RenewalInv, OutboundOwned
<1>2. CASE SofReceive
  <2>1. renewal \in BOOLEAN /\ renewal /\ renewal' = renewal
    BY <1>2, Zenon DEF SofReceive, OwnedInv
  <2>2. state' = state /\ usb = "renew" /\ usb' = "renewed" /\ out' = "valid"
    BY <1>2 DEF SofReceive
  <2>. QED BY <2>1, <2>2 DEF OwnedInv, RenewalInv, OutboundOwned
<1>3. CASE SofRenewed
  BY <1>3 DEF SofRenewed, OwnedInv, RenewalInv, OutboundOwned
<1>. QED BY <1>1, <1>2, <1>3

\* OutboundBuffer belongs to the DMA until it is through with it: no context
\* prepares the OUT endpoint before (USBD_CDC_DataOut, HAL_UART_TxCpltCallback
\* and USBD_CDC_SOF).
THEOREM CdcOutboundOwned == Spec => []OutboundOwned
<1>1. OwnedInv /\ [Next]_vars => OwnedInv'
  <2>. SUFFICES ASSUME OwnedInv, [Next]_vars PROVE OwnedInv'
    OBVIOUS
  <2>1. CASE Next
    BY <2>1, InboundOwned, StoppedOwned, PacketOwned, RenewalOwned DEF Next, UsbGoesOn
  <2>2. CASE UNCHANGED vars
    BY <2>2, OthersOwned DEF vars
  <2>. QED BY <2>1, <2>2
<1>2. OwnedInv => OutboundOwned
  BY DEF OwnedInv
<1>. QED BY <1>1, <1>2, InitOwned, PTL DEF Spec

-----------------------------------------------------------------------------
(* The bytes in order                                                      *)

\* Division with remainder, where the quotient is known.
LEMMA Modulus ==
  ASSUME NEW m \in Nat \ {0}, NEW a \in Int
  PROVE  /\ a % m \in 0..(m - 1)
         /\ 0 <= a /\ a < m => a % m = a
         /\ m <= a /\ a < 2 * m => a % m = a - m
         /\ -m <= a /\ a < 0 => a % m = a + m
<1>. DEFINE q == a \div m
<1>1. a % m \in 0..(m - 1)
  OBVIOUS
<1>2. q \in Int /\ a = m * q + (a % m)
  OBVIOUS
<1>. HIDE DEF q
<1>. QED BY <1>1, <1>2

\* The sizes as numbers.
LEMMA Sizes ==
  /\ INBOUND_BUFFER_SIZE \in Nat \ {0} /\ MaxPacket \in Nat \ {0}
  /\ MaxPacket <= INBOUND_BUFFER_SIZE
  /\ 2 * INBOUND_BUFFER_SIZE \in Nat \ {0}
BY CdcAssumption

\* Numbers are counted round the two laps of the buffer.
LEMMA Laps ==
  ASSUME NEW b \in Int, NEW n \in Int
  PROVE  /\ Plus(b, n) \in Numbers
         /\ 0 <= b + n /\ b + n < 2 * INBOUND_BUFFER_SIZE => Plus(b, n) = b + n
         /\ 2 * INBOUND_BUFFER_SIZE <= b + n /\ b + n < 4 * INBOUND_BUFFER_SIZE =>
              Plus(b, n) = b + n - 2 * INBOUND_BUFFER_SIZE
         /\ -(2 * INBOUND_BUFFER_SIZE) <= b + n /\ b + n < 0 =>
              Plus(b, n) = b + n + 2 * INBOUND_BUFFER_SIZE
<1>. DEFINE m == 2 * INBOUND_BUFFER_SIZE
            a == b + n
<1>1. m \in Nat \ {0} /\ a \in Int /\ 2 * m = 4 * INBOUND_BUFFER_SIZE
  BY Sizes
<1>2. Plus(b, n) = a % m
  BY DEF Plus
<1>3. Numbers = 0..(m - 1)
  BY DEF Numbers
<1>. HIDE DEF m, a
<1>4. /\ a % m \in 0..(m - 1)
      /\ 0 <= a /\ a < m => a % m = a
      /\ m <= a /\ a < 2 * m => a % m = a - m
      /\ -m <= a /\ a < 0 => a % m = a + m
  BY <1>1, Modulus
<1>5. /\ Plus(b, n) \in Numbers
      /\ 0 <= a /\ a < m => Plus(b, n) = a
      /\ m <= a /\ a < 2 * m => Plus(b, n) = a - m
      /\ -m <= a /\ a < 0 => Plus(b, n) = a + m
  BY <1>2, <1>3, <1>4
<1>. QED BY <1>1, <1>5 DEF a, m

\* Of the bytes from g to c the first l are left out.
LEMMA Between ==
  ASSUME NEW c \in Numbers, NEW g \in Numbers, NEW l \in 0..INBOUND_BUFFER_SIZE
  PROVE  LET d == Plus(g, l)
         IN  /\ d \in Numbers
             /\ d = IF g + l < 2 * INBOUND_BUFFER_SIZE THEN g + l
                    ELSE g + l - 2 * INBOUND_BUFFER_SIZE
             /\ Plus(c, 2 * INBOUND_BUFFER_SIZE - g - l) =
                  IF d <= c THEN c - d ELSE c - d + 2 * INBOUND_BUFFER_SIZE
<1>. DEFINE d == Plus(g, l)
            h == 2 * INBOUND_BUFFER_SIZE - g - l
            w == Plus(c, h)
            N == INBOUND_BUFFER_SIZE
<1>1. c \in Int /\ g \in Int /\ l \in Int /\ N \in Int /\ N > 0
      /\ 0 <= c /\ c < 2 * N /\ 0 <= g /\ g < 2 * N /\ 0 <= l /\ l <= N
  BY Sizes DEF Numbers
<1>2. /\ d \in Numbers
      /\ 0 <= g + l /\ g + l < 2 * N => d = g + l
      /\ 2 * N <= g + l /\ g + l < 4 * N => d = g + l - 2 * N
  BY <1>1, Laps
<1>3. h \in Int /\ h = 2 * N - g - l
  BY <1>1
<1>4. /\ 0 <= c + h /\ c + h < 2 * N => w = c + h
      /\ 2 * N <= c + h /\ c + h < 4 * N => w = c + h - 2 * N
      /\ -(2 * N) <= c + h /\ c + h < 0 => w = c + h + 2 * N
  BY <1>1, <1>3, Laps
<1>. HIDE DEF d, h, w, N
<1>5. /\ d \in Numbers
      /\ d = IF g + l < 2 * N THEN g + l ELSE g + l - 2 * N
      /\ w = IF d <= c THEN c - d ELSE c - d + 2 * N
  BY <1>1, <1>2, <1>3, <1>4
<1>. QED BY <1>5 DEF d, h, w, N

\* TypeOK of the inbound path ...
InTypes ==
  /\ ring \in [Places -> Numbers] /\ came \in Numbers /\ got \in Numbers
  /\ cndtr \in 0..INBOUND_BUFFER_SIZE
  /\ read \in Places /\ progress \in BOOLEAN
  /\ buff \in 0..INBOUND_BUFFER_SIZE /\ len \in 0..INBOUND_BUFFER_SIZE
  /\ in \in {"nak", "valid", "sent"}
  /\ packet \in Seq(Numbers) /\ Len(packet) <= MaxPacket

\* ... and with it what CdcInv says of that path.
InboundInv == InTypes /\ RingInv /\ TransferInv /\ InOrder

\* The byte due and what waits behind it, as numbers.
LEMMA Counts ==
  ASSUME InTypes
  PROVE  /\ Loaded \in 0..MaxPacket
         /\ Due \in Numbers
         /\ Due = IF got + Loaded < 2 * INBOUND_BUFFER_SIZE THEN got + Loaded
                  ELSE got + Loaded - 2 * INBOUND_BUFFER_SIZE
         /\ Waiting = IF Due <= came THEN came - Due ELSE came - Due + 2 * INBOUND_BUFFER_SIZE
<1>1. Loaded \in 0..MaxPacket
  BY Sizes DEF Loaded, InTypes
<1>2. Loaded \in 0..INBOUND_BUFFER_SIZE
  BY <1>1, Sizes
<1>3. came \in Numbers /\ got \in Numbers
  BY DEF InTypes
<1>. QED BY <1>1, <1>2, <1>3, Between DEF Due, Waiting

\* The same after a step.
LEMMA CountsNext ==
  ASSUME InTypes'
  PROVE  /\ Loaded' \in 0..MaxPacket
         /\ Due' \in Numbers
         /\ Due' = IF got' + Loaded' < 2 * INBOUND_BUFFER_SIZE THEN got' + Loaded'
                  ELSE got' + Loaded' - 2 * INBOUND_BUFFER_SIZE
         /\ Waiting' = IF Due' <= came' THEN came' - Due'
                       ELSE came' - Due' + 2 * INBOUND_BUFFER_SIZE
<1>1. Loaded' \in 0..MaxPacket
  BY Sizes DEF Loaded, InTypes
<1>2. Loaded' \in 0..INBOUND_BUFFER_SIZE
  BY <1>1, Sizes
<1>3. came' \in Numbers /\ got' \in Numbers
  BY DEF InTypes
<1>. QED BY <1>1, <1>2, <1>3, Between DEF Due, Waiting

\* What leaves the inbound path alone.
LEMMA FrameIn ==
  ASSUME InboundInv, WriteIndex' = WriteIndex, cndtr' \in 0..INBOUND_BUFFER_SIZE,
         UNCHANGED <<ring, read, progress, buff, len, in, packet, came, got>>,
         ("in" \in broken') <=> ("in" \in broken),
         usb' = usb \/ usb' \notin {"more", "transmit"}
  PROVE  InboundInv'
<1>1. InTypes'
  BY DEF InboundInv, InTypes
<1>2. Loaded' = Loaded /\ Rest' = Rest
  BY DEF Loaded, Rest
<1>3. Due' = Due /\ Waiting' = Waiting
  BY <1>2 DEF Due, Waiting
<1>4. RingInv'
  BY <1>3 DEF InboundInv, RingInv
<1>5. InOrder'
  BY DEF InboundInv, InOrder
<1>6. TransferInv'
  <2>1. progress' \in BOOLEAN /\ progress \in BOOLEAN /\ progress' = progress
    BY Zenon DEF InboundInv, InTypes
  <2>. QED BY <1>2, <1>3, <2>1 DEF InboundInv, TransferInv
<1>. QED BY <1>1, <1>4, <1>5, <1>6 DEF InboundInv

\* A byte arrives in a place that is free.
LEMMA ArriveIn == ASSUME InboundInv, Arrive PROVE InboundInv'
<1>. DEFINE N == INBOUND_BUFFER_SIZE
<1>a. N \in Nat \ {0} /\ Places = 0..(N - 1) /\ Numbers = 0..(2 * N - 1)
  BY Sizes DEF Places, Numbers
<1>b. InTypes /\ RingInv
  BY DEF InboundInv
<1>c. cndtr \in 1..N /\ came \in Numbers /\ came \in Int
  BY <1>a, <1>b DEF InTypes, Arrive
<1>d. came' = IF came + 1 < 2 * N THEN came + 1 ELSE 0
  <2>1. /\ 0 <= came + 1 /\ came + 1 < 2 * N => Plus(came, 1) = came + 1
        /\ 2 * N <= came + 1 /\ came + 1 < 4 * N => Plus(came, 1) = came + 1 - 2 * N
    BY <1>c, Laps
  <2>2. came' = Plus(came, 1)
    BY DEF Arrive
  <2>. HIDE DEF N
  <2>. QED BY <1>a, <1>c, <2>1, <2>2
<1>1. InTypes'
  <2>1. came' \in Numbers /\ cndtr' \in 0..N
    BY <1>a, <1>c, <1>d DEF Arrive
  <2>2. ring' \in [Places -> Numbers]
    BY <1>b, <1>c DEF InTypes, Arrive
  <2>3. progress' \in BOOLEAN
    BY <1>b, Zenon DEF InTypes, Arrive
  <2>. QED BY <1>b, <2>1, <2>2, <2>3 DEF InTypes, Arrive
<1>2. Loaded' = Loaded /\ Rest' = Rest
  BY DEF Loaded, Rest, Arrive
<1>3. Due' = Due
  BY <1>2 DEF Due, Arrive
<1>4. Due \in Numbers /\ Waiting = IF Due <= came THEN came - Due ELSE came - Due + 2 * N
  BY <1>b, Counts
<1>5. Waiting' = IF Due <= came' THEN came' - Due ELSE came' - Due + 2 * N
  BY <1>1, <1>3, CountsNext
<1>6. Waiting' = Waiting + 1 /\ Waiting \in 0..(N - 2)
  <2>1. Waiting < N - 1
    BY DEF Arrive
  <2>. HIDE DEF N
  <2>. QED BY <1>a, <1>c, <1>d, <1>4, <1>5, <2>1
<1>7. came \in {N - cndtr, N - cndtr + N}
  BY <1>a, <1>b, <1>c DEF RingInv, WriteIndex
<1>8. RingInv'
  <2>1. came' \in {WriteIndex', WriteIndex' + N}
    <3>1. WriteIndex' = IF cndtr = 1 THEN 0 ELSE N - (cndtr - 1)
      BY <1>a, <1>c DEF WriteIndex, Arrive
    <3>. HIDE DEF N
    <3>. QED BY <1>a, <1>c, <1>d, <1>7, <3>1
  <2>2. ASSUME NEW k \in 0..(Waiting' - 1)
        PROVE  ring'[Place(Plus(Due, k))] = Plus(Due, k)
    <3>1. k \in Int /\ k >= 0 /\ k <= Waiting
      BY <1>6
    <3>2. Plus(Due, k) = IF Due + k < 2 * N THEN Due + k ELSE Due + k - 2 * N
      <4>1. Due \in Int /\ 0 <= Due + k /\ Due + k < 4 * N
        BY <1>a, <1>4, <1>6, <3>1
      <4>2. /\ 0 <= Due + k /\ Due + k < 2 * N => Plus(Due, k) = Due + k
            /\ 2 * N <= Due + k /\ Due + k < 4 * N => Plus(Due, k) = Due + k - 2 * N
        BY <3>1, <4>1, Laps
      <4>. HIDE DEF N
      <4>. QED BY <1>a, <3>1, <4>1, <4>2
    <3>3. Place(came) = N - cndtr
      BY <1>a, <1>c, <1>7 DEF Place
    <3>4. CASE k = Waiting
      <4>1. Plus(Due, k) = came
        <5>. HIDE DEF N
        <5>. QED BY <1>a, <1>4, <1>6, <3>2, <3>4, <1>c
      <4>. QED BY <1>a, <1>b, <1>c, <3>3, <4>1 DEF InTypes, Arrive, Places
    <3>5. CASE k < Waiting
      <4>1. ring[Place(Plus(Due, k))] = Plus(Due, k)
        BY <1>b, <3>1, <3>5, <1>6 DEF RingInv
      <4>2. Plus(Due, k) # came /\ Plus(Due, k) # came + N /\ Plus(Due, k) # came - N
        <5>. HIDE DEF N
        <5>. QED BY <1>a, <1>c, <1>4, <1>6, <3>1, <3>2, <3>5
      <4>3. Place(Plus(Due, k)) # Place(came) /\ Place(Plus(Due, k)) \in Places
        BY <1>a, <1>c, <3>1, <3>2, <4>2, <1>4 DEF Place
      <4>. QED BY <1>b, <3>3, <4>1, <4>3 DEF InTypes, Arrive
    <3>. QED BY <3>1, <3>4, <3>5, <1>6
  <2>3. Waiting' < N
    BY <1>a, <1>6
  <2>. QED BY <1>3, <2>1, <2>2, <2>3 DEF RingInv
<1>9. InOrder'
  BY DEF InboundInv, InOrder, Arrive
<1>10. TransferInv'
  <2>1. progress' \in BOOLEAN /\ progress \in BOOLEAN /\ progress' = progress
    BY Zenon DEF InboundInv, InTypes, Arrive
  <2>2. broken' = broken /\ len \in Nat
    BY <1>b DEF InTypes, Arrive, outbound
  <2>. QED BY <1>2, <1>3, <1>6, <2>1, <2>2 DEF InboundInv, TransferInv, Arrive
<1>. QED BY <1>1, <1>8, <1>9, <1>10 DEF InboundInv

\* What has been taken of the endpoint is no longer loaded: the byte due is
\* the same.
LEMMA TakenSame ==
  ASSUME InTypes, InTypes', in = "valid", in' # "valid",
         got' = Plus(got, Len(packet)), came' = came
  PROVE  Due' = Due /\ Waiting' = Waiting
<1>1. Loaded = Len(packet) /\ Loaded' = 0
  BY DEF Loaded
<1>2. Due = got'
  BY <1>1 DEF Due
<1>3. got' \in Numbers
  BY DEF InTypes
<1>4. Due' = got'
  BY <1>1, <1>3, CountsNext, Sizes DEF Numbers
<1>. QED BY <1>2, <1>4, Counts, CountsNext

\* What the host takes is in order still, and a completion that is wiped out
\* ends the transfer for good.
LEMMA TakeIn ==
  ASSUME InboundInv, in = "valid", got' = Plus(got, Len(packet)),
         UNCHANGED <<usb, ring, cndtr, read, progress, buff, len, packet, came>>,
         \/ in' = "sent" /\ broken' = broken
         \/ in' = "nak" /\ usb = "out" /\ "in" \in broken'
  PROVE  InboundInv'
<1>1. InTypes
  BY DEF InboundInv
<1>2. progress' \in BOOLEAN /\ progress \in BOOLEAN /\ progress' = progress /\ progress = TRUE
  <2>1. progress \in BOOLEAN
    BY <1>1, Zenon DEF InTypes
  <2>2. progress
    BY DEF InboundInv, TransferInv
  <2>. QED BY <2>1, <2>2
<1>3. InTypes'
  <2>1. got' \in Numbers
    <3>1. got \in Int /\ Len(packet) \in Int
      BY <1>1, Sizes DEF InTypes, Numbers
    <3>. QED BY <3>1, Laps
  <2>. QED BY <1>1, <1>2, <2>1 DEF InTypes
<1>4. Due' = Due /\ Waiting' = Waiting
  BY <1>1, <1>3, TakenSame
<1>5. RingInv'
  BY <1>4 DEF InboundInv, RingInv, WriteIndex
<1>6. InOrder'
  BY DEF InOrder
<1>7. TransferInv'
  <2>1. in' = "sent" => Rest' = Rest
    BY DEF Rest
  <2>. QED BY <1>2, <1>4, <2>1 DEF InboundInv, TransferInv
<1>. QED BY <1>3, <1>5, <1>6, <1>7 DEF InboundInv

\* A packet has been sent: the transfer is over, or goes on behind it.
LEMMA DataInIn == ASSUME InboundInv, DataIn PROVE InboundInv'
<1>1. InTypes /\ in = "sent" /\ usb = "out" /\ in' = "nak" /\ buff' = buff + Len(packet)
      /\ UNCHANGED <<ring, cndtr, read, len, packet, came, got>>
  BY DEF InboundInv, DataIn, DataInLast, DataInMore
<1>2. ("in" \in broken') <=> ("in" \in broken)
  BY DEF DataIn, DataInLast, DataInMore, ClearTx
<1>3. progress \in BOOLEAN /\ progress = TRUE /\ "in" \notin broken
  <2>1. progress \in BOOLEAN
    BY <1>1, Zenon DEF InTypes
  <2>2. progress /\ "in" \notin broken
    BY <1>1 DEF InboundInv, TransferInv
  <2>. QED BY <2>1, <2>2
<1>4. Rest = buff' /\ Rest' = buff'
  BY <1>1 DEF Rest
<1>5. /\ buff' + len <= INBOUND_BUFFER_SIZE /\ len <= Waiting
      /\ Loop(buff') = Place(Due) /\ Loop(buff' + len) = read
  BY <1>3, <1>4 DEF InboundInv, TransferInv
<1>6. buff' \in 0..INBOUND_BUFFER_SIZE /\ len \in Nat
  BY <1>1, <1>5, Sizes DEF InTypes
<1>7. Loaded = 0 /\ Loaded' = 0
  BY <1>1 DEF Loaded
<1>8. Due' = Due /\ Waiting' = Waiting
  BY <1>1, <1>7 DEF Due, Waiting
<1>9. RingInv'
  BY <1>1, <1>8 DEF InboundInv, RingInv, WriteIndex
<1>10. InOrder'
  BY <1>1 DEF InOrder
<1>11. CASE DataInLast
  <2>1. progress' \in BOOLEAN /\ progress' = FALSE /\ usb' = "out" /\ len = 0
    BY <1>11, Zenon DEF DataInLast
  <2>2. buff' + len = buff'
    <3>1. len = 0
      BY <2>1
    <3>2. buff' \in Int
      BY <1>6, Sizes
    <3>3. \A b, n \in Int : n = 0 => b + n = b
      OBVIOUS
    <3>4. len \in Int
      BY <1>6
    <3>. QED BY <3>1, <3>2, <3>3, <3>4
  <2>3. read = Place(Due)
    BY <1>5, <2>2
  <2>4. InTypes'
    BY <1>1, <1>6, <2>1 DEF InTypes
  <2>5. TransferInv'
    BY <1>1, <1>2, <1>3, <1>8, <2>1, <2>3 DEF TransferInv, Place
  <2>. QED BY <1>9, <1>10, <2>4, <2>5 DEF InboundInv
<1>12. CASE DataInMore
  <2>1. progress' \in BOOLEAN /\ progress' = progress
    BY <1>12, <1>3, Zenon DEF DataInMore
  <2>2. len > 0 /\ usb' \in {"out", "more"}
    BY <1>12, <1>1 DEF DataInMore
  <2>3. InTypes'
    BY <1>1, <1>6, <2>1 DEF InTypes
  <2>4. TransferInv'
    BY <1>1, <1>2, <1>3, <1>4, <1>5, <1>8, <2>1, <2>2 DEF TransferInv, Place, Loop
  <2>. QED BY <1>9, <1>10, <2>3, <2>4 DEF InboundInv
<1>. QED BY <1>11, <1>12 DEF DataIn

\* A packet goes to packet memory: its bytes are those due, and what waits
\* behind them follows on.
LEMMA LoadIn ==
  ASSUME InboundInv, Load, in = "nak", len > 0, buff = Place(Due),
         buff + len <= INBOUND_BUFFER_SIZE, len <= Waiting,
         UNCHANGED <<came, got, ring, buff, cndtr>>
  PROVE  /\ packet' \in Seq(Numbers) /\ Len(packet') <= MaxPacket
         /\ in' = "valid" /\ len' \in 0..INBOUND_BUFFER_SIZE
         /\ Rest' + len' = buff + len /\ Rest' + len' <= INBOUND_BUFFER_SIZE
         /\ RingInv' /\ InOrder'
         /\ len' <= Waiting' /\ Loop(Rest') = Place(Due')
<1>. DEFINE N == INBOUND_BUFFER_SIZE
            n == IF len < MaxPacket THEN len ELSE MaxPacket
<1>a. N \in Nat \ {0} /\ Places = 0..(N - 1) /\ Numbers = 0..(2 * N - 1)
      /\ MaxPacket \in Nat \ {0} /\ MaxPacket <= N
  BY Sizes DEF Places, Numbers
<1>b. InTypes /\ RingInv
  BY DEF InboundInv
<1>c. len \in 1..N /\ n \in 1..len /\ n <= MaxPacket /\ buff \in 0..(N - 1)
  BY <1>a, <1>b DEF InTypes
<1>d. packet' = [i \in 1..n |-> ring[buff + i - 1]]
  BY DEF Load
<1>e. Loaded = 0 /\ got \in Numbers /\ came \in Numbers
  BY <1>b DEF Loaded, InTypes
<1>f. Due = got /\ Waiting = IF Due <= came THEN came - Due ELSE came - Due + 2 * N
  BY <1>a, <1>b, <1>e, Counts
<1>g. got \in {buff, buff + N}
  BY <1>a, <1>c, <1>e, <1>f DEF Place
<1>h. Waiting \in 0..(N - 1)
  <2>1. Waiting < N
    BY <1>b DEF RingInv
  <2>. HIDE DEF N
  <2>. QED BY <1>a, <1>e, <1>f, <2>1
<1>1. ASSUME NEW k \in 0..(Waiting - 1)
      PROVE  /\ Plus(got, k) = IF got + k < 2 * N THEN got + k ELSE got + k - 2 * N
             /\ ring[Place(Plus(got, k))] = Plus(got, k)
             /\ k < len => Place(Plus(got, k)) = buff + k
  <2>1. k \in Int /\ got \in Int /\ 0 <= k /\ k < N
    BY <1>a, <1>e, <1>h
  <2>2. /\ 0 <= got + k /\ got + k < 2 * N => Plus(got, k) = got + k
        /\ 2 * N <= got + k /\ got + k < 4 * N => Plus(got, k) = got + k - 2 * N
    BY <2>1, Laps
  <2>3. Plus(got, k) = IF got + k < 2 * N THEN got + k ELSE got + k - 2 * N
    <3>. HIDE DEF N
    <3>. QED BY <1>a, <1>e, <2>1, <2>2
  <2>4. ring[Place(Plus(got, k))] = Plus(got, k)
    BY <1>b, <1>f DEF RingInv
  <2>5. k < len => Place(Plus(got, k)) = buff + k
    <3>. HIDE DEF n
    <3>. QED BY <1>a, <1>c, <1>g, <2>1, <2>3 DEF Place
  <2>. QED BY <2>3, <2>4, <2>5
<1>2. packet' \in Seq(Numbers) /\ Len(packet') = n
  <2>1. ASSUME NEW i \in 1..n PROVE ring[buff + i - 1] \in Numbers
    <3>1. buff + i - 1 \in Places
      <4>. HIDE DEF n
      <4>. QED BY <1>a, <1>c
    <3>. QED BY <1>b, <3>1 DEF InTypes
  <2>2. n \in Nat
    <3>. HIDE DEF n
    <3>. QED BY <1>a, <1>c
  <2>. HIDE DEF n
  <2>. QED BY <1>d, <2>1, <2>2
<1>3. in' = "valid" /\ len' = len - n
  BY <1>2 DEF Load
<1>4. len' \in 0..N /\ Rest' = buff + n /\ Rest' + len' = buff + len
  <2>1. Rest' = buff + n
    BY <1>2, <1>3 DEF Rest
  <2>. HIDE DEF n
  <2>. QED BY <1>a, <1>c, <1>3, <2>1
<1>5. Loaded' = n
  BY <1>2, <1>3 DEF Loaded
<1>6. Due' = IF got + n < 2 * N THEN got + n ELSE got + n - 2 * N
  <2>1. Due' = Plus(got, n)
    BY <1>5 DEF Due
  <2>2. n \in 0..N
    <3>. HIDE DEF n
    <3>. QED BY <1>a, <1>c
  <2>3. Plus(got, n) = IF got + n < 2 * N THEN got + n ELSE got + n - 2 * N
    <3>. HIDE DEF n
    <3>. QED BY <1>e, <2>2, Between
  <2>. QED BY <2>1, <2>3
<1>7. Waiting' = Waiting - n
  <2>1. Waiting' = Plus(came, 2 * N - got - n)
    BY <1>5 DEF Waiting
  <2>2. n \in 0..N
    <3>. HIDE DEF n
    <3>. QED BY <1>a, <1>c
  <2>3. Plus(came, 2 * N - got - n) =
           IF Due' <= came THEN came - Due' ELSE came - Due' + 2 * N
    <3>1. Due' = Plus(got, n)
      BY <1>5 DEF Due
    <3>. HIDE DEF n
    <3>. QED BY <1>e, <2>2, <3>1, Between
  <2>. HIDE DEF n, N
  <2>. QED BY <1>a, <1>c, <1>e, <1>f, <1>h, <1>6, <2>1, <2>3
<1>8. len' <= Waiting'
  <2>. HIDE DEF n
  <2>. QED BY <1>c, <1>h, <1>3, <1>7
<1>9. Loop(Rest') = Place(Due')
  <2>. HIDE DEF n
  <2>. QED BY <1>a, <1>c, <1>e, <1>g, <1>4, <1>6 DEF Loop, Place
<1>10. RingInv'
  <2>1. came' \in {WriteIndex', WriteIndex' + N} /\ Waiting' < N
    <3>1. WriteIndex' = WriteIndex
      BY DEF WriteIndex
    <3>2. Waiting' < N
      <4>. HIDE DEF n
      <4>. QED BY <1>a, <1>c, <1>h, <1>7
    <3>. QED BY <1>b, <3>1, <3>2 DEF RingInv
  <2>2. ASSUME NEW k \in 0..(Waiting' - 1)
        PROVE  ring'[Place(Plus(Due', k))] = Plus(Due', k)
    <3>1. n + k \in 0..(Waiting - 1) /\ k \in Int /\ 0 <= k /\ k < N
      <4>. HIDE DEF n
      <4>. QED BY <1>a, <1>c, <1>h, <1>7
    <3>2. Plus(Due', k) = Plus(got, n + k)
      <4>1. Plus(got, n + k) =
              IF got + (n + k) < 2 * N THEN got + (n + k) ELSE got + (n + k) - 2 * N
        BY <1>1, <3>1
      <4>2. Due' \in Int /\ 0 <= Due' /\ Due' < 2 * N
        <5>. HIDE DEF n
        <5>. QED BY <1>a, <1>c, <1>e, <1>6
      <4>3. /\ 0 <= Due' + k /\ Due' + k < 2 * N => Plus(Due', k) = Due' + k
            /\ 2 * N <= Due' + k /\ Due' + k < 4 * N => Plus(Due', k) = Due' + k - 2 * N
        BY <3>1, <4>2, Laps
      <4>. HIDE DEF n, N
      <4>. QED BY <1>a, <1>c, <1>e, <1>6, <3>1, <4>1, <4>2, <4>3
    <3>. QED BY <1>1, <3>1, <3>2
  <2>. QED BY <2>1, <2>2 DEF RingInv
<1>11. InOrder'
  <2>1. ASSUME NEW i \in 1..n PROVE packet'[i] = Plus(got, i - 1)
    <3>1. i - 1 \in 0..(Waiting - 1) /\ i - 1 < len
      <4>. HIDE DEF n
      <4>. QED BY <1>c, <1>h
    <3>2. ring[buff + (i - 1)] = Plus(got, i - 1)
      BY <1>1, <3>1
    <3>3. buff + (i - 1) = buff + i - 1
      <4>. HIDE DEF n
      <4>. QED BY <1>c
    <3>. QED BY <1>d, <3>2, <3>3
  <2>. HIDE DEF n
  <2>. QED BY <1>2, <2>1 DEF InOrder
<1>. QED
  <2>1. Len(packet') <= MaxPacket /\ Rest' + len' <= N
    <3>. HIDE DEF n
    <3>. QED BY <1>c, <1>2, <1>4
  <2>. QED BY <1>2, <1>3, <1>4, <1>8, <1>9, <1>10, <1>11, <2>1

\* More of a transfer goes out.
LEMMA DataInLoadIn == ASSUME InboundInv, DataInLoad PROVE InboundInv'
<1>1. InTypes /\ usb = "more" /\ usb' = "out" /\ Load
      /\ UNCHANGED <<ring, cndtr, read, buff, came, got, broken>>
  BY DEF InboundInv, DataInLoad, outbound
<1>2. progress \in BOOLEAN /\ progress' \in BOOLEAN /\ progress' = progress /\ progress = TRUE
  <2>1. progress \in BOOLEAN /\ progress' = progress
    BY <1>1, Zenon DEF InTypes, DataInLoad
  <2>2. progress
    BY <1>1 DEF InboundInv, TransferInv
  <2>. QED BY <2>1, <2>2
<1>3. in = "nak" /\ len > 0 /\ "in" \notin broken
  BY <1>1 DEF InboundInv, TransferInv
<1>4. Rest = buff
  BY <1>3 DEF Rest
<1>5. /\ buff + len <= INBOUND_BUFFER_SIZE /\ len <= Waiting
      /\ Loop(buff) = Place(Due) /\ Loop(buff + len) = read
  BY <1>2, <1>3, <1>4 DEF InboundInv, TransferInv
<1>6. buff = Place(Due)
  <2>1. buff # INBOUND_BUFFER_SIZE
    BY <1>1, <1>3, <1>5, Sizes DEF InTypes
  <2>. QED BY <1>5, <2>1 DEF Loop
<1>7. /\ packet' \in Seq(Numbers) /\ Len(packet') <= MaxPacket
      /\ in' = "valid" /\ len' \in 0..INBOUND_BUFFER_SIZE
      /\ Rest' + len' = buff + len /\ Rest' + len' <= INBOUND_BUFFER_SIZE
      /\ RingInv' /\ InOrder'
      /\ len' <= Waiting' /\ Loop(Rest') = Place(Due')
  BY <1>1, <1>3, <1>5, <1>6, LoadIn
<1>8. InTypes'
  BY <1>1, <1>2, <1>7 DEF InTypes
<1>9. TransferInv'
  BY <1>1, <1>2, <1>3, <1>5, <1>7 DEF TransferInv, Loop
<1>. QED BY <1>7, <1>8, <1>9 DEF InboundInv

\* A transfer starts.
LEMMA SofLoadIn == ASSUME InboundInv, SofLoad PROVE InboundInv'
<1>1. InTypes /\ usb = "transmit" /\ usb' = "renew" /\ Load
      /\ UNCHANGED <<ring, cndtr, buff, came, got, broken>>
  BY DEF InboundInv, SofLoad, outbound
<1>2. progress \in BOOLEAN /\ progress' \in BOOLEAN /\ progress' = TRUE /\ progress = FALSE
  <2>1. progress \in BOOLEAN /\ progress' = TRUE
    BY <1>1, Zenon DEF InTypes, SofLoad
  <2>2. ~progress
    BY <1>1 DEF InboundInv, TransferInv
  <2>. QED BY <2>1, <2>2
<1>3. in = "nak" /\ "in" \notin broken /\ read = Place(Due)
  <2>1. in # "nak" => progress
    BY DEF InboundInv, TransferInv
  <2>2. "in" \in broken => progress
    BY DEF InboundInv, TransferInv
  <2>3. ~progress => read = Place(Due)
    BY DEF InboundInv, TransferInv
  <2>. QED BY <1>2, <2>1, <2>2, <2>3
<1>4. buff = read /\ len > 0 /\ read + len <= INBOUND_BUFFER_SIZE /\ len <= Waiting
  BY <1>1 DEF InboundInv, TransferInv
<1>5. /\ packet' \in Seq(Numbers) /\ Len(packet') <= MaxPacket
      /\ in' = "valid" /\ len' \in 0..INBOUND_BUFFER_SIZE
      /\ Rest' + len' = buff + len /\ Rest' + len' <= INBOUND_BUFFER_SIZE
      /\ RingInv' /\ InOrder'
      /\ len' <= Waiting' /\ Loop(Rest') = Place(Due')
  BY <1>1, <1>3, <1>4, LoadIn
<1>6. read' = Loop(buff + len)
  BY <1>4 DEF SofLoad
<1>7. read' \in Places
  BY <1>1, <1>4, <1>6, Sizes DEF InTypes, Loop, Places
<1>8. InTypes'
  BY <1>1, <1>2, <1>5, <1>7 DEF InTypes
<1>9. TransferInv'
  BY <1>1, <1>2, <1>3, <1>5, <1>6 DEF TransferInv, Loop
<1>. QED BY <1>5, <1>8, <1>9 DEF InboundInv

\* What is new at a start of frame, up to the end of the buffer, is waiting.
LEMMA NewWaits ==
  ASSUME InTypes, RingInv, in = "nak", read = Place(Due)
  PROVE  /\ Buffsize \in 0..INBOUND_BUFFER_SIZE
         /\ read + Buffsize <= INBOUND_BUFFER_SIZE /\ Buffsize <= Waiting
         /\ read # WriteIndex => Buffsize > 0
<1>. DEFINE N == INBOUND_BUFFER_SIZE
<1>1. N \in Nat \ {0} /\ cndtr \in 0..N /\ read \in 0..(N - 1) /\ Due \in 0..(2 * N - 1)
  BY Sizes, Counts DEF InTypes, Places, Numbers
<1>2. Waiting = IF Due <= came THEN came - Due ELSE came - Due + 2 * N
  BY Counts
<1>3. WriteIndex \in 0..(N - 1) /\ came \in {WriteIndex, WriteIndex + N} /\ Waiting < N
  BY <1>1 DEF RingInv, WriteIndex
<1>4. Due \in {read, read + N}
  BY <1>1 DEF Place
<1>5. Buffsize = IF read > WriteIndex THEN N - read ELSE WriteIndex - read
  BY DEF Buffsize
<1>6. /\ Buffsize \in 0..N /\ read + Buffsize <= N /\ Buffsize <= Waiting
      /\ read # WriteIndex => Buffsize > 0
  <2>. HIDE DEF N
  <2>. QED BY <1>1, <1>2, <1>3, <1>4, <1>5
<1>. QED BY <1>6

\* A start of frame, up to the lock.
LEMMA SofIn == ASSUME InboundInv, Sof PROVE InboundInv'
<1>1. InTypes /\ usb = "out" /\ usb' \in {"renew", "transmit"}
      /\ UNCHANGED <<ring, cndtr, read, in, packet, came, got, broken>>
  BY DEF InboundInv, Sof, SofSkip, SofLock, outbound
<1>2. progress \in BOOLEAN /\ progress' = progress /\ progress' \in BOOLEAN
  BY Zenon, <1>1 DEF Sof, SofSkip, SofLock, InTypes
<1>3. CASE UNCHANGED <<buff, len>> /\ usb' = "renew"
  <2>1. WriteIndex' = WriteIndex
    BY <1>1 DEF WriteIndex
  <2>2. cndtr' \in 0..INBOUND_BUFFER_SIZE
    BY <1>1 DEF InTypes
  <2>. QED BY <1>1, <1>2, <1>3, <2>1, <2>2, FrameIn
<1>4. CASE ~progress /\ read # WriteIndex /\ buff' = read /\ len' = Buffsize
  <2>1. progress = FALSE /\ progress' = FALSE
    BY <1>2, <1>4
  <2>2. in = "nak" /\ "in" \notin broken /\ read = Place(Due)
    <3>1. in # "nak" => progress
      BY DEF InboundInv, TransferInv
    <3>2. "in" \in broken => progress
      BY DEF InboundInv, TransferInv
    <3>3. ~progress => read = Place(Due)
      BY DEF InboundInv, TransferInv
    <3>. QED BY <2>1, <3>1, <3>2, <3>3
  <2>3. /\ Buffsize \in 0..INBOUND_BUFFER_SIZE
        /\ read + Buffsize <= INBOUND_BUFFER_SIZE /\ Buffsize <= Waiting
        /\ Buffsize > 0
    BY <1>1, <1>4, <2>2, NewWaits DEF InboundInv
  <2>4. buff' \in 0..INBOUND_BUFFER_SIZE
    BY <1>1, <1>4, Sizes DEF InTypes, Places
  <2>5. InTypes'
    BY <1>1, <1>2, <1>4, <2>3, <2>4 DEF InTypes
  <2>6. Loaded' = Loaded
    BY <1>1 DEF Loaded
  <2>7. Due' = Due /\ Waiting' = Waiting
    BY <1>1, <2>6 DEF Due, Waiting
  <2>8. RingInv' /\ InOrder'
    BY <1>1, <2>7 DEF InboundInv, RingInv, InOrder, WriteIndex
  <2>9. TransferInv'
    BY <1>1, <1>4, <2>1, <2>2, <2>3, <2>7 DEF TransferInv, Place
  <2>. QED BY <2>5, <2>8, <2>9 DEF InboundInv
<1>. QED
  <2>1. ASSUME SofSkip PROVE InboundInv'
    <3>1. CASE read = WriteIndex \/ progress
      BY <2>1, <3>1, <1>3 DEF SofSkip
    <3>2. CASE ~(read = WriteIndex \/ progress)
      BY <2>1, <3>2, <1>4 DEF SofSkip
    <3>. QED BY <3>1, <3>2
  <2>2. ASSUME SofLock PROVE InboundInv'
    BY <2>2, <1>4 DEF SofLock
  <2>. QED BY <2>1, <2>2 DEF Sof

\* The steps that do not touch the inbound path.
LEMMA OthersIn ==
  ASSUME InboundInv, "again" \notin Troubles,
         \/ StartOver \/ Send \/ HidLock \/ HidUnlock \/ TxCplt
         \/ SofDone \/ SofBusy \/ SofReceive \/ SofRenewed \/ SetLineCoding
         \/ UNCHANGED vars
  PROVE  InboundInv'
<1>1. UNCHANGED <<ring, read, buff, len, in, packet, came, got>>
  BY DEF StartOver, Send, HidLock, HidUnlock, TxCplt, SofDone, SofBusy, SofReceive,
         SofRenewed, SetLineCoding, vars, inbound
<1>2. progress' = progress
  BY Zenon DEF StartOver, Send, HidLock, HidUnlock, TxCplt, SofDone, SofBusy, SofReceive,
         SofRenewed, SetLineCoding, vars, inbound
<1>3. ("in" \in broken') <=> ("in" \in broken)
  BY DEF StartOver, Send, HidLock, HidUnlock, TxCplt, SofDone, SofBusy, SofReceive,
         SofRenewed, SetLineCoding, vars, outbound
<1>4. usb' = usb \/ usb' \notin {"more", "transmit"}
  BY DEF StartOver, Send, HidLock, HidUnlock, TxCplt, SofDone, SofBusy, SofReceive,
         SofRenewed, SetLineCoding, vars
<1>5. cndtr \in 0..INBOUND_BUFFER_SIZE
  BY DEF InboundInv, InTypes
<1>6. cndtr' = cndtr \/ (cndtr = 0 /\ cndtr' = INBOUND_BUFFER_SIZE)
  BY DEF StartOver, Send, HidLock, HidUnlock, TxCplt, SofDone, SofBusy, SofReceive,
         SofRenewed, SetLineCoding, vars, inbound
<1>7. WriteIndex' = WriteIndex /\ cndtr' \in 0..INBOUND_BUFFER_SIZE
  BY <1>5, <1>6, Sizes DEF WriteIndex
<1>. QED BY <1>1, <1>2, <1>3, <1>4, <1>7, FrameIn

\* An outbound packet, with the inbound completion wiped out or not.
LEMMA DataOutIn == ASSUME InboundInv, DataOut PROVE InboundInv'
<1>1. usb = "out" /\ UNCHANGED <<usb, ring, cndtr, read, buff, len, packet, came>>
  BY DEF DataOut
<1>2. progress' = progress
  BY Zenon DEF DataOut
<1>3. CASE UNCHANGED <<in, got>>
  <2>1. ("in" \in broken') <=> ("in" \in broken)
    BY <1>3 DEF DataOut
  <2>2. WriteIndex' = WriteIndex /\ cndtr' \in 0..INBOUND_BUFFER_SIZE
    BY <1>1 DEF WriteIndex, InboundInv, InTypes
  <2>. QED BY <1>1, <1>2, <1>3, <2>1, <2>2, FrameIn
<1>4. CASE in = "valid" /\ in' = "nak" /\ got' = Plus(got, Len(packet))
  <2>1. "in" \in broken'
    BY <1>4 DEF DataOut
  <2>. QED BY <1>1, <1>2, <1>4, <2>1, TakeIn
<1>. QED BY <1>3, <1>4 DEF DataOut, ClearRx

\* The host polls the endpoint.
LEMMA HostTakesIn == ASSUME InboundInv, Take PROVE InboundInv'
<1>1. UNCHANGED <<usb, ring, cndtr, read, buff, len, packet, came, broken>>
  BY DEF Take, outbound
<1>2. progress' = progress
  BY Zenon DEF Take
<1>. QED BY <1>1, <1>2, TakeIn DEF Take

\* Nothing has come yet.
LEMMA InitIn == Init => InboundInv
<1>. SUFFICES ASSUME Init PROVE InboundInv
  OBVIOUS
<1>. DEFINE N == INBOUND_BUFFER_SIZE
<1>1. N \in Nat \ {0} /\ Places = 0..(N - 1) /\ Numbers = 0..(2 * N - 1)
  BY Sizes DEF Places, Numbers
<1>2. progress \in BOOLEAN /\ progress = FALSE
  BY Zenon DEF Init
<1>3. InTypes
  BY <1>1, <1>2, Sizes DEF Init, InTypes
<1>4. Loaded = 0
  BY DEF Init, Loaded
<1>5. Due = 0 /\ Waiting = 0
  BY <1>1, <1>3, <1>4, Counts DEF Init
<1>6. WriteIndex = 0
  BY <1>1 DEF Init, WriteIndex
<1>7. RingInv
  BY <1>1, <1>5, <1>6 DEF Init, RingInv
<1>8. TransferInv
  BY <1>1, <1>2, <1>5 DEF Init, TransferInv, Place
<1>. QED BY <1>3, <1>7, <1>8 DEF Init, InboundInv, InOrder

\* TypeOK of all the rest.
OutTypes ==
  /\ lock \in BOOLEAN /\ hid \in BOOLEAN
  /\ usb \in {"out", "more", "transmit", "renew", "renewed"}
  /\ started \in BOOLEAN
  /\ out \in {"valid", "nak", "full", "empty"} /\ state \in {"rx", "tx_rx"}
  /\ renewal \in BOOLEAN /\ broken \subseteq {"in", "out"}

\* It holds at first ...
LEMMA InitOut == Init => OutTypes
<1>. SUFFICES ASSUME Init PROVE OutTypes
  OBVIOUS
<1>1. lock \in BOOLEAN /\ hid \in BOOLEAN /\ started \in BOOLEAN /\ renewal \in BOOLEAN
  BY Zenon DEF Init
<1>. QED BY <1>1 DEF Init, OutTypes

\* ... and after every step.
LEMMA NextOut == ASSUME OutTypes, [Next]_vars PROVE OutTypes'
<1>1. lock' \in BOOLEAN /\ hid' \in BOOLEAN
  BY Zenon DEF OutTypes, Next, vars, Arrive, StartOver, Take, Send, HidLock, HidUnlock,
     DataOut, TxCplt, DataIn, DataInLast, DataInMore, Sof, SofSkip, SofLock, UsbGoesOn,
     DataInLoad, SofLoad, SofDone, SofBusy, SofReceive, SofRenewed, SetLineCoding, Load
<1>2. started' \in BOOLEAN
  BY Zenon DEF OutTypes, Next, vars, Arrive, StartOver, Take, Send, HidLock, HidUnlock,
     DataOut, TxCplt, DataIn, DataInLast, DataInMore, Sof, SofSkip, SofLock, UsbGoesOn,
     DataInLoad, SofLoad, SofDone, SofBusy, SofReceive, SofRenewed, SetLineCoding, inbound
<1>3. renewal' \in BOOLEAN
  BY Zenon DEF OutTypes, Next, vars, Arrive, StartOver, Take, Send, HidLock, HidUnlock,
     DataOut, TxCplt, DataIn, DataInLast, DataInMore, Sof, SofSkip, SofLock, UsbGoesOn,
     DataInLoad, SofLoad, SofDone, SofBusy, SofReceive, SofRenewed, SetLineCoding, outbound,
     ReceivePacket, ClearTx
<1>4. usb' \in {"out", "more", "transmit", "renew", "renewed"}
  BY DEF OutTypes, Next, vars, Arrive, StartOver, Take, Send, HidLock, HidUnlock,
     DataOut, TxCplt, DataIn, DataInLast, DataInMore, Sof, SofSkip, SofLock, UsbGoesOn,
     DataInLoad, SofLoad, SofDone, SofBusy, SofReceive, SofRenewed, SetLineCoding
<1>5. out' \in {"valid", "nak", "full", "empty"} /\ state' \in {"rx", "tx_rx"}
  BY DEF OutTypes, Next, vars, Arrive, StartOver, Take, Send, HidLock, HidUnlock,
     DataOut, TxCplt, DataIn, DataInLast, DataInMore, Sof, SofSkip, SofLock, UsbGoesOn,
     DataInLoad, SofLoad, SofDone, SofBusy, SofReceive, SofRenewed, SetLineCoding, outbound,
     ReceivePacket, ClearTx
<1>6. broken' \subseteq {"in", "out"}
  BY DEF OutTypes, Next, vars, Arrive, StartOver, Take, Send, HidLock, HidUnlock,
     DataOut, TxCplt, DataIn, DataInLast, DataInMore, Sof, SofSkip, SofLock, UsbGoesOn,
     DataInLoad, SofLoad, SofDone, SofBusy, SofReceive, SofRenewed, SetLineCoding, outbound,
     ClearTx
<1>. QED BY <1>1, <1>2, <1>3, <1>4, <1>5, <1>6 DEF OutTypes

\* The ring buffer, the transfer in progress and the endpoint agree on the
\* byte the host is due, over the buffer's end, the packets of a transfer, a
\* refusal by the HAL and a completion wiped out (USBD_CDC_SOF,
\* USBD_CDC_DataIn, PCD_EP_ISR_Handler), unless a SET_LINE_CODING moves the DMA
\* back under the read index.
THEOREM CdcInvariant == ASSUME "again" \notin Troubles PROVE Spec => []CdcInv
<1>1. Init => OutTypes /\ InboundInv
  BY InitOut, InitIn
<1>2. OutTypes /\ InboundInv /\ [Next]_vars => OutTypes' /\ InboundInv'
  <2>. SUFFICES ASSUME OutTypes, InboundInv, [Next]_vars PROVE OutTypes' /\ InboundInv'
    OBVIOUS
  <2>1. OutTypes'
    BY NextOut
  <2>2. InboundInv'
    BY OthersIn, ArriveIn, HostTakesIn, DataOutIn, DataInIn, SofIn, DataInLoadIn, SofLoadIn
    DEF Next, UsbGoesOn
  <2>. QED BY <2>1, <2>2
<1>3. OutTypes /\ InboundInv => CdcInv
  BY Zenon DEF OutTypes, InboundInv, InTypes, CdcInv, TypeOK
<1>. QED BY <1>1, <1>2, <1>3, PTL DEF Spec

\* The variables have their types: every index of USBD_CDC_SOF stays in
\* InboundBuffer, also that of the packet being sent.
THEOREM CdcTypes == ASSUME "again" \notin Troubles PROVE Spec => []TypeOK
<1>1. CdcInv => TypeOK
  BY DEF CdcInv
<1>. QED BY <1>1, CdcInvariant, PTL

\* Every byte from the UART reaches the host once and in its place
\* (USBD_CDC_SOF, HAL_PCD_EP_Transmit).
THEOREM CdcInOrder == ASSUME "again" \notin Troubles PROVE Spec => []InOrder
<1>1. CdcInv => InOrder
  BY DEF CdcInv
<1>. QED BY <1>1, CdcInvariant, PTL
=============================================================================
