------------------------------ MODULE Stm32Pma ------------------------------
(***************************************************************************)
(* The packet memory (PMA) of the STM32F0x2 USB peripheral: how            *)
(* USBD_LL_Init and the PMAConfig of the classes hand it out, and what the *)
(* packets of one endpoint do to those of another afterwards.              *)
(*                                                                         *)
(* Memory is kept in units of 8 bytes, which all sizes are multiples of.   *)
(* A unit holds the name of the endpoint whose packet was last written     *)
(* there: a packet is intact while all its units still bear its name.      *)
(***************************************************************************)
EXTENDS Naturals, Sequences

CONSTANTS
  Configs,  \* pairs of NUM_OF_CDC_UARTS and NUM_OF_VENDORHID
  PmaSize   \* units of packet memory (1024 bytes: 128)

Unit(bytes) == bytes \div 8

\* Slips: sizes given in units of two bytes, without the report number, and
\* stepped by another endpoint's.
Ep0Words    == Unit(32)
HidEpReport == Unit(56)
CdcOutAsCmd == Unit(8)

USB_MAX_EP0_SIZE == Unit(64)
HID_EP_SIZE      == Unit(64)
MaxPacket        == Unit(64)

CDC_DATA_IN_MAX_PACKET_SIZE  == Unit(256)
CDC_DATA_OUT_MAX_PACKET_SIZE == Unit(64)
CDC_CMD_PACKET_SIZE          == Unit(8)

\* 8 bytes for each of the 8 endpoints of the handle.
BufferTable == 8

VARIABLES
  config,       \* the element of Configs the firmware is built with
  calls,        \* HAL_PCDEx_PMAConfig calls to come: endpoint and size
  pma_address,
  address,      \* ep->pmaadress by endpoint
  mem,          \* packet memory
  pending       \* endpoints with a packet in memory that is yet to be read

vars == <<config, calls, pma_address, address, mem, pending>>

Ep0Out   == <<"EP0", 0>>
Ep0In    == <<"EP0", 128>>
Cdc(i)   == << [ep |-> <<"CDC in", i>>,  size |-> CDC_DATA_IN_MAX_PACKET_SIZE],
               [ep |-> <<"CDC out", i>>, size |-> CDC_DATA_OUT_MAX_PACKET_SIZE],
               [ep |-> <<"CDC cmd", i>>, size |-> CDC_CMD_PACKET_SIZE] >>
Hid(i)   == << [ep |-> <<"HID in", i>>,  size |-> HID_EP_SIZE],
               [ep |-> <<"HID out", i>>, size |-> HID_EP_SIZE] >>

\* The order of composite_list: the UARTs, then the vendor HIDs.
CdcCall(k)    == Cdc(1 + ((k - 1) \div 3))[1 + ((k - 1) % 3)]
HidCall(k)    == Hid(1 + ((k - 1) \div 2))[1 + ((k - 1) % 2)]
ClassCalls(c) == [k \in 1..((3 * c[1]) + (2 * c[2])) |->
                    IF k <= 3 * c[1] THEN CdcCall(k) ELSE HidCall(k - (3 * c[1]))]
Ep0Calls      == << [ep |-> Ep0Out, size |-> USB_MAX_EP0_SIZE],
                    [ep |-> Ep0In, size |-> USB_MAX_EP0_SIZE] >>

\* What the classes of a build take, an instance of each at a time.
CdcSpace == CDC_DATA_IN_MAX_PACKET_SIZE + CDC_DATA_OUT_MAX_PACKET_SIZE + CDC_CMD_PACKET_SIZE
HidSpace == HID_EP_SIZE + HID_EP_SIZE

\* The code does not check that a build fits into packet memory; those
\* considered do, with the buffer of endpoint 0, which the first class
\* endpoint is given once more.
ASSUME PmaAssumption ==
  /\ PmaSize \in Nat /\ BufferTable + USB_MAX_EP0_SIZE <= PmaSize
  /\ Configs \subseteq Nat \X Nat
  /\ \A c \in Configs : BufferTable + (CdcSpace * c[1]) + (HidSpace * c[2]) <= PmaSize

Init ==
  /\ config \in Configs
  /\ calls = Ep0Calls \o ClassCalls(config)
  /\ pma_address = BufferTable
  /\ address = <<>> /\ mem = [u \in 0..(PmaSize - 1) |-> "free"] /\ pending = {}

\* HAL_PCDEx_PMAConfig, for a single buffer.
PMAConfig(e, place) == [x \in (DOMAIN address) \cup {e} |-> IF x = e THEN place ELSE address[x]]

\* USBD_LL_Init: "pma_address =+ USB_MAX_EP0_SIZE" is an assignment of
\* USB_MAX_EP0_SIZE, made before the call.
ConfigEp0 ==
  /\ calls # <<>> /\ Head(calls).ep[1] = "EP0"
  /\ pma_address' = USB_MAX_EP0_SIZE
  /\ address' = PMAConfig(Head(calls).ep, pma_address')
  /\ calls' = Tail(calls)
  /\ UNCHANGED <<config, mem, pending>>

\* USBD_CDC_PMAConfig and USBD_VendorHID_PMAConfig: the call, then the step.
ConfigClass ==
  /\ calls # <<>> /\ Head(calls).ep[1] # "EP0"
  /\ address' = PMAConfig(Head(calls).ep, pma_address)
  /\ pma_address' = pma_address + Head(calls).size
  /\ calls' = Tail(calls)
  /\ UNCHANGED <<config, mem, pending>>

-----------------------------------------------------------------------------
\* The longest packet of an endpoint; EP0 is written by SETUP packets, and
\* sends and receives data of up to 64 bytes.
Longest(e) == IF e[1] = "CDC cmd" THEN CDC_CMD_PACKET_SIZE ELSE MaxPacket

Units(e) == address[e] .. (address[e] + Longest(e) - 1)

\* A packet is put into memory: by PCD_WritePMA for an IN endpoint, by the
\* host for an OUT endpoint whose buffer was given back.  A SETUP packet
\* does not wait for that.
Write(e) ==
  /\ calls = <<>>
  /\ e \notin pending \/ e = Ep0Out
  /\ mem' = [u \in DOMAIN mem |-> IF u \in Units(e) THEN e ELSE mem[u]]
  /\ pending' = pending \cup {e}
  /\ UNCHANGED <<config, calls, pma_address, address>>

\* It is read: by the host, or by PCD_ReadPMA.
Read(e) ==
  /\ calls = <<>> /\ e \in pending
  /\ pending' = pending \ {e}
  /\ UNCHANGED <<config, calls, pma_address, address, mem>>

Next == ConfigEp0 \/ ConfigClass \/ \E e \in DOMAIN address : Write(e) \/ Read(e)

Spec == Init /\ [][Next]_vars
-----------------------------------------------------------------------------
Intact(e) == \A u \in Units(e) : mem[u] = e

Classes == {e \in DOMAIN address : e[1] # "EP0"}
First   == IF config[1] > 0 THEN <<"CDC in", 1>> ELSE <<"HID in", 1>>

TypeOK ==
  /\ config \in Configs /\ pma_address \in Nat
  /\ \A e \in DOMAIN address : address[e] \in 0..(PmaSize - 1)
  /\ pending \subseteq DOMAIN address

\* Where the calls of a build place its endpoints.
CdcBase(i) == BufferTable + (CdcSpace * (i - 1))
HidBase(i) == BufferTable + (CdcSpace * config[1]) + (HidSpace * (i - 1))
Base(e) ==
  CASE e[1] = "EP0"     -> USB_MAX_EP0_SIZE
    [] e[1] = "CDC in"  -> CdcBase(e[2])
    [] e[1] = "CDC out" -> CdcBase(e[2]) + CDC_DATA_IN_MAX_PACKET_SIZE
    [] e[1] = "CDC cmd" -> CdcBase(e[2]) + CDC_DATA_IN_MAX_PACKET_SIZE + CDC_DATA_OUT_MAX_PACKET_SIZE
    [] e[1] = "HID in"  -> HidBase(e[2])
    [] e[1] = "HID out" -> HidBase(e[2]) + HID_EP_SIZE

Named(name, n) == {<<name, i>> : i \in 1..n}
Endpoints ==
  {Ep0Out, Ep0In}
  \cup Named("CDC in", config[1]) \cup Named("CDC out", config[1]) \cup Named("CDC cmd", config[1])
  \cup Named("HID in", config[2]) \cup Named("HID out", config[2])

IsEp0(call) == call.ep[1] = "EP0"

\* The calls to come are of the build, endpoint 0 first, and each class call
\* finds pma_address where the call before it has left it.
After(call) == IF IsEp0(call) THEN USB_MAX_EP0_SIZE ELSE Base(call.ep) + call.size
CallsChained ==
  /\ calls \in Seq([ep : Endpoints, size : Nat])
  /\ \A k \in 1..Len(calls) : k > 1 /\ ~IsEp0(calls[k]) => Base(calls[k].ep) = After(calls[k - 1])
  /\ calls # <<>> /\ ~IsEp0(Head(calls)) => pma_address = Base(Head(calls).ep)

\* No packet of any endpoint reaches the buffer table at the start of packet
\* memory, by which the peripheral finds all the buffers, or leaves memory.
InsidePma ==
  calls = <<>> => \A e \in DOMAIN address : Units(e) \subseteq BufferTable..(PmaSize - 1)

\* Once all endpoints are set up, a packet of a class endpoint after the
\* first is read as it was written, whatever comes and goes elsewhere.
LaterIntact == \A e \in pending \cap (Classes \ {First}) : Intact(e)

\* The invariant the proofs use: every endpoint set up so far is where the
\* build places it, and the calls to come continue from there.
PmaInv ==
  /\ TypeOK
  /\ DOMAIN mem = 0..(PmaSize - 1)
  /\ CallsChained
  /\ \A e \in DOMAIN address : e \in Endpoints /\ address[e] = Base(e)
  /\ calls # <<>> => pending = {}
  /\ LaterIntact

\* The same of all of them: "allocate PMA memory for all endpoints".
AllIntact == \A e \in pending \cap Classes : Intact(e)
=============================================================================
