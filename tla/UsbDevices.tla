----------------------------- MODULE UsbDevices -----------------------------
(***************************************************************************)
(* A host and one of the four firmwares: whichever it is, its control      *)
(* transfers keep the contract of UsbControl, and its debugger sessions,   *)
(* through bus resets and configurations, that of DapSession.              *)
(***************************************************************************)
EXTENDS Nuc121, Samd11, Pic16, Stm32Usb

CONSTANT Firmwares \* those the device may run

Init == HostInit /\ (NucInit \/ SamInit \/ PicInit \/ StmInit) /\ dev.fw \in Firmwares

Next == NucNext \/ SamNext \/ PicNext \/ StmNext

Spec ==
  /\ Init /\ [][Next]_usbvars
  /\ NucFairness /\ SamFairness /\ PicFairness /\ StmFairness

-----------------------------------------------------------------------------
\* The address the device answers to.
Addr ==
  CASE Nuc -> NucAddr
    [] Sam -> SamAddr
    [] Pic -> PicAddr
    [] Stm -> StmAddr

\* The commands it is yet to answer.
Owed ==
  CASE Nuc -> NucOwed
    [] Sam -> SamOwed
    [] Pic -> PicOwed
    [] Stm -> StmOwed

\* A packet it needs will not come, or has been refused by its own HAL.
Lost ==
  \/ Sam /\ SamLost
  \/ Pic /\ PicLost
  \/ Stm /\ dev.refused

\* Only the NUC121 carries responses over from one session to the next: one
\* in the IN endpoint, which is not emptied, and one on its way there.
Leftover == IF Nuc THEN 2 ELSE 0

Control == INSTANCE UsbControl WITH addr <- Addr, lost <- Lost
Session == INSTANCE DapSession WITH
  PacketCount <- DAP_PACKET_COUNT, owed <- Owed, leftover <- Leftover

\* The data of a request are its own, in order and whole; what the firmware
\* knows is answered and all else refused, the address changes by the transfer
\* that gives it.
ControlContract == Control!Spec

\* A command is answered by the response to it, whatever resets and
\* configurations came before, up to the leftovers of the firmware.
SessionContract == Session!Spec

\* The device and the host flip their toggles each on its own, and start again
\* from DATA0 at a configuration and when a halt is cleared: neither ever takes
\* a packet of the debugger's for one it has seen.
TogglesAgree == PicToggles /\ SamToggles

\* The device is one of the four, with its fields.
DeviceTypes ==
  dev \in NucDevice \/ dev \in SamDevice \/ (dev \in PicDevice /\ PicTokens(dev)) \/ dev \in StmDevice

\* What the debugger's endpoints hold, by their flags.
EndpointsInv == NucSessionInv /\ SamReplyInv /\ PicArmedInv

\* Host and device mean the same transfer, address and command, ...
SessionsInv == DeviceTypes /\ HostInv /\ NucInv /\ SamInv /\ PicInv /\ StmInv /\ EndpointsInv

\* ... and the same data of the transfer.
TransfersInv == HostTransferInv /\ NucDataInv /\ SamDataInv /\ PicDataInv /\ StmTransferInv

\* Host and device agree, whichever firmware it runs.
DevicesInv == SessionsInv /\ TransfersInv

\* A control transfer ends, unless the device is lost.
ControlServed == xfer # None ~> xfer = None \/ Lost

\* A command gets an answer or its session ends, unless the device is lost.
CommandServed == waiting > 0 ~> waiting = 0 \/ Lost
=============================================================================
