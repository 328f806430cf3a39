# Dapper Miser in TLA+

Specifications, model-checking runs and machine-checked proofs for Dapper
Miser, the firmware of a CMSIS-DAP debug probe that is built for four
microcontrollers: STM32F0x2, SAMD11, NUC121 and PIC16F145x.  A debugger on the
host sends commands over USB HID reports; the firmware carries them out on the
two wires of Serial Wire Debug (SWD) and answers each with a report.  The
STM32F0x2 build has a USB serial port as well.

- [The system](#the-system)
- [What is hard in it](#what-is-hard-in-it)
- [Modules and the code they stand for](#modules-and-the-code-they-stand-for)
- [Runs](#runs), with their bounds, and [fairness](#fairness)
- [Where code and comments disagree](#where-code-and-comments-disagree)
- [What is proved](#what-is-proved)
- [What is only model-checked](#what-is-only-model-checked)
- [What is not modelled](#what-is-not-modelled)
- [Plan](#plan)

`PROJECT.json` lists the same in machine-readable form: components, runs, the
source lines of every definition (`map`), the slips each property is shown to
catch (`mutants`), hazards and theorems.

## The system

`dm.c`, the command engine, is the same file in the four directories.  Around
it each directory has its own USB code: a USB stack with its control requests,
bus resets and addresses, and the two endpoints of the debugger.  Only the
STM32F0x2 runs it in more than one context.

| Component | State it keeps | Operations | Talks to | Correct when |
|---|---|---|---|---|
| Command engine, transfers (`dm.c` `dap_transfer`, its callers in `dap_handler`, `shift_bits_in/out`) | `flags`, `out_count`, `parity`, `mask_value`, `match_value`; the locals `transfer_count`, `transfer_request`, `swd_request`, `ack`, `retry_count`; the packet (`scratchpad`), which is command and response at once | DAP_Transfer, DAP_TransferBlock, DAP_WriteABORT | SWD target through the pin macros | the two ends never drive SWDIO at once and stay on the same bit; each request is made once and in order, the response says what happened; input and output pointers stay where they belong |
| Command engine, sequences (`swj_sequence`, `jtag_sequence`) | `out_count` (`uint8_t`) | DAP_SWJ_Sequence, DAP_JTAG_Sequence | pins | exactly the clocks and bits asked for; each header found where the debugger put it |
| Command engine, connection and information (`DAP_Connect`, `swj_pins`, `DAP_Info`) | direction of SWDIO | as named | pins | SWDIO released or driven as told |
| STM32F0x2 debugger path (`vendorhid.c`, `usbd_vendorhid.c`) | `message` (`length`, `rxbuffer`, `txbuffer`), the `scratchpad` of the class | USB interrupt: `USBD_VendorHID_DataOut`, `VendorHID_Callback`; main loop: `VendorHID_Service` | command engine by call, PCD driver by call, main loop and interrupt through `message` | one response to each command, in order |
| STM32F0x2 serial port (`usbd_cdc.c`, UART and DMA of the HAL) | per UART: `InboundBuffer` filled by a circular DMA, `InboundBufferReadIndex`, `InboundTransferInProgress`, `OutboundBuffer`, `OutboundTransferNeedsRenewal`; the handles' locks and states | USB interrupt: `DataIn`, `DataOut`, `SOF`, `Setup`; DMA interrupt: `HAL_UART_TxCpltCallback`, completion of the receive DMA | PCD driver, UART, DMA | bytes neither lost, repeated nor out of order; the OUT endpoint prepared again, but not before its buffer is free |
| STM32F0x2 packet memory (`usbd_conf.c`, `PMAConfig` of the classes) | `pma_address`, `ep->pmaadress` | `USBD_LL_Init`, `USBD_CDC_PMAConfig`, `USBD_VendorHID_PMAConfig` | PCD driver | buffers inside memory and apart from one another |
| STM32F0x2 PCD driver (`stm32f0xx_hal_pcd.c`) | `Lock`, per endpoint `xfer_buff`, `xfer_len`, `xfer_count` | `HAL_PCD_EP_Transmit`, `HAL_PCD_EP_Receive`, `PCD_EP_ISR_Handler` | peripheral registers | a transfer once accepted comes to its end |
| STM32F0x2 device core (`usbd_core.c`, `usbd_ctlreq.c`, `usbd_ioreq.c`, `usbd_composite.c`) | `dev_state`, `ep0_state` and the data still to be sent, the address that waits (`hpcd.USB_Address`), configuration | SETUP, data and status stages of endpoint 0, reset | classes by callback, PCD driver by call | data of a request are its own, in order and whole; what is known is done and all else refused; the address changes by the transfer that gives it |
| SAMD11 (`main.c`, `usb.c`, `udc.c`) | request and response buffers, the peripheral's banks and toggles | `USB_Handler`: reset, SETUP, the two endpoints; it waits for the host inside the interrupt in every control transfer | command engine by call | the same, and a response is not written over another that the host has yet to take |
| NUC121 (`main.c`, `usb.c`, `usb_std.c`, `usb_vendorhid.c`) | `epout_pending`, `epin_pending`, one buffer for command and response; `assigned_address` | `usb_task` and `usb_vendorhid_task`, polled from `main` | command engine by call | the same, and an address is set only after its acknowledgement |
| PIC16F145x (`main.c`, M-Stack `usb.c`) | the buffer descriptors and data toggles of endpoints 0 and 1, the rest of the data stage, the address that waits, PKTDIS and the token queue | `usb_service` and the rest of the pass, polled from `main` | command engine by call | the same, and no packet is taken for one that has come before |
| Pins (`swdio_bsp.h`), descriptors, clocks, start-up, vendor headers, build files, `appnote` | none that changes after start-up | | | |

How a command travels on the STM32F0x2: the OUT endpoint takes the report; the
USB interrupt copies it, makes the endpoint ready again and hands the copy to
`VendorHID_Callback`, which stores it in `message` and sets `message.length`;
the main loop finds the length, runs `dap_handler` on the buffer in place,
copies the result, calls `HAL_PCD_EP_Transmit` through the USB library and
clears `message.length`; the IN endpoint sends the report when the host polls.
The SAMD11 does all of it inside the USB interrupt, the NUC121 and the PIC in
the main loop, which polls the peripheral.  In between the host may reset the
bus, give the device an address, ask for descriptors, configure it, and start
the next transfer without an end to the last.

## What is hard in it

The hazards are listed one by one, with their source lines and the properties
that watch them, in `PROJECT.json`.  They come from seven places.

1. *Nothing but counting keeps the SWD wires apart.*  The target turns SWDIO
   round by counting clocks, the firmware by choosing the lengths of calls that
   differ for OK, WAIT, and everything else.
2. *`dap_transfer` is one loop with two `goto`s.*  AP reads are posted, a
   transaction is sent twice to fetch its own result, the last one is changed
   ("morphed") into a read of RDBUFF, one `retry_count` serves WAIT and value
   match, and input is read on the way.
3. *Counters that wrap.*  `out_count` is a `uint8_t` that is decremented
   before it is tested.
4. *Three contexts on the STM32F0x2* — the main loop, the USB interrupt and,
   above it, the DMA interrupt — share `message`, the endpoints, the serial
   port's buffers and one lock whose failure to be taken is reported by a
   return value that some callers ignore.
5. *Memory handed out by hand*: the packet memory of the USB peripheral.
6. *Control transfers that overlap with what came before*: a reset, an
   abandoned request, or a new SETUP packet finds an address that waits, a
   flag, a queue or a lock left over from the last; each of the four stacks
   serves pending events in an order of its own, and one of them waits for the
   host inside its interrupt.
7. *Sessions that end in the middle*: after a reset or SET_CONFIGURATION a
   response of the session before may be in an endpoint, in a buffer, or being
   computed, and the new session must not take it for its own.

## Modules and the code they stand for

```
 DapHost  <--refines--  DapTransfer        SwdWire          DapShift
    \                    /                 (dap_transfer    (the two
     DapCommand ---------                   per clock)       sequences)
        |                                      |
     AdiTarget (external)                   refines
                                               |
                                         SwdTransaction

 DapTransport  <--refines--  Stm32Hid      Stm32Cdc         Stm32Pma

 UsbControl  <--refines--+                +-- Nuc121 --+
                         |                +-- Samd11 --+
                     UsbDevices -extends--+            +-- UsbHost (external)
                         |                +-- Pic16  --+
 DapSession  <--refines--+                +-- Stm32Usb-+
```

**SwdWire** — `dap_transfer` clock by clock (dm.c 162-366), with
`shift_bits_out` and `shift_bits_in` as *phases* of so many clocks.  `pc` is
the call being made, `left` its remaining clocks, `dir` the direction the call
gives SWDIO.  Every host step is one SWCLK cycle, in which the target takes its
own step too: `TargetClock` counts independently of the host, answers OK, WAIT
or FAULT, or is deaf until a line reset (50 clocks of a released, pulled-up
line are one).  The line may disturb one bit of a transaction: of the ACK
(`Seen`) or of the data (`Disturb`).  Data bits are kept as their running
parity.  What `dap_transfer` decides from the packet (another phase of a read,
another read of a match, another request) is a free choice, made by `Again`:
DapTransfer has it in detail.  `lost` is a history variable: the last bad ACK
belonged to a DAP_WriteABORT, which leaves the loop before the resync
(dm.c:348-358).  `TargetBetweenPackets` does not leave that case out: it says
that the target then at worst waits for the data of the write, that no other
command leaves it so, and that the next command of any other kind, whatever
becomes of its first request, ends with the target between packets.

**SwdTransaction** — the abstract specification of the wire for a caller that
counts transactions, not clocks: a request, its ACK, and what goes with each
ACK. It promises that a request finds the peer between two packets (the first
one after a DAP_WriteABORT that was given up on may find it in one), that data
are taken by the side that receives them if and only if the line left them
alone, that WAIT is counted and answered with another request at most
`WaitLimit` times, and that the peer is back between packets after a resync.
SwdWire maps its phases and those of the target to `Stage` and `Peer`, and the
verdict of the two parities to `Outcome` (`WireContract`).

**AdiTarget**, **DapCommand** — external target and packet.  A target is a
record of memory, auto-incrementing address register, and other registers.  A
command is a list of entries; `Encode` is where its bytes lie in the packet, as
tokens (a request byte; the four bytes of a word).

**DapHost** — the abstract specification of the three transfer commands: one
request at a time, exactly once, stopping at the first failure, no posting, no
retries.

**DapTransfer** — the same code as SwdWire at the grain of one transaction per
step, with everything the wire leaves out: `flags`, the decoding of requests
(once per block), `mask_value` and `match_value`, `retry_count` for both
purposes, `Morph`, the input pointer (`input`, the tokens still to come) and
the output pointer (`nwords` words moved past, `words` the scratchpad).
`Receive` and `Respond` are `dap_handler`'s two ends; between them come
`Decode` or `OmitDecode` and the transactions `Waits`, `Faults`, `Writes` and
`Reads`.  `Faults` also stands for the resync and for an unknown ACK, which the
code reports as FAULT.  The `INSTANCE` at the end is the refinement mapping to
DapHost: what a debugger thinks of the address register is the target's, less
the posted reads whose word has not been taken (`Owed`).

**DapShift** — `swj_sequence`, `jtag_sequence` and the loop of
`shift_bits_out` with `out_count` modulo 256.  A byte is represented by its
place in the packet, so the properties speak about *which* bit of which byte is
on the line.  JTAG lengths of zero are excluded by `ShiftAssumption`: CMSIS-DAP
means 64 clocks by it, the code makes 256 and skips 32 bytes; nothing in the
repository says which is wanted.

**DapTransport** — the abstract specification of every firmware's transport: a
command is answered, by its own response, in order, and the debugger keeps at
most `DAP_PACKET_COUNT` outstanding.

**Stm32Hid** — in detail, and without resets, the way of a command through
interrupt and main loop.  The interrupt runs to its end before the main loop
goes on, so `DataOut` is one step.  The main loop is cut wherever it touches shared state: reading
`message`, executing in place, copying, and `HAL_PCD_EP_Transmit` in four
(`Lock`, `Fill`, `Validate`, `Unlock`), then `Clear`.  `Prompt` is the
assumption that the debugger's next command arrives in a later USB frame than
the one in which it took the response, a millisecond in which the main loop has
only a few instructions left to run.  It is a real need: `message.length` is
cleared (vendorhid.c:79, "mark that we've handled the message") after the
endpoint was made valid, and a command that came in between would be wiped
out with it.  `MarksHandled` says that none is.

**Stm32Pma** — the allocation calls in the order `USBD_LL_Init` makes them, for
any number of UARTs and vendor HIDs that fits (`PmaAssumption`; the code does
not check it), then packets of all endpoints written and read in every order.

**Stm32Cdc** — the serial port with the debugger beside it, in three contexts.
`hid` is the main loop inside `HAL_PCD_EP_Transmit`; `usb` is where the USB
interrupt is, cut where it takes and gives back the lock; the DMA interrupt
(`TxCplt`) is one step that may come over either, since its priority 5
(stm32f0xx_hal_msp.c:141) is 1 in the two bits the Cortex-M0 has, above the
USB's 3 (usbd_conf.c:71).  The test in `__HAL_LOCK` is not atomic, which does
no harm here: a context that comes in between runs to its end and leaves the
handle unlocked.  Bytes are numbered, so that order, loss and repetition show.
`Troubles` are the things the port may meet and does not get over: a
SET_LINE_CODING while a packet is sent (HAL_UART_DeInit clears DMAT, the
completion never comes), an empty packet (HAL_UART_Transmit_DMA refuses it and
nothing prepares the endpoint again), a completion wiped out by the other
direction's clear (`ClearRx`, `ClearTx`: the register is read, and written back
with a CTR bit the peripheral has set since), and a SET_LINE_CODING once the
buffer has been filled.  `broken` remembers which way was hit; it stops until
the next configuration, and what the run shows is that the other goes on, and
that nothing else stops either.

**UsbHost** — the host's end of the bus for the four firmwares (external): one
control transfer after the other (`xfer`, with the data that has come and its
stage), each to an end, refused, or given up; bus resets; the host's address;
the debugger that asks and takes.  Requests are told apart as the firmwares do:
SET_ADDRESS, SET_CONFIGURATION, CLEAR_FEATURE(ENDPOINT_HALT) of the debugger's
endpoints, a descriptor of some length of which some is wanted, and a request
nobody knows.  `MaxPacket0` and the lengths are scaled down together.  The rules
of the bus are in the actions of the firmware's module: SETUP packets are always
taken, endpoint 0 says NAK until the firmware has served one, and a host leaves
10 ms after a reset and 2 ms after SET_ADDRESS (`NucRecovered` and its like).

**Nuc121**, **Samd11**, **Pic16**, **Stm32Usb** — what each firmware and its
peripheral make of that.  All state is one record, `dev`: peripheral bits and
the program's variables, each named and commented at `XxxInit`.  The first half
of a module is the host's actions with what the peripheral does (external), the
second the code.  A poll or an interrupt is cut into the code's own parts,
functions from `dev` to `dev` (`NucServeBus`, `NucServeSetup`, ...), composed in
the order the code has them:

- *Nuc121*: `usb_task` is one step, since nothing interrupts it: reset, SETUP,
  then the four endpoint events; `usb_vendorhid_task` another.
- *Samd11*: `SamHandler` is the interrupt up to `udc_control_send`'s wait,
  `SamWaited` what follows when the host has taken the answer.  `toggle` and
  `host` are the data toggles of the two ends.
- *Pic16*: `usb_service` handles a reset and one token of the queue, `PicMain`
  is the rest of the pass.  A SETUP packet sets PKTDIS, its handler clears it.
- *Stm32Usb*: the interrupt takes one event in each step, in the order of
  `HAL_PCD_IRQHandler`; `StmAsks` is the handle's lock, which the main loop
  holds between `StmService` and `StmServiced`: what the interrupt asks then is
  refused.  These two steps are the eight of Stm32Hid made coarser; that a new
  command does not come between unlocking and clearing is `Prompt` there.

**UsbControl**, **DapSession** — what these promise.  A control transfer's data
are its own, in order, whole, and no more than asked for; what can be done is
done and only the unknown is refused; the address changes by the transfer that
gives it and by a reset.  A session's commands are answered by their responses
in order, and at most `leftover` responses of an earlier session come first: 2
for the NUC121, which leaves one in the endpoint and one on its way, and none
for the others.

**UsbDevices** — the four as one system, with the firmware chosen in `Init`, and
the refinement mappings: `Addr`, the address the device answers to once what
has happened is served; `Owed`, the commands in its buffers; `Lost`, the states
in which it waits for what will not come.

The code is right only with a host that takes some care, which hosts do or
nearly do.  `Calm` is the set of firmwares whose host takes it; each condition
is a conjunct of a host action, and without it the run fails as the table says.

| Firmware | The host | Because |
|---|---|---|
| NUC121 | after a reset sends SET_ADDRESS first, if the device has had an address; sends it only when the last transfer's end was served, and carries it through; does not clear halts | `assigned_address` outlives the reset and a SETUP (usb.c:346); `usb_endpoint_configured` (usb.c:232) takes `USBD_CFG_STATE_Pos` for the mask, so that no endpoint is ever found and the request is refused |
| SAMD11 | configures the device only when no command has just come in; clears a halt only where the toggle is DATA0 | the interrupt serves SET_CONFIGURATION first and the old command then fills the new session's endpoint; `udc_endpoint_clear_feature` (udc.c:235) resets a toggle only if the endpoint said STALL |
| PIC16F145x | configures once after each reset; carries SET_ADDRESS and CLEAR_FEATURE through | SET_CONFIGURATION does not reset the toggles of endpoint 1; `addr_pending` is not taken back by a SETUP; the toggle is reset before the status stage |
| STM32F0x2 | waits for the end of a transfer to be served; configures once after each reset, with no command in the main loop; carries SET_ADDRESS and CLEAR_FEATURE through, without a reset; clears no halt of the IN endpoint | `USB_Address` is put into DADDR by the end of any control packet; endpoints are opened on the way from "addressed" only; `HAL_PCD_EP_ClrStall` (stm32f0xx_hal_pcd.c:1213) makes the IN endpoint valid with whatever its packet memory holds |

| With `Calm = {}` | fails | holds |
|---|---|---|
| NUC121 | AddressAfterAck, ControlContract, ControlServed | SessionContract, CommandServed |
| SAMD11 | SessionContract, CommandServed, TogglesAgree | ControlContract, ControlServed |
| PIC16F145x | all four, and TogglesAgree | |
| STM32F0x2 | all four | |

Besides, and whatever `Calm` says: on the NUC121 a command goes out in a later
frame than the last response came in, and a control transfer's end is served
before the bus is reset; on the SAMD11 no command comes in the instant between
the answer's taking and the return from the wait.

**MCDapTransfer**, **MCDapShift**, **MCStm32Pma** — constants for TLC.
**SwdWire_proofs**, **DapShift_proofs**, **DapTransfer_proofs** (with the lemmas
about commands, `FlattenSeq` and the target), **Stm32Hid_proofs**,
**Stm32Cdc_proofs**, **Stm32Pma_proofs**, **UsbDevices_proofs** (all four
firmwares), **UsbContracts_proofs** (their refinement of DapSession and of
UsbControl) — theorems and their proofs.

Definitions marked *Slip* change one line of code the way a mistake would.
They are used by no specification; each property is checked to fail when its
slip takes the place of the definition, so that it is known to depend on the
code.

## Runs

| Run | Shows | Bounds | States |
|---|---|---|---|
| `wire` | every clock of every transaction, answer and single disturbed bit: never two drivers, data phases in step, requests only between packets, a flipped data bit always seen; the clocks implement SwdTransaction; `WireInv`, from which all that is proved | the source's own limits: 100 resync clocks, 8 WAITs, 64 match reads | 653,792 |
| `transfer` | DAP_Transfer, DAP_TransferBlock, DAP_WriteABORT implement DapHost, response to every command included; pointers in step; nothing stored past scratchpad; `TransferInv`, from which that is proved | the source's 8 and 64; memory of 3 words; 12 commands | 85,872 |
| `poll_memory` | a value match on AP register 3 goes on after its read was morphed | as above, 2 commands | *violation* |
| `shift` | all 256 SWJ lengths; JTAG lengths about each byte boundary, up to 3 headers | Modulus 256 | 180,587 |
| `stm32_hid` | the STM32F0x2 path implements DapTransport, and no command is marked as handled that has not been; `HidInv` | 3 commands and one vendor command | 188 |
| `stm32_pma` | buffers inside packet memory and off the buffer table; all class endpoints but the first intact; `PmaInv`, from which that is proved | 4 builds, real sizes in units of 8 bytes | 8,424 |
| `stm32_pma_shared` | endpoint 0 shares the first class endpoint's buffer | the build of config.h | *violation* |
| `cdc` | inbound order, and `CdcInv`, from which it is proved; the outbound buffer's owner; the OUT endpoint is prepared again and all data is sent, except by the way a trouble has stopped | ring of 6, packets of 2; three troubles | 42,444 |
| `cdc_locked` | with the debugger a long transfer can stop for good | ring of 4, packets of 2 | *violation* |
| `cdc_recode` | SET_LINE_CODING leaves a read index that does not fit the restarted DMA | ring of 4, packets of 2 | *violation* |
| `usb_devices` | each firmware, with resets, enumerations, refusals, abandoned transfers, cleared halts and sessions: implements UsbControl and DapSession; transfers and commands come to an end; addresses, toggles and buffers are what they must be; `DevicesInv`, from which that is proved | 2 commands, endpoint 0 of 2 bytes, descriptors of 1 and 3 | 37,359 |
| `nuc121_address` | a host that takes no special care: the NUC121 takes an address that the host has not seen acknowledged | as above | *violation* |

Why the bounds are enough.

- *wire*: no bound at all on lengths or counts, apart from those of the source.
  Commands follow one another without end.
- *transfer*: the 12 commands hold each kind of entry (plain and match reads,
  plain and mask writes, on DP, AP, and AP register 3), each pipelining case (a
  read alone, followed by a read, a write, another port), blocks of one, two and
  three reads — the morph happens at `transfer_count` 1 or 2, so three is the
  first length with a middle — an empty DAP_Transfer, and a response that fills
  the packet (PacketSize 16 instead of 64).  At each transaction the target may
  answer WAIT, or fail, and a read may be disturbed; its status register may
  change between two transactions, so that a value match may succeed at any try.
- *shift*: the values of the counter are all there; JTAG lengths are 1, 7, 8,
  9, 16, 63.
- *stm32_hid*: `DAP_PACKET_COUNT` is 1, so commands differ only by identity;
  two are enough to confuse one with another.
- *cdc*: a ring of three packets lets a transfer be of one, two or three
  packets, end in the middle of one, wrap with and without a remainder, and the
  DMA come round while a transfer is under way.  Bytes are numbered modulo two
  rings, enough to tell a byte from the one a lap before.  The ring is assumed
  not to be overrun (`Arrive`): the code has no defence but its size
  (usbd_cdc.h:38).
- *usb_devices*: the states of a firmware's stack are bounded by themselves;
  nothing counts.  Descriptors end in a short packet at once (1 of 2 wanted), in
  a full packet that is all that was wanted (2 of 3), and after a full and a
  short one (3 of 4 wanted), which are the cases of the stacks: no descriptor of
  the firmwares is a multiple of the packet size, so that no empty packet is
  ever due.  Requests and resets may come again for ever.  Two commands are
  enough to confuse one with another.

Deadlock is checked in all of them.

### Fairness

- DapTransfer: `WF(Work)`.  `dap_transfer` has no blocking call and nothing else
  runs in its way.
- Stm32Hid: `WF` of the host's poll of the IN endpoint, of the interrupt and of
  the main loop, which does nothing but call `VendorHID_Service`.
- Stm32Cdc: `WF` for an interrupt once begun, for the DMAs and for the host's
  polling.  `SF` for `DataIn`, `DataOut` and `HidUnlock`, which wait for the USB
  interrupt to be free and are enabled again and again: pending interrupts are
  served one after another, and the main loop gets the time between them.
  `SF(Sof /\ ~lock)`: a start of frame comes each millisecond and a response
  holds the lock for microseconds of one, so not every start of frame finds it
  locked.  Bytes need not arrive, and the host need not send.
- UsbDevices: `WF` of the host's polling in a transfer it has begun and of its
  taking of responses, of each firmware's interrupt or polled task, and of the
  main loop.  Two are `SF`: `PicTake`, since every SETUP packet disables packets
  for a while and the host polls more often than that; and `StmCommand`, since
  the interrupt serves endpoint 0 first, faster than SETUP packets come.  The
  host need not start, reset, abandon or ask.

## Where code and comments disagree

| Run | Comment | Code |
|---|---|---|
| `poll_memory` | dm.c:314 "if the transaction is a ReadAP[3] and is the last" | morphed after the first phase even if a value match repeats it: the retries read RDBUFF, not memory, so polling a memory word never sees it change |
| `stm32_pma_shared` | usbd_conf.c:233, usbd_cdc.c:520: buffers allocated one after another for all endpoints | usbd_conf.c:238-239 have `=+` for `+=`: EP0 in both directions and the first class endpoint all get address 64 |
| `cdc_locked` | usbd_cdc.c:276 "send all data between read index and write index" | the next packet of a transfer is started by a call whose HAL_BUSY is ignored (stm32f0xx_hal_pcd.c:520); with the lock held by the main loop the transfer stops and `InboundTransferInProgress` stays set |
| `cdc_recode` | usbd_cdc.c:271 "write index has looped around" | `ComPort_Config` restarts the DMA without resetting the read index, so old contents are sent as new |
| `nuc121_address` | usb.c:345 "given ACK from host has happened, we can now set the address" | any acknowledged control packet sets it: a host that enumerates the device again and asks for a descriptor at address 0 first has the address of before set by the acknowledgement of the data, and its status stage is not answered |

Met on the way and not the subject of a run: the two in the tables above about
halts (nuc121/usb.c:232, stm32f0xx_hal_pcd.c:1213), JTAG lengths of zero
(dm.c:120), and `message.length` (vendorhid.c:79, see Stm32Hid).

## What is proved

All theorems hold for every value of the constants that satisfies the modules'
assumptions.  Each follows the same pattern: an inductive invariant, with one
lemma per group of actions for the step, and the properties as consequences.

| Theorem | Property | Rests on |
|---|---|---|
| `WireInvariant`, `WireTypes`, `WireNoContention`, `WireInStep`, `WireBetweenPackets`, `WireParity` (SwdWire_proofs) | `WireInv`, `TypeOK`, `NoContention`, `InStep`, `TargetBetweenPackets`, `ParityCatchesFlip` | `WireAssumption`: a resync of at least 34 clocks, any retry limits |
| `WireImplementsTransaction` (SwdWire_proofs) | `WireContract`, the whole refinement of SwdTransaction | the same |
| `TransferInvariant`, `TransferTypes`, `TransferInputInStep`, `TransferWithinScratchpad` (DapTransfer_proofs) | `TransferInv`, `TypeOK`, `InputInStep`, `WithinScratchpad` | `TransferAssumption`: legal commands of any length, any memory, words, status values, packet size and retry limits |
| `TransferImplementsHost` (DapTransfer_proofs) | the safety part of `Contract`: initial states and steps of DapHost | the same |
| `ShiftInvariant`, `ShiftTypes`, `ShiftExactClocks`, `ShiftPacketOrder`, `ShiftHeadersInStep` (DapShift_proofs) | `ShiftInv`, `TypeOK`, `ExactClocks`, `PacketOrder`, `HeadersInStep` | `ShiftAssumption`: a counter of 8k values, no JTAG length of zero |
| `HidInvariant`, `HidTypes`, `HidMarksHandled`, `HidBuffersKept`, `HidNeverBusy`, `HidImplementsTransport` (Stm32Hid_proofs) | `HidInv`, `TypeOK`, `MarksHandled`, `BuffersKept`, `NeverBusy`; the initial states and steps of DapTransport | `HidAssumption`, and `Prompt` as a hypothesis of each |
| `CdcInvariant`, `CdcTypes`, `CdcInOrder` (Stm32Cdc_proofs) | `CdcInv`, `TypeOK`, `InOrder` | any ring and packet size, any build; `"again" \notin Troubles` |
| `CdcOutboundOwned` (Stm32Cdc_proofs) | `OutboundOwned` | nothing about sizes, lock, build or troubles |
| `PmaCorrect`, `PmaTypeCorrect`, `PmaInside`, `PmaLaterIntact` (Stm32Pma_proofs) | `PmaInv`, `TypeOK`, `InsidePma`, `LaterIntact` | `PmaAssumption`: any packet memory, any builds that fit into it |
| `PmaFirstShared` (Stm32Pma_proofs) | the first class endpoint and endpoint 0 have one buffer, whatever the build | the same |
| `DeviceFields` (UsbDevices_proofs) | `DeviceTypes` | `HostAssumption`, whatever host |
| `NucInvariant`, `NucAddressAfterAck` (UsbDevices_proofs) | `NucInv`, `AddressAfterAck` | `HostAssumption`, `"nuc121" \in Calm` |
| `SamInvariant`, `SamResponseTaken` (UsbDevices_proofs) | `SamInv`, `ResponseTaken` | `HostAssumption`, `"samd11" \in Calm` |
| `StmInvariant`, `StmMessageKept` (UsbDevices_proofs) | `StmInv`, `MessageKept` | `HostAssumption`, `"stm32f0x2" \in Calm` |
| `PicInvariant`, `TogglesInStep` (UsbDevices_proofs) | `PicInv`, `TogglesAgree` | `HostAssumption`, `"pic16" \in Calm`; for the toggles `"samd11" \in Calm` too |
| `NucEndpoints` (UsbContracts_proofs) | `NucSessionInv` | `HostAssumption`, `"nuc121" \in Calm` |
| `SamEndpointsKept`, `PicArmed` (UsbContracts_proofs) | `SamReplyInv`, `PicArmedInv` | `HostAssumption`, whatever host |
| `SessionsAgree` (UsbContracts_proofs) | `SessionsInv` | `HostAssumption`, all four in `Calm` |
| `SessionKept` (UsbContracts_proofs) | `SessionContract`, the whole refinement of DapSession | the same |
| `DevicesAgree` (UsbContracts_proofs) | `DevicesInv` | the same |
| `ControlKept` (UsbContracts_proofs) | `ControlContract`, the whole refinement of UsbControl | the same |

Two hypotheses are there because the code needs them, and each has a run or a
table row that shows the property fail without it: `"again" \in Troubles` is the
SET_LINE_CODING of run `cdc_recode`, and a firmware out of `Calm` is a host that
does not take the care listed above.  `usb_devices` checks the same invariants
with the same `Calm`.

*WireInv.*  That the two ends do not drive at once is not inductive: whether
they do on the next clock depends on how far each has counted.  `Lockstep` says
where the target is in each phase of the host, clock for clock; `EndsInTime`
says that a packet which the target still believes in ends before the resync
does, which is where the 34 comes from: a write's turnaround, 32 bits and
parity.  `ParityRelation` ties the host's `parity` to the target's and to the
number of disturbed bits.

*WireContract.*  With `WireInv`, each clock is one action of SwdTransaction or
changes nothing it sees, shown host phase by host phase.  `Lockstep` gives the
peer's part: when the last bit of an ACK of OK or WAIT comes, the target is at
the end of its answer, and a request starts with it between packets.
`ParityCatchesFlip`, in the next state, gives `Outcome`.

*ShiftInv.*  `out_count` after n clocks is the length less n, modulo 256; the
offset in the packet and the place in the byte are n's quotient and remainder
by 8.  The three together make exactness of the clocks, the order of the bits
and the place of the next header follow.

*TransferInv.*  What the loop's variables mean, in five parts.  `CountInv`:
`transfer_count` and `response_count` add up to the entries, and `nwords` is
the number of words read so far.  `FlagsInv`: which bits of `flags` stand in
which kind of command and phase.  `RequestInv`: `transfer_request` is the
entry's, and `swd_request` is it or, `Morphed`, the read of RDBUFF.  `InputInv`:
the tokens left are those of the entries to come (`Rest`), or of the data of a
block (`Data`).  `PostedInv`: a word that waits in `rdbuff` is the one the
debugger asks for next.  That taking the first entry off `Rest` leaves `Rest` of
the others is a fact about `FlattenSeq`, a fold: it is proved through a least
counterexample (`IsFlat`, in place of an induction theorem, which would need an
operator).  `WithinScratchpad` is then counting: reads done are at most the
entries, whose words the packet has room for.  For DapHost, the mapping says
that the target the debugger has in mind (`SeenTarget`) is the real one less the
`Owed` increments of posted reads.  Each `Writes` and `Reads` is a `Host!Work`,
a stutter (the first phase of a read, a retry) or an end; the lemmas before
`TransferImplementsHost` take the kinds of entry one by one.

*HidInv.*  `OnePlace`: the one command in the system, or its response, is in
exactly one of the OUT endpoint, the main loop, the IN endpoint; the lock is
held in just the steps that hold it; and `Handled`: from `lock` to `clear`, what
lies in `rxbuffer` has been handled.  With `Prompt` this is inductive; without
it `HidInv`, `NeverBusy` and `MarksHandled` all fail (`Prompt` FALSE in
Stm32Hid.cfg).  `HidInv` also makes
every step of the path a step of DapTransport or a stutter.

*CdcInv.*  `RingInv`: what has come and is not loaded yet (`Waiting` bytes from
number `Due` on) lies in the ring, each at the place of its number, and the DMA
writes behind it.  `TransferInv`: with a transfer in progress, `buff`, past the
packet in the endpoint (`Rest`), is at the place of the byte due and `len` more
bytes from there end at `read`, or at the ring's end; with none, `read` is
there itself.  Then each packet copied from `buff` continues the numbers.  After
a SET_LINE_CODING in a filled ring the DMA starts over but `read` stays, so that
`RingInv` is false, which is why the theorems exclude that trouble; the other
troubles only stop the transfer (`broken`).

*OwnedInv.*  The outbound buffer has one owner because a renewal is due only
while endpoint and DMA both rest; `SofRenewed` needs an extra clause, as it
clears the flag after the endpoint was already prepared.  The lock plays no part
in the argument.

*PmaInv.*  Where an endpoint lies depends on its name and on the build only
(`Base`), not on what was called before: `CallsChained` says of the calls to
come that each class call finds `pma_address` at its endpoint's place, which
holds for the first because the two calls for endpoint 0 leave 64 there, just
the address behind the buffer table.  Three facts about `Base` are then all
there is to `LaterIntact` and `InsidePma`: two class endpoints are a packet
apart, only the first is at the place of endpoint 0, and the last ends inside
packet memory.  A packet written in one endpoint thus leaves those that wait in
others of the classes, but for the first, as they were.

*SessionsInv.*  Four firmwares, one host, and one pattern.  `DeviceTypes` says of
the record `dev` which fields it has and their ranges; it holds under any host
(`DeviceFields`), and everything else is proved over it.  `HostInv` is the
host's own part: which transfers it begins in which state.  Then a *control
part* for each firmware says that host and device mean the same transfer: what
is in `setup`, `in0`, and the stack's own memory of a request belongs to
`xfer`, unless the host has given up, and that they mean the same address but
for the time between the end of SET_ADDRESS and the step that sees it.  This is
where the stacks differ most: the NUC121's `assigned` address may be of an
earlier transfer, the SAMD11's is on the stack of a handler that waits (`wait`),
the PIC16's waits in `addr` for a token, the STM32's is set before the status
stage.  A *session part* says where the debugger's one command is: at most in
one place, of this session if the host thinks it configured, and for PIC16 and
SAMD11 with data toggles that agree.  Neither part is inductive without the
other on the PIC16, where a cleared halt is served by the control part and moves
a toggle.  The proofs go by functions from `dev` to `dev`, as the modules do:
one lemma says what each (`NucServeSetup`, `PicServeToken`, ...) leaves in which
fields, one what each host action needs and changes, and one per firmware puts
the cases together.  `EndpointsInv` adds what the flags of the debugger's
endpoints say of what they hold; it follows step by step from the rest.

*SessionContract.*  `Owed` is the commands in the firmware's places, from the IN
endpoint back to the OUT endpoint, one after the other.  `SessionsInv` says which
of them may be full at once, and with that each step is one of five, each a
lemma about sequences: it adds a command at the end (`Asks`), takes the first
(`Answers`), moves one from a place to the next or does none of these
(`Unseen`), forgets one at the end of a session (`Closes`) or one that nobody
waits for (`Drops`).  The last two differ by what they may not touch: a dropped
command must have all those the debugger waits for behind it, which is where
each firmware needs the toggles, flags and order of its own that `SessionsInv`
states.

*TransfersInv and ControlContract.*  `SessionsInv` says whose data are under
way, not which.  `TransfersInv` adds that: the host has received `xfer.n` of
`Total`, and the packet in `in0` is the one that starts there.  NUC121 and
SAMD11 answer in one packet, so that `n` is 0 as long as one waits.  The PIC16
has the next packet ready behind (`stage`), which must start where the one in
`in0` ends; the STM32 remembers in `data` where the last one started and goes on
from there when it has been taken.  The STM32 needs more (`StmAddressInv`): an
address in `USB_Address` is put into DADDR by the end of any control packet, so
that nothing but the status packet of its own transfer may be in the works, and
a STALL is an answer to what is unknown only because `dev_state` follows the
address the host uses; both end where the HAL has refused something.  With
that, what a step does at the host is one of eight moves (`HostMoves`): none, a
transfer begun, *the next* packet, one of two status stages, a STALL for the
unknown, the end of a transfer or a reset.  The moves alone keep
`HostTransferInv`, and are the contract's actions as far as `Addr` is the host's
address, which `AddressKnown` says of every device that is not `Lost`.

`HostAssumption` says that the address and the size of endpoint 0 are positive
and that None is no command, request, packet or transfer.  The theorems hold for
sizes of which a descriptor is a multiple as well: no empty packet then follows,
and it is `ControlServed`, not the contract, that would fail.

## What is only model-checked

- Liveness, here as anywhere out of the prover's reach: that commands are
  answered (`Contract` of DapTransfer and Stm32Hid, `CommandServed`), that
  control transfers end (`ControlServed`), `OutRearmed`, `DataSentOrRefused`.
- The violations of the five runs above: they are counterexamples on one
  instance, and only that of `stm32_pma_shared` is also a theorem
  (`PmaFirstShared`).

Every safety property of a passing run is a theorem, but for the liveness part
of the contracts that have one.

## What is not modelled

- *Code that keeps no state of its own or only writes registers at start-up*:
  clocks, GPIO, descriptors, headers, linker scripts; `usbd_hid.c` is not
  compiled into the firmware.
- *`swj_pins` and `DAP_Info`*: they drive and read pins as told, and copy
  strings.  `DAP_Connect` and `DAP_Disconnect` are modelled only as far as they
  turn SWDIO.
- *Control requests*: SET_FEATURE(ENDPOINT_HALT), configuration 0, GET_STATUS
  and the other requests that only read, class requests (their variables are
  read by nothing), requests with data to the device, which only the serial
  port has (`Stm32Cdc` has what SET_LINE_CODING does).  As read, a
  CLEAR_FEATURE of an endpoint, or SET_FEATURE of the device, with another
  selector gets neither a status stage nor a STALL from the STM32F0x2
  (usbd_ctlreq.c:261, 592); Stm32Usb has no such request.  A CLEAR_FEATURE of an
  endpoint that comes with an address and no configuration makes that endpoint
  say STALL and leaves endpoint 0 without an answer (usbd_ctlreq.c:253-258):
  `StmClearFeature` does the same, but `Legal` of UsbHost sends no such request
  before a configuration, so no run takes that step.
- *Suspend, wake-up, remote wake-up, attachment to the bus.*
- *Serial port*: overrun of the ring, and another reset or SET_CONFIGURATION.
  As read, and not checked: `USBD_CDC_Init` zeroes `InboundBufferReadIndex`
  while a receive DMA that was never stopped goes on where it was, so that bytes
  of the session before are sent again as new; and an `hdma_tx` left locked after
  a cut-off packet makes the next one go on with the old count.
- *The JTAG length of zero* (see DapShift).
- *Timing*: SWCLK frequency, and the UART's rate against the host's polling.

## Plan

1. **Core** (done): SwdWire, DapTransfer against DapHost, DapShift, Stm32Hid
   against DapTransport, Stm32Pma, Stm32Cdc; the proofs above.
2. **Breadth** (done): UsbHost, UsbControl, DapSession; Nuc121, Samd11, Pic16,
   Stm32Usb, composed and checked by UsbDevices; the troubles of Stm32Cdc.
3. **Depth** (done): DapTransfer and its refinement of DapHost, the serial
   port's order of bytes, the invariants of the four firmwares.
4. **Control transfers** (done): the invariant of the data that go out next, and
   the refinement of UsbControl.
5. **Every build, every clock** (done): packet memory for all builds that fit,
   and SwdTransaction, which the clocks of SwdWire implement.
6. Left: DapTransfer takes a transaction of SwdTransaction in one step.  To show
   the two agree needs the steps of SwdTransaction put together into one.
