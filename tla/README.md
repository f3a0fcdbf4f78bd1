# Verification of the CH32L103 firmware programs

This directory holds TLA+ models of the programs in this repository whose logic is worth checking by
machine, the TLC configurations that check them, and theorems about them that the TLA+ proof system
(TLAPS) checks. The repository is the evaluation kit of the CH32L103, a RISC-V microcontroller: some
hundred example programs, a peripheral library, and ports of third-party operating systems.

Run from this directory:

    tlc -config CdcDownlink_control.cfg MCCdcDownlink     # any run of the table below
    tlapm CdcDownlinkProofs.tla                           # the proofs

## 1. Inventory

Most examples configure one peripheral and have no state of their own. What has state, actors that
run concurrently, and a promise to keep:

| component | state | operations, actors | interaction | what makes it hard | what makes it correct |
|---|---|---|---|---|---|
| **SimulateCDC** (`EXAM/USB/USBFS/DEVICE/SimulateCDC`), USB-to-serial bridge | `Uart` (two rings, counters, flags), endpoint registers, two DMA channels, two timers | `USBFS_IRQHandler`, `TIM2_IRQHandler`, main loop `UART2_DataTx_Deal` / `UART2_DataRx_Deal`; DMA, USART, host | shared variables; the interrupt is masked in a few regions only | interrupts between a test and its use; wrap-around; flow control; re-initialisation by SET_LINE_CODING, bus reset and halts at any moment | bytes arrive in order, each transmission once; ring and counters agree; endpoint reopens; uploads end |
| **USBPD_SNK / USBPD_SRC** (`EXAM/USBPD`), power delivery | protocol state, timer, receive buffer, detection counters | `USBPD_IRQHandler`, `PD_Det_Proc`, `PD_Main_Proc`, `PD_Send_Handle` at each end | packets and GoodCRC over CC, lost or overheard; the handler and the main loop share flag and buffer | retransmission, timeouts racing answers, one buffer, a polled flag that an interrupt clears | a contract only when granted; both ends agree; nobody deaf or hung |
| **IAP** (`EXAM/IAP/USB_UART`), boot loader and application | flash, marker at `CalAddr`, addresses and buffer of the handler | `RecData_Deal`, `main` of both programs; a PC tool | commands over USB or UART; marker and reset between the programs | power failing between or within flash operations; sessions given up | only whole images boot; an update can always be completed |
| **MSC_U-Disk** (`DEVICE/MSC_U-Disk`), disk over the internal flash | transfer flags, status, sense key, sector and packet counters, endpoint registers, flash | `UDISK_Out_EP_Deal`, `UDISK_In_EP_Deal`, `UDISK_SCSI_CMD_Deal`, all in `USBFS_IRQHandler` | bulk-only transport with a host | failing commands, stalls, lost handshakes, resets between two stages | each command gets its own true status; data reach the right sectors; a recovery recovers |
| **CompositeKM** (`DEVICE/CompositeKM`), keyboard and mouse | scan results, report, `key_cnt`, endpoint 1 | `KB_Scan` (timer), `USART2_IRQHandler`, `USBFS_IRQHandler`, main loop `KB_Scan_Handle` / `USART2_Receive_Handle` | one report used by keys and USART; variables shared with interrupts | a scan changing under the loop; a slow host; halts and resets | the report is the pressed keys; it reaches the host; no key sticks |
| **HOST_KM** (`EXAM/USB/USBFS/HOST_KM`), host of keyboards, mice and hubs | `RootHubDev` with its `Device[]`, `HostCtl`, port enable, address register | main loop `USBH_MainDeal` only; devices come and go | transfers with an address | plugging in the middle of an enumeration, failing transfers, several devices at one address | what is plugged in is found; each polled device has its own address |
| CompatibilityHID, SimulateCDC-HID, CH372Device, MSC_CD-ROM | reports, endpoint state | USB interrupt, main loop | as SimulateCDC and MSC_U-Disk | halts, suspend | no report lost |
| HOST_Udisk, HOST_MTP, HOST_IAP | enumeration state | main loop only | transactions with retries | hot unplug, timeouts | a device is enumerated or given up |
| USBPD_CH211 | policy engine of an external PD chip | I2C interrupt, main loop | I2C and PD | as USBPD | as USBPD |
| I2C_7bit_Interrupt_Mode | index, state flag | event and error interrupts | two boards | the order of events | a transfer ends |
| Peripheral library, flash driver | none (registers) | | called by everything | block sizes of an erase | the range asked for and no other |
| everything else | none worth a model, or third-party | | | | |

`PROJECT.json` lists all components with their status, and under `hazards` what can go wrong in each
at the line where it would, with the properties that cover it.

## 2. How the models are built

* **Granularity.** A main loop is cut exactly where an interrupt may make a difference: between two
  accesses to shared state, with `pc` naming the position. A region the code masks
  (`NVIC_DisableIRQ` ... `NVIC_EnableIRQ`) is one action; so is an interrupt handler. Several fields that
  no handler touches may be assigned in one action.
* **Hardware** (USB endpoint, DMA channel, USART, CC line, flash) and other parties (USB host, PD partner,
  PC tool) follow how the code uses them and are marked external in `PROJECT.json`.
* **Flag bits** are 0 or 1, as in the code. `uint16_t` counters wrap at `U16`; in the uplink the timers
  wrap too.
* **Damage.** Some interleavings really break the code's invariants. A model does not forbid them: a
  history variable (`damage`, `lost`, `excused`, `excuse`) records that one happened, the properties hold
  until then, and from the repair onwards again. A property is thus also a list of everything that can go
  wrong.
* **Mutants.** An operator marked `\* mutant` is the operator below it with a plausible bug. No
  specification uses it; the property listed with it in `PROJECT.json` fails when it replaces the
  original, which shows that the run could have found that bug.

### Modules

    ByteFifo            what a serial bridge promises (abstract)
    PacketFifo          EXTENDS it: packets, handshakes that are missed, repetitions (abstract)
    CdcDownlink         USB to serial     CdcDownlinkFifo: it implements PacketFifo
    CdcUplink           serial to USB     CdcUplinkFifo:   it implements ByteFifo
    CdcDownlinkProofs, CdcUplinkProofs   EXTEND these: theorems, the refinements included
    PdPort              interrupt, receive buffer, retransmission: used by both ends
    PdSink, PdSource    EXTEND PdPort: the two state machines
    PdLink              INSTANCEs both: cable, clock, losses
    PdLinkProofs        theorems
    IapUpdate           boot loader, application, flash, update tool
    IapUpdateProofs     theorems
    UDiskBot            bulk-only transport, endpoints, flash, mass storage host
    UDiskBotProofs      theorems: types, flash
    UDiskBotAnswerProofs  EXTENDS UDiskBotProofs: theorems on statuses and data
    CompositeKM         keys, report, USART, endpoint 1
    CompositeKMProofs   theorems
    HostHub             host loop, root port, hub, devices
    HostHubProofs       theorems
    MC...               values and state constraints for TLC

### CdcDownlink

The hardware writes an OUT packet of endpoint 2 into the slot `EP2_DMA` points to (`HostOut`); the
interrupt books it (`Ep2OutIsr`: length, `Tx_LoadNum`, `Tx_RemainNum`, stop at `NumMax - 2`). The main
loop takes the slot `Tx_DealNum`: `TxSeeWork`, `TxLoad`, `TxArm`, `TxSetFlag` start a transfer, and
`TxSeeFlag`, `TxSeeComplete` (or `TxNotYet`), `TxComplete` (masked) account for it and lift the stop. `UartByte` and `UartTC` are the
DMA channel and the transmitter, which may run empty between two bytes. `LineCodingIsr`, `BusResetIsr`,
`ClearHaltIsr` and `SetHaltIsr` re-initialise or halt at any moment.
The tests of `Tx_Flag` and of TC are two steps, so that a re-initialisation may fall between them; it does harm only
if TC is then found set. `damage` becomes `"torn"` in that case, or when a re-initialisation preempts the main loop
outside these tests (`Polls`), and
`"reopened"` when CLEAR_FEATURE opens an endpoint that flow control holds closed.

`CdcDownlinkFifo` maps the state to a queue: the rest of the slot in hand, as the DMA or the main loop sees
it, followed by the other booked slots. Two more history variables, `sent` and `unheard`, record the packet the host
sent last and whether it missed the handshake; `HostSends` and `HostGivesUp` say that it then repeats that packet or
gives it up. In `PacketFifo` a packet is put into a pipe (`SendNew`, `Repeat`) and queued from there once
(`Take`); bytes leave by `Emit` and are given up by `Reinit`. So every *transmission* goes out exactly once, and the
bytes of a packet twice only if its handshake was lost, which is what the code does. A bus reset zeroes the variables and leaves the transmit DMA running; when it had bytes left, they still go
out, and the next packets may be written over them. The ring is consistent, the bytes are not: the history
variable `stray` records it. While the state is torn, reopened or stray (`Intact` is false) nothing is promised; the next
re-initialisation that finds the loop at its poll and the DMA at rest restores the promise, with an empty queue.

### CdcUplink

A circular DMA writes each byte (`UartRx`). A pass of the main loop is `RxCount` (masked: new bytes from the
DMA counter, idle timer), a decision (`UpFull`, `UpShort`, `UpWait`, `UpExpire`), `UpSend` (masked), and
`ZlpTest` / `ZlpSend` for the empty packet that ends a transfer. `damage` records: `"overrun"` (the
ring was lapped), `"refused"` (an upload while endpoint 3 was busy), `"expired"` (the upload timeout),
`"halted"` (the host dropped an armed packet), `"torn"`, `"stale"` (a bus reset rewound the
variables but not the DMA), `"leftover"`.

### PdPort, PdSink, PdSource, PdLink

`PdPort` is what both programs share almost verbatim: `Receive` and `AckSent` are the two halves of
the interrupt handler, `StartSend`, `Transmit`, `Retry` and `SendDone` are `PD_Send_Handle`, and
`Overhear` is a packet that arrives while it polls. The handler switches the interrupt off with every
packet; `PD_Rx_Mode` switches it on again. `ResetSent` and `ResetMissed` are the two outcomes of
polling for the end of a hard reset whose interrupt may be enabled.
`PdSink` and `PdSource` are passes of the two main loops: `Detect` (`PD_Det_Proc`), the state switch,
the message switch. `PdLink` joins them: a transmitted packet is received, overheard or lost; so is a
GoodCRC; the cable is pulled and plugged. The unit of time is the 5 ms period of the detection; a tick waits
until both ends have done what the last one asked for. `contract` and `lost` are history variables.
Packets are reduced to kinds; the one fact about their contents that matters is kept: GoodCRC and SRC_CAP
share a type code and differ in the number of data objects.

### IapUpdate

`flash` is the application's part from `FLASH_Base`; `marker` says whether `*CalAddr = CheckNum`. `Boot` is
the decision of the boot loader's `main`; `CmdErase`, `CmdProgram`, `CmdVerify` with `Compare`, and `CmdEnd`
are the cases of `RecData_Deal` (and of `UART_RecData_Deal`, which is the same); `Erase`, `Write`,
`EraseCal`, `WriteCal` are the flash operations they make, one action each because `PowerLoss` may
come between. Power that fails *within* an operation leaves the page, or the marker, with arbitrary
contents. `CmdJumpIap` and `APP_2_IAP` are the application's side. The tool is disciplined: it programs an
image, verifies all of it, and ends only if nothing was refused; it may give up at any moment
(`Abort`), which also stands for a lost command or answer. `unmarked` and `excused` record the two ways in
which the code can boot something that is not whole (section 5).

### UDiskBot

A token of the host and the interrupt it raises are one action, because the program has no main loop to
speak of: `HostOut` is `OutIsr` on endpoint 3 with `UDISK_SCSI_CMD_Deal`, `UDISK_Down_OnePack` or a packet
the handler ignores; `HostIn` is `InIsr` on endpoint 2 with `InDeal` (`UDISK_In_EP_Deal`). Both look at the data
toggle, so `HostOutLost` and `HostInLost`, a handshake that does not arrive, repeat a packet as the wire
does. The commands are classes: READ, WRITE, one reply of one packet (INQUIRY, for the capacity commands
too), REQUEST_SENSE, MODE_SENSE, commands without data, and those that fail with and without a stalled
endpoint 2. `USBFS_Endp_DataUp` is modelled with its refusal when the endpoint is busy, at which no caller
looks. The flags `DEF_UDISK_BLUCK_UP_FLAG`, `_DOWN_FLAG`, `_CSW_UP_FLAG` are members of a set.
The host is the standard's: it times out or is stalled, clears a halt (`ClearHaltIn` uploads a waiting status),
asks for sense data after a failure, and recovers by class reset, then bus reset followed by another class
reset. `damage` is `"refused"` (an upload found the endpoint busy) or `"stale"` (a bus reset left flags);
a command issued with nothing left over clears it.

### CompositeKM

`KB_Scan` (timer), `USART2_IRQHandler`, and the endpoint's interrupt (in `HostIn`) run between any two
accesses of the main loop to what they share. A pass is `KbTest`, then for each bit `KbBit` and
`KbPressed` or `KbReleased`, `KbLast` (the result is read once more), `KbSend`, `Arm` (the last
assignment of `USBFS_Endp_DataUp`), then the states of `USART2_Receive_Handle`: `UsTest`, `UsStore`, `UsSend`,
`UsDelay`, `UsRelease`. `damage` records `"torn"` (the scan result changed in a bit the loop had passed),
`"mixed"` (the USART has taken the report, until no key is pressed and it has let go) and `"forgotten"`
(the host enumerated anew and has not read a report since).

### HostHub

One action per step of `USBH_MainDeal` that talks to somebody: `CheckRootHubPortStatus`,
`ResetRootHubPort` / `Identify` / `EnumHidDevice` / `EnumHubDevice` (`USBH_EnumRootDevice` and what
follows it), `PollHub`, `PreEnum1`, `PreEnum2` (`HUB_Port_PreEnum1`, `2`), `EnumHubPortDevice`. Between any two,
`Move` plugs or pulls a device at the root port or behind the hub. A transfer reaches whoever answers at
the address register's value (`Answering`), nobody, or several at once; it may fail in all its
repetitions (`Fault`). `excuse` collects the ports for which something happened after which the host does not find
a device, or confuses two: section 5 lists what.

## 3. Runs

| run | module, cfg | shows |
|---|---|---|
| `cdc_down_bytes` | MCCdcDownlinkFifo, `CdcDownlink_bytes` | refinement of PacketFifo: every transmission goes out once, whole and in order, through line codings and bus resets; a packet goes out again only if its handshake was lost, and then directly after itself |
| `cdc_down_control` | MCCdcDownlink, `CdcDownlink_control` | one invariant for ring, backlog and flow control under every host request, zero-length packets; every packet is sent, every stop lifted |
| `cdc_down_torn` (violation) | MCCdcDownlink, `CdcDownlink_torn` | `Tx_RemainNum` wraps below zero after a re-initialisation between the test of `Tx_Flag` and the masked section |
| `cdc_up_bytes` | MCCdcUplinkFifo, `CdcUplink_bytes` | refinement of ByteFifo: the host reads what the line delivered; bytes move on, transfers are terminated, a silent host does not block the loop |
| `cdc_up_control` | MCCdcUplink, `CdcUplink_control` | the counts match the DMA's position under every host request and any speed of the main loop, and the remaining length wraps in one way only |
| `pd_contract` | MCPdLink, `PdLink_contract` | success only when granted, ends agree once at rest, plugging leads to a contract, ports listen again |
| `pd_reset` (violation) | MCPdLink, `PdLink_reset` | the poll for the end of a hard reset hangs |
| `pd_buffer` (violation) | MCPdLink, `PdLink_buffer` | a received message is overwritten |
| `iap_update` | MCIapUpdate, `IapUpdate_update` | only whole images boot, a clean session completes, a requested update is reached |
| `udisk` | MCUDiskBot, `UDiskBot_disk` | statuses are true and belong to their command, reads see what writes stored, nothing else changes the flash, recovery works |
| `km` | MCCompositeKM, `CompositeKM_keys` | the report is the set of pressed keys, reaches the host, and no key sticks |
| `host` | MCHostHub, `HostHub_plug` | each polled device has its own address; what is plugged in is found in the end |

A run marked *violation* checks one statement of a comment in the source that the code does not keep; TLC's
counterexample is the explanation, and `findings` in `PROJECT.json` quotes the line.

### Bounds

* CDC downlink: 4 slots, the fewest for which stop (2 booked) and reopen (below 2) are different
  slots and two stay in reserve; packets of 1 and 2 bytes so that a transfer can break in the middle of a
  slot; the byte values tell packets apart. `U16` is just above what the assumption asks for.
* CDC uplink: a ring of 3 with packets of 2, so that packets meet the end of the ring in both ways. The two
  timers wrap at 2 and 4. In `cdc_up_control` the main loop may be arbitrarily slow (`Timely = FALSE`);
  in `cdc_up_bytes` a pass is shorter than a tick of 100 us, as it is on the board.
  `cdc_down_bytes` runs without endpoint halts, which `cdc_down_control` has; for the bytes
  the theorem covers them.
* The constraints cut states only where the properties have nothing left to say: after a damage
  (`TornBound`, `FaultBound`, `DamageBound`, `UntilDamage`), which every leads-to property lists as an
  end; with one end of the PD cable in an endless loop after a loss (`Followed` of MCPdLink); and with a torn
  scan result or a dead endpoint (`Followed` of MCCompositeKM), which end every promise of the keyboard.
* PD: 2 transmissions for 3, 2 detections for 5, timeouts in the order of the real ones (999 ms,
  499 ms, 159 ms are 4, 1 and 1 periods; those of a few periods or less are 0); the cable is pulled once.
  What is lost is unbounded. The order that `EndsAgree` needs is kept: the sink waits longer for PS_RDY than the source
  takes to send it.
* IAP: pages of 2 bytes, 2 pages before the marker's; an image of a page and a half and one of two pages
  which begin alike; 2 power failures, 2 sessions given up, 3 sessions. That is enough to tear both pages, to
  lose power again in the repair, and to run into the marker's page.

* Disk: sectors of 2 packets, 3 sectors, a read and a write of 2 sectors that overlap in one, so that sector
  and packet counters wrap within a command and a write is seen by a read; tags and toggles have one bit; 2
  faults (lost handshakes, aborts, bus resets from the cable), the fewest for a fault within the recovery
  from another.
* Keyboard: 2 keys for 4, a report of 3 positions for 6, and a position cleared by mistake that is a
  pressed key's (`ResetSlot`); USART values 0 and one key's. What matters is that there is a key before and a key behind
  the one released.
* Host: a hub of 2 ports, 2 attempts at the root device for 6, 7 moves and 2 failing transfers in a
  behaviour. 7 moves plug a hub with both devices, pull and replug one, and pull and replug the hub.

`CHECK_DEADLOCK FALSE` stands in `IapUpdate_update` only: a device with nobody to talk to stops there.

### Fairness

* The USB, PD and timer interrupts are served, the main loops poll for ever, DMA and USART shift: weak
  fairness of each actor. These are the loops of `main` and the hardware's own progress.
* Nothing is assumed of a USB host in the downlink. In the uplink `HostReads` is a hypothesis of
  the two properties about a reading host and of no other.
* PD: the clock ticks, both programs and both interrupts run. Losses are not fair: the properties
  say what happens without loss since the plug, or that something happens in spite of it.
* IAP: the device runs on, and a tool in the middle of a session continues it (or aborts). A new session is
  never forced.
* Disk: the host continues a command and a recovery it has begun, asks for the sense data it owes, and issues
  a TEST UNIT READY again and again (strong fairness: the operating system's medium polling, which other
  commands may interrupt). It never has to time out on a device that would still answer.
* Keyboard: timer and main loop run, the host configures the device and polls endpoint 1. That the
  user stops pressing keys is a hypothesis of the two liveness properties.
* Host: only the main loop is fair. Devices move finitely often because `MaxMoves` bounds them; the
  property says what holds from some moment on.

## 4. Proofs

`CdcDownlinkProofs` proves, for every number of slots (at least 4), packet size, payload set and set
of host requests that `CdcDownlinkAssumption` allows:

| theorem | statement |
|---|---|
| `TypeCorrect` | `Spec => []TypeOK` |
| `DownlinkInvariant` | `Spec => []DownlinkInv` |
| `StuckOnlyWithoutBytes` | `Spec => []StuckOnlyOnEmptyPacket` |
| `FreshWithoutLostHandshake` | `"ackLost" \notin Requests => (Spec => BooksFreshOnly)` |
| `BacklogWithoutReinit` | `LeavesRing => (Spec => []RemainNumIsBacklog)` |
| `DownlinkImplementsFifo` | `SpecH => BridgesBytes` |

That the two positions and the count agree and that an accepted packet finds a free slot is not inductive: the second depends
on the latched transfer (`pend`) having been accepted while the endpoint was open, and that freeing the
head slot keeps the count right depends on the handler having work whenever it is past its poll.
`DownlinkInv` is the conjunction of all of these (`RingPositions`, `StopRelation`, `HandlerHasWork`, `UnbookedIsEmpty`)
under `Sound`. It is checked by TLC in `cdc_down_control` as well. The proof follows `Next`: one lemma per actor (`HostInv`,
`ReinitInv`, `IsrInv`, `MainInv`, `UsartInv`) and in it one step per action. `BookOne` and `FreeOne`
are the two facts about positions on the ring that everything rests on: booking extends the booked
slots by the interrupt's position, freeing removes the main loop's. `SlotOffset` keeps slot offsets in
16 bits. The assumption that `NumMax * PackMax < U16` is the code's: the buffer has 1024 bytes and its offsets
are `uint16_t`. `StuckOnlyWithoutBytes` needs `WaitInv`, the same
statement from the moment the channel is armed, before `Tx_Flag` is set: a byte may go out in between.

Two theorems have a hypothesis, and it is the cause of what goes wrong without it. `FreshWithoutLostHandshake`: the
interrupt does not test the toggle, so a packet repeated after a lost handshake is booked twice; `ToggleInv` shows that
nothing else (halts, line codings, bus resets at any moment) gets the two sides out of step. `BacklogWithoutReinit`:
`LeavesRing` says that the host sends no line coding, no bus reset and no CLEAR_FEATURE; then no interleaving
makes the count wrap, which pins the violation of `cdc_down_torn` on the re-initialisation alone.

`DownlinkImplementsFifo` is the refinement, for all constants. Its invariant `FifoInv` adds two things to
`TypeOK` and `DownlinkInv`. `HandInv` relates what the main loop knows of the slot in hand to what
the DMA has left: the rest ends where the slot's packet ends, and while the DMA is armed its address plus its
count is that same end, so the bytes the main loop will account for are those fetched. `SentInv` says that the
packet being latched is the one the host sent last and lies in the slot behind the booked ones. The queue is then a concatenation over the slots:
`RestAppend` (a booked slot appends its bytes), `RestTail` (a freed one removes the first) and `RestKept`
(bytes written to an unbooked slot are in nobody's way, because slots do not overlap: `SlotsApart`) are the
three facts about it. With them the interrupt is a `Take` (`BookingTakes`), a byte shifted out is an `Emit` of the head
(`ByteIsHead`), the main loop's steps leave the queue alone (`AccountKeepsQueue`), and a re-initialisation leaves it
empty. The recursion inside `FlattenSeq` needs induction, and the library's induction theorems take an operator as
their parameter; `SetInduction` is the same principle for a *set* of numbers, from the library's theorem that their order is
well-founded, and `FlattenSeq` of an append and of a tail follow from it.

`CdcUplinkProofs` proves, for every packet size and larger ring, timeouts and host requests
that `CdcUplinkAssumption` allows, and a main loop of any speed:

| theorem | statement |
|---|---|
| `UplinkTypeCorrect` | `Spec => []UplinkTypeOK` |
| `CountsAlwaysAgree` | `Spec => []CountsAgree` |
| `OnlyReinitWrapsCount` | `Spec => []CountNeverWraps` |
| `UplinkImplementsFifo` | `SpecH => UploadsBytes` |

The types need `PacketFits`: the packet chosen by the decision ends at or before the end of the ring, so that
`Rx_DealPtr` wraps to exactly 0. `CountNeverWraps` needs nothing of the ring's soundness: the test of `UART.c:434` keeps the count within the ring even
when it was lapped, and a packet chosen but not yet copied is covered by `Rx_RemainLen` until a re-initialisation
comes between choice and copy. That one is recorded as `"torn"`, the only exception of the property. The other two rest on
`RingInv`, all under `RingSound`: `CountsAgree` itself, the range of the unseen bytes, and again that the chosen packet
is covered.

`UplinkImplementsFifo` is the refinement for all constants. The queue is what lies unread in endpoint 3, then
the ring from the read position (`RingLaw` turns its indices modulo the ring into plain ones). A byte from the
serial line is written where the unread ones end, over none of them (`ArrivalIsAccepted`); `UpSend` moves
bytes from one part of the queue to the other; the host's IN takes the whole first part; a line coding
may leave a packet in the endpoint, which `Reinit(n)` of `ByteFifo` allows. Everything that could break this is in
`damage`, and only a re-initialisation clears it.

`IapUpdateProofs` proves, for every set of images, page size, number of pages and bounds that
`IapAssumption` allows:

| theorem | statement |
|---|---|
| `Invariance` | `Spec => [](IapTypeOK /\ IapInv)` |
| `OnlyWholeImagesRun` | `Spec => []BootsWhole` |
| `IapTypeCorrect` | `Spec => []IapTypeOK` |

That what boots is whole needs the history of the session: END may clear the marker only because a session that
started clean has, by then, put every byte of the image into flash. `IapInv` says so in three parts.
`CleanSession` relates `Program_addr` and the buffer to the image: up to `Program_addr` it is programmed, the
rest of what was sent is in the buffer (`Programming`), and the first VERIFY pads and writes it
(`Flushing`). `Handling` is the control of the handler: the buffer holds a full page just when it is about to
write one, nothing is written while the application runs. `Guarded` says what stands between a torn image and a
boot: the marker, an unfinished session on a chip without one, or an erased first word; that the marker's
page is out of reach of a programming session follows from `CleanSession`, because `Program_addr` plus what
is buffered is what has been sent. The proof has `Handling` with the types first (it needs neither of the
others), then `CleanSession`, then `Guarded`, each by the actions of `Next`.

`CompositeKMProofs` proves, for every number of keys below the positions of a report and every set of USART
values:

| theorem | statement |
|---|---|
| `KMTypeCorrect` | `Spec => []KMTypeOK` |
| `ReportCorrect` | `Spec => []ReportIsKeys` |

`key_cnt` indexes the report, so its range is no matter of types alone: that it stays below the number of
keys follows from `key_cnt = Cardinality(Reported)`, because a key is entered only if it was not reported.
`ReportIsKeys` is inductive together with the range of the bit counter and with `"torn"` recording exactly the
changes behind it; the lemmas about the report say what appending a key at `key_cnt` and shifting one out
do to the set of its keys and to its having no gaps.

`HostHubProofs` proves, for every number of ports, attempts, moves and faults:

| theorem | statement |
|---|---|
| `HostTypeCorrect` | `Spec => []HostTypeOK` |
| `AddressesAreOwn` | `Spec => []AddressIsOwn` |

The inductive invariant has three parts. `RootInv` follows the root device through the loop: from
`PollHub` to the last port the root is a hub which the host takes for enumerated. `PortInv` ties the table to
devices and loop: what answers has power, what the table knows has the index of its position, and the port
under enumeration is `ROOT_DEV_CONNECTED`. `CleanInv`, which
holds while no port is excused, is the argument proper: a device that answers at an address other than 0
answers at the one its own index gives (`Answers`), is known to the table (`Known`), only the port under
enumeration answers at address 0 (`NewComer`), and a port that is about to be enumerated has no old
address (`Promised`). Indices are distinct, hence addresses are.

`PdLinkProofs` proves, for every number of attempts and detections, all timeouts and any number of pulls:

| theorem | statement |
|---|---|
| `LinkTypeCorrect` | `Spec => []LinkTypeOK` |
| `SuccessAlwaysGranted` | `Spec => []SuccessIsGranted` |
| `EndsAlwaysAgree` | `ReplyMax > ReadyMax => (Spec => []EndsAgree)` |

The types of each end are proved for that end alone, with its control (`SnkControl`, `SrcControl`: what is
transmitted, and when), and lifted to the link: a step of the link is a step of an end, of the clock, or
leaves the end alone. `SuccessIsGranted` is not inductive, because a PS_RDY travels: it waits in the sink's buffer,
is acknowledged, is taken, and one the sink only overheard becomes a message with the next hard reset.
`ReadyAhead` covers all these places, and `Granted` says that while any holds, the contract stands and
no SRC_CAP or REQUEST that could start another is under way. `NotBefore` says none is left from the
last contract when the source begins a new one; it needs `NoneKept` (a waiting sink handles a PS_RDY at
once, so none outlives the clock's tick) and `OnTheWire` (the source polls while the sink acknowledges, and the
sink's buffer holds what it sent).

`EndsAgree` is a matter of time. `Accepting`: in the period in which the sink acknowledges the ACCEPT anything
may still be under way, late soft resets and their answers included, but a sink that waits for an answer has just
taken that ACCEPT, or has it in its buffer. `Settled`: from the next tick on nothing is under way but the
PS_RDY, and the sink has not waited longer than the source. So the sink has not given up when the PS_RDY comes, if
it waits longer (499 ms) than the source takes to send it (19 ms): the hypothesis, without which TLC finds a
counterexample (`ReplyMax = ReadyMax`). `Ready`: afterwards the source has nothing to send and
nothing to answer, and the PS_RDY is taken from the buffer. Two facts support this: a source that looks for a
sink has no contract and none is being asked for (`Unplugged`; `RequestAhead` lists where a REQUEST may be on its way, and
like a PS_RDY none outlives a tick), and an endless loop leaves the sink idle or deaf (`EndsTidy`).
No number of losses or bounces of the plug needs to be excluded. A sink whose contacts bounce
while the source is already connected may find the connection only after the contract, and is then in SRC_CONNECT, waiting
for an offer it has had; this takes three pulls, while `pd_contract` has one.

`UDiskBotProofs` and `UDiskBotAnswerProofs` prove, for every size of disk and sector, every set of commands that
`UDiskAssumption` allows, and any number of lost handshakes, aborts and bus resets:

| theorem | statement |
|---|---|
| `UDiskTypeCorrect` | `Spec => []UDiskTypeOK` |
| `FlashIsTheHosts` | `Spec => OnlyWritesChangeFlash` |
| `StatusAlwaysTrue` | `Spec => []StatusIsTrue` |
| `ReadsAlwaysStored` | `Spec => []ReadsWhatIsStored` |
| `SilenceIsExcused` | `Spec => []SilentOnlyAfterDamage` |

That sector and packet indices keep their ranges is a matter of counting: a transfer under way has s sectors
ahead (`Ahead`), `UDISK_Transfer_DataLen` is s sectors less the packets of the first that are through, and the s
sectors end on the disk; so the last packet of a transfer is the last of its sector (`OnePacket`). It holds even
after damage. That only the host's write changes the flash needs both ends: `InTheWrite` says that a write under
way in the transport is the host's own and that both count the same packets, with one more on the host's side while
a handshake is missing (`RX_TOG # outTog`); after damage it holds only while endpoint 2 offers something.

The other three rest on `AnswerInv`. `InToggle` follows the toggles: they are out of step only while a handshake is
missing (`Unseen` on endpoint 2, `Seen` on endpoint 3), and the host begins a command at an endpoint that is free or
whose packet it already has. `InSense` keeps the sense key of a failure until the host has asked. `InTune` says, for
each stage of the host, how far the transport can be: `Reading`, `Replying`, `Writing`, `Failed` (stalled),
`Owed` (the status follows when the transport learns of the missing handshake), `Answering` (the CSW is
offered), or `Mute`, the one command that is never answered. `Reading` gives the packet offered its position on the
disk; `Writing` says which sectors are in the flash and what the buffer holds of the next (`Written`), so that
a write is answered with all of it stored (`AllStored`).

All these modules prove about the next-state relation only, so the theorems hold for the fair specifications
too.

Every invariant and every action property the runs check, and both refinements, are thus theorems. Only model-checked are
the properties under fairness, which are out of the prover's reach (they need `ENABLED`): `HeadIsSent` and `StopIsLifted` of
the downlink, `BytesAreUploaded`, `FullPacketIsTerminated` and `UploadExpires` of the uplink,
`PlugLeadsToContract`, `SinkListensAgain` and `SourceListensAgain` of the PD link, `UpdateCompletes` and
`RequestReachesIap` of the boot loader, `Recovers` of the disk, `KeysReachHost` and `NoKeySticks` of the
keyboard, `DevicesAreFound` of the host. The three violations are TLC's counterexamples.

## 5. What the checks found

The three violations of section 3, and, within the passing runs, the exceptions the properties had to name:

* Downlink: a re-initialisation between the test of `Tx_Flag` and the masked section tears the
  ring, also between the test of `Tx_Flag` and that of TC when TC is set; CLEAR_FEATURE(ENDPOINT_HALT) opens an endpoint that flow control holds; a zero-length OUT packet
  stops the transmitter, because no TC follows a DMA of length 0 (`WaitsOnEmpty`). A packet
  repeated after a lost handshake is booked twice and its bytes go out twice, because the interrupt does not look at the
  data toggle; `BridgesBytes` allows that and nothing beyond it, and
  `BooksFreshOnly` fails with `"ackLost"` among the requests, and is checked and proved without it. A bus reset leaves
  the DMA on a packet the variables no longer know (`stray`). The main loop's restart
  (`UART.c:373`) writes ACK over a STALL that SET_FEATURE(ENDPOINT_HALT) has put there.
* Uplink: a bus reset rewinds the variables but not the DMA; the upload timeout frees an endpoint
  that is still armed; an interrupt between the decision and the copy. `UART.c:482` takes an upload
  that `USBFS_Endp_DataUp` refused for done: its bytes are dropped (`"refused"`).
* PD: a contract is only reached from a source that is not in `Stop_Det_Chk` and has its resistors in place;
  after its own hard reset (`PD_Process.c:779` of the source), or one received before it had connected
  (`:98`), the source stays out for good. `Fresh`, the hypothesis of `PlugLeadsToContract`, says so. A sink and a
  source that acknowledge each other's soft resets go on for ever: the retry count the comment at
  `PD_Process.c:701` of the sink speaks of does not exist.
* IAP: on a chip that never had the marker (`main.c:71`), an interrupted first installation boots what there is.
  And since CMD_IAP_ERASE resets nothing (`iap.c:76`, `:83`), a session that follows one given up in the same
  power cycle starts with the addresses, the buffer and `Verify_Star_flag` of its predecessor: it normally fails its
  verification, but it can overrun the marker's page, and after a session given up in VERIFY it can
  verify the wrong place and end a mixed image. A power cycle before every session avoids it.
* Disk: `UDISK_CMD_Deal_Fail` stalls endpoint 3, but the OUT interrupt sets it to ACK on its way out
  (`ch32l103_usbfs_device.c:333`): the data of a refused command are taken, and a packet of 31 bytes
  among them is examined as a command block. The answer is the CSW after CLEAR_FEATURE on endpoint 2, so the host
  does get its status. When the handshake of a CSW is lost, the next command comes while the endpoint is
  busy; `USBFS_Endp_DataUp` refuses its answer and the command times out. MODE_SENSE sets no status and repeats the
  last one, even across a bus reset; MODE_SENSE(10) of another page without a data stage is never
  answered. A class reset leaves the busy mark, a bus reset the flags: after the first the endpoint may be dead, after
  the second a command block may be programmed as sector data or be answered by an empty packet. A host that
  alternates the two can go on for ever; the modelled one follows a bus reset by a class reset.
  A WRITE beyond the capacity is reported as done, because `IFlash_Prog_512` does not look; the modelled
  host stays within it.
* Keyboard: a scan between two bits of the main loop's comparison tears the report: a key sticks or is
  entered twice, and `key_cnt` no longer counts. The USART clears the report keys are held in. A bus reset or a halt
  under a loaded report leaves endpoint 1 busy and disarmed for good (`Dead`). The comments at
  `usbd_compostie_km.c:358` and `:415`, "Key press" and "Key release", stand the wrong way round.
* Host: a port found empty that never had an index clears `HostCtl[0]`, the hub's own entry; a device that
  comes back before its disconnection was seen is addressed at its old address and fails for good; a
  device left half enumerated answers at address 0 together with the next; a hub replugged quickly
  leaves `Device[]` as it was; a hub pulled while its ports are looked at counts as an empty port (`PreEnum1`), which is
  harmless, because the disconnection or re-enumeration that follows sets the tables anew; after `ROOT_DEV_FAILED` a re-attached device is ignored until its disconnection
  is seen; the enumeration of a HID succeeds whatever its transfers return. Each is an entry in `excuse`.

## 6. Not modelled, and why

* Enumeration on endpoint 0, descriptors, suspend and resume of the USB devices: no state is shared with
  the data path except what the control requests above re-initialise.
* The bytes of a transmit DMA that a bus reset leaves running (`ch32l103_usbfs_device.c:761`): the first slot may be
  overwritten while it is read. `stray` records that it happened, and the promise of the FIFO is suspended.
* PD packet contents (which PDO, VDM dialogues; the source answers a REQUEST for object position 0 or beyond 7 by a
  hard reset, `PD_Process.c:812`, which the modelled sink never asks for), the comparators, the low-power mode of the source. `Tmr_Ms_Dlt`
  is an 8-bit difference (`main.c:103` of the sink): a pass of the main loop longer than 255 ms would lose time;
  the model's pass is shorter than a period.
* The framing of UART commands and two transports used at once (they share `IAP_Deal_Buf`, `usb_inf.c:100`).
* Disk: the SPI flash variant, SET_FEATURE(ENDPOINT_HALT), a CBW whose length and direction disagree with a READ or
  WRITE (the length of a transfer wraps at `SW_UDISK.c:646`), and all commands beyond the classes named.
* CompositeKM: the mouse (the same pattern without a list of keys), LEDs, suspend and remote wake-up.
* HOST_KM: descriptors and their parsing, reports and their polling intervals (TIM3), the re-enumeration
  after ten stalls, hubs behind the hub (the code does not enumerate them).
* CompatibilityHID, CH372Device, SimulateCDC-HID, MSC_CD-ROM, HOST_Udisk, HOST_MTP, HOST_IAP: the same transport
  code as the modelled programs, with other contents. USBPD_CH211 drives a chip whose behaviour is not in
  the repository. I2C examples: one transfer between two boards, no state after it.
* Registers, clocks, GPIO, printf.
* Third-party code (FreeRTOS, RT-Thread, TencentOS, LiteOS_m, FatFs), the motor control of
  PD_Electric_Fan (numerics), binary libraries, and the single-peripheral examples. They are nearly all of
  the repository's lines; the modelled programs are the ones whose own logic carries state.

## 7. What could follow

1. HOST_Udisk over `UDiskBot`: the repository's own host against its own disk, in place of the standard's host.
2. The flash driver's splitting of a range into 32 KB, 2 KB and 256 byte blocks, as a function checked
   against the set of pages asked for.
3. CH372Device and SimulateCDC-HID as further instances of the endpoint's busy mark and flow control.
4. Proofs: the safety half of the liveness properties, such as a variant that every step of the uplink's main loop decreases or
   keeps, which the provers can check without fairness.
