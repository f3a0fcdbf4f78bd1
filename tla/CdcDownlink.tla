----------------------------- MODULE CdcDownlink -----------------------------
(***************************************************************************)
(* The host-to-serial half of the SimulateCDC bridge.  The USB hardware    *)
(* writes each bulk OUT packet of endpoint 2 straight into a slot of       *)
(* UART2_Tx_Buf; the USBFS interrupt books the slot; the main loop         *)
(* (UART2_DataTx_Deal) hands booked slots to the USART2 transmit DMA.      *)
(*                                                                         *)
(* Two actors run the firmware: the main loop, whose position in           *)
(* UART2_DataTx_Deal is `pc', and the USBFS interrupt, which may strike    *)
(* at every position.  The region between NVIC_DisableIRQ and              *)
(* NVIC_EnableIRQ is one action.  The host, the USB peripheral, the DMA    *)
(* channel and the USART are external: they follow how the code uses them. *)
(***************************************************************************)
EXTENDS Integers, Sequences

CONSTANTS
  NumMax,      \* DEF_UARTx_TX_BUF_NUM_MAX: slots of the transmit buffer
  PackMax,     \* DEF_USB_FS_PACK_LEN: bytes of a slot
  U16,         \* 2^16, the modulus of the uint16_t counters
  Byte,        \* byte values; contains 0
  Payloads,    \* the packets the host may send (sequences of bytes)
  Requests     \* what else the host may do, see HostControl

Controls == {"lineCoding", "clearHalt", "setHalt"}

ASSUME CdcDownlinkAssumption ==
  /\ NumMax \in Nat /\ NumMax >= 4
  /\ PackMax \in Nat \ {0}
  /\ U16 \in Nat /\ U16 > NumMax /\ U16 > PackMax /\ U16 > NumMax * PackMax
  /\ 0 \in Byte /\ Byte \subseteq Nat
  /\ Payloads \subseteq Seq(Byte)
  /\ \A p \in Payloads : Len(p) <= PackMax
  /\ Requests \subseteq Controls \cup {"busReset", "ackLost"}

VARIABLES
  \* the endpoint-2 registers and the host's side of the pipe
  UART2_Tx_Buf,   \* the bytes of all slots
  EP2_RES,        \* response bits of UEP2_RX_CTRL
  EP2_TOG,        \* expected data toggle, the R_TOG bit of UEP2_RX_CTRL
  EP2_DMA,        \* UEP2_DMA as an offset into UART2_Tx_Buf
  pend,           \* the transfer latched in INT_FG, INT_ST and RX_LEN
  rstPend,        \* the bus-reset bit of INT_FG
  hostTog,        \* the toggle the host sends next
  \* the fields of Uart
  Tx_LoadNum, Tx_DealNum, Tx_RemainNum, Tx_PackLen,
  Tx_Flag, Tx_CurPackLen, Tx_CurPackPtr, USB_Down_StopFlag,
  \* the USART2 transmitter and its DMA channel
  TC, DMAReq, MADDR, CNTR,
  shifted,        \* a byte was written to DATAR and no TC was raised since
  wire,           \* the byte last written to DATAR
  \* control
  pc,             \* position of the main loop in UART2_DataTx_Deal
  damage,         \* history: since the last re-initialisation that found the
                  \* main loop between two transmissions, "torn" by one that
                  \* came between a decision of the loop and its use, or
                  \* "reopened" by the host while flow control had it stopped
  epoch           \* history: alternates with every re-initialisation

usbVars  == <<EP2_RES, EP2_TOG, EP2_DMA>>
hostVars == <<UART2_Tx_Buf, pend, rstPend, hostTog>>
ringVars == <<Tx_LoadNum, Tx_DealNum, Tx_RemainNum, Tx_PackLen>>
curVars  == <<Tx_Flag, Tx_CurPackLen, Tx_CurPackPtr>>
uartVars == <<TC, DMAReq, MADDR, CNTR, shifted, wire>>
history  == <<damage, epoch>>
vars == <<usbVars, hostVars, ringVars, curVars, USB_Down_StopFlag, uartVars,
          pc, history>>

Slots   == 0 .. NumMax - 1
BufLen  == NumMax * PackMax
Offset(s) == s * PackMax
NoXfer  == [kind |-> "none", len |-> 0, tog |-> 0]
NoByte  == -1

(* uint16_t arithmetic and the wrap of a slot number.                      *)
Inc16(n)    == IF n + 1 >= U16 THEN 0 ELSE n + 1
Dec16(n)    == IF n = 0 THEN U16 - 1 ELSE n - 1
Add16(m, n) == IF m + n >= U16 THEN m + n - U16 ELSE m + n
Sub16(m, n) == IF m >= n THEN m - n ELSE m - n + U16
NextSlotLate(s) == IF s >= NumMax THEN 0 ELSE s + 1           \* mutant
NextSlot(s) == IF s + 1 >= NumMax THEN 0 ELSE s + 1

(* The backlog that stops endpoint 2 and the one below which it reopens.   *)
StopAtLate == NumMax - 1                                      \* mutant
StopAt     == NumMax - 2
ReopenBelowNone == 0                                          \* mutant
ReopenBelow     == 2

(* The byte a DMA read of UART2_Tx_Buf[a] fetches; past the array, whatever *)
(* memory holds.                                                           *)
Fetched(a) == IF a < BufLen THEN {UART2_Tx_Buf[a]} ELSE Byte

Init ==
  /\ UART2_Tx_Buf = [a \in 0 .. BufLen - 1 |-> 0]
  /\ EP2_RES = "ACK" /\ EP2_TOG = 0 /\ EP2_DMA = 0
  /\ pend = NoXfer /\ rstPend = 0 /\ hostTog = 0
  /\ Tx_LoadNum = 0 /\ Tx_DealNum = 0 /\ Tx_RemainNum = 0
  /\ Tx_PackLen = [s \in Slots |-> 0]
  /\ Tx_Flag = 0 /\ Tx_CurPackLen = 0 /\ Tx_CurPackPtr = 0
  /\ USB_Down_StopFlag = 0
  /\ TC = 0 /\ DMAReq = 0 /\ MADDR = 0 /\ CNTR = 0
  /\ shifted = 0 /\ wire = NoByte
  /\ pc = "poll" /\ damage = {} /\ epoch = 0

-----------------------------------------------------------------------------
(* The host and the USB peripheral (external).                             *)

(* A bulk OUT packet is taken while the endpoint answers ACK and no        *)
(* transfer interrupt is outstanding (USBFS_UC_INT_BUSY).  If the host     *)
(* misses the handshake it will use the same toggle again.                 *)
HostOut(p) ==
  /\ EP2_RES = "ACK" /\ pend = NoXfer /\ rstPend = 0
  /\ UART2_Tx_Buf' = [a \in 0 .. BufLen - 1 |->
                        IF a \in EP2_DMA .. EP2_DMA + Len(p) - 1
                        THEN p[a - EP2_DMA + 1] ELSE UART2_Tx_Buf[a]]
  /\ pend' = [kind |-> "ep2Out", len |-> Len(p), tog |-> hostTog]
  /\ \/ hostTog' = 1 - hostTog
     \/ "ackLost" \in Requests /\ hostTog' = hostTog
  /\ UNCHANGED <<rstPend, usbVars, ringVars, curVars, USB_Down_StopFlag,
                 uartVars, pc, history>>

(* A control request on endpoint 0: SET_LINE_CODING, CLEAR_FEATURE or      *)
(* SET_FEATURE (ENDPOINT_HALT) for endpoint 2.                             *)
HostControl(r) ==
  /\ r \in Requests \cap Controls
  /\ pend = NoXfer /\ rstPend = 0
  /\ pend' = [NoXfer EXCEPT !.kind = r]
  /\ hostTog' = IF r = "clearHalt" THEN 0 ELSE hostTog
  /\ UNCHANGED <<UART2_Tx_Buf, rstPend, usbVars, ringVars, curVars,
                 USB_Down_StopFlag, uartVars, pc, history>>

HostReset ==
  /\ "busReset" \in Requests /\ rstPend = 0
  /\ rstPend' = 1 /\ hostTog' = 0
  /\ UNCHANGED <<UART2_Tx_Buf, pend, usbVars, ringVars, curVars,
                 USB_Down_StopFlag, uartVars, pc, history>>

-----------------------------------------------------------------------------
(* USBFS_IRQHandler.                                                       *)

(* TOKEN_OUT of endpoint 2: book the slot the hardware has just filled.    *)
Ep2OutIsr ==
  /\ pend.kind = "ep2Out"
  /\ pend' = NoXfer
  /\ EP2_TOG' = 1 - EP2_TOG
  /\ Tx_PackLen' = [Tx_PackLen EXCEPT ![Tx_LoadNum] = pend.len]
  /\ Tx_LoadNum' = NextSlot(Tx_LoadNum)
  /\ EP2_DMA' = Offset(Tx_LoadNum')
  /\ Tx_RemainNum' = Inc16(Tx_RemainNum)
  /\ IF Tx_RemainNum' >= StopAt
     THEN EP2_RES' = "NAK" /\ USB_Down_StopFlag' = 1
     ELSE UNCHANGED <<EP2_RES, USB_Down_StopFlag>>
  /\ UNCHANGED <<UART2_Tx_Buf, rstPend, hostTog, Tx_DealNum, curVars,
                 uartVars, pc, history>>

(* The positions at which the main loop has decided nothing about the ring *)
(* yet: about to test Tx_Flag, or Tx_Flag seen set and about to test TC.   *)
Polls == {"poll", "tc"}

(* UART2_ParaInit: every transmit variable of Uart is zeroed.              *)
UART2_ParaInit ==
  /\ Tx_LoadNum' = 0 /\ Tx_DealNum' = 0 /\ Tx_RemainNum' = 0
  /\ Tx_PackLen' = [s \in Slots |-> 0]
  /\ Tx_Flag' = 0 /\ Tx_CurPackLen' = 0 /\ Tx_CurPackPtr' = 0
  /\ USB_Down_StopFlag' = 0
  /\ damage' = IF pc \in Polls THEN {} ELSE {"torn"}
  /\ epoch' = 1 - epoch

(* The tail of UART2_USB_Init: reception restarts at the first slot.       *)
RestartReceive == EP2_RES' = "ACK" /\ EP2_DMA' = 0

(* EP0 OUT with CDC_SET_LINE_CODING: UART2_USB_Init re-initialises USART2, *)
(* both DMA channels (transmit length 0) and the variables, and re-opens   *)
(* endpoint 2.  The transmitter is switched off and on again, so a TC for  *)
(* the frame in the shifter may or may not still come.                     *)
LineCodingIsr ==
  /\ pend.kind = "lineCoding"
  /\ pend' = NoXfer
  /\ UART2_ParaInit
  /\ TC' = 0 /\ MADDR' = 0 /\ CNTR' = 0 /\ shifted' \in 0 .. 1
  /\ RestartReceive
  /\ UNCHANGED <<UART2_Tx_Buf, rstPend, hostTog, EP2_TOG, DMAReq, wire, pc>>

(* The whole control register is written, so the toggle restarts too.      *)
ReopenKeepingToggle == EP2_RES' = "ACK" /\ UNCHANGED EP2_TOG     \* mutant
Reopen              == EP2_RES' = "ACK" /\ EP2_TOG' = 0

(* CLEAR_FEATURE / SET_FEATURE of ENDPOINT_HALT on endpoint 2 OUT.         *)
ClearHaltIsr ==
  /\ pend.kind = "clearHalt"
  /\ pend' = NoXfer
  /\ Reopen
  /\ damage' = IF USB_Down_StopFlag = 1 THEN damage \cup {"reopened"} ELSE damage
  /\ UNCHANGED <<UART2_Tx_Buf, rstPend, hostTog, EP2_DMA, ringVars, curVars,
                 USB_Down_StopFlag, uartVars, pc, epoch>>

SetHaltIsr ==
  /\ pend.kind = "setHalt"
  /\ pend' = NoXfer
  /\ EP2_RES' = "STALL"
  /\ UNCHANGED <<UART2_Tx_Buf, rstPend, hostTog, EP2_TOG, EP2_DMA, ringVars,
                 curVars, USB_Down_StopFlag, uartVars, pc, history>>

(* Bus reset, served after a latched transfer: USBFS_Device_Endp_Init and  *)
(* UART2_ParaInit(1).  USART2 and its DMA keep running.                    *)
BusResetIsr ==
  /\ rstPend = 1 /\ pend = NoXfer
  /\ rstPend' = 0
  /\ EP2_RES' = "ACK" /\ EP2_TOG' = 0 /\ EP2_DMA' = 0
  /\ UART2_ParaInit
  /\ UNCHANGED <<UART2_Tx_Buf, pend, hostTog, uartVars, pc>>

Isr == Ep2OutIsr \/ LineCodingIsr \/ ClearHaltIsr \/ SetHaltIsr \/ BusResetIsr

-----------------------------------------------------------------------------
(* The main loop: UART2_DataTx_Deal.                                       *)

(* Tx_Flag is seen set; TC is looked at next, and an interrupt may come    *)
(* between the two.                                                        *)
TxSeeFlag ==
  /\ pc = "poll" /\ Tx_Flag = 1
  /\ pc' = "tc"
  /\ UNCHANGED <<usbVars, hostVars, ringVars, curVars, USB_Down_StopFlag,
                 uartVars, history>>

TxNotYet ==
  /\ pc = "tc" /\ TC = 0
  /\ pc' = "poll"
  /\ UNCHANGED <<usbVars, hostVars, ringVars, curVars, USB_Down_StopFlag,
                 uartVars, history>>

(* TC is seen: acknowledge it and the flag, then mask the interrupt.  When *)
(* a re-initialisation has zeroed Tx_Flag after its test, this completes a *)
(* transmission the ring no longer knows.                                  *)
TxSeeComplete ==
  /\ pc = "tc" /\ TC = 1
  /\ TC' = 0 /\ DMAReq' = 0 /\ Tx_Flag' = 0
  /\ pc' = "complete"
  /\ damage' = IF Tx_Flag = 0 THEN damage \cup {"torn"} ELSE damage
  /\ UNCHANGED <<usbVars, hostVars, ringVars, Tx_CurPackLen, Tx_CurPackPtr,
                 USB_Down_StopFlag, MADDR, CNTR, shifted, wire, epoch>>

(* The section with the USB interrupt masked: account for what the DMA     *)
(* sent, free the slot once it is exhausted, lift the flow-control stop.   *)
TxComplete ==
  /\ pc = "complete" /\ pc' = "poll"
  /\ LET count == Sub16(Tx_CurPackLen, CNTR) IN
       /\ Tx_CurPackLen' = Sub16(Tx_CurPackLen, count)
       /\ Tx_CurPackPtr' = Add16(Tx_CurPackPtr, count)
  /\ IF Tx_CurPackLen' = 0
     THEN /\ Tx_PackLen' = [Tx_PackLen EXCEPT ![Tx_DealNum] = 0]
          /\ Tx_DealNum' = NextSlot(Tx_DealNum)
          /\ Tx_RemainNum' = Dec16(Tx_RemainNum)
     ELSE UNCHANGED <<Tx_PackLen, Tx_DealNum, Tx_RemainNum>>
  /\ IF USB_Down_StopFlag = 1 /\ Tx_RemainNum' < ReopenBelow
     THEN EP2_RES' = "ACK" /\ USB_Down_StopFlag' = 0
     ELSE UNCHANGED <<EP2_RES, USB_Down_StopFlag>>
  /\ UNCHANGED <<EP2_TOG, EP2_DMA, hostVars, Tx_LoadNum, Tx_Flag, uartVars,
                 history>>

(* Nothing on the wire and a booked slot.                                  *)
TxSeeWork ==
  /\ pc = "poll" /\ Tx_Flag = 0 /\ Tx_RemainNum # 0
  /\ pc' = "load"
  /\ UNCHANGED <<usbVars, hostVars, ringVars, curVars, USB_Down_StopFlag,
                 uartVars, history>>

TxLoadAfresh ==                                               \* mutant
  /\ pc = "load" /\ pc' = "arm"
  /\ Tx_CurPackLen' = Tx_PackLen[Tx_DealNum]
  /\ Tx_CurPackPtr' = Offset(Tx_DealNum)
  /\ UNCHANGED <<usbVars, hostVars, ringVars, Tx_Flag, USB_Down_StopFlag,
                 uartVars, history>>

(* Take the next slot unless part of the current one is still unsent.      *)
TxLoad ==
  /\ pc = "load" /\ pc' = "arm"
  /\ IF Tx_CurPackLen = 0
     THEN /\ Tx_CurPackLen' = Tx_PackLen[Tx_DealNum]
          /\ Tx_CurPackPtr' = Offset(Tx_DealNum)
     ELSE UNCHANGED <<Tx_CurPackLen, Tx_CurPackPtr>>
  /\ UNCHANGED <<usbVars, hostVars, ringVars, Tx_Flag, USB_Down_StopFlag,
                 uartVars, history>>

(* Clear TC, point the DMA channel at the data and request it ...          *)
TxArm ==
  /\ pc = "arm" /\ pc' = "flag"
  /\ TC' = 0 /\ MADDR' = Tx_CurPackPtr /\ CNTR' = Tx_CurPackLen
  /\ DMAReq' = 1
  /\ UNCHANGED <<usbVars, hostVars, ringVars, curVars, USB_Down_StopFlag,
                 shifted, wire, history>>

TxSetFlagClearTC ==                                           \* mutant
  /\ pc = "flag" /\ pc' = "poll"
  /\ Tx_Flag' = 1 /\ TC' = 0
  /\ UNCHANGED <<usbVars, hostVars, ringVars, Tx_CurPackLen, Tx_CurPackPtr,
                 USB_Down_StopFlag, DMAReq, MADDR, CNTR, shifted, wire, history>>

(* ... and only then remember that a transmission is running.              *)
TxSetFlag ==
  /\ pc = "flag" /\ pc' = "poll"
  /\ Tx_Flag' = 1
  /\ UNCHANGED <<usbVars, hostVars, ringVars, Tx_CurPackLen, Tx_CurPackPtr,
                 USB_Down_StopFlag, uartVars, history>>

Main ==
  \/ TxSeeFlag \/ TxNotYet \/ TxSeeComplete \/ TxComplete
  \/ TxSeeWork \/ TxLoad \/ TxArm \/ TxSetFlag

-----------------------------------------------------------------------------
(* The USART2 transmitter and DMA1 channel 7 (external).                   *)

UartByte ==
  /\ DMAReq = 1 /\ CNTR > 0
  /\ wire' \in Fetched(MADDR)
  /\ MADDR' = Add16(MADDR, 1) /\ CNTR' = CNTR - 1 /\ shifted' = 1
  /\ UNCHANGED <<usbVars, hostVars, ringVars, curVars, USB_Down_StopFlag,
                 TC, DMAReq, pc, history>>

(* The shifter runs empty: after the last byte, or in between when the DMA *)
(* was late.                                                               *)
UartTC ==
  /\ shifted = 1 /\ shifted' = 0
  /\ TC' = 1
  /\ UNCHANGED <<usbVars, hostVars, ringVars, curVars, USB_Down_StopFlag,
                 DMAReq, MADDR, CNTR, wire, pc, history>>

Usart == UartByte \/ UartTC

Next ==
  \/ \E p \in Payloads : HostOut(p)
  \/ \E r \in Controls : HostControl(r)
  \/ HostReset
  \/ Isr \/ Main \/ Usart

Spec == Init /\ [][Next]_vars

(* The interrupt is served, the main loop polls for ever and the USART     *)
(* shifts what it is given.  Nothing is assumed of the host.               *)
Fairness == WF_vars(Isr) /\ WF_vars(Main) /\ WF_vars(UartByte) /\ WF_vars(UartTC)

FairSpec == Spec /\ Fairness

-----------------------------------------------------------------------------
(* Properties.                                                             *)

TypeOK ==
  /\ UART2_Tx_Buf \in [0 .. BufLen - 1 -> Byte]
  /\ EP2_RES \in {"ACK", "NAK", "STALL"} /\ EP2_TOG \in 0 .. 1
  /\ EP2_DMA \in {Offset(s) : s \in Slots}
  /\ pend \in [kind : {"none", "ep2Out"} \cup Controls,
               len : 0 .. PackMax, tog : 0 .. 1]
  /\ rstPend \in 0 .. 1 /\ hostTog \in 0 .. 1
  /\ Tx_LoadNum \in Slots /\ Tx_DealNum \in Slots
  /\ Tx_RemainNum \in 0 .. U16 - 1
  /\ Tx_PackLen \in [Slots -> 0 .. PackMax]
  /\ Tx_Flag \in 0 .. 1
  /\ Tx_CurPackLen \in 0 .. PackMax /\ Tx_CurPackPtr \in 0 .. U16 - 1
  /\ USB_Down_StopFlag \in 0 .. 1
  /\ TC \in 0 .. 1 /\ DMAReq \in 0 .. 1 /\ shifted \in 0 .. 1
  /\ MADDR \in 0 .. U16 - 1 /\ CNTR \in 0 .. PackMax
  /\ wire \in Byte \cup {NoByte}
  /\ pc \in {"poll", "tc", "complete", "load", "arm", "flag"}
  /\ damage \subseteq {"torn", "reopened"} /\ epoch \in 0 .. 1

(* A state no re-initialisation tore and no host request forced open.      *)
Sound == damage = {}

WrapSlot(n) == IF n >= NumMax THEN n - NumMax ELSE n

(* The slots between the main loop's and the interrupt's position.         *)
Booked == {WrapSlot(Tx_DealNum + i) : i \in 0 .. Tx_RemainNum - 1}

(* Of one view of the ring: the backlog count is the distance of the two   *)
(* actors' positions, and the hardware's next slot is the interrupt's.     *)
RingPositions ==
  /\ Tx_LoadNum = WrapSlot(Tx_DealNum + Tx_RemainNum)
  /\ EP2_DMA = Offset(Tx_LoadNum)

(* While endpoint 2 accepts packets there is room for the one it accepts   *)
(* now, and of the two slots in reserve neither is ever used.              *)
StopRelation ==
  /\ Tx_RemainNum <= NumMax - 2
  /\ USB_Down_StopFlag = 0 => Tx_RemainNum < NumMax - 2
  /\ EP2_RES = "ACK" => USB_Down_StopFlag = 0
  /\ EP2_RES = "NAK" => USB_Down_StopFlag = 1
  /\ pend.kind = "ep2Out" => USB_Down_StopFlag = 0

(* The main loop acts on a transmission only while a slot is booked.       *)
HandlerHasWork ==
  /\ pc \notin Polls => Tx_Flag = 0 /\ Tx_RemainNum > 0
  /\ Tx_Flag = 1 => Tx_RemainNum > 0

(* Only booked slots have a length.                                        *)
UnbookedIsEmpty == \A s \in Slots : s \notin Booked => Tx_PackLen[s] = 0

(* The interrupt and the main loop keep one view of the ring, each from    *)
(* its own side: which slots are in use, whether the endpoint may take     *)
(* another packet, and that the loop's decisions still hold when it acts   *)
(* on them.                                                                *)
DownlinkInv ==
  Sound => RingPositions /\ StopRelation /\ HandlerHasWork /\ UnbookedIsEmpty

(* The transmitter waits for a TC that never comes only for a packet of    *)
(* length zero: TC cleared, no byte requested, none in the shifter.        *)
StuckOnlyOnEmptyPacket ==
  Sound /\ Tx_Flag = 1 /\ TC = 0 /\ shifted = 0 /\ CNTR = 0 => Tx_CurPackLen = 0

(* The backlog count never exceeds the number of slots: UART.h calls       *)
(* Tx_RemainNum the "remaining unprocessed number" of the buffer.          *)
RemainNumIsBacklog == Tx_RemainNum <= NumMax

(* A booked packet carries the expected data toggle, though the interrupt  *)
(* does not test it: host and firmware keep in step across halts, line     *)
(* codings and bus resets, while no handshake is lost.                     *)
BooksFreshOnly ==
  [][Ep2OutIsr => pend.tog = EP2_TOG]_vars

(* The transmitter waits for the TC of a packet without bytes.             *)
WaitsOnEmpty == Tx_Flag = 1 /\ Tx_CurPackLen = 0

(* The packet at the head of the ring is put out and its slot freed, or a  *)
(* re-initialisation clears the ring.                                      *)
HeadIsSent ==
  \A s \in Slots :
    (Tx_DealNum = s /\ Tx_RemainNum > 0)
      ~> (Tx_DealNum # s \/ Tx_RemainNum = 0 \/ ~Sound \/ WaitsOnEmpty)

(* An endpoint that flow control stopped is opened again, unless the host  *)
(* halts it.                                                               *)
StopIsLifted ==
  (EP2_RES = "NAK") ~> (EP2_RES # "NAK" \/ ~Sound \/ WaitsOnEmpty)

=============================================================================
