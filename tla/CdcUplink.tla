------------------------------ MODULE CdcUplink ------------------------------
(***************************************************************************)
(* The serial-to-host half of the SimulateCDC bridge.  A circular DMA      *)
(* writes every received byte into UART2_Rx_Buf; the main loop             *)
(* (UART2_DataRx_Deal) counts the new bytes from the DMA counter and       *)
(* uploads them in packets through endpoint 3; the USBFS interrupt reports *)
(* the end of an upload; TIM2 advances two timers.                         *)
(*                                                                         *)
(* `pc' is the main loop's position in UART2_DataRx_Deal.  Each of its     *)
(* three regions with the USB interrupt masked is one action.              *)
(***************************************************************************)
EXTENDS Integers, Sequences

CONSTANTS
  RxLen,        \* DEF_UARTx_RX_BUF_LEN
  PackSize,     \* DEF_USBD_FS_PACK_SIZE
  RxTimeOutMax, \* Uart.Rx_TimeOutMax, in timer ticks
  Pack0Time,    \* DEF_UARTx_RX_TIMEOUT * 20
  UpTimeOut,    \* DEF_UARTx_USB_UP_TIMEOUT
  U8, U16,      \* 2^8 and 2^16, the moduli of the two timers
  Byte,         \* byte values; contains 0
  Requests,     \* what the host may do besides reading, see HostControl
  Timely        \* TRUE: a pass of the main loop is shorter than a tick

Controls == {"lineCoding", "clearHalt", "setHalt"}

ASSUME CdcUplinkAssumption ==
  /\ PackSize \in Nat \ {0} /\ RxLen \in Nat /\ RxLen > PackSize
  /\ RxTimeOutMax \in Nat \ {0} /\ Pack0Time \in Nat \ {0} /\ UpTimeOut \in Nat \ {0}
  /\ U8 \in Nat /\ U8 > RxTimeOutMax
  /\ U16 \in Nat /\ U16 > Pack0Time /\ U16 > UpTimeOut /\ U16 > RxLen
  /\ 0 \in Byte
  /\ Requests \subseteq Controls \cup {"busReset"}
  /\ Timely \in BOOLEAN

VARIABLES
  \* USART2 receiver and DMA1 channel 6
  UART2_Rx_Buf, CNTR,
  \* the fields of Uart and the last DMA count
  Rx_DealPtr, Rx_RemainLen, Rx_TimeOut, LastCount,
  USB_Up_IngFlag, USB_Up_TimeOut, USB_Up_Pack0_Flag,
  \* endpoint 3: busy mark, response bits and the packet in its buffer
  Busy, EP3_RES,
  EP3_Buf,        \* the bytes the host can read, none unless EP3_RES is ACK
  pend,           \* the transfer latched in the USB interrupt flags
  rstPend,        \* the bus-reset bit of INT_FG
  \* control
  pc,             \* position of the main loop in UART2_DataRx_Deal
  packlen,        \* its local variable of that name, while it is in use
  decided,        \* the timers were looked at since the last tick
  \* history
  fresh,          \* bytes received and not yet uploaded, at most RxLen + 1
  damage          \* what went wrong since the last re-initialisation

dmaVars  == <<UART2_Rx_Buf, CNTR>>
ringVars == <<Rx_DealPtr, Rx_RemainLen, LastCount>>
timeVars == <<Rx_TimeOut, USB_Up_TimeOut>>
upVars   == <<USB_Up_IngFlag, USB_Up_Pack0_Flag>>
ep3Vars  == <<Busy, EP3_RES, EP3_Buf>>
hostVars == <<pend, rstPend>>
mainVars == <<pc, packlen>>
history  == <<fresh, damage>>
vars == <<dmaVars, ringVars, timeVars, upVars, ep3Vars, hostVars, mainVars,
          decided, history>>

(* Bytes the DMA has written since the counter was read last.              *)
Unseen == IF LastCount >= CNTR THEN LastCount - CNTR ELSE RxLen - CNTR + LastCount

BytesAt(a, n) == [i \in 1 .. n |-> UART2_Rx_Buf[a + i - 1]]
Sub16(m, n)   == IF m >= n THEN m - n ELSE m - n + U16
AtMost(n, m)  == IF n < m THEN n ELSE m
Hurt(cond, what) == IF cond THEN damage \cup {what} ELSE damage

Init ==
  /\ UART2_Rx_Buf = [a \in 0 .. RxLen - 1 |-> 0] /\ CNTR = RxLen
  /\ Rx_DealPtr = 0 /\ Rx_RemainLen = 0 /\ Rx_TimeOut = 0 /\ LastCount = 0
  /\ USB_Up_IngFlag = 0 /\ USB_Up_TimeOut = 0 /\ USB_Up_Pack0_Flag = 0
  /\ Busy = 0 /\ EP3_RES = "NAK" /\ EP3_Buf = <<>>
  /\ pend = "none" /\ rstPend = FALSE
  /\ pc = "count" /\ packlen = 0 /\ decided = FALSE
  /\ fresh = 0 /\ damage = {}

-----------------------------------------------------------------------------
(* The serial line, the timer and the host (TIM2_IRQHandler is the code's, *)
(* the rest external).                                                     *)

(* A byte arrives.  The counter reloads at the end of the ring; a byte     *)
(* that laps the main loop's last reading or the unread bytes is damage.   *)
UartRx(b) ==
  /\ UART2_Rx_Buf' = [UART2_Rx_Buf EXCEPT ![RxLen - CNTR] = b]
  /\ CNTR' = IF CNTR = 1 THEN RxLen ELSE CNTR - 1
  /\ fresh' = AtMost(fresh + 1, RxLen + 1)
  /\ damage' = Hurt(fresh' > RxLen \/ Unseen = RxLen - 1, "overrun")
  /\ UNCHANGED <<ringVars, timeVars, upVars, ep3Vars, hostVars, mainVars,
                 decided>>

Tick ==
  /\ Timely => decided
  /\ decided' = FALSE
  /\ Rx_TimeOut' = (Rx_TimeOut + 1) % U8
  /\ USB_Up_TimeOut' = (USB_Up_TimeOut + 1) % U16
  /\ UNCHANGED <<dmaVars, ringVars, upVars, ep3Vars, hostVars, mainVars, history>>

(* The host reads endpoint 3.  An empty packet only ends a transfer.       *)
HostIn ==
  /\ EP3_RES = "ACK" /\ pend = "none" /\ ~rstPend
  /\ pend' = "ep3In"
  /\ UNCHANGED <<dmaVars, ringVars, timeVars, upVars, ep3Vars, rstPend,
                 mainVars, decided, history>>

HostControl(r) ==
  /\ r \in Requests /\ pend = "none" /\ ~rstPend
  /\ pend' = r
  /\ UNCHANGED <<dmaVars, ringVars, timeVars, upVars, ep3Vars, rstPend,
                 mainVars, decided, history>>

HostReset ==
  /\ "busReset" \in Requests /\ ~rstPend
  /\ rstPend' = TRUE
  /\ UNCHANGED <<dmaVars, ringVars, timeVars, upVars, ep3Vars, pend,
                 mainVars, decided, history>>

-----------------------------------------------------------------------------
(* USBFS_IRQHandler.                                                       *)

(* Does endpoint 3 hold bytes the host has not read?                       *)
Undelivered == pend # "ep3In" /\ EP3_Buf # <<>>

(* What re-initialising the variables now damages.                         *)
Torn == IF pc = "send" THEN {"torn"} ELSE {}

Ep3InIsr ==
  /\ pend = "ep3In" /\ pend' = "none"
  /\ EP3_RES' = "NAK" /\ Busy' = 0 /\ EP3_Buf' = <<>>
  /\ USB_Up_IngFlag' = 0
  /\ UNCHANGED <<dmaVars, ringVars, timeVars, USB_Up_Pack0_Flag, rstPend, mainVars, decided, history>>

(* UART2_ParaInit: every receive variable of Uart is zeroed.               *)
UART2_ParaInit ==
  /\ Rx_DealPtr' = 0 /\ Rx_RemainLen' = 0 /\ Rx_TimeOut' = 0 /\ LastCount' = 0
  /\ USB_Up_IngFlag' = 0 /\ USB_Up_TimeOut' = 0 /\ USB_Up_Pack0_Flag' = 0
  /\ fresh' = 0

(* SET_LINE_CODING also restarts the receive DMA at the head of the ring;  *)
(* endpoint 3 and its busy mark stay as they are.                          *)
RestartRxDmaNot == UNCHANGED CNTR                             \* mutant
RestartRxDma    == CNTR' = RxLen

LineCodingIsr ==
  /\ pend = "lineCoding" /\ pend' = "none"
  /\ RestartRxDma
  /\ UART2_ParaInit
  /\ damage' = Torn \cup (IF EP3_RES = "ACK" /\ damage # {} THEN {"leftover"} ELSE {})
  /\ UNCHANGED <<UART2_Rx_Buf, ep3Vars, rstPend, mainVars, decided>>

ClearHaltIsr ==
  /\ pend = "clearHalt" /\ pend' = "none"
  /\ EP3_RES' = "NAK" /\ EP3_Buf' = <<>>
  /\ damage' = Hurt(Undelivered, "halted")
  /\ UNCHANGED <<dmaVars, ringVars, timeVars, upVars, Busy, rstPend,
                 mainVars, decided, fresh>>

SetHaltIsr ==
  /\ pend = "setHalt" /\ pend' = "none"
  /\ EP3_RES' = "STALL" /\ EP3_Buf' = <<>>
  /\ damage' = Hurt(Undelivered, "halted")
  /\ UNCHANGED <<dmaVars, ringVars, timeVars, upVars, Busy, rstPend,
                 mainVars, decided, fresh>>

(* A bus reset empties endpoint 3 and rewinds the variables, but not the   *)
(* DMA, which goes on wherever in the ring it was.                         *)
BusResetIsr ==
  /\ rstPend /\ pend = "none" /\ rstPend' = FALSE
  /\ EP3_RES' = "NAK" /\ Busy' = 0 /\ EP3_Buf' = <<>>
  /\ UART2_ParaInit
  /\ damage' = Torn \cup (IF CNTR # RxLen THEN {"stale"} ELSE {})
  /\ UNCHANGED <<dmaVars, pend, mainVars, decided>>

Isr == Ep3InIsr \/ LineCodingIsr \/ ClearHaltIsr \/ SetHaltIsr \/ BusResetIsr

-----------------------------------------------------------------------------
(* The main loop: UART2_DataRx_Deal.                                       *)

(* USBFS_Endp_DataUp: refused, with no effect, while the endpoint is busy; *)
(* the callers do not look at the result.                                  *)
USBFS_Endp_DataUp(bytes) ==
  IF Busy = 0
  THEN Busy' = 1 /\ EP3_RES' = "ACK" /\ EP3_Buf' = bytes
  ELSE UNCHANGED ep3Vars

(* Masked: add what the DMA counter moved since the last reading, unless   *)
(* that exceeds the ring; restart the idle timer.                          *)
NewBytesFromEnd == RxLen - CNTR                               \* mutant
NewBytes ==
  IF LastCount > CNTR THEN LastCount - CNTR ELSE RxLen - CNTR + LastCount

IdleTimeAlways == 0                                           \* mutant
IdleTime       == IF LastCount # CNTR THEN 0 ELSE Rx_TimeOut

CountedUnchecked(n) == Rx_RemainLen + n                       \* mutant
Counted(n) == IF Rx_RemainLen + n <= RxLen THEN Rx_RemainLen + n ELSE Rx_RemainLen

RxCount ==
  /\ pc = "count" /\ pc' = "decide"
  /\ LastCount' = CNTR /\ Rx_TimeOut' = IdleTime
  /\ Rx_RemainLen' = IF LastCount # CNTR THEN Counted(NewBytes) ELSE Rx_RemainLen
  /\ UNCHANGED <<dmaVars, Rx_DealPtr, USB_Up_TimeOut, upVars, ep3Vars, hostVars,
                 packlen, decided, history>>

(* The decision is taken with the interrupt enabled; an interrupt in the   *)
(* midst of it leaves what one just before or just after it leaves.  A     *)
(* packet never runs past the end of the ring.                             *)
Decide(next, n) ==
  /\ pc = "decide" /\ pc' = next
  /\ packlen' = AtMost(n, RxLen - Rx_DealPtr)
  /\ decided' = Timely
  /\ UNCHANGED <<dmaVars, ringVars, timeVars, upVars, ep3Vars, hostVars, history>>

UpFull  == Rx_RemainLen >= PackSize /\ USB_Up_IngFlag = 0 /\ Decide("send", PackSize)
UpShort == /\ Rx_RemainLen \in 1 .. PackSize - 1 /\ USB_Up_IngFlag = 0
           /\ Rx_TimeOut >= RxTimeOutMax
           /\ Decide("send", Rx_RemainLen)
UpWait  == /\ \/ Rx_RemainLen = 0
              \/ /\ Rx_RemainLen < PackSize /\ USB_Up_IngFlag = 0
                 /\ Rx_TimeOut < RxTimeOutMax
              \/ USB_Up_IngFlag = 1 /\ USB_Up_TimeOut < UpTimeOut
           /\ Decide("pack0", 0)

(* The host has not read for too long: forget the upload in progress.      *)
ForgetBusyOnly == Busy' = 0 /\ UNCHANGED USB_Up_IngFlag       \* mutant
ForgetUpload   == Busy' = 0 /\ USB_Up_IngFlag' = 0

UpExpire ==
  /\ pc = "decide" /\ pc' = "pack0"
  /\ Rx_RemainLen # 0 /\ USB_Up_IngFlag = 1 /\ USB_Up_TimeOut >= UpTimeOut
  /\ ForgetUpload
  /\ decided' = Timely
  /\ damage' = damage \cup {"expired"}
  /\ UNCHANGED <<dmaVars, ringVars, timeVars, USB_Up_Pack0_Flag, EP3_RES, EP3_Buf,
                 hostVars, packlen, fresh>>

(* Masked: copy a packet to endpoint 3 and step over it in the ring.       *)
AdvanceUnchecked(n) == Rx_DealPtr' = Rx_DealPtr + n            \* mutant
Advance(n) ==
  Rx_DealPtr' = IF Rx_DealPtr + n >= RxLen THEN 0 ELSE Rx_DealPtr + n

UpSend ==
  /\ pc = "send" /\ pc' = "pack0" /\ packlen' = 0
  /\ USB_Up_IngFlag' = 1 /\ USB_Up_TimeOut' = 0
  /\ USBFS_Endp_DataUp(BytesAt(Rx_DealPtr, packlen))
  /\ Rx_RemainLen' = Sub16(Rx_RemainLen, packlen)
  /\ Advance(packlen)
  /\ USB_Up_Pack0_Flag' = IF packlen = PackSize THEN 1 ELSE USB_Up_Pack0_Flag
  /\ fresh' = IF fresh >= packlen THEN fresh - packlen ELSE 0
  /\ damage' = Hurt(Busy = 1, "refused")
  /\ UNCHANGED <<dmaVars, LastCount, Rx_TimeOut, hostVars, decided>>

(* An empty packet is due after a full one with nothing behind it.         *)
ZlpDueWhileUploading ==                                       \* mutant
  USB_Up_Pack0_Flag = 1 /\ USB_Up_IngFlag = 1 /\ USB_Up_TimeOut >= Pack0Time
ZlpDue == USB_Up_Pack0_Flag = 1 /\ USB_Up_IngFlag = 0 /\ USB_Up_TimeOut >= Pack0Time

ZlpTest ==
  /\ pc = "pack0" /\ pc' = IF ZlpDue THEN "zlp" ELSE "count"
  /\ UNCHANGED <<dmaVars, ringVars, timeVars, upVars, ep3Vars, hostVars, packlen,
                 decided, history>>

(* Masked: the upload flag is raised and lowered again around the upload.  *)
ZlpSend ==
  /\ pc = "zlp" /\ pc' = "count"
  /\ USB_Up_IngFlag' = 0 /\ USB_Up_TimeOut' = 0 /\ USB_Up_Pack0_Flag' = 0
  /\ USBFS_Endp_DataUp(<<>>)
  /\ UNCHANGED <<dmaVars, ringVars, Rx_TimeOut, hostVars, packlen, decided, history>>

Main == \/ RxCount \/ UpFull \/ UpShort \/ UpWait \/ UpExpire \/ UpSend
        \/ ZlpTest \/ ZlpSend

Next ==
  \/ \E b \in Byte : UartRx(b)
  \/ Tick \/ HostIn \/ HostReset
  \/ \E r \in Controls : HostControl(r)
  \/ Isr \/ Main

Spec == Init /\ [][Next]_vars

(* Interrupt, main loop and timer run for ever.                            *)
Fairness == WF_vars(Isr) /\ WF_vars(Main) /\ WF_vars(Tick)
FairSpec == Spec /\ Fairness

(* A host that keeps asking endpoint 3 for data.                           *)
HostReads == SF_vars(HostIn)

-----------------------------------------------------------------------------
(* Properties.                                                             *)

UplinkTypeOK ==
  /\ UART2_Rx_Buf \in [0 .. RxLen - 1 -> Byte] /\ CNTR \in 1 .. RxLen
  /\ Rx_DealPtr \in 0 .. RxLen - 1 /\ Rx_RemainLen \in 0 .. U16 - 1
  /\ LastCount \in 0 .. RxLen
  /\ Rx_TimeOut \in 0 .. U8 - 1 /\ USB_Up_TimeOut \in 0 .. U16 - 1
  /\ USB_Up_IngFlag \in 0 .. 1 /\ USB_Up_Pack0_Flag \in 0 .. 1
  /\ Busy \in 0 .. 1 /\ EP3_RES \in {"ACK", "NAK", "STALL"}
  /\ Len(EP3_Buf) <= PackSize
  /\ pend \in {"none", "ep3In"} \cup Controls /\ rstPend \in BOOLEAN
  /\ pc \in {"count", "decide", "send", "pack0", "zlp"}
  /\ packlen \in 0 .. PackSize
  /\ decided \in BOOLEAN
  /\ fresh \in 0 .. RxLen + 1
  /\ damage \subseteq {"torn", "stale", "overrun", "refused", "expired", "halted",
                    "leftover"}

Sound == damage = {}
RingSound == damage \cap {"torn", "stale", "overrun"} = {}

(* The main loop's counts are exact: what it has counted and what the DMA  *)
(* counter still hides are the bytes not yet uploaded, and reading them    *)
(* from Rx_DealPtr ends where the DMA stood at the last count.             *)
CountsAgree ==
  RingSound =>
    /\ Rx_RemainLen + Unseen = fresh
    /\ Rx_DealPtr + Rx_RemainLen + LastCount \in {0, RxLen, 2 * RxLen}

(* The count of unread bytes never exceeds the ring nor wraps below zero,  *)
(* and a chosen packet never exceeds the count, also in a ring that was    *)
(* lapped or is read from the wrong place, and with uploads refused,       *)
(* expired or halted.  The one exception: a re-initialisation between the  *)
(* choice of the packet and its copy zeroes the count the copy subtracts   *)
(* from, and the wrapped count stays until the next re-initialisation.     *)
CountNeverWraps ==
  "torn" \notin damage =>
    /\ Rx_RemainLen <= RxLen
    /\ pc = "send" => packlen \in 1 .. Rx_RemainLen

(* Received bytes move on towards a host that reads.                       *)
BytesAreUploaded ==
  HostReads =>
    \A p \in 0 .. RxLen - 1 :
      (fresh > 0 /\ Rx_DealPtr = p) ~> (Rx_DealPtr # p \/ fresh = 0 \/ ~Sound)

(* A transfer that ended on a full packet is terminated by an empty one.   *)
FullPacketIsTerminated ==
  HostReads =>
    ((USB_Up_Pack0_Flag = 1) ~> (USB_Up_Pack0_Flag = 0 \/ fresh > 0 \/ ~Sound))

(* A host that stops reading does not hold back the main loop for ever.    *)
UploadExpires ==
  (USB_Up_IngFlag = 1 /\ Rx_RemainLen > 0)
    ~> (USB_Up_IngFlag = 0 \/ ~(damage \subseteq {"expired"}))

=============================================================================
