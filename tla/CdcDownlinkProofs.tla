-------------------------- MODULE CdcDownlinkProofs --------------------------
(***************************************************************************)
(* Proofs about CdcDownlink for every number of slots, packet size, set of *)
(* packets and set of host requests.                                       *)
(***************************************************************************)
EXTENDS CdcDownlinkFifo, SequenceTheorems, WellFoundedInduction, TLAPS

(* What the step proofs need of the constants, free of products.           *)
LEMMA Constants ==
  /\ NumMax \in Nat /\ NumMax >= 4
  /\ PackMax \in Nat /\ PackMax > 0
  /\ U16 \in Nat /\ U16 > NumMax /\ U16 > PackMax
  /\ 0 \in Byte
BY CdcDownlinkAssumption

USE Constants DEF Polls

(* Offsets of slots and of bytes stay in the uint16_t range.               *)
LEMMA SlotOffset ==
  /\ BufLen \in Nat /\ BufLen < U16
  /\ \A s \in Slots : Offset(s) \in 0 .. U16 - 1
  /\ 0 \in Slots /\ Offset(0) = 0
<1>1. \A s \in Slots : s * PackMax \in Nat /\ s * PackMax <= NumMax * PackMax
  <2> SUFFICES ASSUME NEW s \in Slots
               PROVE  s * PackMax \in Nat /\ s * PackMax <= NumMax * PackMax
    OBVIOUS
  <2>1. NumMax * PackMax = s * PackMax + (NumMax - s) * PackMax
    BY SMT DEF Slots
  <2>2. s * PackMax \in Nat /\ (NumMax - s) * PackMax \in Nat
    BY SMT DEF Slots
  <2>3. QED
    BY <2>1, <2>2, SMT
<1>2. NumMax * PackMax \in Nat
  BY SMT
<1>3. NumMax * PackMax < U16
  BY CdcDownlinkAssumption
<1>4. 0 \in Slots /\ 0 * PackMax = 0
  BY SMT DEF Slots
<1>5. QED
  BY <1>1, <1>2, <1>3, <1>4, SMT DEF BufLen, Offset

(* uint16_t subtraction of a difference gives back the subtrahend.         *)
LEMMA SubSub ==
  ASSUME NEW m \in 0 .. PackMax, NEW n \in 0 .. PackMax
  PROVE  /\ Sub16(m, n) \in 0 .. U16 - 1
         /\ Sub16(m, Sub16(m, n)) = n
BY SMT DEF Sub16

LEMMA AddRange ==
  ASSUME NEW m \in 0 .. U16 - 1, NEW n \in 0 .. U16 - 1
  PROVE  Add16(m, n) \in 0 .. U16 - 1
BY SMT DEF Add16

-----------------------------------------------------------------------------
LEMMA InitTypeOK == Init => TypeOK
<1> SUFFICES ASSUME Init PROVE TypeOK
  OBVIOUS
<1>1. UART2_Tx_Buf \in [0 .. BufLen - 1 -> Byte]
  BY DEF Init
<1>2. EP2_DMA \in {Offset(s) : s \in Slots} /\ MADDR \in 0 .. U16 - 1
  BY SlotOffset DEF Init
<1>3. pend \in [kind : {"none", "ep2Out"} \cup Controls,
                 len : 0 .. PackMax, tog : 0 .. 1]
  BY DEF Init, NoXfer
<1>4. QED
  BY <1>1, <1>2, <1>3, SlotOffset DEF Init, TypeOK

LEMMA HostTypeOK ==
  ASSUME TypeOK,
         \/ \E p \in Payloads : HostOut(p)
         \/ \E r \in Controls : HostControl(r)
         \/ HostReset
  PROVE  TypeOK'
<1>1. ASSUME NEW p \in Payloads, HostOut(p) PROVE TypeOK'
  <2>1. p \in Seq(Byte) /\ Len(p) \in 0 .. PackMax
    BY CdcDownlinkAssumption
  <2>2. EP2_DMA \in Nat
    BY SlotOffset DEF TypeOK
  <2>3. UART2_Tx_Buf' \in [0 .. BufLen - 1 -> Byte]
    <3>1. \A a \in 0 .. BufLen - 1 :
            a \in EP2_DMA .. EP2_DMA + Len(p) - 1 => p[a - EP2_DMA + 1] \in Byte
      BY <2>1, <2>2, SlotOffset
    <3>2. QED
      BY <1>1, <3>1 DEF HostOut, TypeOK
  <2>4. QED
    BY <1>1, <2>1, <2>3
    DEF HostOut, TypeOK, history, NoXfer, usbVars, ringVars, curVars, uartVars
<1>2. ASSUME NEW r \in Controls, HostControl(r) PROVE TypeOK'
  BY <1>2
  DEF HostControl, TypeOK, history, NoXfer, Controls, usbVars, ringVars, curVars,
      uartVars
<1>3. CASE HostReset
  BY <1>3
  DEF HostReset, TypeOK, history, usbVars, ringVars, curVars, uartVars
<1>4. QED
  BY <1>1, <1>2, <1>3

LEMMA IsrTypeOK == ASSUME TypeOK, Isr PROVE TypeOK'
<1>1. CASE Ep2OutIsr
  <2>1. NextSlot(Tx_LoadNum) \in Slots /\ Inc16(Tx_RemainNum) \in 0 .. U16 - 1
    BY SMT DEF TypeOK, NextSlot, Inc16, Slots
  <2>2. Tx_LoadNum' \in Slots /\ EP2_DMA' \in {Offset(s) : s \in Slots}
    BY <1>1, <2>1 DEF Ep2OutIsr
  <2>3. Tx_PackLen' \in [Slots -> 0 .. PackMax]
    BY <1>1 DEF Ep2OutIsr, TypeOK
  <2>4. pend' \in [kind : {"none", "ep2Out"} \cup Controls,
                   len : 0 .. PackMax, tog : 0 .. 1]
    BY <1>1 DEF Ep2OutIsr, NoXfer
  <2>5. /\ Tx_RemainNum' \in 0 .. U16 - 1 /\ EP2_TOG' \in 0 .. 1
        /\ EP2_RES' \in {"ACK", "NAK", "STALL"} /\ USB_Down_StopFlag' \in 0 .. 1
    BY <1>1, <2>1 DEF Ep2OutIsr, TypeOK
  <2>6. QED
    BY <1>1, <2>2, <2>3, <2>4, <2>5
    DEF Ep2OutIsr, TypeOK, history, curVars, uartVars
<1>2. CASE LineCodingIsr
  BY <1>2, SlotOffset
  DEF LineCodingIsr, UART2_ParaInit, RestartReceive, TypeOK, history, NoXfer, Slots
<1>3. CASE ClearHaltIsr
  BY <1>3
  DEF ClearHaltIsr, Reopen, TypeOK, history, NoXfer, ringVars, curVars, uartVars
<1>4. CASE SetHaltIsr
  BY <1>4
  DEF SetHaltIsr, TypeOK, history, NoXfer, ringVars, curVars, uartVars
<1>5. CASE BusResetIsr
  BY <1>5, SlotOffset
  DEF BusResetIsr, UART2_ParaInit, TypeOK, Slots, uartVars
<1>6. QED
  BY <1>1, <1>2, <1>3, <1>4, <1>5 DEF Isr

LEMMA MainTypeOK == ASSUME TypeOK, Main PROVE TypeOK'
<1>1. CASE TxSeeComplete
  BY <1>1 DEF TxSeeComplete, TypeOK, usbVars, hostVars, ringVars
<1>1a. CASE TxSeeFlag \/ TxNotYet
  BY <1>1a
  DEF TxSeeFlag, TxNotYet, TypeOK, history, usbVars, hostVars, ringVars, curVars,
      uartVars
<1>2. CASE TxComplete
  <2>1. Tx_CurPackLen' \in 0 .. PackMax
    BY <1>2, SubSub DEF TxComplete, TypeOK
  <2>2. Tx_CurPackPtr' \in 0 .. U16 - 1
    BY <1>2, SubSub, AddRange DEF TxComplete, TypeOK
  <2>3. NextSlot(Tx_DealNum) \in Slots /\ Dec16(Tx_RemainNum) \in 0 .. U16 - 1
    BY SMT DEF TypeOK, NextSlot, Dec16, Slots
  <2>4. /\ Tx_DealNum' \in Slots /\ Tx_RemainNum' \in 0 .. U16 - 1
        /\ Tx_PackLen' \in [Slots -> 0 .. PackMax]
    <3>1. \/ /\ Tx_PackLen' = [Tx_PackLen EXCEPT ![Tx_DealNum] = 0]
             /\ Tx_DealNum' = NextSlot(Tx_DealNum)
             /\ Tx_RemainNum' = Dec16(Tx_RemainNum)
          \/ UNCHANGED <<Tx_PackLen, Tx_DealNum, Tx_RemainNum>>
      BY <1>2 DEF TxComplete
    <3>2. [Tx_PackLen EXCEPT ![Tx_DealNum] = 0] \in [Slots -> 0 .. PackMax]
      BY DEF TypeOK
    <3>3. QED
      BY <2>3, <3>1, <3>2 DEF TypeOK
  <2>5. EP2_RES' \in {"ACK", "NAK", "STALL"} /\ USB_Down_StopFlag' \in 0 .. 1
    BY <1>2 DEF TxComplete, TypeOK
  <2>6. /\ UNCHANGED <<EP2_TOG, EP2_DMA, hostVars, Tx_LoadNum, Tx_Flag,
                       uartVars, history>>
        /\ pc' = "poll"
    BY <1>2 DEF TxComplete, history
  <2>7. QED
    BY <2>1, <2>2, <2>4, <2>5, <2>6 DEF TypeOK, history, hostVars, uartVars
<1>3. CASE TxSeeWork
  BY <1>3
  DEF TxSeeWork, TypeOK, history, usbVars, hostVars, ringVars, curVars, uartVars
<1>4. CASE TxLoad
  BY <1>4, SlotOffset
  DEF TxLoad, TypeOK, history, usbVars, hostVars, ringVars, uartVars
<1>5. CASE TxArm
  BY <1>5 DEF TxArm, TypeOK, history, usbVars, hostVars, ringVars, curVars
<1>6. CASE TxSetFlag
  BY <1>6 DEF TxSetFlag, TypeOK, history, usbVars, hostVars, ringVars, uartVars
<1>7. QED
  BY <1>1, <1>1a, <1>2, <1>3, <1>4, <1>5, <1>6 DEF Main

LEMMA UsartTypeOK == ASSUME TypeOK, Usart PROVE TypeOK'
<1>1. CASE UartByte
  <2>1. wire' \in Byte
    BY <1>1, SlotOffset DEF UartByte, Fetched, TypeOK
  <2>2. Add16(MADDR, 1) \in 0 .. U16 - 1 /\ CNTR - 1 \in 0 .. PackMax
    BY <1>1, SMT DEF UartByte, TypeOK, Add16
  <2>3. QED
    BY <1>1, <2>1, <2>2
    DEF UartByte, TypeOK, history, usbVars, hostVars, ringVars, curVars
<1>2. CASE UartTC
  BY <1>2 DEF UartTC, TypeOK, history, usbVars, hostVars, ringVars, curVars
<1>3. QED
  BY <1>1, <1>2 DEF Usart

(* Every variable keeps its type, after torn re-initialisations and forced *)
(* openings too: the counters wrap, they are never out of range.           *)
THEOREM TypeCorrect == Spec => []TypeOK
<1>1. TypeOK /\ [Next]_vars => TypeOK'
  <2> SUFFICES ASSUME TypeOK, [Next]_vars PROVE TypeOK'
    OBVIOUS
  <2>1. CASE UNCHANGED vars
    BY <2>1
    DEF vars, TypeOK, history, usbVars, hostVars, ringVars, curVars, uartVars
  <2>2. CASE Next
    BY <2>2, HostTypeOK, IsrTypeOK, MainTypeOK, UsartTypeOK DEF Next
  <2>3. QED
    BY <2>1, <2>2
<1>2. QED
  BY <1>1, InitTypeOK, PTL DEF Spec

-----------------------------------------------------------------------------
(* Booking the slot at the interrupt's position adds just that slot.       *)
LEMMA BookOne ==
  ASSUME TypeOK, RingPositions, Tx_RemainNum < NumMax - 2,
         Tx_DealNum' = Tx_DealNum, Tx_RemainNum' = Tx_RemainNum + 1
  PROVE  /\ NextSlot(Tx_LoadNum) = WrapSlot(Tx_DealNum + Tx_RemainNum + 1)
         /\ \A s \in Booked : s \in Booked'
         /\ Tx_LoadNum \in Booked'
<1>1. /\ Tx_DealNum \in Nat /\ Tx_DealNum < NumMax /\ Tx_RemainNum \in Nat
      /\ Tx_LoadNum = WrapSlot(Tx_DealNum + Tx_RemainNum)
  BY DEF TypeOK, RingPositions, Slots
<1>2. NextSlot(Tx_LoadNum) = WrapSlot(Tx_DealNum + Tx_RemainNum + 1)
  BY <1>1, SMT DEF NextSlot, WrapSlot
<1>3. 0 .. Tx_RemainNum - 1 \subseteq 0 .. Tx_RemainNum' - 1
  BY <1>1, SMT
<1>4. Tx_RemainNum \in 0 .. Tx_RemainNum' - 1
  BY <1>1, SMT
<1>5. QED
  BY <1>1, <1>2, <1>3, <1>4 DEF Booked, WrapSlot

(* Freeing the head slot removes just that slot.                           *)
LEMMA FreeOne ==
  ASSUME TypeOK, RingPositions, Tx_RemainNum > 0, Tx_RemainNum <= NumMax - 2,
         Tx_DealNum' = NextSlot(Tx_DealNum), Tx_RemainNum' = Tx_RemainNum - 1
  PROVE  /\ Tx_LoadNum = WrapSlot(Tx_DealNum' + Tx_RemainNum')
         /\ \A s \in Booked : s # Tx_DealNum => s \in Booked'
<1>1. /\ Tx_DealNum \in Nat /\ Tx_DealNum < NumMax /\ Tx_RemainNum \in Nat
      /\ Tx_LoadNum = WrapSlot(Tx_DealNum + Tx_RemainNum)
  BY DEF TypeOK, RingPositions, Slots
<1>2. Tx_LoadNum = WrapSlot(Tx_DealNum' + Tx_RemainNum')
  BY <1>1, SMT DEF NextSlot, WrapSlot
<1>3. ASSUME NEW s \in Booked, s # Tx_DealNum PROVE s \in Booked'
  <2>1. PICK i \in 0 .. Tx_RemainNum - 1 : s = WrapSlot(Tx_DealNum + i)
    BY <1>3 DEF Booked
  <2>2. i # 0
    BY <1>1, <1>3, <2>1, SMT DEF WrapSlot
  <2>3. /\ i - 1 \in 0 .. Tx_RemainNum' - 1
        /\ s = WrapSlot(Tx_DealNum' + (i - 1))
    BY <1>1, <2>1, <2>2, SMT DEF NextSlot, WrapSlot
  <2>4. QED
    BY <2>3 DEF Booked, WrapSlot
<1>4. QED
  BY <1>2, <1>3

-----------------------------------------------------------------------------
(* What DownlinkInv reads; a step that leaves this alone preserves it.     *)
invVars == <<usbVars, ringVars, Tx_Flag, USB_Down_StopFlag, pc, damage, pend>>

LEMMA InvFrame == DownlinkInv /\ UNCHANGED invVars => DownlinkInv'
BY DEF DownlinkInv, RingPositions, StopRelation, HandlerHasWork,
       UnbookedIsEmpty, Booked, Sound, invVars, usbVars, ringVars, WrapSlot

LEMMA InitInv == Init => DownlinkInv
<1> SUFFICES ASSUME Init PROVE DownlinkInv
  OBVIOUS
<1>1. RingPositions
  BY SlotOffset, SMT DEF Init, RingPositions, WrapSlot
<1>2. StopRelation /\ HandlerHasWork /\ UnbookedIsEmpty
  BY DEF Init, StopRelation, HandlerHasWork, UnbookedIsEmpty, NoXfer
<1>3. QED
  BY <1>1, <1>2 DEF DownlinkInv

LEMMA HostInv ==
  ASSUME TypeOK, DownlinkInv,
         \/ \E p \in Payloads : HostOut(p)
         \/ \E r \in Controls : HostControl(r)
         \/ HostReset
  PROVE  DownlinkInv'
<1> USE DEF DownlinkInv, Sound
<1>1. ASSUME NEW p \in Payloads, HostOut(p) PROVE DownlinkInv'
  <2>1. /\ UNCHANGED <<usbVars, ringVars, Tx_Flag, USB_Down_StopFlag, pc, damage>>
        /\ EP2_RES = "ACK"
    BY <1>1 DEF HostOut, curVars, history
  <2>2. SUFFICES ASSUME Sound
                 PROVE  (RingPositions /\ StopRelation /\ HandlerHasWork
                           /\ UnbookedIsEmpty)'
    BY <2>1
  <2>3. StopRelation'
    BY <2>1, <2>2 DEF StopRelation, usbVars, ringVars
  <2>4. (RingPositions /\ HandlerHasWork /\ UnbookedIsEmpty)'
    BY <2>1, <2>2
    DEF RingPositions, HandlerHasWork, UnbookedIsEmpty, Booked, WrapSlot,
        usbVars, ringVars
  <2>5. QED
    BY <2>3, <2>4
<1>2. ASSUME NEW r \in Controls, HostControl(r) PROVE DownlinkInv'
  <2>1. /\ UNCHANGED <<usbVars, ringVars, Tx_Flag, USB_Down_StopFlag, pc, damage>>
        /\ pend'.kind # "ep2Out"
    BY <1>2 DEF HostControl, curVars, history, NoXfer, Controls
  <2>2. SUFFICES ASSUME Sound
                 PROVE  (RingPositions /\ StopRelation /\ HandlerHasWork
                           /\ UnbookedIsEmpty)'
    BY <2>1
  <2>3. StopRelation'
    BY <2>1, <2>2 DEF StopRelation, usbVars, ringVars
  <2>4. (RingPositions /\ HandlerHasWork /\ UnbookedIsEmpty)'
    BY <2>1, <2>2
    DEF RingPositions, HandlerHasWork, UnbookedIsEmpty, Booked, WrapSlot,
        usbVars, ringVars
  <2>5. QED
    BY <2>3, <2>4
<1>3. CASE HostReset
  BY <1>3, InvFrame DEF HostReset, invVars, curVars, history
<1>4. QED
  BY <1>1, <1>2, <1>3

(* A re-initialisation between two transmissions establishes the invariant *)
(* from any state; one elsewhere is no longer covered by it.               *)
LEMMA ReinitInv ==
  ASSUME UART2_ParaInit, EP2_RES' = "ACK", EP2_DMA' = 0, pend' = NoXfer,
         UNCHANGED pc
  PROVE  DownlinkInv'
<1> SUFFICES ASSUME Sound'
             PROVE  (RingPositions /\ StopRelation /\ HandlerHasWork
                       /\ UnbookedIsEmpty)'
  BY DEF DownlinkInv
<1>1. pc' \in Polls
  BY DEF Sound, UART2_ParaInit
<1>2. RingPositions'
  BY SlotOffset, SMT DEF UART2_ParaInit, RingPositions, WrapSlot
<1>3. StopRelation'
  BY DEF UART2_ParaInit, StopRelation, NoXfer
<1>4. HandlerHasWork' /\ UnbookedIsEmpty'
  BY <1>1 DEF UART2_ParaInit, HandlerHasWork, UnbookedIsEmpty
<1>5. QED
  BY <1>2, <1>3, <1>4

LEMMA IsrInv == ASSUME TypeOK, DownlinkInv, Isr PROVE DownlinkInv'
<1>1. CASE Ep2OutIsr
  <2>1. SUFFICES ASSUME Sound
                 PROVE  (RingPositions /\ StopRelation /\ HandlerHasWork
                           /\ UnbookedIsEmpty)'
    BY <1>1 DEF Ep2OutIsr, DownlinkInv, Sound, history
  <2>2. RingPositions /\ StopRelation /\ HandlerHasWork /\ UnbookedIsEmpty
    BY <2>1 DEF DownlinkInv
  <2>3. /\ USB_Down_StopFlag = 0 /\ Tx_RemainNum < NumMax - 2
        /\ Tx_RemainNum \in Nat
    BY <1>1, <2>2 DEF Ep2OutIsr, StopRelation, TypeOK
  <2>4. Tx_RemainNum' = Tx_RemainNum + 1
    BY <1>1, <2>3, SMT DEF Ep2OutIsr, Inc16
  <2>5. /\ Tx_DealNum' = Tx_DealNum /\ Tx_Flag' = Tx_Flag /\ pc' = pc
        /\ Tx_LoadNum' = NextSlot(Tx_LoadNum) /\ EP2_DMA' = Offset(Tx_LoadNum')
        /\ Tx_PackLen' = [Tx_PackLen EXCEPT ![Tx_LoadNum] = pend.len]
        /\ pend' = NoXfer
    BY <1>1 DEF Ep2OutIsr, curVars
  <2>6. RingPositions'
    <3>1. Tx_DealNum' + Tx_RemainNum' = Tx_DealNum + Tx_RemainNum + 1
      BY <2>3, <2>4, <2>5 DEF TypeOK, Slots
    <3>2. Tx_LoadNum' = WrapSlot(Tx_DealNum + Tx_RemainNum + 1)
      BY <2>2, <2>3, <2>4, <2>5, BookOne
    <3>3. QED
      BY <2>5, <3>1, <3>2 DEF RingPositions, WrapSlot
  <2>7. StopRelation'
    <3>1. CASE Tx_RemainNum' >= NumMax - 2
      BY <1>1, <2>3, <2>4, <2>5, <3>1 DEF Ep2OutIsr, StopAt, StopRelation, NoXfer
    <3>2. CASE ~(Tx_RemainNum' >= NumMax - 2)
      BY <1>1, <2>2, <2>3, <2>4, <2>5, <3>2
      DEF Ep2OutIsr, StopAt, StopRelation, NoXfer
    <3>3. QED
      BY <3>1, <3>2
  <2>8. HandlerHasWork'
    BY <2>2, <2>3, <2>4, <2>5 DEF HandlerHasWork
  <2>9. UnbookedIsEmpty'
    BY <2>2, <2>3, <2>4, <2>5, BookOne DEF UnbookedIsEmpty, TypeOK
  <2>10. QED
    BY <2>6, <2>7, <2>8, <2>9
<1>2. CASE LineCodingIsr
  BY <1>2, ReinitInv DEF LineCodingIsr, RestartReceive
<1>3. CASE ClearHaltIsr
  <2>1. SUFFICES ASSUME Sound'
                 PROVE  (RingPositions /\ StopRelation /\ HandlerHasWork
                           /\ UnbookedIsEmpty)'
    BY DEF DownlinkInv
  <2>2. Sound /\ USB_Down_StopFlag # 1
    BY <1>3, <2>1, Zenon DEF ClearHaltIsr, Sound
  <2>3. /\ RingPositions /\ StopRelation /\ HandlerHasWork /\ UnbookedIsEmpty
        /\ USB_Down_StopFlag = 0
    BY <2>2 DEF DownlinkInv, TypeOK
  <2>4. /\ UNCHANGED <<EP2_DMA, ringVars, Tx_Flag, USB_Down_StopFlag, pc>>
        /\ EP2_RES' = "ACK" /\ pend' = NoXfer
    BY <1>3 DEF ClearHaltIsr, Reopen, curVars
  <2>5. StopRelation'
    BY <2>3, <2>4 DEF StopRelation, NoXfer, ringVars
  <2>6. (RingPositions /\ HandlerHasWork /\ UnbookedIsEmpty)'
    BY <2>3, <2>4
    DEF RingPositions, HandlerHasWork, UnbookedIsEmpty, Booked, WrapSlot, ringVars
  <2>7. QED
    BY <2>5, <2>6
<1>4. CASE SetHaltIsr
  <2>1. /\ UNCHANGED <<EP2_DMA, ringVars, Tx_Flag, USB_Down_StopFlag, pc, damage>>
        /\ EP2_RES' = "STALL" /\ pend' = NoXfer
    BY <1>4 DEF SetHaltIsr, curVars, history
  <2>2. SUFFICES ASSUME Sound
                 PROVE  (RingPositions /\ StopRelation /\ HandlerHasWork
                           /\ UnbookedIsEmpty)'
    BY <2>1 DEF DownlinkInv, Sound
  <2>3. StopRelation'
    BY <2>1, <2>2 DEF DownlinkInv, StopRelation, NoXfer, ringVars
  <2>4. (RingPositions /\ HandlerHasWork /\ UnbookedIsEmpty)'
    BY <2>1, <2>2
    DEF DownlinkInv, RingPositions, HandlerHasWork, UnbookedIsEmpty, Booked,
        WrapSlot, ringVars
  <2>5. QED
    BY <2>3, <2>4
<1>5. CASE BusResetIsr
  BY <1>5, ReinitInv DEF BusResetIsr
<1>6. QED
  BY <1>1, <1>2, <1>3, <1>4, <1>5 DEF Isr

LEMMA MainInv == ASSUME TypeOK, DownlinkInv, Main PROVE DownlinkInv'
<1> SUFFICES ASSUME Sound, Sound'
             PROVE  (RingPositions /\ StopRelation /\ HandlerHasWork
                       /\ UnbookedIsEmpty)'
  <2>1. damage \subseteq damage'
    BY DEF Main, TxSeeFlag, TxNotYet, TxSeeComplete, TxComplete, TxSeeWork, TxLoad,
           TxArm, TxSetFlag, history
  <2>2. QED
    BY <2>1 DEF DownlinkInv, Sound
<1>1. RingPositions /\ StopRelation /\ HandlerHasWork /\ UnbookedIsEmpty
  BY DEF DownlinkInv
(* Every step but TxComplete moves only pc, Tx_Flag and what the invariant *)
(* does not read.                                                          *)
<1>2. ASSUME UNCHANGED <<usbVars, pend, ringVars, USB_Down_StopFlag>>,
             HandlerHasWork'
      PROVE  (RingPositions /\ StopRelation /\ HandlerHasWork
                /\ UnbookedIsEmpty)'
  BY <1>1, <1>2
  DEF RingPositions, StopRelation, UnbookedIsEmpty, Booked, WrapSlot, usbVars,
      ringVars
(* A completion whose flag was zeroed after its test is recorded as torn.  *)
<1>3. CASE TxSeeComplete
  <2>1. Tx_Flag = 1
    BY <1>3 DEF TxSeeComplete, Sound, TypeOK
  <2>2. QED
    BY <1>1, <1>2, <1>3, <2>1 DEF TxSeeComplete, HandlerHasWork, hostVars, ringVars
<1>3a. CASE TxSeeFlag \/ TxNotYet
  BY <1>1, <1>2, <1>3a
  DEF TxSeeFlag, TxNotYet, HandlerHasWork, hostVars, ringVars, curVars
<1>4. CASE TxComplete
  <2>1. /\ Tx_RemainNum > 0 /\ Tx_Flag = 0 /\ Tx_RemainNum \in Nat
        /\ Tx_RemainNum <= NumMax - 2
    BY <1>1, <1>4 DEF TxComplete, HandlerHasWork, StopRelation, TypeOK
  <2>2. /\ UNCHANGED <<EP2_DMA, pend, Tx_LoadNum, Tx_Flag>> /\ pc' = "poll"
    BY <1>4 DEF TxComplete, hostVars
  <2>3. \/ /\ Tx_PackLen' = [Tx_PackLen EXCEPT ![Tx_DealNum] = 0]
           /\ Tx_DealNum' = NextSlot(Tx_DealNum)
           /\ Tx_RemainNum' = Tx_RemainNum - 1
        \/ UNCHANGED <<Tx_PackLen, Tx_DealNum, Tx_RemainNum>>
    <3>1. Dec16(Tx_RemainNum) = Tx_RemainNum - 1
      BY <2>1, SMT DEF Dec16
    <3>2. QED
      BY <1>4, <3>1 DEF TxComplete
  <2>4. RingPositions' /\ UnbookedIsEmpty'
    <3>1. CASE UNCHANGED <<Tx_PackLen, Tx_DealNum, Tx_RemainNum>>
      BY <1>1, <2>2, <3>1 DEF RingPositions, UnbookedIsEmpty, Booked, WrapSlot
    <3>2. CASE /\ Tx_PackLen' = [Tx_PackLen EXCEPT ![Tx_DealNum] = 0]
               /\ Tx_DealNum' = NextSlot(Tx_DealNum)
               /\ Tx_RemainNum' = Tx_RemainNum - 1
      BY <1>1, <2>1, <2>2, <3>2, FreeOne
      DEF RingPositions, UnbookedIsEmpty, TypeOK
    <3>3. QED
      BY <2>3, <3>1, <3>2
  <2>5. /\ Tx_RemainNum' \in Nat /\ Tx_RemainNum' <= Tx_RemainNum
    BY <2>1, <2>3, SMT
  <2>6. StopRelation'
    <3>1. \/ /\ EP2_RES' = "ACK" /\ USB_Down_StopFlag' = 0
             /\ Tx_RemainNum' < 2
          \/ UNCHANGED <<EP2_RES, USB_Down_StopFlag>>
      BY <1>4 DEF TxComplete, ReopenBelow
    <3>2. pend'.kind = "ep2Out" => USB_Down_StopFlag' = 0
      BY <1>1, <2>2, <3>1 DEF StopRelation
    <3>3. QED
      BY <1>1, <2>1, <2>5, <3>1, <3>2 DEF StopRelation
  <2>7. HandlerHasWork'
    BY <2>1, <2>2 DEF HandlerHasWork
  <2>8. QED
    BY <2>4, <2>6, <2>7
<1>5. CASE TxSeeWork
  BY <1>1, <1>2, <1>5
  DEF TxSeeWork, HandlerHasWork, hostVars, ringVars, curVars, TypeOK
<1>6. CASE TxLoad
  BY <1>1, <1>2, <1>6 DEF TxLoad, HandlerHasWork, hostVars, ringVars
<1>7. CASE TxArm
  BY <1>1, <1>2, <1>7 DEF TxArm, HandlerHasWork, hostVars, ringVars, curVars
<1>8. CASE TxSetFlag
  BY <1>1, <1>2, <1>8 DEF TxSetFlag, HandlerHasWork, hostVars, ringVars
<1>9. QED
  BY <1>3, <1>3a, <1>4, <1>5, <1>6, <1>7, <1>8 DEF Main

LEMMA UsartInv == ASSUME DownlinkInv, Usart PROVE DownlinkInv'
BY InvFrame DEF Usart, UartByte, UartTC, invVars, hostVars, curVars, history

THEOREM DownlinkInvariant == Spec => []DownlinkInv
<1>1. TypeOK /\ DownlinkInv /\ [Next]_vars => DownlinkInv'
  <2> SUFFICES ASSUME TypeOK, DownlinkInv, [Next]_vars PROVE DownlinkInv'
    OBVIOUS
  <2>1. CASE UNCHANGED vars
    BY <2>1, InvFrame DEF vars, invVars, hostVars, curVars, history
  <2>2. CASE Next
    BY <2>2, HostInv, IsrInv, MainInv, UsartInv DEF Next
  <2>3. QED
    BY <2>1, <2>2
<1>2. QED
  BY <1>1, InitInv, TypeCorrect, PTL DEF Spec

-----------------------------------------------------------------------------
(* The transmitter, from the moment the DMA is armed.                      *)
WaitInv ==
  Sound /\ (pc = "flag" \/ Tx_Flag = 1) /\ TC = 0 /\ shifted = 0 /\ CNTR = 0
    => Tx_CurPackLen = 0

LEMMA WaitStep ==
  ASSUME TypeOK, DownlinkInv, WaitInv, [Next]_vars
  PROVE  WaitInv'
<1> USE DEF usbVars, hostVars, ringVars, curVars, uartVars, history
<1>1. CASE \/ \E p \in Payloads : HostOut(p)
           \/ \E r \in Controls : HostControl(r)
           \/ HostReset \/ Ep2OutIsr \/ ClearHaltIsr \/ SetHaltIsr
  <2>1. /\ UNCHANGED <<pc, Tx_Flag, TC, shifted, CNTR, Tx_CurPackLen>>
        /\ damage \subseteq damage'
    BY <1>1 DEF HostOut, HostControl, HostReset, Ep2OutIsr, ClearHaltIsr, SetHaltIsr
  <2> QED BY <2>1 DEF WaitInv, Sound
<1>2. CASE LineCodingIsr \/ BusResetIsr
  <2>1. pc' = pc /\ Tx_Flag' = 0 /\ damage' = IF pc \in Polls THEN {} ELSE {"torn"}
    BY <1>2 DEF LineCodingIsr, BusResetIsr, UART2_ParaInit
  <2> QED BY <2>1, SMT DEF WaitInv, Sound
<1>3. CASE TxSeeComplete BY <1>3, SMT DEF TxSeeComplete, WaitInv
<1>3a. CASE TxSeeFlag \/ TxNotYet
  BY <1>3a DEF TxSeeFlag, TxNotYet, WaitInv, Sound
<1>4. CASE TxComplete \/ TxSeeWork \/ TxLoad
  <2>1. /\ Sound => Tx_Flag # 1
        /\ damage' = damage /\ pc' # "flag" /\ Tx_Flag' = Tx_Flag
    BY <1>4, SMT DEF TxComplete, TxSeeWork, TxLoad, DownlinkInv, HandlerHasWork
  <2> QED BY <2>1 DEF WaitInv, Sound
<1>5. CASE TxArm BY <1>5, SMT DEF TxArm, WaitInv
<1>6. CASE TxSetFlag BY <1>6 DEF TxSetFlag, WaitInv, Sound
<1>7. CASE Usart BY <1>7, SMT DEF Usart, UartByte, UartTC, WaitInv
<1>8. CASE UNCHANGED vars BY <1>8 DEF vars, WaitInv, Sound
<1> QED BY <1>1, <1>2, <1>3, <1>3a, <1>4, <1>5, <1>6, <1>7, <1>8 DEF Next, Isr, Main

(* UART2_DataTx_Deal waits for a TC that never comes only for an empty     *)
(* packet: it clears TC before it requests the DMA, and never in between.  *)
THEOREM StuckOnlyWithoutBytes == Spec => []StuckOnlyOnEmptyPacket
<1>1. Init => WaitInv BY SMT DEF Init, WaitInv
<1>2. WaitInv => StuckOnlyOnEmptyPacket BY DEF WaitInv, StuckOnlyOnEmptyPacket
<1> QED
  BY <1>1, <1>2, WaitStep, TypeCorrect, DownlinkInvariant, PTL DEF Spec

-----------------------------------------------------------------------------
(* The data toggle.                                                        *)

(* Between two transfers the host and endpoint 2 agree on the next toggle; *)
(* a halt cleared or a bus reset not yet served has rewound the host's.    *)
ToggleInv ==
  /\ pend.kind = "ep2Out" => pend.tog = EP2_TOG
  /\ rstPend = 0 /\ pend.kind = "ep2Out" => hostTog = 1 - EP2_TOG
  /\ rstPend = 0 /\ pend.kind \notin {"ep2Out", "clearHalt"} => hostTog = EP2_TOG
  /\ rstPend = 1 \/ pend.kind = "clearHalt" => hostTog = 0

LEMMA ToggleStep ==
  ASSUME "ackLost" \notin Requests, TypeOK, ToggleInv, [Next]_vars
  PROVE  ToggleInv'
<1> USE DEF usbVars, hostVars, ringVars, curVars, uartVars, history, NoXfer
<1>0. EP2_TOG \in 0 .. 1 /\ rstPend \in 0 .. 1 /\ hostTog \in 0 .. 1 BY DEF TypeOK
<1>1. CASE \E p \in Payloads : HostOut(p)
  <2>1. PICK p \in Payloads : HostOut(p) BY <1>1
  <2>2. /\ pend'.kind = "ep2Out" /\ pend'.tog = hostTog /\ hostTog' = 1 - hostTog
        /\ EP2_TOG' = EP2_TOG /\ rstPend' = rstPend /\ rstPend = 0 /\ hostTog = EP2_TOG
    BY <2>1, SMT DEF HostOut, ToggleInv
  <2> QED BY <2>2, SMT DEF ToggleInv
<1>2. CASE \E r \in Controls : HostControl(r)
  <2>1. PICK r \in Controls : HostControl(r) BY <1>2
  <2>2. /\ pend'.kind = r /\ r # "ep2Out" /\ hostTog' = IF r = "clearHalt" THEN 0 ELSE hostTog
        /\ EP2_TOG' = EP2_TOG /\ rstPend' = rstPend /\ rstPend = 0 /\ hostTog = EP2_TOG
    BY <2>1, SMT DEF HostControl, Controls, ToggleInv
  <2> QED BY <2>2, SMT DEF ToggleInv
<1>3. CASE HostReset BY <1>3, SMT DEF HostReset, ToggleInv
<1>4. CASE Ep2OutIsr
  <2>1. /\ EP2_TOG' = 1 - EP2_TOG /\ pend'.kind = "none" /\ rstPend' = rstPend
        /\ hostTog' = hostTog /\ pend.kind = "ep2Out"
    BY <1>4 DEF Ep2OutIsr
  <2> QED BY <1>0, <2>1, SMT DEF ToggleInv
<1>5. CASE LineCodingIsr \/ SetHaltIsr
  <2>1. /\ EP2_TOG' = EP2_TOG /\ pend'.kind = "none" /\ rstPend' = rstPend
        /\ hostTog' = hostTog /\ pend.kind \in {"lineCoding", "setHalt"}
    BY <1>5 DEF LineCodingIsr, SetHaltIsr
  <2> QED BY <1>0, <2>1, SMT DEF ToggleInv
<1>6. CASE ClearHaltIsr
  <2>1. /\ EP2_TOG' = 0 /\ pend'.kind = "none" /\ rstPend' = rstPend
        /\ hostTog' = hostTog /\ pend.kind = "clearHalt"
    BY <1>6 DEF ClearHaltIsr, Reopen
  <2> QED BY <1>0, <2>1, SMT DEF ToggleInv
<1>7. CASE BusResetIsr BY <1>7, SMT DEF BusResetIsr, ToggleInv
<1>8. CASE Main \/ Usart \/ UNCHANGED vars
  <2>1. UNCHANGED <<EP2_TOG, pend, rstPend, hostTog>>
    BY <1>8 DEF Main, TxSeeFlag, TxNotYet, TxSeeComplete, TxComplete, TxSeeWork, TxLoad, TxArm, TxSetFlag,
                Usart, UartByte, UartTC, vars
  <2> QED BY <2>1 DEF ToggleInv
<1> QED BY <1>1, <1>2, <1>3, <1>4, <1>5, <1>6, <1>7, <1>8 DEF Next, Isr

(* The interrupt does not compare toggles (ch32l103_usbfs_device.c books   *)
(* every OUT packet).  With a host that hears every handshake the toggles  *)
(* agree at every packet all the same, through halts, line codings and bus *)
(* resets at any moment.  A host that misses a handshake sends the packet  *)
(* again, and it is booked again: the hypothesis is needed.                *)
THEOREM FreshWithoutLostHandshake ==
  "ackLost" \notin Requests => (Spec => BooksFreshOnly)
<1> SUFFICES ASSUME "ackLost" \notin Requests PROVE Spec => BooksFreshOnly
  OBVIOUS
<1>1. Init => ToggleInv BY SMT DEF Init, ToggleInv, NoXfer
<1>2. TypeOK /\ ToggleInv /\ [Next]_vars => ToggleInv' BY ToggleStep
<1>3. ToggleInv => [Ep2OutIsr => pend.tog = EP2_TOG]_vars BY DEF ToggleInv, Ep2OutIsr
<1> QED BY <1>1, <1>2, <1>3, TypeCorrect, PTL DEF Spec, BooksFreshOnly

-----------------------------------------------------------------------------
(* The backlog count.                                                      *)

(* No request that re-initialises the ring or reopens endpoint 2.          *)
LeavesRing == {"lineCoding", "clearHalt", "busReset"} \cap Requests = {}

Untouched ==
  /\ Sound /\ pend.kind \notin {"lineCoding", "clearHalt"} /\ rstPend = 0
  /\ pc = "tc" => Tx_Flag = 1

LEMMA UntouchedStep ==
  ASSUME LeavesRing, Untouched, [Next]_vars
  PROVE  Untouched'
<1> USE DEF Untouched, Sound, hostVars, curVars, history, NoXfer
<1>1. CASE \E p \in Payloads : HostOut(p)
  <2>1. pend'.kind = "ep2Out" /\ rstPend' = rstPend /\ UNCHANGED <<damage, pc, Tx_Flag>>
    BY <1>1 DEF HostOut
  <2> QED BY <2>1
<1>2. CASE \E r \in Controls : HostControl(r)
  <2>1. PICK r \in Controls : HostControl(r) BY <1>2
  <2>2. r \in Requests /\ pend'.kind = r /\ rstPend' = rstPend /\ UNCHANGED <<damage, pc, Tx_Flag>>
    BY <2>1, SMT DEF HostControl
  <2> QED BY <2>2 DEF LeavesRing
<1>3. CASE HostReset BY <1>3 DEF HostReset, LeavesRing
<1>4. CASE Ep2OutIsr \/ SetHaltIsr
  <2>1. pend'.kind = "none" /\ rstPend' = rstPend /\ UNCHANGED <<damage, pc, Tx_Flag>>
    BY <1>4 DEF Ep2OutIsr, SetHaltIsr
  <2> QED BY <2>1
<1>5. CASE LineCodingIsr \/ ClearHaltIsr \/ BusResetIsr
  BY <1>5, SMT DEF LineCodingIsr, ClearHaltIsr, BusResetIsr
<1>6. CASE Main
  <2>1. UNCHANGED <<pend, rstPend, damage>> /\ (pc' = "tc" => Tx_Flag' = 1)
    BY <1>6 DEF Main, TxSeeFlag, TxNotYet, TxSeeComplete, TxComplete, TxSeeWork, TxLoad, TxArm, TxSetFlag
  <2> QED BY <2>1
<1>7. CASE Usart \/ UNCHANGED vars
  <2>1. UNCHANGED <<pend, rstPend, damage, pc, Tx_Flag>>
    BY <1>7 DEF Usart, UartByte, UartTC, vars
  <2> QED BY <2>1
<1> QED BY <1>1, <1>2, <1>3, <1>4, <1>5, <1>6, <1>7 DEF Next, Isr

(* Tx_RemainNum counts the packets that wait, as UART.h:60 says, as long   *)
(* as nothing but packets, SET_FEATURE and lost handshakes reaches the     *)
(* interrupt: what makes UART.c:367 wrap below zero in cdc_down_torn is a  *)
(* re-initialisation, and no interleaving of packets, main loop and DMA.   *)
THEOREM BacklogWithoutReinit ==
  LeavesRing => (Spec => []RemainNumIsBacklog)
<1> SUFFICES ASSUME LeavesRing PROVE Spec => []RemainNumIsBacklog
  OBVIOUS
<1>1. Init => Untouched BY SMT DEF Init, Untouched, Sound, NoXfer
<1>2. Untouched /\ [Next]_vars => Untouched' BY UntouchedStep
<1>3. TypeOK /\ Untouched /\ DownlinkInv => RemainNumIsBacklog
  BY SMT DEF TypeOK, Untouched, DownlinkInv, StopRelation, RemainNumIsBacklog
<1> QED BY <1>1, <1>2, <1>3, TypeCorrect, DownlinkInvariant, PTL DEF Spec

-----------------------------------------------------------------------------
(* Induction over the naturals, from the well-foundedness of their order:  *)
(* the induction theorems of the library take an operator, this one a set. *)
Less == {ss \in Nat \X Nat : ss[1] < ss[2]}

LEMMA SetInduction ==
  ASSUME NEW T, 0 \in T, \A n \in Nat : n \in T => n + 1 \in T
  PROVE  \A n \in Nat : n \in T
<1> SUFFICES ASSUME NEW k \in Nat, k \notin T PROVE FALSE
  OBVIOUS
<1> DEFINE B == {n \in Nat : n \notin T}
<1>1. B \subseteq Nat /\ B # {} OBVIOUS
<1>2. IsWellFoundedOn(Less, Nat) BY NatLessThanWellFounded DEF OpToRel, Less
<1>3. PICK x \in B : \A y \in B : <<y, x>> \notin Less
  <2> HIDE DEF B
  <2> QED BY <1>1, <1>2, WFMin
<1>4. x \in Nat /\ x # 0 BY DEF B
<1>5. x - 1 \in Nat /\ (x - 1) + 1 = x BY <1>4
<1>6. <<x - 1, x>> \in Less BY <1>4, <1>5 DEF Less
<1>7. x - 1 \in T BY <1>3, <1>5, <1>6
<1> QED BY <1>5, <1>7 DEF B

-----------------------------------------------------------------------------
(* FlattenSeq.                                                             *)

(* The bytes of the first i packets, by recursion on i.                    *)
IsFlat(f, ss) ==
  f = [i \in 1 .. Len(ss) |-> IF i = 1 THEN ss[i] ELSE f[i - 1] \o ss[i]]

LEMMA FlatExists ==
  ASSUME NEW ss \in Seq(Seq(Byte))
  PROVE  \E f : IsFlat(f, ss)
<1> DEFINE Upto(n, f) == f = [i \in 1 .. n |-> IF i = 1 THEN ss[i] ELSE f[i - 1] \o ss[i]]
           T == {n \in Nat : \E f : Upto(n, f)}
<1>1. 0 \in T
  <2>1. Upto(0, [i \in 1 .. 0 |-> ss[i]]) OBVIOUS
  <2> QED BY <2>1
<1>2. ASSUME NEW n \in Nat, n \in T PROVE n + 1 \in T
  <2>1. PICK f : Upto(n, f) BY <1>2
  <2> DEFINE g == [i \in 1 .. n + 1 |->
                     IF i = n + 1 THEN (IF i = 1 THEN ss[i] ELSE f[n] \o ss[i]) ELSE f[i]]
  <2>2. ASSUME NEW i \in 1 .. n + 1
        PROVE  g[i] = IF i = 1 THEN ss[i] ELSE g[i - 1] \o ss[i]
    <3>1. CASE i = n + 1
      <4>1. i # 1 => i - 1 \in 1 .. n + 1 /\ i - 1 # n + 1 /\ i - 1 = n BY <3>1, SMT
      <4>2. i # 1 => g[i - 1] = f[n] BY <4>1
      <4> QED BY <3>1, <4>2
    <3>2. CASE i # n + 1
      <4>1. i \in 1 .. n /\ (i # 1 => i - 1 \in 1 .. n + 1 /\ i - 1 # n + 1) BY <3>2, SMT
      <4>2. g[i] = f[i] /\ (i # 1 => g[i - 1] = f[i - 1]) BY <3>2, <4>1
      <4>3. f[i] = IF i = 1 THEN ss[i] ELSE f[i - 1] \o ss[i] BY <2>1, <4>1
      <4> QED BY <4>2, <4>3
    <3> QED BY <3>1, <3>2
  <2>3. g = [i \in 1 .. n + 1 |-> IF i = 1 THEN ss[i] ELSE g[i - 1] \o ss[i]]
    <3> HIDE DEF g
    <3>1. g = [i \in 1 .. n + 1 |-> g[i]] BY DEF g
    <3> QED BY <2>2, <3>1
  <2>4. Upto(n + 1, g)
    <3> HIDE DEF g
    <3> QED BY <2>3
  <2>5. \E f1 : Upto(n + 1, f1)
    <3> HIDE DEF g, Upto
    <3> QED BY <2>4
  <2> HIDE DEF Upto
  <2> QED BY <2>5
<1>3. Len(ss) \in T
  <2> HIDE DEF T
  <2> QED BY <1>1, <1>2, SetInduction, LenProperties
<1> QED BY <1>3 DEF IsFlat

LEMMA FlatUnique ==
  ASSUME NEW s \in Seq(Seq(Byte)), NEW t \in Seq(Seq(Byte)), NEW f, IsFlat(f, s), NEW g, IsFlat(g, t),
         Len(s) # 0, Len(s) <= Len(t), \A i \in 1 .. Len(s) : s[i] = t[i]
  PROVE  f[Len(s)] = g[Len(s)]
<1> DEFINE T == {k \in Nat : k \in 1 .. Len(s) => f[k] = g[k]}
<1>0. /\ \A i \in 1 .. Len(s) : f[i] = IF i = 1 THEN s[i] ELSE f[i - 1] \o s[i]
      /\ \A i \in 1 .. Len(t) : g[i] = IF i = 1 THEN t[i] ELSE g[i - 1] \o t[i]
  BY DEF IsFlat
<1>1. 0 \in T OBVIOUS
<1>2. ASSUME NEW k \in Nat, k \in T PROVE k + 1 \in T
  <2> SUFFICES ASSUME k + 1 \in 1 .. Len(s) PROVE f[k + 1] = g[k + 1]
    OBVIOUS
  <2>1. k + 1 \in 1 .. Len(s) /\ k + 1 \in 1 .. Len(t) BY LenProperties, SMT
  <2>2. s[k + 1] = t[k + 1] OBVIOUS
  <2>3. (k + 1) - 1 = k BY SMT
  <2>4. CASE k = 0 BY <1>0, <2>1, <2>2, <2>4
  <2>5. CASE k # 0
    <3>1. k \in 1 .. Len(s) /\ k + 1 # 1 BY <2>5, LenProperties, SMT
    <3>2. f[k] = g[k] BY <1>2, <3>1
    <3>3. f[k + 1] = f[k] \o s[k + 1] /\ g[k + 1] = g[k] \o t[k + 1]
      BY <1>0, <2>1, <2>3, <3>1
    <3> QED BY <2>2, <3>2, <3>3
  <2> QED BY <2>4, <2>5
<1>3. \A k \in Nat : k \in T
  <2> HIDE DEF T
  <2> QED BY <1>1, <1>2, SetInduction
<1>4. Len(s) \in Nat /\ Len(s) \in 1 .. Len(s) BY LenProperties, SMT
<1> QED BY <1>3, <1>4

(* Every function that obeys the recursion gives FlattenSeq its value.     *)
LEMMA FlattenValue ==
  ASSUME NEW ss \in Seq(Seq(Byte)), Len(ss) # 0, NEW f, IsFlat(f, ss)
  PROVE  FlattenSeq(ss) = f[Len(ss)]
<1> DEFINE c == CHOOSE x : IsFlat(x, ss)
<1>1. IsFlat(c, ss)
  <2>1. \E x : IsFlat(x, ss) BY FlatExists
  <2> QED BY <2>1
<1>2. FlattenSeq(ss) = c[Len(ss)] BY DEF FlattenSeq, IsFlat
<1>3. Len(ss) \in Nat BY LenProperties
<1>4. c[Len(ss)] = f[Len(ss)]
  <2> HIDE DEF c
  <2> QED BY <1>1, <1>3, FlatUnique
<1> QED BY <1>2, <1>4

LEMMA Regroup == \A x, y, z \in Seq(Byte) : (x \o y) \o z = x \o (y \o z)
BY ConcatAssociative

LEMMA FlattenEmpty == FlattenSeq(<< >>) = << >>
BY DEF FlattenSeq

LEMMA FlattenAppend ==
  ASSUME NEW ss \in Seq(Seq(Byte)), NEW s \in Seq(Byte)
  PROVE  FlattenSeq(Append(ss, s)) = FlattenSeq(ss) \o s
<1> DEFINE tt == Append(ss, s)
<1>1. /\ tt \in Seq(Seq(Byte)) /\ Len(tt) = Len(ss) + 1 /\ Len(ss) \in Nat
      /\ tt[Len(ss) + 1] = s /\ \A i \in 1 .. Len(ss) : tt[i] = ss[i]
  BY AppendProperties, LenProperties
<1> HIDE DEF tt
<1>2. PICK f : IsFlat(f, tt) BY <1>1, FlatExists
<1>3. FlattenSeq(tt) = f[Len(ss) + 1] BY <1>1, <1>2, FlattenValue
<1>4. \A i \in 1 .. Len(ss) + 1 : f[i] = IF i = 1 THEN tt[i] ELSE f[i - 1] \o tt[i]
  BY <1>1, <1>2 DEF IsFlat
<1>5. CASE Len(ss) = 0
  <2>1. ss = << >> BY <1>5, EmptySeq
  <2>2. f[1] = s BY <1>1, <1>4, <1>5
  <2>3. FlattenSeq(ss) \o s = s BY <2>1, FlattenEmpty, ConcatEmptySeq
  <2> QED BY <1>3, <1>5, <2>2, <2>3 DEF tt
<1>6. CASE Len(ss) # 0
  <2>1. PICK g : IsFlat(g, ss) BY FlatExists
  <2>2. FlattenSeq(ss) = g[Len(ss)] BY <1>6, <2>1, FlattenValue
  <2>3. Len(ss) <= Len(tt) /\ \A i \in 1 .. Len(ss) : ss[i] = tt[i] BY <1>1, SMT
  <2>4. g[Len(ss)] = f[Len(ss)] BY <1>1, <1>2, <1>6, <2>1, <2>3, FlatUnique
  <2>5. Len(ss) \in 1 .. Len(ss) /\ Len(ss) + 1 \in 1 .. Len(ss) + 1 /\ Len(ss) + 1 # 1
        /\ (Len(ss) + 1) - 1 = Len(ss)
    BY <1>1, <1>6, SMT
  <2>6. f[Len(ss) + 1] = f[Len(ss)] \o s BY <1>1, <1>4, <2>5
  <2> QED BY <1>3, <2>2, <2>4, <2>5, <2>6 DEF tt
<1> QED BY <1>5, <1>6

LEMMA FlattenType ==
  ASSUME NEW ss \in Seq(Seq(Byte))
  PROVE  FlattenSeq(ss) \in Seq(Byte)
<1> DEFINE T == {n \in Nat : \A tt \in Seq(Seq(Byte)) : Len(tt) = n => FlattenSeq(tt) \in Seq(Byte)}
<1>1. 0 \in T
  <2>1. \A tt \in Seq(Seq(Byte)) : Len(tt) = 0 => tt = << >> BY EmptySeq
  <2>2. << >> \in Seq(Byte) BY EmptySeq
  <2> QED BY <2>1, <2>2, FlattenEmpty
<1>2. ASSUME NEW n \in Nat, n \in T PROVE n + 1 \in T
  <2> SUFFICES ASSUME NEW tt \in Seq(Seq(Byte)), Len(tt) = n + 1 PROVE FlattenSeq(tt) \in Seq(Byte)
    OBVIOUS
  <2>1. tt # << >> BY EmptySeq, SMT
  <2>2. PICK uu \in Seq(Seq(Byte)), u \in Seq(Byte) : tt = Append(uu, u)
    BY <2>1, SequenceEmptyOrAppend
  <2>3. Len(uu) = n BY <2>2, AppendProperties, LenProperties
  <2>4. FlattenSeq(uu) \in Seq(Byte) BY <1>2, <2>3
  <2> QED BY <2>2, <2>4, FlattenAppend, ConcatProperties
<1>3. \A n \in Nat : n \in T
  <2> HIDE DEF T
  <2> QED BY <1>1, <1>2, SetInduction
<1>4. Len(ss) \in Nat BY LenProperties
<1> QED BY <1>3, <1>4

LEMMA FlattenFirst ==
  ASSUME NEW ss \in Seq(Seq(Byte)), ss # << >>
  PROVE  FlattenSeq(ss) = ss[1] \o FlattenSeq(Tail(ss))
<1> DEFINE T == {n \in Nat : \A tt \in Seq(Seq(Byte)) :
                   Len(tt) = n + 1 => FlattenSeq(tt) = tt[1] \o FlattenSeq(Tail(tt))}
<1>1. 0 \in T
  <2> SUFFICES ASSUME NEW tt \in Seq(Seq(Byte)), Len(tt) = 1
               PROVE  FlattenSeq(tt) = tt[1] \o FlattenSeq(Tail(tt))
    BY SMT
  <2>0. 1 \in 1 .. Len(tt) BY SMT
  <2>1. tt[1] \in Seq(Byte) BY <2>0, ElementOfSeq
  <2>2. tt = Append(<< >>, tt[1]) BY <2>1, SMT
  <2>3. Tail(tt) = << >> BY <2>2, HeadTailAppend, EmptySeq
  <2>4. FlattenSeq(tt) = << >> \o tt[1] BY <2>1, <2>2, EmptySeq, FlattenEmpty, FlattenAppend
  <2> QED BY <2>1, <2>3, <2>4, FlattenEmpty, ConcatEmptySeq
<1>2. ASSUME NEW n \in Nat, n \in T PROVE n + 1 \in T
  <2> SUFFICES ASSUME NEW tt \in Seq(Seq(Byte)), Len(tt) = (n + 1) + 1
               PROVE  FlattenSeq(tt) = tt[1] \o FlattenSeq(Tail(tt))
    OBVIOUS
  <2>1. tt # << >> BY EmptySeq, SMT
  <2>2. PICK uu \in Seq(Seq(Byte)), u \in Seq(Byte) : tt = Append(uu, u)
    BY <2>1, SequenceEmptyOrAppend
  <2>3. Len(uu) = n + 1 BY <2>2, AppendProperties, LenProperties
  <2>4. uu # << >> BY <2>3, EmptySeq, SMT
  <2>5. FlattenSeq(uu) = uu[1] \o FlattenSeq(Tail(uu)) BY <1>2, <2>3
  <2>6. Tail(tt) = Append(Tail(uu), u) BY <2>2, <2>4, HeadTailAppend
  <2>7. Tail(uu) \in Seq(Seq(Byte)) BY <2>4, HeadTailProperties
  <2>8. tt[1] = uu[1] /\ uu[1] \in Seq(Byte)
    <3>1. 1 \in 1 .. Len(uu) BY <2>3, SMT
    <3> QED BY <2>2, <3>1, AppendProperties, ElementOfSeq
  <2>9. FlattenSeq(tt) = FlattenSeq(uu) \o u BY <2>2, FlattenAppend
  <2>10. FlattenSeq(Tail(tt)) = FlattenSeq(Tail(uu)) \o u BY <2>6, <2>7, FlattenAppend
  <2>11. FlattenSeq(Tail(uu)) \in Seq(Byte) BY <2>7, FlattenType
  <2>12. (uu[1] \o FlattenSeq(Tail(uu))) \o u = uu[1] \o (FlattenSeq(Tail(uu)) \o u)
    BY <2>8, <2>11, Regroup
  <2> QED BY <2>5, <2>8, <2>9, <2>10, <2>12
<1>3. \A n \in Nat : n \in T
  <2> HIDE DEF T
  <2> QED BY <1>1, <1>2, SetInduction
<1>4. Len(ss) - 1 \in Nat /\ Len(ss) = (Len(ss) - 1) + 1 BY EmptySeq, SMT
<1> QED BY <1>3, <1>4

-----------------------------------------------------------------------------
(* The slots of UART2_Tx_Buf and the bytes in them.                        *)

LEMMA SlotRoom == \A s \in Slots : Offset(s) \in Nat /\ Offset(s) + PackMax <= BufLen
<1> SUFFICES ASSUME NEW s \in Slots PROVE s * PackMax \in Nat /\ s * PackMax + PackMax <= NumMax * PackMax
  BY DEF Offset, BufLen
<1>1. NumMax * PackMax = s * PackMax + PackMax + (NumMax - 1 - s) * PackMax BY SMT DEF Slots
<1>2. s * PackMax \in Nat /\ (NumMax - 1 - s) * PackMax \in Nat BY SMT DEF Slots
<1> QED BY <1>1, <1>2, SMT

LEMMA SlotsApart ==
  ASSUME NEW s \in Slots, NEW t \in Slots, s < t
  PROVE  Offset(s) + PackMax <= Offset(t)
<1>1. t * PackMax = s * PackMax + PackMax + (t - 1 - s) * PackMax BY SMT DEF Slots
<1>2. s * PackMax \in Nat /\ (t - 1 - s) * PackMax \in Nat BY SMT DEF Slots
<1> QED BY <1>1, <1>2, SMT DEF Offset

(* An address inside one slot is outside every other.                      *)
LEMMA OtherSlot ==
  ASSUME NEW s \in Slots, NEW t \in Slots, s # t, NEW x \in Nat,
         Offset(s) <= x, x < Offset(s) + PackMax, Offset(t) <= x, x < Offset(t) + PackMax
  PROVE  FALSE
<1>1. s < t \/ t < s BY SMT DEF Slots
<1>2. Offset(s) \in Nat /\ Offset(t) \in Nat BY SlotRoom
<1>3. CASE s < t
  <2>1. Offset(s) + PackMax <= Offset(t) BY <1>3, SlotsApart
  <2> QED BY <1>2, <2>1, SMT
<1>4. CASE t < s
  <2>1. Offset(t) + PackMax <= Offset(s) BY <1>4, SlotsApart
  <2> QED BY <1>2, <2>1, SMT
<1> QED BY <1>1, <1>3, <1>4

(* BytesAt and the tail of Queue over explicit states.                     *)
Piece(buf, a, n) == [i \in 1 .. n |-> buf[a + i - 1]]

Rest(buf, pl, d, r) ==
  [i \in 1 .. r - 1 |-> Piece(buf, Offset(WrapSlot(d + i)), pl[WrapSlot(d + i)])]

LEMMA PieceType ==
  ASSUME NEW buf \in [0 .. BufLen - 1 -> Byte], NEW a \in Nat, NEW n \in Nat, a + n <= BufLen
  PROVE  /\ Piece(buf, a, n) \in Seq(Byte) /\ Len(Piece(buf, a, n)) = n
         /\ \A i \in 1 .. n : Piece(buf, a, n)[i] = buf[a + i - 1]
<1>0. BufLen \in Nat BY SlotOffset
<1>1. \A i \in 1 .. n : a + i - 1 \in 0 .. BufLen - 1 BY <1>0, SMT
<1>2. \A i \in 1 .. n : buf[a + i - 1] \in Byte BY <1>1
<1>3. Piece(buf, a, n) \in [1 .. n -> Byte] BY <1>2 DEF Piece
<1>4. Piece(buf, a, n) \in Seq(Byte) BY <1>3, SeqDef
<1>5. Len(Piece(buf, a, n)) = n BY <1>3, <1>4, LenProperties, SMT DEF Piece
<1> QED BY <1>4, <1>5 DEF Piece

LEMMA PieceKept ==
  ASSUME NEW buf, NEW buf2, NEW a, NEW n, \A i \in 1 .. n : buf2[a + i - 1] = buf[a + i - 1]
  PROVE  Piece(buf2, a, n) = Piece(buf, a, n)
BY DEF Piece

LEMMA SlotPiece ==
  ASSUME NEW buf \in [0 .. BufLen - 1 -> Byte], NEW s \in Slots, NEW n \in 0 .. PackMax
  PROVE  Piece(buf, Offset(s), n) \in Seq(Byte) /\ Len(Piece(buf, Offset(s), n)) = n
<1>0. BufLen \in Nat BY SlotOffset
<1>1. Offset(s) \in Nat /\ Offset(s) + PackMax <= BufLen BY SlotRoom
<1>2. Offset(s) + n <= BufLen /\ n \in Nat BY <1>0, <1>1, SMT
<1> QED BY <1>1, <1>2, PieceType

(* The slots after the head, as far as the ring can be filled.             *)
LEMMA SlotAfter ==
  ASSUME NEW d \in Slots, NEW i \in 0 .. NumMax - 1
  PROVE  /\ WrapSlot(d + i) \in Slots
         /\ \A j \in 0 .. NumMax - 1 : WrapSlot(d + j) = WrapSlot(d + i) => j = i
         /\ WrapSlot(d + 0) = d
         /\ WrapSlot(d + 1) = NextSlot(d)
         /\ i + 1 < NumMax => WrapSlot(NextSlot(d) + i) = WrapSlot(d + (i + 1))
BY SMT DEF Slots, WrapSlot, NextSlot

LEMMA RestType ==
  ASSUME NEW buf \in [0 .. BufLen - 1 -> Byte], NEW pl \in [Slots -> 0 .. PackMax],
         NEW d \in Slots, NEW r \in 1 .. NumMax
  PROVE  Rest(buf, pl, d, r) \in Seq(Seq(Byte)) /\ Len(Rest(buf, pl, d, r)) = r - 1
<1>0. r - 1 \in Nat BY SMT
<1>1. ASSUME NEW i \in 1 .. r - 1
      PROVE  Piece(buf, Offset(WrapSlot(d + i)), pl[WrapSlot(d + i)]) \in Seq(Byte)
  <2>1. i \in 0 .. NumMax - 1 BY SMT
  <2>2. WrapSlot(d + i) \in Slots BY <2>1, SlotAfter
  <2>3. pl[WrapSlot(d + i)] \in 0 .. PackMax BY <2>2
  <2> QED BY <2>2, <2>3, SlotPiece
<1>2. Rest(buf, pl, d, r) \in [1 .. r - 1 -> Seq(Byte)] BY <1>1 DEF Rest
<1>3. Rest(buf, pl, d, r) \in Seq(Seq(Byte)) BY <1>0, <1>2, SeqDef
<1> QED BY <1>0, <1>2, <1>3, LenProperties, SMT


(* Booking a slot behind the last one appends its bytes.                   *)
LEMMA RestAppend ==
  ASSUME NEW buf \in [0 .. BufLen - 1 -> Byte], NEW pl \in [Slots -> 0 .. PackMax],
         NEW d \in Slots, NEW r \in 1 .. NumMax - 1,
         NEW s \in Slots, s = WrapSlot(d + r), NEW m \in Nat, m = r + 1,
         NEW pl2 \in [Slots -> 0 .. PackMax], \A t \in Slots : t # s => pl2[t] = pl[t]
  PROVE  Rest(buf, pl2, d, m) = Append(Rest(buf, pl, d, r), Piece(buf, Offset(s), pl2[s]))
<1> DEFINE left == Rest(buf, pl2, d, m)
           right == Append(Rest(buf, pl, d, r), Piece(buf, Offset(s), pl2[s]))
<1>1. s \in Slots /\ r + 1 \in 1 .. NumMax /\ r \in 1 .. NumMax
      /\ r \in 0 .. NumMax - 1
  <2>1. r \in 0 .. NumMax - 1 /\ r + 1 \in 1 .. NumMax /\ r \in 1 .. NumMax BY SMT
  <2> QED BY <2>1, SlotAfter
<1>2. left \in Seq(Seq(Byte)) /\ Len(left) = r
  <2>1. (r + 1) - 1 = r BY SMT
  <2> QED BY <1>1, <2>1, RestType
<1>3. Rest(buf, pl, d, r) \in Seq(Seq(Byte)) /\ Len(Rest(buf, pl, d, r)) = r - 1 BY <1>1, RestType
<1>4. Piece(buf, Offset(s), pl2[s]) \in Seq(Byte) BY <1>1, SlotPiece
<1>5. /\ right \in Seq(Seq(Byte)) /\ Len(right) = (r - 1) + 1 /\ right[(r - 1) + 1] = Piece(buf, Offset(s), pl2[s])
      /\ \A i \in 1 .. r - 1 : right[i] = Rest(buf, pl, d, r)[i]
  BY <1>3, <1>4, AppendProperties
<1>6. ASSUME NEW i \in 1 .. r PROVE left[i] = right[i]
  <2>1. left[i] = Piece(buf, Offset(WrapSlot(d + i)), pl2[WrapSlot(d + i)])
    <3>1. i \in 1 .. (r + 1) - 1 BY SMT
    <3> QED BY <3>1 DEF Rest
  <2>2. CASE i = r BY <1>1, <1>5, <2>1, <2>2, SMT
  <2>3. CASE i # r
    <3>1. i \in 1 .. r - 1 /\ i \in 0 .. NumMax - 1 BY <2>3, SMT
    <3>a. WrapSlot(d + i) = WrapSlot(d + r) => i = r BY <1>1, <3>1, SlotAfter
    <3>b. WrapSlot(d + i) \in Slots BY <3>1, SlotAfter
    <3>2. WrapSlot(d + i) # s /\ WrapSlot(d + i) \in Slots BY <2>3, <3>a, <3>b
    <3>3. pl2[WrapSlot(d + i)] = pl[WrapSlot(d + i)] BY <3>2
    <3>4. Rest(buf, pl, d, r)[i] = Piece(buf, Offset(WrapSlot(d + i)), pl[WrapSlot(d + i)])
      BY <3>1 DEF Rest
    <3> QED BY <1>5, <2>1, <3>1, <3>3, <3>4
  <2> QED BY <2>2, <2>3
<1>7. Len(right) = r BY <1>5, SMT
<1> HIDE DEF left, right
<1>8. left = right BY <1>2, <1>5, <1>6, <1>7, SeqEqual
<1> QED BY <1>8 DEF left, right

(* Freeing the head slot removes the first of the rest.                    *)
LEMMA RestTail ==
  ASSUME NEW buf \in [0 .. BufLen - 1 -> Byte], NEW pl \in [Slots -> 0 .. PackMax],
         NEW d \in Slots, NEW r \in 2 .. NumMax - 1
  PROVE  /\ Rest(buf, [pl EXCEPT ![d] = 0], NextSlot(d), r - 1) = Tail(Rest(buf, pl, d, r))
         /\ Rest(buf, pl, d, r) # << >>
         /\ Rest(buf, pl, d, r)[1] = Piece(buf, Offset(NextSlot(d)), pl[NextSlot(d)])
         /\ NextSlot(d) # d /\ NextSlot(d) \in Slots
<1> DEFINE pl2 == [pl EXCEPT ![d] = 0]
           all == Rest(buf, pl, d, r)
           left == Rest(buf, pl2, NextSlot(d), r - 1)
<1>1. /\ r \in 1 .. NumMax /\ r - 1 \in 1 .. NumMax /\ 0 \in 0 .. NumMax - 1 /\ 1 \in 0 .. NumMax - 1
      /\ 1 \in 1 .. r - 1
  BY SMT
<1>2. NextSlot(d) \in Slots /\ NextSlot(d) # d BY <1>1, SMT DEF NextSlot, Slots
<1>3. pl2 \in [Slots -> 0 .. PackMax] BY SMT
<1>4. all \in Seq(Seq(Byte)) /\ Len(all) = r - 1 BY <1>1, RestType
<1>5. left \in Seq(Seq(Byte)) /\ Len(left) = (r - 1) - 1
  <2> HIDE DEF pl2
  <2> QED BY <1>1, <1>2, <1>3, RestType
<1>6. all # << >> BY <1>1, <1>4, EmptySeq, SMT
<1>7. all[1] = Piece(buf, Offset(NextSlot(d)), pl[NextSlot(d)])
  <2>1. WrapSlot(d + 1) = NextSlot(d) BY <1>1, SlotAfter
  <2> QED BY <1>1, <2>1 DEF Rest
<1>8. /\ Tail(all) \in Seq(Seq(Byte)) /\ Len(Tail(all)) = (r - 1) - 1
      /\ \A i \in 1 .. (r - 1) - 1 : Tail(all)[i] = all[i + 1]
  <2> HIDE DEF all
  <2> QED BY <1>4, <1>6, HeadTailProperties
<1>9. ASSUME NEW i \in 1 .. (r - 1) - 1 PROVE left[i] = Tail(all)[i]
  <2>1. /\ i + 1 \in 1 .. r - 1 /\ i \in 0 .. NumMax - 1 /\ i + 1 \in 0 .. NumMax - 1
        /\ i + 1 < NumMax /\ i + 1 # 0
    BY SMT
  <2>2. WrapSlot(NextSlot(d) + i) = WrapSlot(d + (i + 1)) BY <2>1, SlotAfter
  <2>3. WrapSlot(d + (i + 1)) # d /\ WrapSlot(d + (i + 1)) \in Slots
    BY <1>1, <2>1, SlotAfter
  <2>4. pl2[WrapSlot(d + (i + 1))] = pl[WrapSlot(d + (i + 1))] BY <2>3
  <2>5. left[i] = Piece(buf, Offset(WrapSlot(NextSlot(d) + i)), pl2[WrapSlot(NextSlot(d) + i)])
    <3> HIDE DEF pl2
    <3> QED BY DEF Rest
  <2>6. all[i + 1] = Piece(buf, Offset(WrapSlot(d + (i + 1))), pl[WrapSlot(d + (i + 1))])
    BY <2>1 DEF Rest
  <2> QED BY <1>8, <2>2, <2>4, <2>5, <2>6
<1> HIDE DEF left, all
<1>10. left = Tail(all) BY <1>5, <1>8, <1>9, SeqEqual
<1> QED BY <1>2, <1>6, <1>7, <1>10 DEF left, all

(* Bytes written to an unbooked slot are in nobody's way.                  *)
LEMMA RestKept ==
  ASSUME NEW buf, NEW buf2, NEW pl \in [Slots -> 0 .. PackMax], NEW d \in Slots,
         NEW r \in 1 .. NumMax - 1, NEW s, s = WrapSlot(d + r),
         \A t \in Slots : \A x \in Nat :
           t # s /\ Offset(t) <= x /\ x < Offset(t) + PackMax => buf2[x] = buf[x]
  PROVE  Rest(buf2, pl, d, r) = Rest(buf, pl, d, r)
<1>1. ASSUME NEW i \in 1 .. r - 1
      PROVE  Piece(buf2, Offset(WrapSlot(d + i)), pl[WrapSlot(d + i)])
               = Piece(buf, Offset(WrapSlot(d + i)), pl[WrapSlot(d + i)])
  <2>1. i \in 0 .. NumMax - 1 /\ r \in 0 .. NumMax - 1 /\ i # r BY SMT
  <2>2. WrapSlot(d + i) \in Slots /\ WrapSlot(d + i) # s BY <2>1, SlotAfter
  <2>3. PICK t \in Slots : t = WrapSlot(d + i) BY <2>2
  <2>4. pl[t] \in 0 .. PackMax /\ Offset(t) \in Nat BY <2>3, SlotRoom
  <2>5. ASSUME NEW j \in 1 .. pl[t] PROVE buf2[Offset(t) + j - 1] = buf[Offset(t) + j - 1]
    <3>1. PICK x \in Nat : x = Offset(t) + j - 1 BY <2>4, SMT
    <3>2. Offset(t) <= x /\ x < Offset(t) + PackMax BY <2>4, <3>1, SMT
    <3> QED BY <2>2, <2>3, <3>1, <3>2
  <2> QED BY <2>3, <2>5, PieceKept
<1> QED BY <1>1 DEF Rest


-----------------------------------------------------------------------------
(* The slot in hand.                                                       *)

InHand == pc \in {"arm", "flag", "complete"} \/ Tx_Flag = 1 \/ Tx_CurPackLen > 0

Armed == pc \in {"flag", "complete"} \/ Tx_Flag = 1

(* From TxLoad to the moment the slot is freed, what is still unsent is    *)
(* the end of the slot at Tx_DealNum, and the armed DMA is inside it; the  *)
(* DMA fetches bytes only in between.                                      *)
HandInv ==
  Intact =>
    /\ DMAReq = 1 /\ CNTR > 0 => pc = "flag" \/ Tx_Flag = 1
    /\ Tx_RemainNum = 0 => Tx_CurPackLen = 0
    /\ InHand => /\ Tx_CurPackPtr + Tx_CurPackLen = Offset(Tx_DealNum) + Tx_PackLen[Tx_DealNum]
                 /\ Tx_CurPackPtr >= Offset(Tx_DealNum)
    /\ pc = "arm" /\ Tx_CurPackLen = 0 => Tx_PackLen[Tx_DealNum] = 0
    /\ Armed => MADDR + CNTR = Tx_CurPackPtr + Tx_CurPackLen /\ CNTR <= Tx_CurPackLen

(* The latched packet lies in the slot the hardware put it into.           *)
SentInv == Waiting => BytesAt(EP2_DMA, pend.len) = sent

FifoInv == TypeOK /\ DownlinkInv /\ HandInv /\ SentInv

(* The history variables only watch.                                       *)
LEMMA HistoryWatches ==
  ASSUME NextH
  PROVE  /\ [Next]_vars
         /\ stray' = IF epoch' # epoch THEN DMAReq' = 1 /\ CNTR' > 0 ELSE stray
<1>1. CASE \E p \in Payloads : HostSends(p)
  BY <1>1 DEF HostSends, HostOut, Next, history
<1>2. CASE HostGivesUp
  <2>1. epoch' = epoch
    BY <1>2 DEF HostGivesUp, HostReset, HostControl, vars, history
  <2>2. [Next]_vars
    BY <1>2 DEF HostGivesUp, Next, Controls
  <2> QED BY <1>2, <2>1, <2>2 DEF HostGivesUp
<1>3. CASE HostAsks
  BY <1>3 DEF HostAsks, HostControl, Next, history
<1>4. CASE Firmware
  BY <1>4 DEF Firmware, Next
<1> QED BY <1>1, <1>2, <1>3, <1>4 DEF NextH

(* Only a re-initialisation repairs.                                       *)
LEMMA OnlyReinitRepairs ==
  ASSUME NextH, ~(LineCodingIsr \/ BusResetIsr)
  PROVE  epoch' = epoch /\ stray' = stray /\ damage \subseteq damage' /\ (Intact' => Intact)
<1>1. epoch' = epoch /\ damage \subseteq damage'
  <2>1. CASE UNCHANGED vars BY <2>1 DEF vars, history
  <2>2. CASE Next
    BY <2>2
    DEF Next, Isr, Main, Usart, HostOut, HostControl, HostReset, Ep2OutIsr, ClearHaltIsr,
        SetHaltIsr, TxSeeFlag, TxNotYet, TxSeeComplete, TxComplete, TxSeeWork, TxLoad, TxArm,
        TxSetFlag, UartByte, UartTC, history
  <2> QED BY <2>1, <2>2, HistoryWatches
<1>2. stray' = stray BY <1>1, HistoryWatches
<1> QED BY <1>1, <1>2 DEF Intact, Sound

(* The facts about the slot in hand as plain arithmetic.                   *)
LEMMA HandFacts ==
  ASSUME FifoInv
  PROVE  /\ Tx_DealNum \in Slots /\ Offset(Tx_DealNum) \in Nat /\ Tx_PackLen[Tx_DealNum] \in 0 .. PackMax
         /\ Offset(Tx_DealNum) + PackMax <= BufLen /\ BufLen \in Nat /\ BufLen < U16
         /\ Tx_CurPackLen \in 0 .. PackMax /\ Tx_CurPackPtr \in 0 .. U16 - 1
         /\ MADDR \in 0 .. U16 - 1 /\ CNTR \in 0 .. PackMax
         /\ Tx_RemainNum \in Nat
BY SlotRoom, SlotOffset DEF FifoInv, TypeOK

LEMMA HandReinit ==
  ASSUME NextH, LineCodingIsr \/ BusResetIsr, TypeOK
  PROVE  /\ HandInv' /\ epoch' = 1 - epoch /\ epoch' # epoch
         /\ Intact' => pc' \in Polls /\ Tx_RemainNum' = 0
<1>1. /\ epoch' = 1 - epoch /\ pc' = pc /\ Tx_Flag' = 0 /\ Tx_CurPackLen' = 0 /\ Tx_RemainNum' = 0
      /\ damage' = IF pc \in Polls THEN {} ELSE {"torn"}
  BY DEF LineCodingIsr, BusResetIsr, UART2_ParaInit
<1>2. epoch' # epoch BY <1>1, SMT DEF TypeOK
<1>3. stray' = (DMAReq' = 1 /\ CNTR' > 0) BY <1>2, HistoryWatches
<1>4. Intact' => pc' \in Polls BY <1>1 DEF Intact, Sound
<1>5. Intact' => ~(DMAReq' = 1 /\ CNTR' > 0) BY <1>3 DEF Intact
<1> QED BY <1>1, <1>2, <1>4, <1>5 DEF HandInv, InHand, Armed

LEMMA HandBook ==
  ASSUME FifoInv, Intact, Ep2OutIsr, Intact'
  PROVE  /\ HandInv'
         /\ Tx_RemainNum' = Tx_RemainNum + 1 /\ Tx_RemainNum <= NumMax - 3
         /\ Tx_LoadNum = WrapSlot(Tx_DealNum + Tx_RemainNum)
         /\ Tx_RemainNum > 0 => Tx_LoadNum # Tx_DealNum
         /\ Tx_RemainNum = 0 => Tx_LoadNum = Tx_DealNum /\ ~InHand
<1> USE HandFacts
<1>1. /\ RingPositions /\ StopRelation /\ HandlerHasWork /\ Tx_LoadNum \in Slots
      /\ Tx_RemainNum \in 0 .. U16 - 1
  BY DEF FifoInv, DownlinkInv, Intact, TypeOK
<1>2. USB_Down_StopFlag = 0 /\ Tx_RemainNum <= NumMax - 3
  BY <1>1, SMT DEF Ep2OutIsr, StopRelation
<1>3. Tx_RemainNum' = Tx_RemainNum + 1 BY <1>1, <1>2, SMT DEF Ep2OutIsr, Inc16
<1>4. Tx_LoadNum = WrapSlot(Tx_DealNum + Tx_RemainNum) BY <1>1 DEF RingPositions
<1>5. Tx_RemainNum > 0 => Tx_LoadNum # Tx_DealNum BY <1>2, <1>4, SMT DEF WrapSlot, Slots
<1>6. Tx_RemainNum = 0 => Tx_LoadNum = Tx_DealNum BY <1>4, SMT DEF WrapSlot, Slots
<1>7. Tx_RemainNum = 0 => ~InHand
  BY <1>1, SMT DEF HandlerHasWork, InHand, FifoInv, HandInv, TypeOK
<1>8. /\ UNCHANGED <<pc, Tx_Flag, Tx_CurPackLen, Tx_CurPackPtr, DMAReq, CNTR, MADDR, Tx_DealNum>>
      /\ Tx_PackLen' = [Tx_PackLen EXCEPT ![Tx_LoadNum] = pend.len]
  BY DEF Ep2OutIsr, curVars, uartVars
<1>9. Tx_RemainNum > 0 => Tx_PackLen'[Tx_DealNum] = Tx_PackLen[Tx_DealNum]
  BY <1>5, <1>8 DEF FifoInv, TypeOK
<1>10. pc = "arm" => Tx_RemainNum > 0 BY <1>1 DEF HandlerHasWork
<1>11. InHand' = InHand /\ Armed' = Armed BY <1>8 DEF InHand, Armed
<1>12. Armed => InHand BY DEF Armed, InHand
<1>13. HandInv'
  <2> SUFFICES /\ DMAReq = 1 /\ CNTR > 0 => pc = "flag" \/ Tx_Flag = 1
               /\ InHand => /\ Tx_CurPackPtr + Tx_CurPackLen = Offset(Tx_DealNum) + Tx_PackLen'[Tx_DealNum]
                            /\ Tx_CurPackPtr >= Offset(Tx_DealNum)
               /\ pc = "arm" /\ Tx_CurPackLen = 0 => Tx_PackLen'[Tx_DealNum] = 0
               /\ Armed => MADDR + CNTR = Tx_CurPackPtr + Tx_CurPackLen /\ CNTR <= Tx_CurPackLen
    <3>1. Tx_RemainNum' # 0 BY <1>3, SMT
    <3> QED BY <1>8, <1>11, <3>1 DEF HandInv
  <2>1. InHand => Tx_RemainNum > 0 BY <1>7, SMT
  <2> QED BY <1>9, <1>10, <2>1 DEF FifoInv, HandInv
<1> QED BY <1>2, <1>3, <1>4, <1>5, <1>6, <1>7, <1>13


(* The main loop, up to the account of what was sent: the bytes in hand    *)
(* stay the bytes in hand.                                                 *)
LEMMA HandMain ==
  ASSUME FifoInv, Intact, Intact',
         TxSeeFlag \/ TxNotYet \/ TxSeeComplete \/ TxSeeWork \/ TxLoad \/ TxArm \/ TxSetFlag
  PROVE  /\ HandInv' /\ CurrentBytes' = CurrentBytes
         /\ UNCHANGED <<UART2_Tx_Buf, Tx_PackLen, Tx_DealNum, Tx_RemainNum, wire>>
<1> USE HandFacts
<1> USE DEF ringVars, curVars, uartVars, hostVars
<1>1. HandlerHasWork BY DEF FifoInv, DownlinkInv, Intact
<1>2. UNCHANGED <<UART2_Tx_Buf, Tx_PackLen, Tx_DealNum, Tx_RemainNum, wire>>
  BY DEF TxSeeFlag, TxNotYet, TxSeeComplete, TxSeeWork, TxLoad, TxArm, TxSetFlag
<1>3. /\ DMAReq = 1 /\ CNTR > 0 => pc = "flag" \/ Tx_Flag = 1
      /\ Tx_RemainNum = 0 => Tx_CurPackLen = 0
      /\ InHand => /\ Tx_CurPackPtr + Tx_CurPackLen = Offset(Tx_DealNum) + Tx_PackLen[Tx_DealNum]
                   /\ Tx_CurPackPtr >= Offset(Tx_DealNum)
      /\ pc = "arm" /\ Tx_CurPackLen = 0 => Tx_PackLen[Tx_DealNum] = 0
      /\ Armed => MADDR + CNTR = Tx_CurPackPtr + Tx_CurPackLen /\ CNTR <= Tx_CurPackLen
  BY DEF FifoInv, HandInv
<1>4. CASE TxSeeComplete
  <2>0. Tx_Flag = 1
    BY <1>4 DEF TxSeeComplete, Intact, Sound, FifoInv, TypeOK
  <2>1. HandInv' BY <1>2, <1>3, <1>4, <2>0 DEF TxSeeComplete, HandInv, InHand, Armed
  <2>2. CurrentBytes' = CurrentBytes BY <1>2, <1>4, <2>0 DEF TxSeeComplete, CurrentBytes, BytesAt
  <2> QED BY <1>2, <2>1, <2>2
<1>4a. CASE TxSeeFlag \/ TxNotYet
  <2>1. HandInv' BY <1>2, <1>3, <1>4a DEF TxSeeFlag, TxNotYet, HandInv, InHand, Armed
  <2>2. CurrentBytes' = CurrentBytes
    BY <1>2, <1>4a DEF TxSeeFlag, TxNotYet, CurrentBytes, SlotBytes, BytesAt
  <2> QED BY <1>2, <2>1, <2>2
<1>5. CASE TxSeeWork
  <2>1. HandInv' BY <1>2, <1>3, <1>5 DEF TxSeeWork, HandInv, InHand, Armed
  <2>2. CurrentBytes' = CurrentBytes
    BY <1>2, <1>5 DEF TxSeeWork, CurrentBytes, SlotBytes, BytesAt
  <2> QED BY <1>2, <2>1, <2>2
<1>6. CASE TxLoad
  <2>0. /\ pc = "load" /\ pc' = "arm" /\ Tx_Flag = 0 /\ Tx_RemainNum > 0 /\ Tx_Flag' = 0
        /\ UNCHANGED <<DMAReq, CNTR, MADDR>>
    BY <1>1, <1>6 DEF TxLoad, HandlerHasWork
  <2>a. CASE Tx_CurPackLen = 0
    <3>1. Tx_CurPackLen' = Tx_PackLen[Tx_DealNum] /\ Tx_CurPackPtr' = Offset(Tx_DealNum)
      BY <1>6, <2>a DEF TxLoad
    <3>2. HandInv' BY <1>2, <1>3, <2>0, <3>1 DEF HandInv, InHand, Armed
    <3>3. CurrentBytes = SlotBytes(Tx_DealNum) BY <2>0, <2>a DEF CurrentBytes
    <3>4. CurrentBytes' = SlotBytes(Tx_DealNum)
      BY <1>2, <2>0, <3>1 DEF CurrentBytes, SlotBytes, BytesAt
    <3> QED BY <1>2, <3>2, <3>3, <3>4
  <2>b. CASE Tx_CurPackLen # 0
    <3>1. UNCHANGED <<Tx_CurPackLen, Tx_CurPackPtr>> BY <1>6, <2>b DEF TxLoad
    <3>2. HandInv' BY <1>2, <1>3, <2>0, <2>b, <3>1 DEF HandInv, InHand, Armed
    <3>3. CurrentBytes' = CurrentBytes
      BY <1>2, <2>0, <2>b, <3>1 DEF CurrentBytes, SlotBytes, BytesAt
    <3> QED BY <1>2, <3>2, <3>3
  <2> QED BY <2>a, <2>b
<1>7. CASE TxArm
  <2>0. /\ pc = "arm" /\ pc' = "flag" /\ Tx_Flag = 0 /\ Tx_RemainNum > 0 /\ Tx_Flag' = 0
        /\ MADDR' = Tx_CurPackPtr /\ CNTR' = Tx_CurPackLen
        /\ UNCHANGED <<Tx_CurPackLen, Tx_CurPackPtr>>
    BY <1>1, <1>7 DEF TxArm, HandlerHasWork
  <2>1. HandInv' BY <1>2, <1>3, <2>0 DEF HandInv, InHand, Armed
  <2>2. CurrentBytes' = BytesAt(Tx_CurPackPtr, Tx_CurPackLen)
    BY <1>2, <2>0 DEF CurrentBytes, BytesAt
  <2>3. CurrentBytes = BytesAt(Tx_CurPackPtr, Tx_CurPackLen)
    <3>1. CASE Tx_CurPackLen > 0 BY <2>0, <3>1 DEF CurrentBytes
    <3>2. CASE Tx_CurPackLen = 0
      <4>1. Tx_PackLen[Tx_DealNum] = 0 BY <1>3, <2>0, <3>2
      <4>2. \A a, b : BytesAt(a, 0) = BytesAt(b, 0) BY DEF BytesAt
      <4>3. CurrentBytes = BytesAt(Offset(Tx_DealNum), 0)
        BY <2>0, <3>2, <4>1 DEF CurrentBytes, SlotBytes
      <4> QED BY <3>2, <4>2, <4>3
    <3> QED BY <3>1, <3>2
  <2> QED BY <1>2, <2>1, <2>2, <2>3
<1>8. CASE TxSetFlag
  <2>1. HandInv' BY <1>2, <1>3, <1>8 DEF TxSetFlag, HandInv, InHand, Armed
  <2>2. CurrentBytes' = CurrentBytes BY <1>2, <1>8 DEF TxSetFlag, CurrentBytes, BytesAt
  <2> QED BY <1>2, <2>1, <2>2
<1> QED BY <1>4, <1>4a, <1>5, <1>6, <1>7, <1>8

(* TxComplete: what the DMA did not send stays in hand, and a slot sent to *)
(* its last byte is freed.                                                 *)
LEMMA HandComplete ==
  ASSUME FifoInv, Intact, TxComplete
  PROVE  /\ HandInv'
         /\ UNCHANGED <<UART2_Tx_Buf, wire>> /\ Tx_RemainNum > 0 /\ pc' = "poll" /\ Tx_Flag' = 0
         /\ Armed
         /\ \/ /\ CNTR > 0 /\ CurrentBytes' = CurrentBytes
               /\ UNCHANGED <<Tx_PackLen, Tx_DealNum, Tx_RemainNum>>
            \/ /\ CNTR = 0 /\ Tx_CurPackLen' = 0
               /\ Tx_PackLen' = [Tx_PackLen EXCEPT ![Tx_DealNum] = 0]
               /\ Tx_DealNum' = NextSlot(Tx_DealNum)
               /\ Tx_RemainNum' = Tx_RemainNum - 1
<1> USE HandFacts
<1>1. HandlerHasWork BY DEF FifoInv, DownlinkInv, Intact
<1>2. /\ pc = "complete" /\ pc' = "poll" /\ Tx_Flag = 0 /\ Tx_Flag' = 0 /\ Tx_RemainNum > 0
      /\ UNCHANGED <<UART2_Tx_Buf, wire, DMAReq, CNTR, MADDR>>
  BY <1>1 DEF TxComplete, HandlerHasWork, hostVars, uartVars
<1>3. Armed /\ InHand BY <1>2 DEF Armed, InHand
<1>4. /\ ~(DMAReq = 1 /\ CNTR > 0)
      /\ Tx_CurPackPtr + Tx_CurPackLen = Offset(Tx_DealNum) + Tx_PackLen[Tx_DealNum]
      /\ Tx_CurPackPtr >= Offset(Tx_DealNum)
      /\ MADDR + CNTR = Tx_CurPackPtr + Tx_CurPackLen /\ CNTR <= Tx_CurPackLen
  BY <1>2, <1>3 DEF FifoInv, HandInv
<1>5. Sub16(Tx_CurPackLen, CNTR) = Tx_CurPackLen - CNTR BY <1>4, SMT DEF Sub16
<1>6. /\ Sub16(Tx_CurPackLen, Tx_CurPackLen - CNTR) = CNTR
      /\ Add16(Tx_CurPackPtr, Tx_CurPackLen - CNTR) = MADDR
  BY <1>4, SMT DEF Sub16, Add16
<1>7. Tx_CurPackLen' = CNTR /\ Tx_CurPackPtr' = MADDR BY <1>5, <1>6 DEF TxComplete
<1>8. CASE CNTR > 0
  <2>1. UNCHANGED <<Tx_PackLen, Tx_DealNum, Tx_RemainNum>> BY <1>7, <1>8 DEF TxComplete
  <2>2. HandInv' BY <1>2, <1>4, <1>7, <1>8, <2>1 DEF HandInv, InHand, Armed
  <2>3. CurrentBytes = BytesAt(MADDR, CNTR) BY <1>2 DEF CurrentBytes
  <2>4. CurrentBytes' = BytesAt(MADDR, CNTR) BY <1>2, <1>7, <1>8 DEF CurrentBytes, BytesAt
  <2> QED BY <1>2, <1>3, <1>8, <2>1, <2>2, <2>3, <2>4
<1>9. CASE CNTR = 0
  <2>0. Tx_RemainNum \in 0 .. U16 - 1 BY DEF FifoInv, TypeOK
  <2>1. Dec16(Tx_RemainNum) = Tx_RemainNum - 1 BY <1>2, <2>0, SMT DEF Dec16
  <2>2. /\ Tx_PackLen' = [Tx_PackLen EXCEPT ![Tx_DealNum] = 0]
        /\ Tx_DealNum' = NextSlot(Tx_DealNum)
        /\ Tx_RemainNum' = Tx_RemainNum - 1
    BY <1>7, <1>9, <2>1 DEF TxComplete
  <2>3. HandInv' BY <1>2, <1>7, <1>9, SMT DEF HandInv, InHand, Armed
  <2> QED BY <1>2, <1>3, <1>7, <1>9, <2>2, <2>3
<1> QED BY <1>8, <1>9, SMT

(* A byte leaves: the first of those in hand.                              *)
LEMMA HandByte ==
  ASSUME FifoInv, Intact, UartByte
  PROVE  /\ HandInv' /\ Tx_RemainNum > 0
         /\ CNTR > 0 /\ MADDR >= Offset(Tx_DealNum)
         /\ MADDR + CNTR = Offset(Tx_DealNum) + Tx_PackLen[Tx_DealNum]
         /\ CurrentBytes = BytesAt(MADDR, CNTR)
         /\ CurrentBytes' = BytesAt(MADDR + 1, CNTR - 1)
         /\ wire' = UART2_Tx_Buf[MADDR] /\ MADDR \in 0 .. BufLen - 1
         /\ UNCHANGED <<UART2_Tx_Buf, Tx_PackLen, Tx_DealNum, Tx_RemainNum>>
<1> USE HandFacts
<1>1. HandlerHasWork BY DEF FifoInv, DownlinkInv, Intact
<1>2. /\ UNCHANGED <<UART2_Tx_Buf, Tx_PackLen, Tx_DealNum, Tx_RemainNum, pc, Tx_Flag, DMAReq,
                     Tx_CurPackLen, Tx_CurPackPtr>>
      /\ DMAReq = 1 /\ CNTR > 0 /\ CNTR' = CNTR - 1
  BY DEF UartByte, hostVars, ringVars, curVars
<1>3. Armed /\ InHand /\ (pc = "flag" \/ Tx_Flag = 1)
  BY <1>2 DEF FifoInv, HandInv, Armed, InHand
<1>4. /\ Tx_CurPackPtr + Tx_CurPackLen = Offset(Tx_DealNum) + Tx_PackLen[Tx_DealNum]
      /\ Tx_CurPackPtr >= Offset(Tx_DealNum)
      /\ MADDR + CNTR = Tx_CurPackPtr + Tx_CurPackLen /\ CNTR <= Tx_CurPackLen
  BY <1>3 DEF FifoInv, HandInv
<1>5. MADDR >= Offset(Tx_DealNum) /\ MADDR \in 0 .. BufLen - 1 /\ MADDR < BufLen
  BY <1>2, <1>4, SMT
<1>6. MADDR' = MADDR + 1 BY <1>5, SMT DEF UartByte, Add16
<1>7. wire' = UART2_Tx_Buf[MADDR] BY <1>5 DEF UartByte, Fetched
<1>8. Tx_RemainNum > 0 BY <1>1, <1>3 DEF HandlerHasWork
<1>9. CurrentBytes = BytesAt(MADDR, CNTR) BY <1>3 DEF CurrentBytes
<1>10. CurrentBytes' = BytesAt(MADDR + 1, CNTR - 1)
  BY <1>2, <1>3, <1>6 DEF CurrentBytes, BytesAt
<1>11. HandInv'
  <2>1. /\ MADDR' + CNTR' = Tx_CurPackPtr + Tx_CurPackLen /\ CNTR' <= Tx_CurPackLen
    BY <1>2, <1>4, <1>6, SMT
  <2>2. /\ Tx_RemainNum = 0 => Tx_CurPackLen = 0
        /\ pc = "arm" /\ Tx_CurPackLen = 0 => Tx_PackLen[Tx_DealNum] = 0
    BY DEF FifoInv, HandInv
  <2> QED BY <1>2, <1>3, <1>4, <2>1, <2>2 DEF HandInv, InHand, Armed
<1> QED BY <1>2, <1>4, <1>5, <1>7, <1>8, <1>9, <1>10, <1>11


-----------------------------------------------------------------------------
(* Every other step leaves the slot in hand alone.                         *)
LEMMA HandRests ==
  ASSUME FifoInv, NextH, ~(LineCodingIsr \/ BusResetIsr),
         UNCHANGED <<DMAReq, CNTR, MADDR, pc, curVars, Tx_PackLen, Tx_DealNum, Tx_RemainNum>>
  PROVE  HandInv'
<1>1. Intact' => Intact BY OnlyReinitRepairs
<1> QED BY <1>1 DEF FifoInv, HandInv, InHand, Armed, curVars

LEMMA HandStep == ASSUME FifoInv, NextH PROVE HandInv'
<1> USE DEF usbVars, hostVars, ringVars, curVars, uartVars
<1>0. Next \/ UNCHANGED vars BY HistoryWatches
<1>1. CASE LineCodingIsr \/ BusResetIsr BY <1>1, HandReinit DEF FifoInv
<1>2. CASE ~(LineCodingIsr \/ BusResetIsr)
  <2>1. SUFFICES ASSUME Intact' PROVE HandInv' BY DEF HandInv
  <2>2. Intact BY <1>2, <2>1, OnlyReinitRepairs
  <2>3. CASE \/ \E p \in Payloads : HostOut(p)
             \/ \E r \in Controls : HostControl(r)
             \/ HostReset \/ ClearHaltIsr \/ SetHaltIsr \/ UartTC
             \/ UNCHANGED vars
    <3>1. UNCHANGED <<DMAReq, CNTR, MADDR, pc, curVars, Tx_PackLen, Tx_DealNum, Tx_RemainNum>>
      BY <2>3 DEF HostOut, HostControl, HostReset, ClearHaltIsr, SetHaltIsr, UartTC, vars
    <3> QED BY <1>2, <3>1, HandRests
  <2>4. CASE Ep2OutIsr BY <2>1, <2>2, <2>4, HandBook
  <2>5. CASE TxComplete BY <2>2, <2>5, HandComplete
  <2>6. CASE \/ TxSeeFlag \/ TxNotYet \/ TxSeeComplete
             \/ TxSeeWork \/ TxLoad \/ TxArm \/ TxSetFlag
    BY <2>1, <2>2, <2>6, HandMain
  <2>7. CASE UartByte BY <2>2, <2>7, HandByte
  <2> QED BY <1>0, <1>2, <2>3, <2>4, <2>5, <2>6, <2>7 DEF Next, Isr, Main, Usart
<1> QED BY <1>1, <1>2

(* A packet in the buffer reads back as it was sent.                       *)
LEMMA PacketInBuffer ==
  ASSUME TypeOK, NEW p \in Payloads, HostOut(p)
  PROVE  /\ BytesAt(EP2_DMA, pend.len)' = p /\ pend'.kind = "ep2Out"
         /\ \A x \in 0 .. BufLen - 1 :
              x < EP2_DMA \/ x >= EP2_DMA + PackMax => UART2_Tx_Buf'[x] = UART2_Tx_Buf[x]
<1>1. p \in Seq(Byte) /\ Len(p) \in 0 .. PackMax /\ Len(p) \in Nat
  BY CdcDownlinkAssumption, LenProperties, SMT
<1>2. EP2_DMA \in Nat /\ EP2_DMA + PackMax <= BufLen /\ BufLen \in Nat
  BY SlotRoom, SlotOffset DEF TypeOK
<1>3. /\ EP2_DMA' = EP2_DMA /\ pend'.len = Len(p) /\ pend'.kind = "ep2Out"
      /\ UART2_Tx_Buf' = [a \in 0 .. BufLen - 1 |->
                            IF a \in EP2_DMA .. EP2_DMA + Len(p) - 1
                            THEN p[a - EP2_DMA + 1] ELSE UART2_Tx_Buf[a]]
      /\ UART2_Tx_Buf \in [0 .. BufLen - 1 -> Byte]
  BY DEF HostOut, usbVars, TypeOK
<1>4. ASSUME NEW i \in 1 .. Len(p) PROVE UART2_Tx_Buf'[EP2_DMA + i - 1] = p[i]
  <2>1. PICK x \in Nat : x = EP2_DMA + i - 1 BY <1>1, <1>2, SMT
  <2>2. /\ x \in 0 .. BufLen - 1 /\ x \in EP2_DMA .. EP2_DMA + Len(p) - 1
        /\ x - EP2_DMA + 1 = i
    BY <1>1, <1>2, <2>1, SMT
  <2>3. UART2_Tx_Buf'[x] = p[x - EP2_DMA + 1] BY <1>3, <2>2
  <2> QED BY <2>1, <2>2, <2>3
<1>5. BytesAt(EP2_DMA, pend.len)' = [i \in 1 .. Len(p) |-> p[i]]
  BY <1>3, <1>4 DEF BytesAt
<1>6. p = [i \in 1 .. Len(p) |-> p[i]] BY <1>1, LenProperties
<1>7. ASSUME NEW x \in 0 .. BufLen - 1, x < EP2_DMA \/ x >= EP2_DMA + PackMax
      PROVE  UART2_Tx_Buf'[x] = UART2_Tx_Buf[x]
  <2>1. x \notin EP2_DMA .. EP2_DMA + Len(p) - 1 BY <1>1, <1>2, <1>7, SMT
  <2> QED BY <1>3, <2>1
<1> QED BY <1>3, <1>5, <1>6, <1>7

LEMMA SentStep == ASSUME TypeOK, SentInv, NextH PROVE SentInv'
<1> USE DEF usbVars, hostVars, ringVars, curVars, uartVars, history, NoXfer, Waiting
<1>1. CASE \E p \in Payloads : HostSends(p)
  <2>1. PICK p \in Payloads : HostOut(p) /\ sent' = p BY <1>1 DEF HostSends
  <2> QED BY <2>1, PacketInBuffer DEF SentInv
<1>2. CASE HostGivesUp \/ HostAsks
  <2>1. \/ UNCHANGED <<UART2_Tx_Buf, EP2_DMA, pend>> /\ sent' = sent
        \/ pend'.kind # "ep2Out"
    BY <1>2 DEF HostGivesUp, HostAsks, HostReset, HostControl, Controls, vars
  <2> QED BY <2>1 DEF SentInv, BytesAt
<1>3. CASE Firmware
  <2>1. CASE Main \/ Usart
    <3>1. UNCHANGED <<UART2_Tx_Buf, EP2_DMA, pend>>
      BY <2>1 DEF Main, TxSeeFlag, TxNotYet, TxSeeComplete, TxComplete, TxSeeWork, TxLoad,
                  TxArm, TxSetFlag, Usart, UartByte, UartTC
    <3>2. sent' = sent BY <1>3 DEF Firmware
    <3> QED BY <3>1, <3>2 DEF SentInv, BytesAt
  <2>2. CASE Isr
    <3>1. pend'.kind # "ep2Out"
      BY <2>2 DEF Isr, Ep2OutIsr, LineCodingIsr, ClearHaltIsr, SetHaltIsr, BusResetIsr
    <3> QED BY <3>1 DEF SentInv
  <2> QED BY <1>3, <2>1, <2>2 DEF Firmware
<1> QED BY <1>1, <1>2, <1>3 DEF NextH

LEMMA FifoInvInit == InitH => FifoInv
<1> SUFFICES ASSUME InitH PROVE FifoInv
  OBVIOUS
<1>1. HandInv BY SMT DEF InitH, Init, HandInv, InHand, Armed
<1>2. SentInv BY DEF InitH, Init, SentInv, Waiting, NoXfer
<1> QED BY <1>1, <1>2, InitTypeOK, InitInv DEF FifoInv, InitH

LEMMA FifoInvStep == FifoInv /\ [NextH]_varsH => FifoInv'
<1> SUFFICES ASSUME FifoInv, [NextH]_varsH PROVE FifoInv'
  OBVIOUS
<1>1. [Next]_vars BY HistoryWatches DEF varsH
<1>2. TypeOK' /\ DownlinkInv'
  <2>1. CASE Next
    BY <2>1, HostTypeOK, IsrTypeOK, MainTypeOK, UsartTypeOK, HostInv, IsrInv, MainInv, UsartInv
    DEF Next, FifoInv
  <2>2. CASE UNCHANGED vars
    BY <2>2, InvFrame
    DEF vars, FifoInv, TypeOK, history, usbVars, hostVars, ringVars, curVars, uartVars, invVars
  <2> QED BY <1>1, <2>1, <2>2
<1>3. HandInv'
  <2>1. CASE NextH BY <2>1, HandStep
  <2>2. CASE UNCHANGED varsH
    BY <2>2 DEF varsH, vars, FifoInv, HandInv, InHand, Armed, Intact, Sound, history, ringVars,
                curVars, uartVars
  <2> QED BY <2>1, <2>2
<1>4. SentInv'
  <2>1. CASE UNCHANGED varsH
    BY <2>1 DEF varsH, vars, FifoInv, SentInv, Waiting, BytesAt, hostVars, usbVars
  <2>2. CASE NextH BY <2>2, SentStep DEF FifoInv
  <2> QED BY <2>1, <2>2
<1> QED BY <1>2, <1>3, <1>4 DEF FifoInv


-----------------------------------------------------------------------------
(* The queue.                                                              *)

LEMMA CurrentType ==
  ASSUME FifoInv, Intact
  PROVE  CurrentBytes \in Seq(Byte)
<1> USE HandFacts
<1>0. UART2_Tx_Buf \in [0 .. BufLen - 1 -> Byte] BY DEF FifoInv, TypeOK
<1>1. \A a, n : BytesAt(a, n) = Piece(UART2_Tx_Buf, a, n) BY DEF BytesAt, Piece
<1>2. /\ InHand => /\ Tx_CurPackPtr + Tx_CurPackLen = Offset(Tx_DealNum) + Tx_PackLen[Tx_DealNum]
                   /\ Tx_CurPackPtr >= Offset(Tx_DealNum)
      /\ Armed => MADDR + CNTR = Tx_CurPackPtr + Tx_CurPackLen /\ CNTR <= Tx_CurPackLen
      /\ Armed => InHand
  BY DEF FifoInv, HandInv, Armed, InHand
<1>3. CASE Armed
  <2>1. MADDR \in Nat /\ CNTR \in Nat /\ MADDR + CNTR <= BufLen BY <1>2, <1>3, SMT
  <2>2. CurrentBytes = BytesAt(MADDR, CNTR) BY <1>3 DEF Armed, CurrentBytes
  <2> QED BY <1>0, <1>1, <2>1, <2>2, PieceType
<1>4. CASE ~Armed /\ Tx_CurPackLen > 0
  <2>1. InHand BY <1>4 DEF InHand
  <2>2. Tx_CurPackPtr \in Nat /\ Tx_CurPackLen \in Nat /\ Tx_CurPackPtr + Tx_CurPackLen <= BufLen
    BY <1>2, <2>1, SMT
  <2>3. CurrentBytes = BytesAt(Tx_CurPackPtr, Tx_CurPackLen) BY <1>4 DEF Armed, CurrentBytes
  <2> QED BY <1>0, <1>1, <2>2, <2>3, PieceType
<1>5. CASE ~Armed /\ ~(Tx_CurPackLen > 0)
  <2>1. CurrentBytes = SlotBytes(Tx_DealNum) BY <1>5 DEF Armed, CurrentBytes
  <2>2. CurrentBytes = Piece(UART2_Tx_Buf, Offset(Tx_DealNum), Tx_PackLen[Tx_DealNum])
    BY <1>1, <2>1 DEF SlotBytes
  <2> QED BY <1>0, <2>2, SlotPiece
<1> QED BY <1>3, <1>4, <1>5

LEMMA QueueNow ==
  ASSUME FifoInv, Intact
  PROVE  /\ UART2_Tx_Buf \in [0 .. BufLen - 1 -> Byte] /\ Tx_PackLen \in [Slots -> 0 .. PackMax]
         /\ Tx_DealNum \in Slots /\ Tx_RemainNum \in 0 .. NumMax - 2
         /\ CurrentBytes \in Seq(Byte)
         /\ Tx_RemainNum = 0 => Queue = << >>
         /\ Tx_RemainNum # 0 =>
              /\ Queue = CurrentBytes
                           \o FlattenSeq(Rest(UART2_Tx_Buf, Tx_PackLen, Tx_DealNum, Tx_RemainNum))
              /\ Rest(UART2_Tx_Buf, Tx_PackLen, Tx_DealNum, Tx_RemainNum) \in Seq(Seq(Byte))
              /\ FlattenSeq(Rest(UART2_Tx_Buf, Tx_PackLen, Tx_DealNum, Tx_RemainNum)) \in Seq(Byte)
         /\ Queue \in Seq(Byte)
<1>1. /\ UART2_Tx_Buf \in [0 .. BufLen - 1 -> Byte] /\ Tx_PackLen \in [Slots -> 0 .. PackMax]
      /\ Tx_DealNum \in Slots /\ Tx_RemainNum \in 0 .. U16 - 1 /\ Tx_RemainNum <= NumMax - 2
  BY DEF FifoInv, TypeOK, DownlinkInv, StopRelation, Intact
<1>2. Tx_RemainNum \in 0 .. NumMax - 2 BY <1>1, SMT
<1>3. CurrentBytes \in Seq(Byte) BY CurrentType
<1>4. CASE Tx_RemainNum = 0
  <2>1. Queue = << >> BY <1>4 DEF Queue
  <2>2. << >> \in Seq(Byte) BY EmptySeq
  <2> QED BY <1>1, <1>2, <1>3, <1>4, <2>1, <2>2
<1>5. CASE Tx_RemainNum # 0
  <2> DEFINE R == Rest(UART2_Tx_Buf, Tx_PackLen, Tx_DealNum, Tx_RemainNum)
  <2>1. Tx_RemainNum \in 1 .. NumMax BY <1>2, <1>5, SMT
  <2>2. Queue = CurrentBytes \o FlattenSeq(R) BY <1>5 DEF Queue, Rest, SlotBytes, BytesAt, Piece
  <2>3. R \in Seq(Seq(Byte)) BY <1>1, <2>1, RestType
  <2> HIDE DEF R
  <2>4. FlattenSeq(R) \in Seq(Byte) BY <2>3, FlattenType
  <2>5. CurrentBytes \o FlattenSeq(R) \in Seq(Byte) BY <1>3, <2>4, ConcatProperties
  <2> QED BY <1>1, <1>2, <1>3, <1>5, <2>2, <2>3, <2>4, <2>5 DEF R
<1> QED BY <1>4, <1>5

LEMMA QueueNext ==
  Queue' = IF Tx_RemainNum' = 0 THEN << >>
           ELSE CurrentBytes'
                  \o FlattenSeq(Rest(UART2_Tx_Buf', Tx_PackLen', Tx_DealNum', Tx_RemainNum'))
BY DEF Queue, Rest, SlotBytes, BytesAt, Piece

(* Nothing of the buffer, the ring and the bytes in hand changed.          *)
LEMMA QueueRests ==
  ASSUME FifoInv, Intact, CurrentBytes' = CurrentBytes,
         UNCHANGED <<UART2_Tx_Buf, Tx_PackLen, Tx_DealNum, Tx_RemainNum>>
  PROVE  Queue' = Queue
BY QueueNow, QueueNext

(* A packet on its way into the slot behind the booked ones.               *)
LEMMA ArrivalKeepsQueue ==
  ASSUME FifoInv, Intact, NEW p \in Payloads, HostOut(p)
  PROVE  Queue' = Queue
<1> USE HandFacts
<1>1. /\ UNCHANGED <<Tx_PackLen, Tx_DealNum, Tx_RemainNum, pc, Tx_Flag, Tx_CurPackLen,
                     Tx_CurPackPtr, MADDR, CNTR>>
  BY DEF HostOut, ringVars, curVars, uartVars
<1>2. CASE Tx_RemainNum = 0 BY <1>1, <1>2, QueueNow, QueueNext
<1>3. CASE Tx_RemainNum # 0
  <2>1. /\ Tx_RemainNum \in 1 .. NumMax - 1 /\ Tx_RemainNum \in 0 .. NumMax - 1
        /\ 0 \in 0 .. NumMax - 1 /\ Tx_RemainNum # 0
    <3>1. Tx_RemainNum \in 0 .. NumMax - 2 BY QueueNow
    <3> QED BY <1>3, <3>1, SMT
  <2>2. /\ Tx_LoadNum \in Slots /\ Tx_LoadNum = WrapSlot(Tx_DealNum + Tx_RemainNum)
        /\ EP2_DMA = Offset(Tx_LoadNum)
    BY DEF FifoInv, DownlinkInv, Intact, RingPositions, TypeOK
  <2>3. Tx_LoadNum # Tx_DealNum BY <2>1, <2>2, SlotAfter
  <2>4. ASSUME NEW t \in Slots, NEW x \in Nat, t # Tx_LoadNum,
               Offset(t) <= x, x < Offset(t) + PackMax
        PROVE  UART2_Tx_Buf'[x] = UART2_Tx_Buf[x]
    <3>0. Offset(t) \in Nat /\ Offset(t) + PackMax <= BufLen BY SlotRoom
    <3>1. x \in 0 .. BufLen - 1 BY <2>4, <3>0, SMT
    <3>2. ~(Offset(Tx_LoadNum) <= x /\ x < Offset(Tx_LoadNum) + PackMax)
      BY <2>2, <2>4, OtherSlot
    <3>3. Offset(Tx_LoadNum) \in Nat BY <2>2, SlotRoom
    <3>4. x < EP2_DMA \/ x >= EP2_DMA + PackMax BY <2>2, <3>2, <3>3, SMT
    <3>5. TypeOK BY DEF FifoInv
    <3> QED BY <3>1, <3>4, <3>5, PacketInBuffer
  <2>5. Rest(UART2_Tx_Buf', Tx_PackLen, Tx_DealNum, Tx_RemainNum)
          = Rest(UART2_Tx_Buf, Tx_PackLen, Tx_DealNum, Tx_RemainNum)
    <3>1. Tx_PackLen \in [Slots -> 0 .. PackMax] BY QueueNow
    <3>2. PICK buf, buf2 : buf = UART2_Tx_Buf /\ buf2 = UART2_Tx_Buf' OBVIOUS
    <3>3. \A t \in Slots : \A x \in Nat :
            t # Tx_LoadNum /\ Offset(t) <= x /\ x < Offset(t) + PackMax => buf2[x] = buf[x]
      BY <2>4, <3>2
    <3>4. PICK r \in 1 .. NumMax - 1 : r = Tx_RemainNum BY <2>1
    <3>5. Tx_LoadNum = WrapSlot(Tx_DealNum + r) /\ Tx_DealNum \in Slots BY <2>2, <3>4
    <3>6. Rest(buf2, Tx_PackLen, Tx_DealNum, r) = Rest(buf, Tx_PackLen, Tx_DealNum, r)
      BY <3>1, <3>3, <3>5, RestKept
    <3> QED BY <3>2, <3>4, <3>6
  <2>6. ASSUME NEW a \in Nat, NEW n \in Nat, a >= Offset(Tx_DealNum),
               a + n <= Offset(Tx_DealNum) + PackMax
        PROVE  Piece(UART2_Tx_Buf', a, n) = Piece(UART2_Tx_Buf, a, n)
    <3>1. ASSUME NEW i \in 1 .. n PROVE UART2_Tx_Buf'[a + i - 1] = UART2_Tx_Buf[a + i - 1]
      <4>1. PICK x \in Nat : x = a + i - 1 BY SMT
      <4>2. Offset(Tx_DealNum) <= x /\ x < Offset(Tx_DealNum) + PackMax BY <2>6, <4>1, SMT
      <4> QED BY <2>3, <2>4, <4>1, <4>2
    <3> QED BY <3>1 DEF Piece
  <2>7. CurrentBytes' = CurrentBytes
    <3>1. /\ InHand => /\ Tx_CurPackPtr + Tx_CurPackLen = Offset(Tx_DealNum) + Tx_PackLen[Tx_DealNum]
                       /\ Tx_CurPackPtr >= Offset(Tx_DealNum)
          /\ Armed => MADDR + CNTR = Tx_CurPackPtr + Tx_CurPackLen /\ CNTR <= Tx_CurPackLen
          /\ Armed => InHand
      BY DEF FifoInv, HandInv, Armed, InHand
    <3>2. \A a, n : /\ BytesAt(a, n) = Piece(UART2_Tx_Buf, a, n)
      BY DEF BytesAt, Piece
    <3>3. CASE Armed
      <4>1. /\ MADDR \in Nat /\ CNTR \in Nat /\ MADDR >= Offset(Tx_DealNum)
            /\ MADDR + CNTR <= Offset(Tx_DealNum) + PackMax
        BY <3>1, <3>3, SMT
      <4>2. Piece(UART2_Tx_Buf', MADDR, CNTR) = Piece(UART2_Tx_Buf, MADDR, CNTR) BY <2>6, <4>1
      <4>3. CurrentBytes = Piece(UART2_Tx_Buf, MADDR, CNTR)
        BY <3>2, <3>3 DEF Armed, CurrentBytes
      <4>4. CurrentBytes' = Piece(UART2_Tx_Buf', MADDR, CNTR)
        BY <1>1, <3>3 DEF Armed, CurrentBytes, BytesAt, Piece
      <4> QED BY <4>2, <4>3, <4>4
    <3>4. CASE ~Armed /\ Tx_CurPackLen > 0
      <4>1. InHand BY <3>4 DEF InHand
      <4>2. /\ Tx_CurPackPtr \in Nat /\ Tx_CurPackLen \in Nat
            /\ Tx_CurPackPtr >= Offset(Tx_DealNum)
            /\ Tx_CurPackPtr + Tx_CurPackLen <= Offset(Tx_DealNum) + PackMax
        BY <3>1, <4>1, SMT
      <4>3. Piece(UART2_Tx_Buf', Tx_CurPackPtr, Tx_CurPackLen)
              = Piece(UART2_Tx_Buf, Tx_CurPackPtr, Tx_CurPackLen)
        BY <2>6, <4>2
      <4>4. CurrentBytes = Piece(UART2_Tx_Buf, Tx_CurPackPtr, Tx_CurPackLen)
        BY <3>2, <3>4 DEF Armed, CurrentBytes
      <4>5. CurrentBytes' = Piece(UART2_Tx_Buf', Tx_CurPackPtr, Tx_CurPackLen)
        BY <1>1, <3>4 DEF Armed, CurrentBytes, BytesAt, Piece
      <4> QED BY <4>3, <4>4, <4>5
    <3>5. CASE ~Armed /\ ~(Tx_CurPackLen > 0)
      <4>1. /\ Tx_PackLen[Tx_DealNum] \in Nat
            /\ Offset(Tx_DealNum) >= Offset(Tx_DealNum)
            /\ Offset(Tx_DealNum) + Tx_PackLen[Tx_DealNum] <= Offset(Tx_DealNum) + PackMax
        BY SMT
      <4>2. Piece(UART2_Tx_Buf', Offset(Tx_DealNum), Tx_PackLen[Tx_DealNum])
              = Piece(UART2_Tx_Buf, Offset(Tx_DealNum), Tx_PackLen[Tx_DealNum])
        BY <2>6, <4>1
      <4>3. CurrentBytes = Piece(UART2_Tx_Buf, Offset(Tx_DealNum), Tx_PackLen[Tx_DealNum])
        BY <3>2, <3>5 DEF Armed, CurrentBytes, SlotBytes
      <4>4. CurrentBytes' = Piece(UART2_Tx_Buf', Offset(Tx_DealNum), Tx_PackLen[Tx_DealNum])
        BY <1>1, <3>5 DEF Armed, CurrentBytes, SlotBytes, BytesAt, Piece
      <4> QED BY <4>2, <4>3, <4>4
    <3> QED BY <3>3, <3>4, <3>5
  <2>8. Queue' = CurrentBytes'
                   \o FlattenSeq(Rest(UART2_Tx_Buf', Tx_PackLen, Tx_DealNum, Tx_RemainNum))
    BY <1>1, <1>3, QueueNext
  <2> QED BY <1>3, <2>5, <2>7, <2>8, QueueNow
<1> QED BY <1>2, <1>3


LEMMA RestOne == \A buf, pl, d : Rest(buf, pl, d, 1) = << >>
BY DEF Rest

LEMMA PieceFirst ==
  ASSUME NEW buf \in [0 .. BufLen - 1 -> Byte], NEW a \in Nat, NEW n \in Nat \ {0}, a + n <= BufLen
  PROVE  Piece(buf, a, n) = <<buf[a]>> \o Piece(buf, a + 1, n - 1)
<1>0. /\ BufLen \in Nat /\ a + 1 \in Nat /\ n - 1 \in Nat /\ n \in Nat
      /\ (a + 1) + (n - 1) <= BufLen /\ a \in 0 .. BufLen - 1
  BY SlotOffset, SMT
<1>1. buf[a] \in Byte BY <1>0
<1>2. <<buf[a]>> \in Seq(Byte) /\ Len(<<buf[a]>>) = 1 /\ <<buf[a]>>[1] = buf[a] BY <1>1, SMT
<1>3. /\ Piece(buf, a, n) \in Seq(Byte) /\ Len(Piece(buf, a, n)) = n
      /\ \A i \in 1 .. n : Piece(buf, a, n)[i] = buf[a + i - 1]
  BY <1>0, PieceType
<1>4. /\ Piece(buf, a + 1, n - 1) \in Seq(Byte) /\ Len(Piece(buf, a + 1, n - 1)) = n - 1
      /\ \A i \in 1 .. n - 1 : Piece(buf, a + 1, n - 1)[i] = buf[(a + 1) + i - 1]
  BY <1>0, PieceType
<1> DEFINE r == <<buf[a]>> \o Piece(buf, a + 1, n - 1)
<1>5. /\ r \in Seq(Byte) /\ Len(r) = 1 + (n - 1)
      /\ \A i \in 1 .. 1 + (n - 1) :
           r[i] = IF i <= 1 THEN <<buf[a]>>[i] ELSE Piece(buf, a + 1, n - 1)[i - 1]
  BY <1>2, <1>4, ConcatProperties
<1> HIDE DEF r
<1>6. ASSUME NEW i \in 1 .. n PROVE Piece(buf, a, n)[i] = r[i]
  <2>1. CASE i = 1
    <3>1. a + i - 1 = a /\ i \in 1 .. 1 + (n - 1) BY <1>0, <2>1, SMT
    <3> QED BY <1>2, <1>3, <1>5, <2>1, <3>1
  <2>2. CASE i # 1
    <3>1. /\ i - 1 \in 1 .. n - 1 /\ (a + 1) + (i - 1) - 1 = a + i - 1 /\ ~(i <= 1)
          /\ i \in 1 .. 1 + (n - 1)
      BY <1>0, <2>2, SMT
    <3>2. r[i] = Piece(buf, a + 1, n - 1)[i - 1] BY <1>5, <3>1
    <3>3. Piece(buf, a + 1, n - 1)[i - 1] = buf[(a + 1) + (i - 1) - 1] BY <1>4, <3>1
    <3> QED BY <1>3, <3>1, <3>2, <3>3
  <2> QED BY <2>1, <2>2
<1>7. Len(r) = n BY <1>0, <1>5, SMT
<1>8. Piece(buf, a, n) = r BY <1>3, <1>5, <1>6, <1>7, SeqEqual
<1> QED BY <1>8 DEF r

LEMMA HeadLeaves ==
  ASSUME NEW b \in Byte, NEW s \in Seq(Byte), NEW t, t = <<b>> \o s
  PROVE  1 \in 1 .. Len(t) /\ SubSeq(t, 1, 1) = <<b>> /\ SubSeq(t, 2, Len(t)) = s
<1>1. <<b>> \in Seq(Byte) /\ Len(<<b>>) = 1 /\ Len(s) \in Nat BY LenProperties, SMT
<1>2. t \in Seq(Byte) /\ Len(t) = 1 + Len(s) BY <1>1, ConcatProperties
<1>3. 1 \in 1 .. Len(<<b>>) /\ 1 \in 1 .. Len(t) BY <1>1, <1>2, SMT
<1>4. SubSeq(t, 1, 1) = SubSeq(<<b>>, 1, 1) BY <1>1, <1>3, SubSeqOfConcat1
<1>5. SubSeq(<<b>>, 1, 1) = <<b>> BY <1>1, SubSeqFull
<1>6. SubSeq(t, 2, Len(t)) = s
  <2>1. CASE Len(s) = 0
    <3>1. s = << >> BY <2>1, EmptySeq
    <3>2. Len(t) = 1 /\ Len(t) \in Int /\ 2 \in Int /\ Len(t) < 2 BY <1>2, <2>1, SMT
    <3> QED BY <3>1, <3>2, SubSeqEmpty
  <2>2. CASE Len(s) # 0
    <3>1. /\ 2 \in Len(<<b>>) + 1 .. Len(<<b>>) + Len(s)
          /\ Len(t) \in Len(<<b>>) + 1 .. Len(<<b>>) + Len(s)
          /\ 2 - Len(<<b>>) = 1 /\ Len(t) - Len(<<b>>) = Len(s)
      BY <1>1, <1>2, <2>2, SMT
    <3>2. SubSeq(t, 2, Len(t)) = SubSeq(s, 1, Len(s)) BY <1>1, <3>1, SubSeqOfConcat2
    <3> QED BY <3>2, SubSeqFull
  <2> QED BY <2>1, <2>2
<1> QED BY <1>3, <1>4, <1>5, <1>6

(* The interrupt queues the packet that arrived.                           *)
LEMMA BookingTakes ==
  ASSUME FifoInv, Intact, Ep2OutIsr, Intact'
  PROVE  Queue' = Queue \o sent
<1>1. /\ UNCHANGED <<UART2_Tx_Buf, Tx_DealNum, pc, Tx_Flag, Tx_CurPackLen, Tx_CurPackPtr, MADDR, CNTR>>
      /\ Tx_PackLen' = [Tx_PackLen EXCEPT ![Tx_LoadNum] = pend.len] /\ pend.kind = "ep2Out"
  BY DEF Ep2OutIsr, curVars, uartVars
<1>2. /\ Tx_RemainNum' = Tx_RemainNum + 1 /\ Tx_RemainNum <= NumMax - 3
      /\ Tx_LoadNum = WrapSlot(Tx_DealNum + Tx_RemainNum)
      /\ Tx_RemainNum > 0 => Tx_LoadNum # Tx_DealNum
      /\ Tx_RemainNum = 0 => Tx_LoadNum = Tx_DealNum /\ ~InHand
  BY HandBook
<1>3. /\ EP2_DMA = Offset(Tx_LoadNum) /\ pend.len \in 0 .. PackMax /\ Tx_LoadNum \in Slots
  BY DEF FifoInv, DownlinkInv, Intact, RingPositions, TypeOK
<1> DEFINE c == Piece(UART2_Tx_Buf, Offset(Tx_LoadNum), pend.len)
<1>4. c = sent BY <1>1, <1>3 DEF FifoInv, SentInv, Waiting, BytesAt, Piece
<1>5. c \in Seq(Byte) BY <1>3, SlotPiece, QueueNow
<1>6. Tx_RemainNum' # 0 BY <1>2, HandFacts, SMT
<1>7. CASE Tx_RemainNum = 0
  <2>1. Queue = << >> BY <1>7, QueueNow
  <2>2. ~(Tx_Flag = 1) /\ pc \notin {"flag", "complete"} /\ ~(Tx_CurPackLen > 0)
    BY <1>2, <1>7, HandFacts DEF InHand
  <2>3. CurrentBytes' = Piece(UART2_Tx_Buf, Offset(Tx_DealNum), Tx_PackLen'[Tx_DealNum])
    BY <1>1, <2>2 DEF CurrentBytes, SlotBytes, BytesAt, Piece
  <2>4. Tx_PackLen'[Tx_DealNum] = pend.len
    <3>1. Tx_PackLen \in [Slots -> 0 .. PackMax] BY QueueNow
    <3> QED BY <1>1, <1>2, <1>3, <1>7, <3>1
  <2>5. CurrentBytes' = c BY <1>2, <1>7, <2>3, <2>4
  <2>6. Tx_RemainNum' = 1 BY <1>2, <1>7, SMT
  <2>7. Queue' = c \o << >> BY <1>6, <2>5, <2>6, QueueNext, RestOne, FlattenEmpty
  <2>8. Queue' = Queue \o c BY <1>5, <2>1, <2>7, ConcatEmptySeq
  <2> QED BY <1>4, <2>8
<1>8. CASE Tx_RemainNum # 0
  <2>1. Tx_RemainNum \in 1 .. NumMax - 1 /\ Tx_RemainNum > 0 BY <1>2, <1>8, HandFacts, SMT
  <2>2. Tx_PackLen'[Tx_DealNum] = Tx_PackLen[Tx_DealNum]
    <3>1. Tx_PackLen \in [Slots -> 0 .. PackMax] /\ Tx_DealNum \in Slots BY QueueNow
    <3> QED BY <1>1, <1>2, <2>1, <3>1
  <2>3. CurrentBytes' = CurrentBytes
    BY <1>1, <2>2 DEF CurrentBytes, SlotBytes, BytesAt
  <2> DEFINE R == Rest(UART2_Tx_Buf, Tx_PackLen, Tx_DealNum, Tx_RemainNum)
  <2>4. R \in Seq(Seq(Byte)) /\ FlattenSeq(R) \in Seq(Byte) /\ Queue = CurrentBytes \o FlattenSeq(R)
        /\ CurrentBytes \in Seq(Byte)
    BY <1>8, QueueNow
  <2>5. Rest(UART2_Tx_Buf, Tx_PackLen', Tx_DealNum, Tx_RemainNum + 1) = Append(R, c)
    <3>1. PICK r \in 1 .. NumMax - 1 : r = Tx_RemainNum BY <2>1
    <3>2. PICK n \in 0 .. PackMax : n = pend.len BY <1>3
    <3>3. Tx_LoadNum = WrapSlot(Tx_DealNum + r) BY <1>2, <3>1
    <3>4. UART2_Tx_Buf \in [0 .. BufLen - 1 -> Byte] /\ Tx_PackLen \in [Slots -> 0 .. PackMax]
          /\ Tx_DealNum \in Slots
      BY QueueNow
    <3>5. PICK buf \in [0 .. BufLen - 1 -> Byte], pl \in [Slots -> 0 .. PackMax], d \in Slots, s \in Slots :
            buf = UART2_Tx_Buf /\ pl = Tx_PackLen /\ d = Tx_DealNum /\ s = Tx_LoadNum
      BY <1>3, <3>4
    <3>6. s = WrapSlot(d + r) BY <3>3, <3>5
    <3>7. PICK pl2 \in [Slots -> 0 .. PackMax] : pl2 = [pl EXCEPT ![s] = n] OBVIOUS
    <3>8. pl2[s] = n BY <3>7
    <3>a. \A t \in Slots : t # s => pl2[t] = pl[t] BY <3>7
    <3>9. PICK m \in Nat : m = r + 1 OBVIOUS
    <3>10. Rest(buf, pl2, d, m) = Append(Rest(buf, pl, d, r), Piece(buf, Offset(s), pl2[s]))
      BY <3>6, <3>9, <3>a, RestAppend, SMT
    <3> QED BY <1>1, <3>1, <3>2, <3>5, <3>7, <3>8, <3>9, <3>10
  <2>6. Queue' = CurrentBytes' \o FlattenSeq(Rest(UART2_Tx_Buf, Tx_PackLen', Tx_DealNum, Tx_RemainNum + 1))
    BY <1>1, <1>2, <1>6, QueueNext
  <2> HIDE DEF R, c
  <2>7. FlattenSeq(Append(R, c)) = FlattenSeq(R) \o c BY <1>5, <2>4, FlattenAppend
  <2>8. Queue' = CurrentBytes \o (FlattenSeq(R) \o c) BY <2>3, <2>5, <2>6, <2>7
  <2>9. Queue' = Queue \o c BY <1>5, <2>4, <2>8, Regroup
  <2> QED BY <1>4, <2>9
<1> QED BY <1>7, <1>8

(* UART2_DataTx_Deal frees a slot only when its bytes are gone.            *)
LEMMA AccountKeepsQueue ==
  ASSUME FifoInv, Intact, TxComplete
  PROVE  Queue' = Queue
<1>1. /\ UNCHANGED UART2_Tx_Buf /\ Tx_RemainNum > 0 /\ pc' = "poll" /\ Tx_Flag' = 0 /\ Armed
      /\ \/ /\ CNTR > 0 /\ CurrentBytes' = CurrentBytes
            /\ UNCHANGED <<Tx_PackLen, Tx_DealNum, Tx_RemainNum>>
         \/ /\ CNTR = 0 /\ Tx_CurPackLen' = 0
            /\ Tx_PackLen' = [Tx_PackLen EXCEPT ![Tx_DealNum] = 0]
            /\ Tx_DealNum' = NextSlot(Tx_DealNum)
            /\ Tx_RemainNum' = Tx_RemainNum - 1
  BY HandComplete
<1>2. CASE /\ CurrentBytes' = CurrentBytes
           /\ UNCHANGED <<Tx_PackLen, Tx_DealNum, Tx_RemainNum>>
  BY <1>1, <1>2, QueueRests
<1>3. CASE /\ CNTR = 0 /\ Tx_CurPackLen' = 0
           /\ Tx_PackLen' = [Tx_PackLen EXCEPT ![Tx_DealNum] = 0]
           /\ Tx_DealNum' = NextSlot(Tx_DealNum)
           /\ Tx_RemainNum' = Tx_RemainNum - 1
  <2> DEFINE R == Rest(UART2_Tx_Buf, Tx_PackLen, Tx_DealNum, Tx_RemainNum)
  <2>1. /\ R \in Seq(Seq(Byte)) /\ FlattenSeq(R) \in Seq(Byte) /\ Queue = CurrentBytes \o FlattenSeq(R)
        /\ UART2_Tx_Buf \in [0 .. BufLen - 1 -> Byte] /\ Tx_PackLen \in [Slots -> 0 .. PackMax]
        /\ Tx_DealNum \in Slots /\ Tx_RemainNum \in 0 .. NumMax - 2
    BY <1>1, QueueNow, SMT
  <2>2. CurrentBytes = << >> BY <1>1, <1>3 DEF Armed, CurrentBytes, BytesAt
  <2>3. Queue = FlattenSeq(R)
    <3> HIDE DEF R
    <3> QED BY <2>1, <2>2, ConcatEmptySeq
  <2>4. CASE Tx_RemainNum = 1
    <3>1. Tx_RemainNum' = 0 BY <1>3, <2>4, SMT
    <3>2. Queue' = << >> BY <3>1, QueueNext
    <3> QED BY <2>3, <2>4, <3>2, RestOne, FlattenEmpty
  <2>5. CASE Tx_RemainNum # 1
    <3>1. PICK r \in 2 .. NumMax - 1 : r = Tx_RemainNum BY <1>1, <2>1, <2>5, SMT
    <3>2. PICK d \in Slots : d = Tx_DealNum BY <2>1
    <3>3. /\ Rest(UART2_Tx_Buf, [Tx_PackLen EXCEPT ![d] = 0], NextSlot(d), r - 1) = Tail(R)
          /\ R # << >> /\ R[1] = Piece(UART2_Tx_Buf, Offset(NextSlot(d)), Tx_PackLen[NextSlot(d)])
          /\ NextSlot(d) # d /\ NextSlot(d) \in Slots
      BY <2>1, <3>1, <3>2, RestTail
    <3>4. Rest(UART2_Tx_Buf', Tx_PackLen', Tx_DealNum', Tx_RemainNum') = Tail(R)
      BY <1>1, <1>3, <3>1, <3>2, <3>3
    <3>5. Tx_PackLen'[NextSlot(d)] = Tx_PackLen[NextSlot(d)] BY <1>3, <2>1, <3>2, <3>3
    <3>6. CurrentBytes' = Piece(UART2_Tx_Buf', Offset(Tx_DealNum'), Tx_PackLen'[Tx_DealNum'])
      BY <1>1, <1>3 DEF CurrentBytes, SlotBytes, BytesAt, Piece
    <3>7. CurrentBytes' = R[1] BY <1>1, <1>3, <3>2, <3>3, <3>5, <3>6
    <3>8. Tx_RemainNum' # 0 BY <1>3, <3>1, SMT
    <3> HIDE DEF R
    <3>9. FlattenSeq(R) = R[1] \o FlattenSeq(Tail(R)) BY <2>1, <3>3, FlattenFirst
    <3>10. Queue' = CurrentBytes' \o FlattenSeq(Tail(R)) BY <3>4, <3>8, QueueNext
    <3> QED BY <2>3, <3>7, <3>8, <3>9, <3>10
  <2> QED BY <2>4, <2>5
<1> QED BY <1>1, <1>2, <1>3

(* The transmitter puts out the head of the queue.                         *)
LEMMA ByteIsHead ==
  ASSUME FifoInv, Intact, UartByte
  PROVE  /\ 1 \in 1 .. Len(Queue) /\ wire' \in Byte
         /\ <<wire'>> = SubSeq(Queue, 1, 1) /\ Queue' = SubSeq(Queue, 2, Len(Queue))
<1> USE HandFacts
<1>1. /\ Tx_RemainNum > 0 /\ CNTR > 0
      /\ MADDR + CNTR = Offset(Tx_DealNum) + Tx_PackLen[Tx_DealNum]
      /\ CurrentBytes = BytesAt(MADDR, CNTR)
      /\ CurrentBytes' = BytesAt(MADDR + 1, CNTR - 1)
      /\ wire' = UART2_Tx_Buf[MADDR] /\ MADDR \in 0 .. BufLen - 1
      /\ UNCHANGED <<UART2_Tx_Buf, Tx_PackLen, Tx_DealNum, Tx_RemainNum>>
  BY HandByte
<1> DEFINE R == Rest(UART2_Tx_Buf, Tx_PackLen, Tx_DealNum, Tx_RemainNum)
           X == Piece(UART2_Tx_Buf, MADDR + 1, CNTR - 1)
<1>2. /\ FlattenSeq(R) \in Seq(Byte) /\ Queue = CurrentBytes \o FlattenSeq(R)
      /\ UART2_Tx_Buf \in [0 .. BufLen - 1 -> Byte]
  <2>1. Tx_RemainNum # 0 BY <1>1, SMT
  <2> QED BY <2>1, QueueNow
<1>3. /\ MADDR \in Nat /\ CNTR \in Nat \ {0} /\ MADDR + CNTR <= BufLen
      /\ MADDR + 1 \in Nat /\ CNTR - 1 \in Nat /\ (MADDR + 1) + (CNTR - 1) <= BufLen
  BY <1>1, SMT
<1>4. wire' \in Byte BY <1>1, <1>2
<1>5. CurrentBytes = Piece(UART2_Tx_Buf, MADDR, CNTR) /\ CurrentBytes' = X
  BY <1>1 DEF BytesAt, Piece
<1>6. Piece(UART2_Tx_Buf, MADDR, CNTR) = <<UART2_Tx_Buf[MADDR]>> \o X BY <1>2, <1>3, PieceFirst
<1>7. X \in Seq(Byte) BY <1>2, <1>3, PieceType
<1>8. Queue' = CurrentBytes' \o FlattenSeq(R)
  <2>1. Tx_RemainNum' # 0 BY <1>1, SMT
  <2> QED BY <1>1, <2>1, QueueNext
<1> HIDE DEF R, X
<1>9. PICK b \in Byte : b = wire' BY <1>4
<1>10. PICK q2 \in Seq(Byte) : q2 = X \o FlattenSeq(R) BY <1>2, <1>7, ConcatProperties
<1>11. Queue' = q2 BY <1>5, <1>8, <1>10
<1>12. <<b>> \in Seq(Byte) BY SMT
<1>13. Queue = <<b>> \o q2
  <2>1. Queue = (<<b>> \o X) \o FlattenSeq(R) BY <1>1, <1>2, <1>5, <1>6, <1>9
  <2>2. (<<b>> \o X) \o FlattenSeq(R) = <<b>> \o (X \o FlattenSeq(R)) BY <1>2, <1>7, <1>12, Regroup
  <2> QED BY <1>10, <2>1, <2>2
<1>14. 1 \in 1 .. Len(Queue) /\ SubSeq(Queue, 1, 1) = <<b>> /\ SubSeq(Queue, 2, Len(Queue)) = q2
  BY <1>13, HeadLeaves
<1> QED BY <1>9, <1>11, <1>14


-----------------------------------------------------------------------------
(* The refinement.                                                         *)

LEMMA SameWaiting == (Waiting' <=> Waiting) => Waiting' = Waiting
BY Zenon DEF Waiting

(* The steps of the firmware from one intact state to another, by what     *)
(* they do to the queue.                                                   *)
LEMMA IntactStep ==
  ASSUME FifoInv, Intact, Intact', NextH, Isr \/ Main \/ Usart
  PROVE  \/ /\ Waiting /\ ~Waiting' /\ Queue' = Queue \o sent
            /\ wire' = wire /\ epoch' = epoch
         \/ /\ Waiting' = Waiting
            /\ \/ /\ 1 \in 1 .. Len(Queue) /\ wire' \in Byte
                  /\ <<wire'>> = SubSeq(Queue, 1, 1) /\ Queue' = SubSeq(Queue, 2, Len(Queue))
                  /\ epoch' = epoch
               \/ Queue' = << >> /\ epoch' = 1 - epoch /\ wire' = wire
               \/ UNCHANGED <<Queue, wire, epoch>>
<1> USE DEF usbVars, hostVars, ringVars, curVars, uartVars
<1>1. CASE LineCodingIsr \/ BusResetIsr
  <2>1. Tx_RemainNum' = 0 /\ epoch' = 1 - epoch BY <1>1, HandReinit DEF FifoInv
  <2>2. wire' = wire BY <1>1 DEF LineCodingIsr, BusResetIsr
  <2>3. Queue' = << >> BY <2>1, QueueNext
  <2>4. ~Waiting /\ ~Waiting' BY <1>1 DEF LineCodingIsr, BusResetIsr, Waiting, NoXfer
  <2> QED BY <2>1, <2>2, <2>3, <2>4, SameWaiting
<1>2. CASE ~(LineCodingIsr \/ BusResetIsr)
  <2>1. epoch' = epoch BY <1>2, OnlyReinitRepairs
  <2>2. CASE ClearHaltIsr \/ SetHaltIsr \/ UartTC
    <3>1. UNCHANGED <<UART2_Tx_Buf, Tx_PackLen, Tx_DealNum, Tx_RemainNum, wire, pc, Tx_Flag, MADDR,
                      CNTR, Tx_CurPackLen, Tx_CurPackPtr>>
      BY <2>2 DEF ClearHaltIsr, SetHaltIsr, UartTC
    <3>2. CurrentBytes' = CurrentBytes BY <3>1 DEF CurrentBytes, SlotBytes, BytesAt
    <3>3. Waiting' <=> Waiting
      BY <2>2 DEF ClearHaltIsr, SetHaltIsr, UartTC, Waiting, NoXfer
    <3> QED BY <2>1, <3>1, <3>2, <3>3, QueueRests, SameWaiting
  <2>3. CASE Ep2OutIsr
    <3>1. wire' = wire /\ Waiting /\ ~Waiting'
      BY <2>3 DEF Ep2OutIsr, Waiting, NoXfer
    <3> QED BY <2>1, <2>3, <3>1, BookingTakes
  <2>4. CASE TxComplete
    <3>1. wire' = wire /\ pend' = pend BY <2>4 DEF TxComplete
    <3> QED BY <2>1, <2>4, <3>1, AccountKeepsQueue DEF Waiting
  <2>5. CASE \/ TxSeeFlag \/ TxNotYet \/ TxSeeComplete
             \/ TxSeeWork \/ TxLoad \/ TxArm \/ TxSetFlag
    <3>1. pend' = pend
      BY <2>5 DEF TxSeeFlag, TxNotYet, TxSeeComplete, TxSeeWork, TxLoad, TxArm, TxSetFlag
    <3> QED BY <2>1, <2>5, <3>1, HandMain, QueueRests DEF Waiting
  <2>6. CASE UartByte
    <3>1. pend' = pend BY <2>6 DEF UartByte
    <3> QED BY <2>1, <2>6, <3>1, ByteIsHead DEF Waiting
  <2> QED BY <1>2, <2>2, <2>3, <2>4, <2>5, <2>6 DEF Isr, Main, Usart
<1> QED BY <1>1, <1>2

(* The host's steps leave the queue alone.                                 *)
LEMMA HostKeepsQueue ==
  ASSUME FifoInv, Intact,
         \/ \E p \in Payloads : HostOut(p)
         \/ \E r \in Controls : HostControl(r)
         \/ HostReset \/ UNCHANGED vars
  PROVE  UNCHANGED <<Queue, wire, epoch>>
<1> USE DEF hostVars, ringVars, curVars, uartVars, history
<1>1. CASE \E p \in Payloads : HostOut(p)
  <2>1. UNCHANGED <<wire, epoch>> BY <1>1 DEF HostOut
  <2> QED BY <1>1, <2>1, ArrivalKeepsQueue
<1>2. CASE (\E r \in Controls : HostControl(r)) \/ HostReset \/ UNCHANGED vars
  <2>1. UNCHANGED <<UART2_Tx_Buf, Tx_PackLen, Tx_DealNum, Tx_RemainNum, wire, epoch, pc, Tx_Flag,
                    MADDR, CNTR, Tx_CurPackLen, Tx_CurPackPtr>>
    BY <1>2 DEF HostControl, HostReset, vars
  <2>2. CurrentBytes' = CurrentBytes BY <2>1 DEF CurrentBytes, SlotBytes, BytesAt
  <2> QED BY <2>1, <2>2, QueueRests
<1> QED BY <1>1, <1>2

(* A repair clears the ring.                                               *)
LEMMA RepairClears ==
  ASSUME FifoInv, ~Intact, Intact', NextH
  PROVE  /\ Queue' = << >> /\ epoch' # epoch
         /\ sent' = sent /\ unheard' = unheard /\ Waiting' = Waiting
<1>1. LineCodingIsr \/ BusResetIsr BY OnlyReinitRepairs
<1>2. Tx_RemainNum' = 0 /\ epoch' # epoch BY <1>1, HandReinit DEF FifoInv
<1>3. ~Waiting /\ ~Waiting' BY <1>1 DEF LineCodingIsr, BusResetIsr, Waiting, NoXfer
<1>4. Firmware
  BY <1>2 DEF NextH, HostSends, HostGivesUp, HostAsks, HostOut, HostControl, HostReset, vars, history
<1> QED BY <1>2, <1>3, <1>4, QueueNext, SameWaiting DEF Firmware

LEMMA FifoInit == InitH => Fifo!PacketInit
<1> SUFFICES ASSUME InitH PROVE Fifo!PacketInit
  OBVIOUS
<1>1. /\ Intact /\ wire = NoByte /\ epoch = 0 /\ Tx_RemainNum = 0
      /\ ~Waiting /\ sent = << >> /\ unheard = FALSE
  BY DEF InitH, Init, Intact, Sound, Waiting, NoXfer
<1>2. Queue = << >> BY <1>1 DEF Queue
<1> QED BY <1>1, <1>2 DEF Fifo!PacketInit, Fifo!Init

LEMMA FifoStep == FifoInv /\ FifoInv' /\ [NextH]_varsH => [Fifo!PacketNext]_Fifo!packetVars
<1> SUFFICES ASSUME FifoInv, FifoInv', [NextH]_varsH PROVE [Fifo!PacketNext]_Fifo!packetVars
  OBVIOUS
<1> DEFINE Q == IF Intact THEN Queue ELSE << >>
<1>1. CASE UNCHANGED varsH
  <2>1. UNCHANGED <<damage, epoch, stray, wire, pend, sent, unheard>> /\ UNCHANGED vars
    BY <1>1 DEF varsH, vars, hostVars, uartVars, history
  <2>2. (Intact' <=> Intact) /\ Waiting' = Waiting BY <2>1 DEF Intact, Sound, Waiting
  <2>3. Intact => Queue' = Queue BY <2>1, HostKeepsQueue
  <2> QED BY <2>1, <2>2, <2>3, Zenon DEF Fifo!packetVars, Fifo!vars, Fifo!pipe
<1>2. CASE NextH /\ ~Intact' BY <1>2 DEF Fifo!PacketNext
<1>3. CASE NextH /\ ~Intact /\ Intact'
  <2>1. /\ Queue' = << >> /\ epoch' # epoch
        /\ sent' = sent /\ unheard' = unheard /\ Waiting' = Waiting
    BY <1>3, RepairClears
  <2> HIDE DEF Queue
  <2> QED BY <1>3, <2>1 DEF Fifo!PacketNext, Fifo!pipe
<1>4. CASE NextH /\ Intact /\ Intact'
  <2>0. Queue \in Seq(Byte) BY <1>4, QueueNow
  <2>a. Q = Queue /\ Q' = Queue' BY <1>4
  <2>b. SUFFICES Fifo!PacketWork \/ UNCHANGED Fifo!packetVars BY <1>4 DEF Fifo!PacketNext
  <2>1. CASE \E p \in Payloads : HostSends(p)
    <3>1. PICK p \in Payloads : HostSends(p) BY <2>1
    <3>2. /\ ~Waiting /\ Waiting' /\ sent' = p /\ unheard' \in BOOLEAN
          /\ unheard => p = sent
      BY <3>1 DEF HostSends, HostOut, Waiting, NoXfer
    <3>3. UNCHANGED <<Queue, wire, epoch>> BY <1>4, <3>1, HostKeepsQueue DEF HostSends
    <3>4. Fifo!Transmit(p) BY <2>a, <3>2, <3>3 DEF Fifo!Transmit
    <3>5. Fifo!SendNew \/ Fifo!Repeat BY <3>2, <3>4 DEF Fifo!SendNew, Fifo!Repeat
    <3> QED BY <3>5 DEF Fifo!PacketWork
  <2>2. CASE HostGivesUp
    <3>1. /\ unheard' = FALSE /\ sent' = sent /\ Waiting' = Waiting
      BY <2>2 DEF HostGivesUp, HostReset, HostControl, Waiting, NoXfer, Controls, vars, hostVars
    <3>2. UNCHANGED <<Queue, wire, epoch>>
      BY <1>4, <2>2, HostKeepsQueue DEF HostGivesUp, Controls
    <3> QED BY <2>a, <3>1, <3>2 DEF Fifo!PacketWork, Fifo!GiveUp
  <2>3. CASE HostAsks
    <3>1. unheard' = unheard /\ sent' = sent /\ Waiting' = Waiting
      BY <2>3 DEF HostAsks, HostControl, Waiting, NoXfer, Controls
    <3>2. UNCHANGED <<Queue, wire, epoch>> BY <1>4, <2>3, HostKeepsQueue DEF HostAsks
    <3> QED BY <1>4, <2>a, <3>1, <3>2, Zenon DEF Fifo!packetVars, Fifo!vars, Fifo!pipe
  <2>4. CASE Firmware
    <3>1. unheard' = unheard /\ sent' = sent BY <2>4 DEF Firmware
    <3>2. CASE /\ Waiting /\ ~Waiting' /\ Queue' = Queue \o sent
               /\ wire' = wire /\ epoch' = epoch
      <4>1. Fifo!Take BY <2>a, <3>1, <3>2 DEF Fifo!Take, Fifo!Accept
      <4> QED BY <4>1 DEF Fifo!PacketWork
    <3>3. CASE /\ Waiting' = Waiting /\ 1 \in 1 .. Len(Queue) /\ wire' \in Byte
               /\ <<wire'>> = SubSeq(Queue, 1, 1) /\ Queue' = SubSeq(Queue, 2, Len(Queue))
               /\ epoch' = epoch
      <4>1. wire' # NoByte BY <3>3, CdcDownlinkAssumption, SMT DEF NoByte
      <4>2. Fifo!Emit(1) BY <3>3, <2>a, <4>1 DEF Fifo!Emit
      <4>3. \E n \in 1 .. Len(Q) : Fifo!Emit(n) BY <3>3, <2>a, <4>2
      <4> QED BY <3>1, <3>3, <4>3 DEF Fifo!PacketWork, Fifo!Release, Fifo!pipe
    <3>4. CASE Waiting' = Waiting /\ Queue' = << >> /\ epoch' = 1 - epoch /\ wire' = wire
      <4>1. SubSeq(Queue, 1, 0) = << >> /\ 0 \in 0 .. Len(Queue)
        BY <2>0, LenProperties, SubSeqEmpty, SMT
      <4>2. Fifo!Reinit(0) BY <3>4, <2>a, <4>1 DEF Fifo!Reinit
      <4>3. \E n \in 0 .. Len(Q) : Fifo!Reinit(n) BY <2>a, <4>1, <4>2
      <4> QED BY <3>1, <3>4, <4>3 DEF Fifo!PacketWork, Fifo!Release, Fifo!pipe
    <3>5. CASE Waiting' = Waiting /\ UNCHANGED <<Queue, wire, epoch>>
      BY <1>4, <2>a, <3>1, <3>5, Zenon DEF Fifo!packetVars, Fifo!vars, Fifo!pipe
    <3>6. Isr \/ Main \/ Usart BY <2>4 DEF Firmware
    <3> QED BY <1>4, <3>2, <3>3, <3>4, <3>5, <3>6, IntactStep
  <2> QED BY <1>4, <2>1, <2>2, <2>3, <2>4 DEF NextH
<1> QED BY <1>1, <1>2, <1>3, <1>4

(* While nothing is damaged, the serial line carries the packets in the    *)
(* order of their arrival, each transmission of the host whole, unaltered  *)
(* and once: a packet goes out a second time only if the host missed its   *)
(* handshake and repeated it.  That holds for every number and size of     *)
(* slots and every interleaving of host, interrupt, main loop and DMA.  A  *)
(* re-initialisation discards what is queued; after a damage nothing is    *)
(* promised until the next clean one.                                      *)
THEOREM DownlinkImplementsFifo == SpecH => BridgesBytes
<1>1. SpecH => []FifoInv BY FifoInvInit, FifoInvStep, PTL DEF SpecH
<1> QED BY <1>1, FifoInit, FifoStep, PTL DEF SpecH, BridgesBytes, Fifo!PacketSpec

=============================================================================
