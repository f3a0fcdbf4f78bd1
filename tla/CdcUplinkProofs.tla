-------------------------- MODULE CdcUplinkProofs --------------------------
(***************************************************************************)
(* Types and counts of the serial-to-host half, for every ring and packet  *)
(* length and every byte alphabet.                                         *)
(***************************************************************************)
EXTENDS CdcUplinkFifo, SequenceTheorems, TLAPS

(* A packet chosen but not yet copied lies within the ring, also after a   *)
(* re-initialisation rewound the read position.                            *)
PacketFits == /\ EP3_Buf \in Seq(Byte)
              /\ pc = "send" => packlen <= RxLen - Rx_DealPtr

(* While the ring is sound its unread bytes fit in it, so that no count is *)
(* refused; and a packet consists of counted bytes.                        *)
RingInv == RingSound =>
             /\ Rx_RemainLen + Unseen = fresh /\ fresh <= RxLen
             /\ Rx_DealPtr + Rx_RemainLen + LastCount \in {0, RxLen, 2 * RxLen}
             /\ pc = "send" => packlen \in 1 .. Rx_RemainLen

LEMMA UplinkNumbers ==
  /\ PackSize \in Nat /\ PackSize > 0 /\ RxLen \in Nat /\ RxLen > PackSize
  /\ U8 \in Nat /\ U8 > 0 /\ U16 \in Nat /\ U16 > RxLen /\ 0 \in Byte
BY CdcUplinkAssumption, SMT

LEMMA Wraps ==
  ASSUME NEW n \in Nat, NEW m \in Nat, m > 0
  PROVE  n % m \in 0 .. m - 1
BY SMT

LEMMA PacketBytes ==
  ASSUME UplinkTypeOK, NEW a \in Nat, NEW n \in Nat, a + n <= RxLen, n <= PackSize
  PROVE  BytesAt(a, n) \in Seq(Byte) /\ Len(BytesAt(a, n)) <= PackSize
<1> USE UplinkNumbers
<1>1. \A i \in 1 .. n : UART2_Rx_Buf[a + i - 1] \in Byte
  BY SMT DEF UplinkTypeOK
<1>2. BytesAt(a, n) \in Seq(Byte) /\ Len(BytesAt(a, n)) = n BY <1>1, IsASeq DEF BytesAt
<1> QED BY <1>2, SMT

LEMMA UplinkInit == Init => UplinkTypeOK /\ PacketFits /\ RingInv
<1> SUFFICES ASSUME Init PROVE UplinkTypeOK /\ PacketFits /\ RingInv
  OBVIOUS
<1> USE UplinkNumbers
<1>1. UART2_Rx_Buf \in [0 .. RxLen - 1 -> Byte] BY DEF Init
<1>2. Len(<< >>) = 0 /\ << >> \in Seq(Byte) OBVIOUS
<1>3. UplinkTypeOK
  <2>1. /\ CNTR \in 1 .. RxLen /\ Rx_DealPtr \in 0 .. RxLen - 1 /\ Rx_RemainLen \in 0 .. U16 - 1
        /\ LastCount \in 0 .. RxLen /\ Rx_TimeOut \in 0 .. U8 - 1
        /\ USB_Up_TimeOut \in 0 .. U16 - 1 /\ packlen \in 0 .. PackSize
        /\ fresh \in 0 .. RxLen + 1 /\ Busy \in 0 .. 1
        /\ USB_Up_IngFlag \in 0 .. 1 /\ USB_Up_Pack0_Flag \in 0 .. 1
    BY SMT DEF Init
  <2>2. Len(EP3_Buf) <= PackSize BY <1>2, SMT DEF Init
  <2> QED BY <1>1, <2>1, <2>2 DEF Init, UplinkTypeOK
<1>4. PacketFits BY <1>2 DEF Init, PacketFits
<1>5. RingInv BY SMT DEF Init, RingInv, Unseen
<1> QED BY <1>3, <1>4, <1>5

-----------------------------------------------------------------------------
(* Types.                                                                  *)

LEMMA OutsideTypes ==
  ASSUME UplinkTypeOK, PacketFits,
         \/ \E b \in Byte : UartRx(b)
         \/ Tick \/ HostIn \/ HostReset
         \/ \E r \in Controls : HostControl(r)
  PROVE  UplinkTypeOK' /\ PacketFits'
<1> USE UplinkNumbers
<1> USE DEF dmaVars, ringVars, timeVars, upVars, ep3Vars, mainVars, hostVars, history
<1>1. CASE \E b \in Byte : UartRx(b)
  <2>1. PICK b \in Byte : UartRx(b) BY <1>1
  <2>2. RxLen - CNTR \in 0 .. RxLen - 1 BY SMT DEF UplinkTypeOK
  <2>3. UART2_Rx_Buf' \in [0 .. RxLen - 1 -> Byte] BY <2>1, <2>2 DEF UartRx, UplinkTypeOK
  <2>4. CNTR' \in 1 .. RxLen /\ fresh' \in 0 .. RxLen + 1
    BY <2>1, SMT DEF UartRx, UplinkTypeOK, AtMost
  <2>5. damage' \in {damage, damage \cup {"overrun"}} BY <2>1 DEF UartRx, Hurt
  <2>6. damage' \subseteq {"torn", "stale", "overrun", "refused", "expired", "halted", "leftover"}
    BY <2>5 DEF UplinkTypeOK
  <2> QED BY <2>1, <2>3, <2>4, <2>6 DEF UartRx, UplinkTypeOK, PacketFits
<1>2. CASE Tick
  <2>1. Rx_TimeOut' \in 0 .. U8 - 1 /\ USB_Up_TimeOut' \in 0 .. U16 - 1
    <3>1. Rx_TimeOut + 1 \in Nat /\ USB_Up_TimeOut + 1 \in Nat /\ U16 > 0
      BY SMT DEF UplinkTypeOK
    <3> QED BY <1>2, <3>1, Wraps DEF Tick
  <2> QED BY <1>2, <2>1 DEF Tick, UplinkTypeOK, PacketFits
<1>3. CASE HostIn BY <1>3 DEF HostIn, UplinkTypeOK, PacketFits
<1>4. CASE HostReset BY <1>4 DEF HostReset, UplinkTypeOK, PacketFits
<1>5. CASE \E r \in Controls : HostControl(r)
  BY <1>5 DEF HostControl, UplinkTypeOK, PacketFits
<1> QED BY <1>1, <1>2, <1>3, <1>4, <1>5

LEMMA IsrTypes ==
  ASSUME UplinkTypeOK, PacketFits, Isr
  PROVE  UplinkTypeOK' /\ PacketFits'
<1> USE UplinkNumbers
<1> USE DEF dmaVars, ringVars, timeVars, upVars, ep3Vars, mainVars, hostVars, history
<1>0. Len(<< >>) = 0 /\ << >> \in Seq(Byte) /\ Torn \in {{}, {"torn"}} BY DEF Torn
<1>1. CASE Ep3InIsr BY <1>0, <1>1, SMT DEF Ep3InIsr, UplinkTypeOK, PacketFits
<1>2. CASE LineCodingIsr
  <2>1. damage' \subseteq {"torn", "stale", "overrun", "refused", "expired", "halted", "leftover"}
    BY <1>0, <1>2 DEF LineCodingIsr
  <2>2. CNTR' \in 1 .. RxLen /\ Rx_DealPtr' = 0 /\ Rx_RemainLen' = 0 /\ Rx_TimeOut' = 0
        /\ LastCount' = 0 /\ USB_Up_IngFlag' = 0 /\ USB_Up_TimeOut' = 0
        /\ USB_Up_Pack0_Flag' = 0 /\ fresh' = 0
    BY <1>2, SMT DEF LineCodingIsr, RestartRxDma, UART2_ParaInit
  <2>3. UNCHANGED <<UART2_Rx_Buf, Busy, EP3_RES, EP3_Buf, rstPend, pc, packlen, decided>>
        /\ pend' = "none"
    BY <1>2 DEF LineCodingIsr
  <2> QED BY <2>1, <2>2, <2>3, SMT DEF UplinkTypeOK, PacketFits
<1>3. CASE ClearHaltIsr \/ SetHaltIsr
  <2>1. damage' \subseteq {"torn", "stale", "overrun", "refused", "expired", "halted", "leftover"}
    BY <1>3 DEF ClearHaltIsr, SetHaltIsr, Hurt, UplinkTypeOK
  <2>2. EP3_Buf' = << >> /\ EP3_RES' \in {"NAK", "STALL"} /\ pend' = "none"
    BY <1>3 DEF ClearHaltIsr, SetHaltIsr
  <2>3. UNCHANGED <<dmaVars, ringVars, timeVars, upVars, Busy, rstPend, mainVars, decided, fresh>>
    BY <1>3 DEF ClearHaltIsr, SetHaltIsr
  <2>4. Len(EP3_Buf') <= PackSize BY <1>0, <2>2, SMT
  <2> QED BY <1>0, <2>1, <2>2, <2>3, <2>4 DEF UplinkTypeOK, PacketFits
<1>4. CASE BusResetIsr
  <2>1. damage' \subseteq {"torn", "stale", "overrun", "refused", "expired", "halted", "leftover"}
    BY <1>0, <1>4 DEF BusResetIsr
  <2> QED BY <1>0, <1>4, <2>1, SMT DEF BusResetIsr, UART2_ParaInit, UplinkTypeOK, PacketFits
<1> QED BY <1>1, <1>2, <1>3, <1>4 DEF Isr

LEMMA MainTypes ==
  ASSUME UplinkTypeOK, PacketFits, Main
  PROVE  UplinkTypeOK' /\ PacketFits'
<1> USE UplinkNumbers
<1> USE DEF dmaVars, ringVars, timeVars, upVars, ep3Vars, mainVars, hostVars, history
<1>1. CASE RxCount
  <2>1. Rx_TimeOut' \in 0 .. U8 - 1 BY <1>1, SMT DEF RxCount, IdleTime, UplinkTypeOK
  <2>2. Rx_RemainLen' \in 0 .. U16 - 1 BY <1>1, SMT DEF Counted, RxCount, NewBytes, UplinkTypeOK
  <2>3. LastCount' \in 0 .. RxLen BY <1>1, SMT DEF RxCount, UplinkTypeOK
  <2> QED BY <1>1, <2>1, <2>2, <2>3 DEF RxCount, UplinkTypeOK, PacketFits
<1>2. CASE UpFull \/ UpShort \/ UpWait
  <2>1. /\ pc' \in {"send", "pack0"} /\ packlen' \in 0 .. PackSize
        /\ packlen' <= RxLen - Rx_DealPtr
    BY <1>2, SMT DEF UpFull, UpShort, UpWait, Decide, AtMost, UplinkTypeOK
  <2>2. decided' \in BOOLEAN BY <1>2, CdcUplinkAssumption DEF UpFull, UpShort, UpWait, Decide
  <2>3. UNCHANGED <<dmaVars, ringVars, timeVars, upVars, ep3Vars, hostVars, history>>
    BY <1>2 DEF UpFull, UpShort, UpWait, Decide
  <2> QED BY <2>1, <2>2, <2>3 DEF UplinkTypeOK, PacketFits
<1>3. CASE UpExpire
  <2>1. decided' \in BOOLEAN BY <1>3, CdcUplinkAssumption DEF UpExpire
  <2>2. damage' \subseteq {"torn", "stale", "overrun", "refused", "expired", "halted", "leftover"}
    BY <1>3 DEF UpExpire, UplinkTypeOK
  <2>3. Busy' \in 0 .. 1 /\ USB_Up_IngFlag' \in 0 .. 1 BY <1>3, SMT DEF UpExpire, ForgetUpload
  <2> QED BY <1>3, <2>1, <2>2, <2>3 DEF UpExpire, UplinkTypeOK, PacketFits
<1>4. CASE UpSend
  <2>1. packlen \in Nat /\ Rx_DealPtr \in Nat /\ Rx_DealPtr + packlen <= RxLen /\ packlen <= PackSize
    BY <1>4, SMT DEF UpSend, UplinkTypeOK, PacketFits
  <2>2. EP3_Buf' \in Seq(Byte) /\ Len(EP3_Buf') <= PackSize
    BY <1>4, <2>1, PacketBytes DEF UpSend, USBFS_Endp_DataUp, UplinkTypeOK, PacketFits
  <2>3. Busy' \in 0 .. 1 /\ EP3_RES' \in {"ACK", "NAK", "STALL"}
    BY <1>4, SMT DEF UpSend, USBFS_Endp_DataUp, UplinkTypeOK
  <2>4. Rx_RemainLen' \in 0 .. U16 - 1 /\ Rx_DealPtr' \in 0 .. RxLen - 1
    BY <1>4, <2>1, SMT DEF UpSend, Sub16, Advance, UplinkTypeOK
  <2>5. fresh' \in 0 .. RxLen + 1 BY <1>4, <2>1, SMT DEF UpSend, UplinkTypeOK
  <2>6. damage' \subseteq {"torn", "stale", "overrun", "refused", "expired", "halted", "leftover"}
    BY <1>4 DEF UpSend, Hurt, UplinkTypeOK
  <2>7. /\ pc' = "pack0" /\ packlen' \in 0 .. PackSize /\ USB_Up_IngFlag' \in 0 .. 1
        /\ USB_Up_TimeOut' \in 0 .. U16 - 1 /\ USB_Up_Pack0_Flag' \in 0 .. 1
    BY <1>4, SMT DEF UpSend, UplinkTypeOK
  <2>8. UNCHANGED <<dmaVars, LastCount, Rx_TimeOut, hostVars, decided>> BY <1>4 DEF UpSend
  <2> QED BY <2>2, <2>3, <2>4, <2>5, <2>6, <2>7, <2>8 DEF UplinkTypeOK, PacketFits
<1>5. CASE ZlpTest BY <1>5 DEF ZlpTest, UplinkTypeOK, PacketFits
<1>6. CASE ZlpSend
  <2>1. Len(<< >>) = 0 /\ << >> \in Seq(Byte) OBVIOUS
  <2>2. EP3_Buf' \in Seq(Byte) /\ Len(EP3_Buf') <= PackSize
    BY <1>6, <2>1, SMT DEF ZlpSend, USBFS_Endp_DataUp, UplinkTypeOK, PacketFits
  <2>3. Busy' \in 0 .. 1 /\ EP3_RES' \in {"ACK", "NAK", "STALL"}
    BY <1>6, SMT DEF ZlpSend, USBFS_Endp_DataUp, UplinkTypeOK
  <2>4. /\ pc' = "count" /\ USB_Up_IngFlag' \in 0 .. 1
        /\ USB_Up_TimeOut' \in 0 .. U16 - 1 /\ USB_Up_Pack0_Flag' \in 0 .. 1
    BY <1>6, SMT DEF ZlpSend
  <2>5. UNCHANGED <<dmaVars, ringVars, Rx_TimeOut, hostVars, packlen, decided, history>>
    BY <1>6 DEF ZlpSend
  <2> QED BY <2>2, <2>3, <2>4, <2>5 DEF UplinkTypeOK, PacketFits
<1> QED BY <1>1, <1>2, <1>3, <1>4, <1>5, <1>6 DEF Main

-----------------------------------------------------------------------------
(* Counts.                                                                 *)

(* Nothing the ring's soundness excludes was recorded before the step.     *)
LEMMA OutsideCounts ==
  ASSUME UplinkTypeOK, RingInv,
         \/ \E b \in Byte : UartRx(b)
         \/ Tick \/ HostIn \/ HostReset
         \/ \E r \in Controls : HostControl(r)
  PROVE  RingInv'
<1> USE UplinkNumbers
<1> USE DEF dmaVars, ringVars, timeVars, upVars, ep3Vars, mainVars, hostVars, history
<1>1. CASE \E b \in Byte : UartRx(b)
  <2>1. PICK b \in Byte : UartRx(b) BY <1>1
  <2> SUFFICES ASSUME RingSound' PROVE RingInv'
    BY DEF RingInv
  <2>2. damage' = Hurt(fresh' > RxLen \/ Unseen = RxLen - 1, "overrun") BY <2>1 DEF UartRx
  <2>3. /\ RingSound /\ ~(fresh' > RxLen) /\ Unseen # RxLen - 1
    BY <2>2 DEF RingSound, Hurt
  <2>4. /\ fresh' = AtMost(fresh + 1, RxLen + 1)
        /\ CNTR' = IF CNTR = 1 THEN RxLen ELSE CNTR - 1
        /\ UNCHANGED <<ringVars, mainVars>>
    BY <2>1 DEF UartRx
  <2>5. Unseen' = Unseen + 1 BY <2>3, <2>4, SMT DEF Unseen, UplinkTypeOK
  <2>6. fresh' = fresh + 1 /\ fresh' <= RxLen
    BY <2>3, <2>4, SMT DEF RingInv, AtMost, UplinkTypeOK
  <2>7. Unseen \in Nat BY SMT DEF Unseen, UplinkTypeOK
  <2> QED BY <2>3, <2>4, <2>5, <2>6, <2>7, SMT DEF RingInv, UplinkTypeOK
<1>2. CASE UNCHANGED <<dmaVars, ringVars, mainVars, history>>
  BY <1>2 DEF RingInv, RingSound, Unseen
<1> QED BY <1>1, <1>2 DEF Tick, HostIn, HostReset, HostControl

LEMMA IsrCounts ==
  ASSUME UplinkTypeOK, RingInv, Isr
  PROVE  RingInv'
<1> USE UplinkNumbers
<1> USE DEF dmaVars, ringVars, timeVars, upVars, ep3Vars, mainVars, hostVars, history
<1>1. CASE Ep3InIsr BY <1>1 DEF Ep3InIsr, RingInv, RingSound, Unseen
<1>2. CASE ClearHaltIsr \/ SetHaltIsr
  <2>1. UNCHANGED <<dmaVars, ringVars, mainVars, fresh>> /\ damage \subseteq damage'
    BY <1>2 DEF ClearHaltIsr, SetHaltIsr, Hurt
  <2> QED BY <2>1 DEF RingInv, RingSound, Unseen
<1>3. CASE LineCodingIsr \/ BusResetIsr
  <2> SUFFICES ASSUME RingSound' PROVE RingInv'
    BY DEF RingInv
  <2>1. pc # "send" /\ CNTR' = RxLen
    BY <1>3 DEF LineCodingIsr, BusResetIsr, RestartRxDma, Torn, RingSound
  <2>2. Rx_DealPtr' = 0 /\ Rx_RemainLen' = 0 /\ LastCount' = 0 /\ fresh' = 0 /\ pc' = pc
    BY <1>3 DEF LineCodingIsr, BusResetIsr, UART2_ParaInit
  <2>3. Unseen' = 0 BY <2>1, <2>2, SMT DEF Unseen
  <2> QED BY <2>1, <2>2, <2>3, SMT DEF RingInv
<1> QED BY <1>1, <1>2, <1>3 DEF Isr

LEMMA MainCounts ==
  ASSUME UplinkTypeOK, PacketFits, RingInv, Main
  PROVE  RingInv'
<1> USE UplinkNumbers
<1> USE DEF dmaVars, ringVars, timeVars, upVars, ep3Vars, mainVars, hostVars, history
<1> SUFFICES ASSUME RingSound' PROVE RingInv'
  BY DEF RingInv
<1>0. RingSound BY DEF Main, RxCount, UpFull, UpShort, UpWait, UpExpire, UpSend, ZlpTest, ZlpSend,
                       Decide, Hurt, RingSound
<1>1. CASE RxCount
  <2>1. Unseen' = 0 /\ pc' # "send" BY <1>1, SMT DEF RxCount, Unseen, UplinkTypeOK
  <2>2. CASE LastCount # CNTR
    <3>1. NewBytes = Unseen /\ Unseen \in Nat BY <2>2, SMT DEF NewBytes, Unseen, UplinkTypeOK
    <3>2. Rx_RemainLen' = Rx_RemainLen + Unseen
      BY <1>0, <1>1, <2>2, <3>1, SMT DEF RxCount, Counted, RingInv, UplinkTypeOK
    <3>3. Rx_DealPtr + Rx_RemainLen' + CNTR \in {0, RxLen, 2 * RxLen}
      BY <1>0, <3>1, <3>2, SMT DEF RingInv, Unseen, UplinkTypeOK
    <3> QED BY <1>0, <1>1, <2>1, <3>1, <3>2, <3>3, SMT DEF RxCount, RingInv, UplinkTypeOK
  <2>3. CASE LastCount = CNTR
    <3>1. Unseen = 0 /\ Rx_RemainLen' = Rx_RemainLen
      BY <1>1, <2>3, SMT DEF RxCount, Unseen, UplinkTypeOK
    <3> QED BY <1>0, <1>1, <2>1, <2>3, <3>1, SMT DEF RxCount, RingInv, UplinkTypeOK
  <2> QED BY <2>2, <2>3
<1>2. CASE UpFull \/ UpShort
  <2>1. packlen' \in 1 .. Rx_RemainLen
    BY <1>2, SMT DEF UpFull, UpShort, Decide, AtMost, UplinkTypeOK
  <2>2. UNCHANGED <<dmaVars, ringVars, history>> BY <1>2 DEF UpFull, UpShort, Decide
  <2> QED BY <1>0, <2>1, <2>2 DEF RingInv, Unseen
<1>3. CASE UpWait \/ UpExpire \/ ZlpTest \/ ZlpSend
  <2>1. UNCHANGED <<dmaVars, ringVars, fresh>> /\ pc' # "send"
    BY <1>3 DEF UpWait, UpExpire, ZlpTest, ZlpSend, Decide
  <2> QED BY <1>0, <2>1 DEF RingInv, Unseen
<1>4. CASE UpSend
  <2>1. /\ packlen \in 1 .. Rx_RemainLen /\ packlen <= RxLen - Rx_DealPtr
        /\ Rx_RemainLen + Unseen = fresh /\ fresh <= RxLen
        /\ Rx_DealPtr + Rx_RemainLen + LastCount \in {0, RxLen, 2 * RxLen}
    BY <1>0, <1>4 DEF RingInv, PacketFits, UpSend
  <2>2. Unseen \in Nat BY SMT DEF Unseen, UplinkTypeOK
  <2>3. Rx_RemainLen' = Rx_RemainLen - packlen /\ fresh' = fresh - packlen
    BY <1>4, <2>1, <2>2, SMT DEF UpSend, Sub16, UplinkTypeOK
  <2>4. Unseen' = Unseen /\ LastCount' = LastCount /\ pc' # "send" BY <1>4 DEF UpSend, Unseen
  <2>5. Rx_DealPtr' = IF Rx_DealPtr + packlen = RxLen THEN 0 ELSE Rx_DealPtr + packlen
    BY <1>4, <2>1, SMT DEF UpSend, Advance, UplinkTypeOK
  <2>6. Rx_DealPtr' + Rx_RemainLen' + LastCount \in {0, RxLen, 2 * RxLen}
    BY <2>1, <2>3, <2>5, SMT DEF UplinkTypeOK
  <2> QED BY <2>1, <2>2, <2>3, <2>4, <2>6, SMT DEF RingInv, UplinkTypeOK
<1> QED BY <1>1, <1>2, <1>3, <1>4 DEF Main

-----------------------------------------------------------------------------
(* The theorems.                                                           *)

UplinkInv == UplinkTypeOK /\ PacketFits /\ RingInv

LEMMA UplinkStep == UplinkInv /\ [Next]_vars => UplinkInv'
<1> SUFFICES ASSUME UplinkInv, [Next]_vars PROVE UplinkInv'
  OBVIOUS
<1> USE DEF UplinkInv
<1>1. CASE \/ \E b \in Byte : UartRx(b)
           \/ Tick \/ HostIn \/ HostReset
           \/ \E r \in Controls : HostControl(r)
  BY <1>1, OutsideTypes, OutsideCounts
<1>2. CASE Isr BY <1>2, IsrTypes, IsrCounts
<1>3. CASE Main BY <1>3, MainTypes, MainCounts
<1>4. CASE UNCHANGED vars
  BY <1>4 DEF vars, dmaVars, ringVars, timeVars, upVars, ep3Vars, mainVars, hostVars, history,
              UplinkTypeOK, PacketFits, RingInv, RingSound, Unseen
<1> QED BY <1>1, <1>2, <1>3, <1>4 DEF Next

(* The lengths and positions of UART2_DataRx_Deal stay within the ring and *)
(* its packets within the endpoint, whatever interrupts it.                *)
THEOREM UplinkTypeCorrect == Spec => []UplinkTypeOK
<1>1. UplinkInv => UplinkTypeOK BY DEF UplinkInv
<1> QED BY UplinkInit, UplinkStep, <1>1, PTL DEF Spec, UplinkInv

(* What the main loop has counted and what the DMA counter still hides are *)
(* the bytes not yet uploaded, for every pattern of arrivals, passes and   *)
(* interrupts that did not damage the ring.                                *)
THEOREM CountsAlwaysAgree == Spec => []CountsAgree
<1>1. UplinkInv => CountsAgree BY DEF UplinkInv, RingInv, CountsAgree
<1> QED BY UplinkInit, UplinkStep, <1>1, PTL DEF Spec, UplinkInv

LEMMA CountStep ==
  ASSUME UplinkTypeOK, CountNeverWraps, [Next]_vars
  PROVE  CountNeverWraps'
<1> USE UplinkNumbers
<1> USE DEF dmaVars, ringVars, timeVars, upVars, ep3Vars, mainVars, hostVars, history
<1>1. CASE \/ \E b \in Byte : UartRx(b)
           \/ Tick \/ HostIn \/ HostReset
           \/ \E r \in Controls : HostControl(r)
           \/ Ep3InIsr \/ ClearHaltIsr \/ SetHaltIsr \/ UNCHANGED vars
  <2>1. UNCHANGED <<Rx_RemainLen, mainVars>> /\ damage \subseteq damage'
    BY <1>1 DEF UartRx, Tick, HostIn, HostReset, HostControl, Ep3InIsr, ClearHaltIsr, SetHaltIsr,
                Hurt, vars
  <2> QED BY <2>1 DEF CountNeverWraps
<1>2. CASE LineCodingIsr \/ BusResetIsr
  <2>1. Rx_RemainLen' = 0 /\ pc' = pc /\ (pc = "send" => "torn" \in damage')
    BY <1>2 DEF LineCodingIsr, BusResetIsr, UART2_ParaInit, Torn
  <2> QED BY <2>1 DEF CountNeverWraps
<1>3. CASE Main
  <2> SUFFICES ASSUME "torn" \notin damage'
               PROVE  Rx_RemainLen' <= RxLen /\ (pc' = "send" => packlen' \in 1 .. Rx_RemainLen')
    BY DEF CountNeverWraps
  <2>1. "torn" \notin damage
    BY <1>3 DEF Main, RxCount, UpFull, UpShort, UpWait, UpExpire, UpSend, ZlpTest, ZlpSend, Decide,
                Hurt
  <2>2. Rx_RemainLen <= RxLen /\ (pc = "send" => packlen \in 1 .. Rx_RemainLen)
    BY <2>1 DEF CountNeverWraps
  <2>3. CASE RxCount BY <2>2, <2>3 DEF RxCount, Counted
  <2>4. CASE UpFull \/ UpShort
    <3>1. packlen' \in 1 .. Rx_RemainLen
      BY <2>4, SMT DEF UpFull, UpShort, Decide, AtMost, UplinkTypeOK
    <3>2. Rx_RemainLen' = Rx_RemainLen BY <2>4 DEF UpFull, UpShort, Decide
    <3> QED BY <2>2, <3>1, <3>2
  <2>5. CASE UpWait \/ UpExpire \/ ZlpTest \/ ZlpSend
    <3>1. Rx_RemainLen' = Rx_RemainLen /\ pc' # "send"
      BY <2>5 DEF UpWait, UpExpire, ZlpTest, ZlpSend, Decide
    <3> QED BY <2>2, <3>1
  <2>6. CASE UpSend
    <3>1. packlen \in 1 .. Rx_RemainLen /\ pc' # "send" BY <2>2, <2>6 DEF UpSend
    <3>2. Rx_RemainLen' = Rx_RemainLen - packlen
      BY <2>6, <3>1, SMT DEF UpSend, Sub16, UplinkTypeOK
    <3> QED BY <2>2, <3>1, <3>2, SMT DEF UplinkTypeOK
  <2> QED BY <1>3, <2>3, <2>4, <2>5, <2>6 DEF Main
<1> QED BY <1>1, <1>2, <1>3 DEF Next, Isr

(* UART2_DataRx_Deal chooses a packet with the USB interrupt enabled and   *)
(* subtracts it from a uint16_t behind a mask.  Lapped or stale rings,     *)
(* halts, timeouts and refused uploads never make that count wrap; only a  *)
(* re-initialisation that comes between the two does.                      *)
THEOREM OnlyReinitWrapsCount == Spec => []CountNeverWraps
<1>1. Init => CountNeverWraps BY UplinkNumbers, SMT DEF Init, CountNeverWraps
<1>2. UplinkTypeOK /\ CountNeverWraps /\ [Next]_vars => CountNeverWraps' BY CountStep
<1> QED BY <1>1, <1>2, UplinkTypeCorrect, PTL DEF Spec

-----------------------------------------------------------------------------
(* Sequences and indices around the ring.                                  *)

LEMMA AroundTheRing ==
  ASSUME NEW m \in Nat, NEW x \in Nat, x < 2 * m
  PROVE  x % m = IF x < m THEN x ELSE x - m
BY SMT

LEMMA ConcatParts ==
  ASSUME NEW S, NEW s \in Seq(S), NEW t \in Seq(S)
  PROVE  /\ SubSeq(s \o t, 1, Len(s)) = s
         /\ SubSeq(s \o t, Len(s) + 1, Len(s \o t)) = t
<1>1. /\ s \o t \in Seq(S) /\ Len(s) \in Nat /\ Len(t) \in Nat /\ Len(s \o t) = Len(s) + Len(t)
      /\ \A i \in 1 .. Len(s) : (s \o t)[i] = s[i]
      /\ \A i \in 1 .. Len(t) : (s \o t)[Len(s) + i] = t[i]
  BY ConcatProperties, LenProperties, SMT
<1>2. SubSeq(s \o t, 1, Len(s)) = s BY <1>1, SMT
<1>3. SubSeq(s \o t, Len(s) + 1, Len(s \o t)) = t BY <1>1, SMT
<1> QED BY <1>2, <1>3

LEMMA NothingOfASequence ==
  ASSUME NEW S, NEW s \in Seq(S)
  PROVE  SubSeq(s, 1, 0) = << >> /\ 0 \in 0 .. Len(s)
BY LenProperties, SubSeqEmpty, SMT

-----------------------------------------------------------------------------
(* The endpoint.                                                           *)

(* Bytes lie in endpoint 3 only while it answers, and while nothing was    *)
(* damaged its busy mark is up from the upload to the end of the transfer. *)
EndpointInv ==
  /\ EP3_RES # "ACK" => EP3_Buf = << >>
  /\ Sound /\ (EP3_RES = "ACK" \/ pend = "ep3In") => Busy = 1

HistoryInv == UplinkInv /\ EndpointInv /\ epoch \in {0, 1}

LEMMA EndpointInit == Init => EndpointInv
BY DEF Init, EndpointInv

LEMMA EndpointStep ==
  ASSUME UplinkTypeOK, EndpointInv, [Next]_vars
  PROVE  EndpointInv'
<1> USE DEF dmaVars, ringVars, timeVars, upVars, ep3Vars, mainVars, hostVars, history
<1>1. CASE UNCHANGED <<ep3Vars, pend>> /\ damage \subseteq damage'
  BY <1>1 DEF EndpointInv, Sound
<1>2. CASE \E b \in Byte : UartRx(b)
  <2>1. UNCHANGED <<ep3Vars, pend>> /\ damage \subseteq damage' BY <1>2 DEF UartRx, Hurt
  <2> QED BY <1>1, <2>1
<1>3. CASE HostIn BY <1>3 DEF HostIn, EndpointInv, Sound
<1>4. CASE \E r \in Controls : HostControl(r)
  BY <1>4 DEF HostControl, Controls, EndpointInv, Sound
<1>5. CASE Ep3InIsr BY <1>5 DEF Ep3InIsr, EndpointInv, Sound
<1>6. CASE LineCodingIsr
  <2>1. UNCHANGED ep3Vars /\ pend' = "none" BY <1>6 DEF LineCodingIsr
  <2>2. Sound' /\ EP3_RES = "ACK" => Sound BY <1>6 DEF LineCodingIsr, Sound
  <2> QED BY <2>1, <2>2 DEF EndpointInv
<1>7. CASE ClearHaltIsr BY <1>7 DEF ClearHaltIsr, EndpointInv
<1>8. CASE SetHaltIsr BY <1>8 DEF SetHaltIsr, EndpointInv
<1>9. CASE BusResetIsr BY <1>9 DEF BusResetIsr, EndpointInv
<1>10. CASE UpExpire
  <2>1. ~Sound' /\ UNCHANGED <<EP3_RES, EP3_Buf>> BY <1>10 DEF UpExpire, Sound
  <2> QED BY <2>1 DEF EndpointInv
<1>11. CASE UpSend
  <2>1. \/ UNCHANGED ep3Vars
        \/ Busy' = 1 /\ EP3_RES' = "ACK"
    BY <1>11 DEF UpSend, USBFS_Endp_DataUp
  <2>2. UNCHANGED pend /\ damage \subseteq damage' BY <1>11 DEF UpSend, Hurt
  <2> QED BY <2>1, <2>2 DEF EndpointInv, Sound
<1>12. CASE ZlpSend BY <1>12 DEF ZlpSend, USBFS_Endp_DataUp, EndpointInv, Sound
<1>13. CASE Tick \/ HostReset \/ RxCount \/ UpFull \/ UpShort \/ UpWait \/ ZlpTest \/ UNCHANGED vars
  <2>1. UNCHANGED <<ep3Vars, pend>> /\ damage \subseteq damage'
    BY <1>13 DEF Tick, HostReset, RxCount, UpFull, UpShort, UpWait, Decide, ZlpTest, vars
  <2> QED BY <1>1, <2>1
<1> QED BY <1>2, <1>3, <1>4, <1>5, <1>6, <1>7, <1>8, <1>9, <1>10, <1>11, <1>12, <1>13
        DEF Next, Isr, Main

-----------------------------------------------------------------------------
(* The queue of bytes.                                                     *)

Left  == IF Undelivered THEN EP3_Buf ELSE << >>
Ring  == RingBytes(Rx_RemainLen + Unseen)
Queue == IF Sound THEN Left \o Ring ELSE << >>

(* The byte at place i of the ring, counted from the read position.        *)
Place(ptr, i) == IF ptr + i - 1 < RxLen THEN ptr + i - 1 ELSE ptr + i - 1 - RxLen

FromRing(buf, ptr, n) == [i \in 1 .. n |-> buf[(ptr + i - 1) % RxLen]]

LEMMA RingLaw ==
  ASSUME NEW buf \in [0 .. RxLen - 1 -> Byte], NEW ptr \in 0 .. RxLen - 1, NEW n \in 0 .. RxLen
  PROVE  /\ FromRing(buf, ptr, n) \in Seq(Byte) /\ Len(FromRing(buf, ptr, n)) = n
         /\ \A i \in 1 .. n : /\ FromRing(buf, ptr, n)[i] = buf[Place(ptr, i)]
                               /\ Place(ptr, i) \in 0 .. RxLen - 1
<1> USE UplinkNumbers
<1>1. ASSUME NEW i \in 1 .. n
      PROVE  (ptr + i - 1) % RxLen = Place(ptr, i) /\ Place(ptr, i) \in 0 .. RxLen - 1
  <2>1. ptr + i - 1 \in Nat /\ ptr + i - 1 < 2 * RxLen BY SMT
  <2>2. PICK x \in Nat : x = ptr + i - 1 BY <2>1
  <2>3. x % RxLen = IF x < RxLen THEN x ELSE x - RxLen BY <2>1, <2>2, AroundTheRing
  <2> QED BY <2>1, <2>2, <2>3, SMT DEF Place
<1>2. \A i \in 1 .. n : buf[(ptr + i - 1) % RxLen] \in Byte BY <1>1
<1>3. FromRing(buf, ptr, n) \in Seq(Byte) /\ Len(FromRing(buf, ptr, n)) = n
  BY <1>2, IsASeq DEF FromRing
<1>4. \A i \in 1 .. n : FromRing(buf, ptr, n)[i] = buf[(ptr + i - 1) % RxLen] BY DEF FromRing
<1> QED BY <1>1, <1>3, <1>4

LEMMA RingNow ==
  ASSUME UplinkInv, Sound
  PROVE  /\ Rx_RemainLen + Unseen = fresh /\ fresh \in 0 .. RxLen
         /\ Ring \in Seq(Byte) /\ Len(Ring) = fresh
         /\ \A i \in 1 .. fresh : /\ Ring[i] = UART2_Rx_Buf[Place(Rx_DealPtr, i)]
                                  /\ Place(Rx_DealPtr, i) \in 0 .. RxLen - 1
<1>1. Rx_RemainLen + Unseen = fresh /\ fresh <= RxLen
  BY DEF UplinkInv, RingInv, RingSound, Sound
<1>2. fresh \in 0 .. RxLen /\ Rx_DealPtr \in 0 .. RxLen - 1 /\ UART2_Rx_Buf \in [0 .. RxLen - 1 -> Byte]
  BY <1>1, UplinkNumbers, SMT DEF UplinkInv, UplinkTypeOK
<1>3. Ring = FromRing(UART2_Rx_Buf, Rx_DealPtr, fresh)
  BY <1>1 DEF Ring, RingBytes, FromRing
<1> QED BY <1>1, <1>2, <1>3, RingLaw

LEMMA RingNext ==
  ASSUME UplinkInv', Sound'
  PROVE  /\ Rx_RemainLen' + Unseen' = fresh' /\ fresh' \in 0 .. RxLen
         /\ Ring' \in Seq(Byte) /\ Len(Ring') = fresh'
         /\ \A i \in 1 .. fresh' : /\ Ring'[i] = UART2_Rx_Buf'[Place(Rx_DealPtr', i)]
                                   /\ Place(Rx_DealPtr', i) \in 0 .. RxLen - 1
<1>1. Rx_RemainLen' + Unseen' = fresh' /\ fresh' <= RxLen
  BY DEF UplinkInv, RingInv, RingSound, Sound
<1>2. fresh' \in 0 .. RxLen /\ Rx_DealPtr' \in 0 .. RxLen - 1 /\ UART2_Rx_Buf' \in [0 .. RxLen - 1 -> Byte]
  BY <1>1, UplinkNumbers, SMT DEF UplinkInv, UplinkTypeOK
<1>3. Ring' = FromRing(UART2_Rx_Buf', Rx_DealPtr', fresh')
  BY <1>1 DEF Ring, RingBytes, FromRing
<1> QED BY <1>1, <1>2, <1>3, RingLaw

LEMMA QueueNow ==
  ASSUME UplinkInv, Sound
  PROVE  /\ Left \in Seq(Byte) /\ Ring \in Seq(Byte)
         /\ Queue = Left \o Ring /\ Queue \in Seq(Byte)
<1>1. Left \in Seq(Byte) BY EmptySeq DEF Left, UplinkInv, PacketFits
<1>2. Ring \in Seq(Byte) BY RingNow
<1> QED BY <1>1, <1>2, ConcatProperties DEF Queue

(* An arriving byte is put at the end of the queue: the DMA writes where   *)
(* the unread bytes end, over none of them.                                *)
LEMMA ArrivalIsAccepted ==
  ASSUME UplinkInv, UplinkInv', Sound, Sound', NEW b \in Byte, UartRx(b)
  PROVE  Queue' = Queue \o <<b>>
<1> USE UplinkNumbers
<1> USE DEF ringVars, ep3Vars, hostVars
<1>1. /\ UART2_Rx_Buf' = [UART2_Rx_Buf EXCEPT ![RxLen - CNTR] = b]
      /\ fresh' = AtMost(fresh + 1, RxLen + 1)
      /\ Rx_DealPtr' = Rx_DealPtr /\ Left' = Left
  BY DEF UartRx, Left, Undelivered
<1>2. fresh' = fresh + 1 /\ fresh \in 0 .. RxLen - 1
  BY <1>1, RingNow, RingNext, SMT DEF AtMost
<1>3. /\ CNTR \in 1 .. RxLen /\ Rx_DealPtr \in 0 .. RxLen - 1 /\ Rx_RemainLen \in Nat
      /\ LastCount \in 0 .. RxLen /\ UART2_Rx_Buf \in [0 .. RxLen - 1 -> Byte]
  BY SMT DEF UplinkInv, UplinkTypeOK
<1>4. Rx_DealPtr + fresh \in {RxLen - CNTR, 2 * RxLen - CNTR}
  <2>1. /\ Rx_DealPtr + Rx_RemainLen + LastCount \in {0, RxLen, 2 * RxLen}
        /\ Rx_RemainLen + Unseen = fresh
    BY DEF UplinkInv, RingInv, RingSound, Sound
  <2> QED BY <1>2, <1>3, <2>1, SMT DEF Unseen
<1>5. /\ Place(Rx_DealPtr, fresh + 1) = RxLen - CNTR
      /\ \A i \in 1 .. fresh : Place(Rx_DealPtr, i) # RxLen - CNTR
  BY <1>2, <1>3, <1>4, SMT DEF Place
<1>6. /\ UART2_Rx_Buf'[RxLen - CNTR] = b
      /\ \A p \in 0 .. RxLen - 1 : p # RxLen - CNTR => UART2_Rx_Buf'[p] = UART2_Rx_Buf[p]
  BY <1>1, <1>3, SMT
<1>7. Ring' = Append(Ring, b)
  <2>1. /\ Append(Ring, b) \in Seq(Byte) /\ Len(Append(Ring, b)) = fresh + 1
        /\ Append(Ring, b)[fresh + 1] = b
        /\ \A i \in 1 .. fresh : Append(Ring, b)[i] = Ring[i]
    BY RingNow, AppendProperties, SMT
  <2>2. Ring' \in Seq(Byte) /\ Len(Ring') = fresh + 1 BY <1>2, RingNext
  <2>3. \A i \in 1 .. fresh : Ring'[i] = Ring[i]
    <3>1. TAKE i \in 1 .. fresh
    <3>2. i \in 1 .. fresh' BY <1>2, SMT
    <3> QED BY <1>1, <1>5, <1>6, <3>2, RingNow, RingNext
  <2>4. Ring'[fresh + 1] = b
    <3>1. fresh + 1 \in 1 .. fresh' BY <1>2, SMT
    <3> QED BY <1>1, <1>5, <1>6, <3>1, RingNext
  <2>5. \A i \in 1 .. fresh + 1 : Ring'[i] = Append(Ring, b)[i] BY <1>2, <2>1, <2>3, <2>4, SMT
  <2> QED BY <2>1, <2>2, <2>5, SeqEqual
<1>8. Ring' = Ring \o <<b>> BY <1>7, RingNow, AppendIsConcat
<1>9. <<b>> \in Seq(Byte) BY SMT
<1> QED BY <1>1, <1>8, <1>9, QueueNow, ConcatAssociative DEF Queue

(* A packet leaves the ring for endpoint 3 as it lay there, also when it   *)
(* ends where the ring ends: the queue does not change.                    *)
LEMMA UploadKeepsQueue ==
  ASSUME UplinkInv, UplinkInv', EndpointInv, Sound, Sound', UpSend
  PROVE  Queue' = Queue
<1> USE UplinkNumbers
<1> USE DEF dmaVars, hostVars
<1>1. Busy = 0
  BY SMT DEF UpSend, Hurt, Sound, UplinkInv, UplinkTypeOK
<1>2. EP3_Buf = << >> /\ pend # "ep3In" BY <1>1, SMT DEF EndpointInv
<1>3. /\ EP3_Buf' = BytesAt(Rx_DealPtr, packlen) /\ pend' = pend
      /\ UNCHANGED UART2_Rx_Buf
      /\ Rx_DealPtr' = IF Rx_DealPtr + packlen >= RxLen THEN 0 ELSE Rx_DealPtr + packlen
      /\ fresh' = IF fresh >= packlen THEN fresh - packlen ELSE 0
  BY <1>1 DEF UpSend, USBFS_Endp_DataUp, Advance
<1>4. /\ packlen \in Nat /\ Rx_DealPtr \in 0 .. RxLen - 1 /\ packlen <= fresh
      /\ Rx_DealPtr + packlen <= RxLen /\ fresh \in 0 .. RxLen
  <2>1. packlen \in 1 .. Rx_RemainLen /\ packlen <= RxLen - Rx_DealPtr
    BY DEF UpSend, UplinkInv, RingInv, PacketFits, RingSound, Sound
  <2>2. /\ packlen \in Nat /\ Rx_DealPtr \in 0 .. RxLen - 1 /\ Rx_RemainLen \in Nat
        /\ Unseen \in Nat
    BY SMT DEF UplinkInv, UplinkTypeOK, Unseen
  <2>3. Rx_RemainLen + Unseen = fresh /\ fresh \in 0 .. RxLen BY RingNow
  <2> QED BY <2>1, <2>2, <2>3, SMT
<1>5. fresh' = fresh - packlen BY <1>3, <1>4, SMT
<1>6. Left = << >> /\ Left' = EP3_Buf' BY <1>2, <1>3 DEF Left, Undelivered
<1>7. EP3_Buf' \in Seq(Byte) /\ Len(EP3_Buf') = packlen
  BY <1>3, <1>4, SMT DEF UplinkInv, PacketFits, BytesAt
<1>8. \A i \in 1 .. packlen : EP3_Buf'[i] = Ring[i]
  <2>1. TAKE i \in 1 .. packlen
  <2>2. EP3_Buf'[i] = UART2_Rx_Buf[Rx_DealPtr + i - 1] BY <1>3 DEF BytesAt
  <2>3. i \in 1 .. fresh /\ Place(Rx_DealPtr, i) = Rx_DealPtr + i - 1 BY <1>4, SMT DEF Place
  <2> QED BY <2>2, <2>3, RingNow
<1>9. \A i \in 1 .. fresh - packlen : Ring'[i] = Ring[packlen + i]
  <2>1. TAKE i \in 1 .. fresh - packlen
  <2>2. i \in 1 .. fresh' /\ packlen + i \in 1 .. fresh BY <1>4, <1>5, SMT
  <2>3. Place(Rx_DealPtr', i) = Place(Rx_DealPtr, packlen + i)
    BY <1>3, <1>4, <2>2, SMT DEF Place
  <2> QED BY <1>3, <2>2, <2>3, RingNow, RingNext
<1>10. EP3_Buf' \o Ring' = Ring
  <2>1. Ring \in Seq(Byte) /\ Len(Ring) = fresh BY RingNow
  <2>2. Ring' \in Seq(Byte) /\ Len(Ring') = fresh - packlen BY <1>5, RingNext
  <2>3. /\ EP3_Buf' \o Ring' \in Seq(Byte) /\ Len(EP3_Buf' \o Ring') = fresh
        /\ \A i \in 1 .. fresh : (EP3_Buf' \o Ring')[i]
                                   = IF i <= packlen THEN EP3_Buf'[i] ELSE Ring'[i - packlen]
    BY <1>4, <1>7, <2>2, ConcatProperties, SMT
  <2>4. \A i \in 1 .. fresh : (EP3_Buf' \o Ring')[i] = Ring[i]
    <3>1. TAKE i \in 1 .. fresh
    <3>2. CASE i <= packlen BY <1>4, <1>8, <2>3, <3>2, SMT
    <3>3. CASE i > packlen
      <4>1. i - packlen \in 1 .. fresh - packlen /\ packlen + (i - packlen) = i BY <1>4, <3>3, SMT
      <4>2. Ring'[i - packlen] = Ring[i] BY <1>9, <4>1, SMT
      <4> QED BY <1>4, <2>3, <3>3, <4>2, SMT
    <3>4. i <= packlen \/ i > packlen BY <1>4, SMT
    <3> QED BY <3>2, <3>3, <3>4
  <2> QED BY <2>1, <2>3, <2>4, SeqEqual
<1> QED BY <1>6, <1>10, QueueNow, ConcatEmptySeq DEF Queue

(* A line coding or a bus reset throws away what the ring held; a packet   *)
(* already in endpoint 3 may still be read after a line coding.            *)
LEMMA ReinitCutsQueue ==
  ASSUME UplinkInv, UplinkInv', EndpointInv, EndpointInv', Sound', LineCodingIsr \/ BusResetIsr
  PROVE  /\ ~Sound => Queue' = << >>
         /\ Sound => \E n \in 0 .. Len(Queue) : Queue' = SubSeq(Queue, 1, n)
<1> USE UplinkNumbers
<1> USE DEF ep3Vars
<1>1. Ring' = << >>
  <2>1. CNTR' = RxLen /\ Rx_RemainLen' = 0 /\ LastCount' = 0
    BY DEF LineCodingIsr, BusResetIsr, RestartRxDma, UART2_ParaInit, Sound, dmaVars
  <2>2. Rx_RemainLen' + Unseen' = 0 BY <2>1, SMT DEF Unseen
  <2>3. Len(Ring') = 0 /\ Ring' \in Seq(Byte) BY <2>2, RingNext
  <2> QED BY <2>3, EmptySeq, SMT
<1>2. CASE LineCodingIsr
  <2>1. Left' = Left BY <1>2 DEF LineCodingIsr, Left, Undelivered
  <2>2. Left \in Seq(Byte) BY EmptySeq DEF Left, UplinkInv, PacketFits
  <2>3. Queue' = Left BY <1>1, <2>1, <2>2, ConcatEmptySeq DEF Queue
  <2>4. ~Sound => Left = << >> BY <1>2 DEF LineCodingIsr, Sound, EndpointInv, Left, Undelivered
  <2>5. ASSUME Sound PROVE Len(Left) \in 0 .. Len(Queue) /\ Left = SubSeq(Queue, 1, Len(Left))
    <3>1. Left \in Seq(Byte) /\ Ring \in Seq(Byte) /\ Queue = Left \o Ring BY <2>5, QueueNow
    <3>2. Left = SubSeq(Queue, 1, Len(Left)) BY <3>1, ConcatParts
    <3>3. /\ Len(Left) \in Nat /\ Len(Ring) \in Nat
          /\ Len(Left \o Ring) = Len(Left) + Len(Ring)
      BY <3>1, ConcatProperties, LenProperties
    <3>4. Len(Left) \in 0 .. Len(Left) + Len(Ring) BY <3>3, SMT
    <3> QED BY <3>1, <3>2, <3>3, <3>4
  <2> QED BY <2>3, <2>4, <2>5
<1>3. CASE BusResetIsr
  <2>1. Left' = << >> BY <1>3 DEF BusResetIsr, Left, Undelivered
  <2>2. Queue' = << >> BY <1>1, <2>1, EmptySeq, ConcatEmptySeq DEF Queue
  <2>3. Sound => 0 \in 0 .. Len(Queue) /\ SubSeq(Queue, 1, 0) = << >>
    BY QueueNow, NothingOfASequence
  <2> QED BY <2>2, <2>3
<1> QED BY <1>2, <1>3

(* What the host reads is the whole packet at the head of the queue.       *)
LEMMA ReadTakesTheHead ==
  ASSUME UplinkInv, Sound, HostIn
  PROVE  /\ ~Undelivered => Queue' = Queue
         /\ Undelivered => \E n \in 1 .. Len(Queue) :
                             EP3_Buf = SubSeq(Queue, 1, n) /\ Queue' = SubSeq(Queue, n + 1, Len(Queue))
<1> USE DEF dmaVars, ringVars, ep3Vars, history
<1>1. Left' = << >> /\ Ring' = Ring /\ Sound'
  BY DEF HostIn, Left, Undelivered, Ring, RingBytes, Unseen, Sound
<1>2. Left \in Seq(Byte) /\ Ring \in Seq(Byte) /\ Queue = Left \o Ring BY QueueNow
<1>3. Queue' = Ring BY <1>1, <1>2, ConcatEmptySeq DEF Queue
<1>4. CASE ~Undelivered BY <1>2, <1>3, <1>4, ConcatEmptySeq DEF Left
<1>5. CASE Undelivered
  <2>1. Left = EP3_Buf /\ Left # << >> BY <1>5 DEF Left, Undelivered
  <2>2. Len(Left) \in Nat \ {0} BY <1>2, <2>1, EmptySeq
  <2>3. Len(Ring) \in Nat /\ Len(Queue) = Len(Left) + Len(Ring) BY <1>2, ConcatProperties, LenProperties
  <2>4. Len(Left) \in 1 .. Len(Queue) BY <2>2, <2>3, SMT
  <2>5. Left = SubSeq(Queue, 1, Len(Left)) /\ Ring = SubSeq(Queue, Len(Left) + 1, Len(Queue))
    BY <1>2, ConcatParts
  <2> QED BY <1>3, <1>5, <2>1, <2>4, <2>5
<1> QED BY <1>4, <1>5

-----------------------------------------------------------------------------
(* The refinement.                                                         *)

(* A step that leaves the packet, the ring and what they hold alone.       *)
LEMMA QueueRests ==
  ASSUME UplinkInv, UplinkInv', Sound, Sound', UNCHANGED <<UART2_Rx_Buf, Rx_DealPtr, fresh>>,
         Left' = Left
  PROVE  Queue' = Queue
<1>1. Rx_RemainLen + Unseen = Rx_RemainLen' + Unseen' BY RingNow, RingNext
<1>2. Ring' = Ring BY <1>1 DEF Ring, RingBytes
<1> QED BY <1>2 DEF Queue

(* The steps after which nothing is damaged, by what they do to the queue. *)
LEMMA UndamagedStep ==
  ASSUME HistoryInv, HistoryInv', Sound, Sound', Next
  PROVE  \/ /\ HostTakes
            /\ \E n \in 1 .. Len(Queue) :
                 EP3_Buf = SubSeq(Queue, 1, n) /\ Queue' = SubSeq(Queue, n + 1, Len(Queue))
            /\ ~Reinitialised
         \/ /\ Reinitialised /\ ~HostTakes
            /\ \E n \in 0 .. Len(Queue) : Queue' = SubSeq(Queue, 1, n)
         \/ /\ ~HostTakes /\ ~Reinitialised
            /\ Queue' = Queue \/ \E b \in Byte : Queue' = Queue \o <<b>>
<1> USE DEF HistoryInv
<1> USE DEF dmaVars, ringVars, timeVars, upVars, ep3Vars, mainVars, hostVars, history
<1>1. CASE \E b \in Byte : UartRx(b)
  <2>1. PICK b \in Byte : UartRx(b) BY <1>1
  <2>2. ~HostTakes /\ ~Reinitialised BY <2>1 DEF UartRx, HostTakes, Undelivered, Reinitialised
  <2>3. Queue' = Queue \o <<b>> BY <2>1, ArrivalIsAccepted
  <2> QED BY <2>2, <2>3
<1>2. CASE HostIn
  <2>1. ~Reinitialised /\ (HostTakes <=> Undelivered)
    BY <1>2 DEF HostIn, HostTakes, Reinitialised
  <2> QED BY <1>2, <2>1, ReadTakesTheHead
<1>3. CASE LineCodingIsr \/ BusResetIsr
  <2>1. Reinitialised /\ ~HostTakes
    BY <1>3 DEF LineCodingIsr, BusResetIsr, Reinitialised, HostTakes
  <2> QED BY <1>3, <2>1, ReinitCutsQueue
<1>4. CASE UpSend
  <2>1. ~HostTakes /\ ~Reinitialised BY <1>4 DEF UpSend, HostTakes, Undelivered, Reinitialised
  <2> QED BY <1>4, <2>1, UploadKeepsQueue
<1>5. ASSUME \/ Tick \/ HostReset \/ \E r \in Controls : HostControl(r)
             \/ Ep3InIsr \/ ClearHaltIsr \/ SetHaltIsr
             \/ UpFull \/ UpShort \/ UpWait \/ ZlpTest \/ RxCount \/ ZlpSend
      PROVE  ~HostTakes /\ ~Reinitialised /\ Left' = Left /\ UNCHANGED <<UART2_Rx_Buf, Rx_DealPtr, fresh>>
  <2>1. CASE Tick \/ HostReset \/ UpFull \/ UpShort \/ UpWait \/ ZlpTest \/ RxCount
    BY <2>1 DEF Tick, HostReset, UpFull, UpShort, UpWait, Decide, ZlpTest, RxCount,
                HostTakes, Undelivered, Reinitialised, Left
  <2>2. CASE \E r \in Controls : HostControl(r)
    BY <2>2 DEF HostControl, Controls, HostTakes, Undelivered, Reinitialised, Left
  <2>3. CASE Ep3InIsr
    BY <2>3 DEF Ep3InIsr, HostTakes, Undelivered, Reinitialised, Left
  <2>4. CASE ClearHaltIsr \/ SetHaltIsr
    <3>1. ~Undelivered BY <2>4 DEF ClearHaltIsr, SetHaltIsr, Hurt, Sound
    <3> QED BY <2>4, <3>1 DEF ClearHaltIsr, SetHaltIsr, HostTakes, Undelivered, Reinitialised, Left
  <2>5. CASE ZlpSend
    <3>1. CASE Busy = 0
      <4>1. EP3_Buf = << >> /\ pend # "ep3In" BY <3>1, SMT DEF EndpointInv
      <4>2. EP3_Buf' = << >> BY <2>5, <3>1 DEF ZlpSend, USBFS_Endp_DataUp
      <4> QED BY <2>5, <4>1, <4>2 DEF ZlpSend, HostTakes, Undelivered, Reinitialised, Left
    <3>2. CASE Busy # 0
      BY <2>5, <3>2 DEF ZlpSend, USBFS_Endp_DataUp, HostTakes, Undelivered, Reinitialised, Left
    <3> QED BY <3>1, <3>2
  <2> QED BY <1>5, <2>1, <2>2, <2>3, <2>4, <2>5
<1>6. CASE UpExpire BY <1>6 DEF UpExpire, Sound
<1> QED BY <1>1, <1>2, <1>3, <1>4, <1>5, <1>6, QueueRests DEF Next, Isr, Main

(* A repair: only a re-initialisation forgets damages.                     *)
LEMMA RepairingStep ==
  ASSUME HistoryInv, HistoryInv', ~Sound, Sound', Next
  PROVE  Reinitialised /\ Queue' = << >>
<1> USE DEF HistoryInv
<1>1. CASE LineCodingIsr \/ BusResetIsr
  <2>1. Reinitialised BY <1>1 DEF LineCodingIsr, BusResetIsr, Reinitialised
  <2> QED BY <1>1, <2>1, ReinitCutsQueue
<1>2. ASSUME Next, ~(LineCodingIsr \/ BusResetIsr) PROVE damage \subseteq damage'
  BY <1>2 DEF Next, Isr, Main, UartRx, Tick, HostIn, HostReset, HostControl, Ep3InIsr,
              ClearHaltIsr, SetHaltIsr, RxCount, UpFull, UpShort, UpWait, UpExpire, UpSend,
              ZlpTest, ZlpSend, Decide, Hurt, history
<1> QED BY <1>1, <1>2 DEF Sound

LEMMA HistoryInit == InitH => HistoryInv
BY UplinkInit, EndpointInit DEF InitH, HistoryInv, UplinkInv

LEMMA HistoryStep == HistoryInv /\ [NextH]_varsH => HistoryInv'
<1> SUFFICES ASSUME HistoryInv, [NextH]_varsH PROVE HistoryInv'
  OBVIOUS
<1>1. [Next]_vars BY DEF NextH, varsH
<1>2. epoch' \in {0, 1} BY SMT DEF HistoryInv, NextH, varsH
<1> QED BY <1>1, <1>2, UplinkStep, EndpointStep DEF HistoryInv, UplinkInv

LEMMA FifoInit == InitH => Fifo!Init
<1> SUFFICES ASSUME InitH PROVE Fifo!Init
  OBVIOUS
<1>1. HistoryInv BY HistoryInit
<1>2. Sound /\ Left = << >> /\ fresh = 0 BY DEF InitH, Init, Sound, Left, Undelivered
<1>3. Ring \in Seq(Byte) /\ Len(Ring) = 0 BY <1>1, <1>2, RingNow DEF HistoryInv
<1>4. Ring = << >> BY <1>3, EmptySeq, SMT
<1>5. Queue = << >> BY <1>2, <1>4, EmptySeq, ConcatEmptySeq DEF Queue
<1> QED BY <1>2, <1>5 DEF InitH, Fifo!Init, Queue, Left, Ring, Sound

LEMMA FifoStep == HistoryInv /\ HistoryInv' /\ [NextH]_varsH => [Fifo!Next]_Fifo!vars
<1> SUFFICES ASSUME HistoryInv, HistoryInv', [NextH]_varsH PROVE [Fifo!Next]_Fifo!vars
  OBVIOUS
<1>1. CASE UNCHANGED varsH
  BY <1>1 DEF varsH, vars, dmaVars, ringVars, timeVars, upVars, ep3Vars, hostVars, mainVars, history,
              Fifo!vars, Undelivered, RingBytes, Unseen, Sound
<1>2. CASE NextH /\ ~Sound' BY <1>2 DEF Fifo!Next
<1>3. CASE NextH /\ ~Sound /\ Sound'
  <2>1. Reinitialised /\ Queue' = << >> BY <1>3, RepairingStep DEF NextH
  <2>2. epoch' # epoch BY <1>3, <2>1, SMT DEF NextH, HistoryInv
  <2> QED BY <1>3, <2>1, <2>2 DEF Fifo!Next, Queue, Left, Ring
<1>4. CASE NextH /\ Sound /\ Sound'
  <2>0. /\ got' = (IF HostTakes THEN EP3_Buf ELSE got)
        /\ epoch' = (IF Reinitialised THEN 1 - epoch ELSE epoch)
        /\ Next
    BY <1>4 DEF NextH
  <2> DEFINE Emits == /\ HostTakes
                      /\ \E n \in 1 .. Len(Queue) :
                           EP3_Buf = SubSeq(Queue, 1, n) /\ Queue' = SubSeq(Queue, n + 1, Len(Queue))
                      /\ ~Reinitialised
             Reinits == /\ Reinitialised /\ ~HostTakes
                        /\ \E n \in 0 .. Len(Queue) : Queue' = SubSeq(Queue, 1, n)
             Accepts == /\ ~HostTakes /\ ~Reinitialised
                        /\ Queue' = Queue \/ \E b \in Byte : Queue' = Queue \o <<b>>
  <2>1. CASE Emits
    <3>1. \E n \in 1 .. Len(Queue) : Fifo!Emit(n)
      BY <2>0, <2>1 DEF Fifo!Emit, Queue, Left, Ring
    <3> QED BY <1>4, <3>1 DEF Fifo!Next, Fifo!Work, Queue, Left, Ring
  <2>2. CASE Reinits
    <3>1. \E n \in 0 .. Len(Queue) : Fifo!Reinit(n)
      BY <2>0, <2>2 DEF Fifo!Reinit, Queue, Left, Ring
    <3> QED BY <1>4, <3>1 DEF Fifo!Next, Fifo!Work, Queue, Left, Ring
  <2>3. CASE Accepts /\ Queue' = Queue
    BY <1>4, <2>0, <2>3 DEF Fifo!vars, Queue, Left, Ring
  <2>4. CASE Accepts /\ \E b \in Byte : Queue' = Queue \o <<b>>
    <3>1. \E c \in {<<b>> : b \in Byte} : Fifo!Accept(c)
      BY <2>0, <2>4 DEF Fifo!Accept, Queue, Left, Ring
    <3> QED BY <1>4, <3>1 DEF Fifo!Next, Fifo!Work
  <2>5. Emits \/ Reinits \/ Accepts BY <1>4, <2>0, UndamagedStep
  <2> QED BY <2>1, <2>2, <2>3, <2>4, <2>5
<1> QED BY <1>1, <1>2, <1>3, <1>4

(* The host reads exactly the bytes that arrived on the serial line, in    *)
(* order and once each, for every ring and packet length, every timing of  *)
(* main loop, DMA, timer and interrupt, and every control request of the   *)
(* host; a re-initialisation cuts the queue, and what a damage broke stays *)
(* broken until one.                                                       *)
THEOREM UplinkImplementsFifo == SpecH => UploadsBytes
<1>1. SpecH => []HistoryInv BY HistoryInit, HistoryStep, PTL DEF SpecH
<1> QED BY <1>1, FifoInit, FifoStep, PTL DEF SpecH, UploadsBytes, Fifo!Spec

=============================================================================
