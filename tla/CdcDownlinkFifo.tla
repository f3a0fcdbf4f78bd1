--------------------------- MODULE CdcDownlinkFifo ---------------------------
(***************************************************************************)
(* CdcDownlink implements the packet FIFO: the bytes of the booked slots,  *)
(* in slot order, less what the DMA has fetched already, are the queue.    *)
(* History variables add what CdcDownlink does not record: the packet the  *)
(* host last sent and whether it heard the handshake, and the one damage   *)
(* that harms the bytes and not the ring.                                  *)
(***************************************************************************)
EXTENDS CdcDownlink, SequencesExt

VARIABLES
  sent,     \* the packet the host sent last
  unheard,  \* the host missed its handshake
  stray     \* the last re-initialisation, a bus reset, left the transmit DMA
            \* running on a packet the variables of Uart no longer know

varsH == <<vars, sent, unheard, stray>>

InitH == Init /\ sent = <<>> /\ unheard = FALSE /\ stray = FALSE

(* A host that missed a handshake repeats the packet ...                   *)
HostSends(p) ==
  /\ HostOut(p)
  /\ unheard => p = sent
  /\ sent' = p /\ unheard' = (hostTog' = hostTog)
  /\ UNCHANGED stray

(* ... or, after some attempts, gives it up, as it does when it resets the *)
(* bus or the endpoint.                                                    *)
HostGivesUp ==
  /\ \/ HostReset
     \/ HostControl("clearHalt")
     \/ unheard /\ UNCHANGED vars
  /\ unheard' = FALSE
  /\ UNCHANGED <<sent, stray>>

HostAsks ==
  /\ \E r \in Controls \ {"clearHalt"} : HostControl(r)
  /\ UNCHANGED <<sent, unheard, stray>>

Firmware ==
  /\ Isr \/ Main \/ Usart
  /\ stray' = IF epoch' # epoch THEN DMAReq' = 1 /\ CNTR' > 0 ELSE stray
  /\ UNCHANGED <<sent, unheard>>

NextH ==
  \/ \E p \in Payloads : HostSends(p)
  \/ HostGivesUp \/ HostAsks \/ Firmware

SpecH == InitH /\ [][NextH]_varsH

(* n bytes of UART2_Tx_Buf from offset a.                                  *)
BytesAt(a, n) == [i \in 1 .. n |-> UART2_Tx_Buf[a + i - 1]]

SlotBytes(s) == BytesAt(Offset(s), Tx_PackLen[s])

(* What is left of the slot in hand: while the DMA is armed, what the DMA  *)
(* has not fetched; otherwise the rest the main loop will arm next.        *)
CurrentBytes ==
  CASE Tx_Flag = 1 \/ pc \in {"flag", "complete"} -> BytesAt(MADDR, CNTR)
    [] OTHER -> IF Tx_CurPackLen > 0
                THEN BytesAt(Tx_CurPackPtr, Tx_CurPackLen)
                ELSE SlotBytes(Tx_DealNum)

Queue ==
  IF Tx_RemainNum = 0 THEN <<>>
  ELSE CurrentBytes \o
       FlattenSeq([i \in 1 .. Tx_RemainNum - 1 |->
                     SlotBytes(WrapSlot(Tx_DealNum + i))])

Intact == Sound /\ ~stray

Waiting == pend.kind = "ep2Out"

Fifo == INSTANCE PacketFifo
          WITH q <- IF Intact THEN Queue ELSE <<>>,
               last <- IF wire = NoByte THEN <<>> ELSE <<wire>>,
               fault <- ~Intact, Chunks <- Payloads,
               waiting <- Waiting

(* While Intact, the serial line carries the packets in the order in which *)
(* they reached the endpoint, the bytes of every transmission whole,       *)
(* unaltered and once.  The interrupt does not test the data toggle: a     *)
(* packet the host repeats because it missed the handshake is therefore    *)
(* put out again, directly after the first copy; no other packet is put    *)
(* out twice, and the first copy is never spoilt.  Nothing is promised     *)
(* once a re-initialisation has come between a decision of the main loop   *)
(* and its use, a bus reset has left the DMA running, or the host has      *)
(* forced the stopped endpoint open, until the next re-initialisation that *)
(* finds the loop between two transmissions and the DMA at rest: from      *)
(* there the promise holds again, with an empty queue.                     *)
BridgesBytes == Fifo!PacketSpec

=============================================================================
