--------------------------- MODULE CdcUplinkFifo ---------------------------
(***************************************************************************)
(* CdcUplink implements the byte FIFO that ByteFifo describes.  Two        *)
(* history variables record what the FIFO's promise talks about: the       *)
(* packet the host read last, and the re-initialisations.                  *)
(***************************************************************************)
EXTENDS CdcUplink

VARIABLES
  got,     \* the bytes of the packet the host read last
  epoch    \* alternates with every re-initialisation

varsH == <<vars, got, epoch>>

InitH == Init /\ got = <<>> /\ epoch = 0

(* An empty packet ends a transfer and carries no byte.                    *)
HostTakes == pend' = "ep3In" /\ Undelivered

Reinitialised == \/ pend = "lineCoding" /\ pend' = "none"
                 \/ rstPend /\ ~rstPend'

NextH ==
  /\ Next
  /\ got' = IF HostTakes THEN EP3_Buf ELSE got
  /\ epoch' = IF Reinitialised THEN 1 - epoch ELSE epoch

SpecH == InitH /\ [][NextH]_varsH
FairSpecH == SpecH /\ Fairness

(* The queue: the packet the host has not read, the counted bytes, and the *)
(* bytes still hidden in the DMA counter.                                  *)
RingBytes(n) ==
  [i \in 1 .. n |-> UART2_Rx_Buf[(Rx_DealPtr + i - 1) % RxLen]]

Fifo == INSTANCE ByteFifo
          WITH q <- IF Sound
                    THEN (IF Undelivered THEN EP3_Buf ELSE <<>>)
                           \o RingBytes(Rx_RemainLen + Unseen)
                    ELSE <<>>,
               last <- got, fault <- ~Sound, Chunks <- {<<b>> : b \in Byte}

(* The host reads exactly the bytes that arrived on the serial line, in    *)
(* order, unless one of the recorded damages occurred: the contract that   *)
(* UART2_DataRx_Deal, the receive DMA and the endpoint-3 interrupt keep.   *)
UploadsBytes == Fifo!Spec

=============================================================================
