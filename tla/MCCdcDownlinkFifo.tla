------------------------- MODULE MCCdcDownlinkFifo -------------------------
(***************************************************************************)
(* The instance of CdcDownlinkFifo for TLC.                                *)
(***************************************************************************)
EXTENDS CdcDownlinkFifo

(* A full and a short packet that differ in content.                       *)
TwoPayloads == {<<0, 1>>, <<1>>}

(* Where nothing is promised, the ring is followed while it is empty and   *)
(* no handshake is being missed; the next re-initialisation puts it right. *)
FaultBound == Intact \/ (Tx_RemainNum = 0 /\ ~unheard)

=============================================================================
