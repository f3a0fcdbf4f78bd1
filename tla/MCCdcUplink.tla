----------------------------- MODULE MCCdcUplink -----------------------------
(***************************************************************************)
(* Instances of CdcUplink for TLC.                                         *)
(***************************************************************************)
EXTENDS CdcUplink, FiniteSets

(* Up to one kind of damage is followed, until a re-initialisation repairs *)
(* it; a length that wrapped below zero is not counted down byte by byte.  *)
DamageBound == Cardinality(damage) <= 1 /\ Rx_RemainLen <= RxLen

=============================================================================
