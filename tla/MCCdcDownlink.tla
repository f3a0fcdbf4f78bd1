--------------------------- MODULE MCCdcDownlink ---------------------------
(***************************************************************************)
(* Instances of CdcDownlink for TLC.                                       *)
(***************************************************************************)
EXTENDS CdcDownlink

(* One short packet, and a packet beside the zero-length one.              *)
OnePayload   == {<<1>>}
ZeroAndEmpty == {<<0>>, <<>>}

(* Once the ring is broken its counters only wander: follow them for one   *)
(* packet and see that the next re-initialisation puts them right.         *)
TornBound == Sound \/ Tx_RemainNum \in {0, 1, NumMax - 1, U16 - 1}

=============================================================================
