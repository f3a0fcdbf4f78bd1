-------------------------- MODULE MCCdcUplinkFifo --------------------------
(***************************************************************************)
(* Instances of CdcUplinkFifo for TLC.                                     *)
(***************************************************************************)
EXTENDS CdcUplinkFifo

(* Every damage fulfils the properties, so it is not followed; an expiry  *)
(* is followed until the main loop goes on.                                *)
UntilDamage ==
  Sound \/ (damage = {"expired"} /\ (pc = "pack0" \/ USB_Up_IngFlag = 1))

=============================================================================
