----------------------------- MODULE MCHostHub -----------------------------
(***************************************************************************)
(* Instances of HostHub for TLC.                                           *)
(***************************************************************************)
EXTENDS HostHub

=============================================================================
