--------------------------- MODULE MCCompositeKM ---------------------------
(***************************************************************************)
(* Instances of CompositeKM for TLC.                                       *)
(***************************************************************************)
EXTENDS CompositeKM

(* A report torn by a scan, and an endpoint that died, stay so: every      *)
(* property holds from then on.                                            *)
Followed == "torn" \notin damage /\ (Dead => pc = "kb")

=============================================================================
