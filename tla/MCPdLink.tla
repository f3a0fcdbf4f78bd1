------------------------------ MODULE MCPdLink ------------------------------
(***************************************************************************)
(* Instances of PdLink for TLC.                                            *)
(***************************************************************************)
EXTENDS PdLink

(* What a program stuck in an endless loop does to the other after a loss  *)
(* is not followed further.  Every leads-to property of PdLink has reached *)
(* its end in the states cut off.                                          *)
Followed == ~ /\ SnkDead \/ SrcDead
              /\ SnkDead \/ snk_irq = 1
              /\ SrcDead \/ src_irq = 1
              /\ lost

=============================================================================
