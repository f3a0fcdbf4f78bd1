------------------------------ MODULE ByteFifo ------------------------------
(***************************************************************************)
(* What a serial bridge promises in one direction: bytes leave in the      *)
(* order in which they were accepted, none twice, none lost, none altered. *)
(* `q' holds the bytes accepted and not yet put out, `last' those put out  *)
(* last, and `epoch' alternates with every re-initialisation of the link,  *)
(* the only thing that may discard bytes.  A fault ends the promise; the   *)
(* re-initialisation that repairs it starts with nothing queued.           *)
(***************************************************************************)
EXTENDS Sequences, Naturals

CONSTANT Chunks    \* the byte sequences that can be accepted at once

VARIABLES q, last, epoch, fault

vars == <<q, last, epoch, fault>>

Init == q = <<>> /\ last = <<>> /\ epoch = 0 /\ fault = FALSE

Accept(c) ==
  /\ q' = q \o c
  /\ UNCHANGED <<last, epoch>>

Emit(n) ==
  /\ last' = SubSeq(q, 1, n)
  /\ q' = SubSeq(q, n + 1, Len(q))
  /\ UNCHANGED epoch

(* Bytes already on their way out may still be delivered.                  *)
Reinit(n) ==
  /\ q' = SubSeq(q, 1, n)
  /\ epoch' = 1 - epoch
  /\ UNCHANGED last

Work ==
  \/ \E c \in Chunks : Accept(c)
  \/ \E n \in 1 .. Len(q) : Emit(n)
  \/ \E n \in 0 .. Len(q) : Reinit(n)

Next ==
  \/ ~fault /\ ~fault' /\ Work
  \/ fault'
  \/ fault /\ ~fault' /\ epoch' # epoch /\ q' = <<>>

Spec == Init /\ [][Next]_vars

=============================================================================
