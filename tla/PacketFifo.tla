----------------------------- MODULE PacketFifo -----------------------------
(***************************************************************************)
(* The byte FIFO behind a packet pipe: what enters the queue is what the   *)
(* sender put into the pipe, every transmission once.  The sender learns   *)
(* of an arrival by a handshake it may miss.  It then repeats the packet   *)
(* before it sends any other or gives it up; the receiver cannot tell the  *)
(* repetition from a new packet and queues the bytes again.  So the bytes  *)
(* of a packet leave once for each time it was sent: once when its         *)
(* handshake was heard, and more often only when it was not.               *)
(***************************************************************************)
EXTENDS ByteFifo

VARIABLES
  sent,      \* the packet last sent
  waiting,   \* it has arrived and is not queued yet
  unheard    \* the sender missed its handshake

pipe == <<sent, waiting, unheard>>
packetVars == <<vars, pipe>>

PacketInit == Init /\ sent = <<>> /\ waiting = FALSE /\ unheard = FALSE

(* A new packet, or the last one again; one at a time.                     *)
Transmit(c) ==
  /\ ~waiting /\ waiting' = TRUE
  /\ sent' = c /\ unheard' \in BOOLEAN
  /\ UNCHANGED <<q, last, epoch>>

SendNew == ~unheard /\ \E c \in Chunks : Transmit(c)
Repeat  == unheard /\ Transmit(sent)
GiveUp  == unheard' = FALSE /\ UNCHANGED <<q, last, epoch, sent, waiting>>

(* Exactly the packet that arrived, and only once, is queued.              *)
Take ==
  /\ waiting /\ waiting' = FALSE
  /\ Accept(sent)
  /\ UNCHANGED <<sent, unheard>>

Release ==
  /\ \/ \E n \in 1 .. Len(q) : Emit(n)
     \/ \E n \in 0 .. Len(q) : Reinit(n)
  /\ UNCHANGED pipe

PacketWork == SendNew \/ Repeat \/ GiveUp \/ Take \/ Release

(* A fault ends the promise until a re-initialisation repairs it.          *)
PacketNext ==
  \/ ~fault /\ ~fault' /\ PacketWork
  \/ fault'
  \/ fault /\ ~fault' /\ epoch' # epoch /\ q' = <<>> /\ UNCHANGED pipe

PacketSpec == PacketInit /\ [][PacketNext]_packetVars

=============================================================================
