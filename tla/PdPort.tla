------------------------------- MODULE PdPort -------------------------------
(***************************************************************************)
(* The USBPD port of one device, as the sink and the source program of     *)
(* EXAM/USBPD both use it.  The interrupt answers a received packet with a *)
(* GoodCRC and, when that has gone out, hands the packet to the main loop  *)
(* and switches itself off; PD_Send_Handle transmits a packet up to three  *)
(* times and polls for the partner's GoodCRC with the interrupt off.       *)
(***************************************************************************)
EXTENDS Integers

CONSTANT Tries      \* transmissions of PD_Send_Handle: 3

VARIABLES
  irq,        \* is the USBPD interrupt enabled?
  ie,         \* is the end of a transmission an interrupt (IE_TX_END)?
  acking,     \* is a GoodCRC of ours going out?
  Msg_Recvd,  \* a packet waits for the main loop
  PD_Rx_Buf,  \* the packet in the receive buffer
  tx,         \* the packet PD_Send_Handle transmits
  tries,      \* its remaining transmissions, this one included
  polling     \* it has been transmitted and its GoodCRC is awaited

portVars == <<irq, ie, acking, Msg_Recvd, PD_Rx_Buf, tx, tries, polling>>

(* Packets by kind.  A "QUERY" is any request that is answered at once and *)
(* changes nothing (GET_SNK_CAP, GET_STATUS, VCONN_SWAP, VDM ...).         *)
Packets == {"SRC_CAP", "REQUEST", "ACCEPT", "PS_RDY", "SOFT_RESET", "QUERY", "ANSWER"}

(* GoodCRC (a control message) and SRC_CAP (a data message) have the same  *)
(* type code; a GoodCRC carries no data object.                            *)
TypeCode(m)    == IF m = "GoodCRC" THEN "SRC_CAP" ELSE m
DataObjects(m) == IF m \in {"SRC_CAP", "REQUEST"} THEN 1 ELSE 0

PortInit ==
  /\ irq = 1 /\ ie = 0 /\ acking = 0 /\ Msg_Recvd = 0 /\ PD_Rx_Buf = "none"
  /\ tx = "none" /\ tries = 0 /\ polling = 0

Listening == irq = 1 /\ acking = 0 /\ tx = "none"

(* USBPD_IRQHandler, IF_RX_ACT: anything but a GoodCRC is answered.        *)
Receive(m) ==
  /\ Listening
  /\ PD_Rx_Buf' = m /\ ie' = 1 /\ acking' = 1
  /\ UNCHANGED <<irq, Msg_Recvd, tx, tries, polling>>

(* USBPD_IRQHandler, IF_TX_END: the GoodCRC is out.                        *)
AckSent ==
  /\ acking = 1 /\ acking' = 0
  /\ Msg_Recvd' = 1 /\ irq' = 0
  /\ UNCHANGED <<ie, PD_Rx_Buf, tx, tries, polling>>

(* A packet that is no GoodCRC arrives while one is awaited: the buffer is *)
(* overwritten, nobody answers.                                            *)
Overhear(m) ==
  /\ polling = 1
  /\ PD_Rx_Buf' = m
  /\ UNCHANGED <<irq, ie, acking, Msg_Recvd, tx, tries, polling>>

(* Reception starts anew; a GoodCRC going out is cut off.                  *)
PD_Rx_Mode == irq' = 1 /\ acking' = 0 /\ UNCHANGED ie

(* PD_Send_Handle: the interrupt is off from here on.                      *)
StartSend(m) ==
  /\ tx' = m /\ tries' = Tries /\ polling' = 0
  /\ irq' = 0 /\ acking' = 0
  /\ UNCHANGED <<ie, Msg_Recvd, PD_Rx_Buf>>

Transmit ==
  /\ tx # "none" /\ polling = 0
  /\ polling' = 1
  /\ UNCHANGED <<irq, ie, acking, Msg_Recvd, PD_Rx_Buf, tx, tries>>

(* 750 us without a GoodCRC: the next transmission, if one is left.        *)
RetriesForEver ==   \* mutant of Retry
  /\ polling = 1
  /\ tries' = tries - 1 /\ polling' = 0
  /\ UNCHANGED <<irq, ie, acking, Msg_Recvd, PD_Rx_Buf, tx>>

Retry ==
  /\ polling = 1 /\ tries > 1
  /\ tries' = tries - 1 /\ polling' = 0
  /\ UNCHANGED <<irq, ie, acking, Msg_Recvd, PD_Rx_Buf, tx>>

(* PD_Send_Handle returns: with a GoodCRC, or after the last transmission. *)
SendDone(ok) ==
  /\ polling = 1
  /\ \/ ok /\ PD_Rx_Buf' = "GoodCRC"
     \/ ~ok /\ tries = 1 /\ UNCHANGED PD_Rx_Buf
  /\ tx' = "none" /\ tries' = 0 /\ polling' = 0 /\ PD_Rx_Mode

(* A hard reset goes out with the interrupt still on, and PD_Phy_SendPack  *)
(* polls for its end.  If that is an interrupt too, the handler may run    *)
(* after the poll, and takes the reset for a GoodCRC ...                   *)
ResetSent ==
  /\ PD_Rx_Mode
  /\ UNCHANGED Msg_Recvd \/ (irq = 1 /\ ie = 1 /\ Msg_Recvd' = 1)
  /\ UNCHANGED <<PD_Rx_Buf, tx, tries, polling>>

(* ... or before it, and clears the flag that is polled.                   *)
ResetMissed ==
  /\ irq = 1 /\ ie = 1
  /\ Msg_Recvd' = 1 /\ irq' = 0 /\ acking' = 0
  /\ UNCHANGED <<ie, PD_Rx_Buf, tx, tries, polling>>

PortTypeOK ==
  /\ irq \in 0 .. 1 /\ ie \in 0 .. 1 /\ acking \in 0 .. 1 /\ Msg_Recvd \in 0 .. 1
  /\ PD_Rx_Buf \in Packets \cup {"none", "GoodCRC"}
  /\ tx \in Packets \cup {"none"} /\ tries \in 0 .. Tries /\ polling \in 0 .. 1

=============================================================================
