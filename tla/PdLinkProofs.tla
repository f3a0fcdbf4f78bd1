---------------------------- MODULE PdLinkProofs ----------------------------
(***************************************************************************)
(* Types of both ends of the PD link, that the sink reports success only   *)
(* when the source has granted its request, and that both ends agree on a  *)
(* contract when they are at rest.                                         *)
(***************************************************************************)
EXTENDS PdLink, TLAPS

LEMMA LinkNumbers ==
  /\ Tries \in Nat /\ Tries > 0 /\ DetMax \in Nat /\ DetMax > 0
  /\ SnkConnectMax \in Nat /\ ReplyMax \in Nat /\ SrcConnectMax \in Nat /\ CapMax \in Nat
  /\ RequestMax \in Nat /\ AcceptMax \in Nat /\ ReadyMax \in Nat /\ MaxPulls \in Nat
BY PdLinkAssumption, SMT


(* The control of each end: what is transmitted and when.                  *)
SnkControl ==
  /\ snk_tx # "none" <=> snk_pc \in {"sendState", "sendMsg"}
  /\ snk_polling = 1 => snk_tx # "none"
  /\ snk_acking = 1 => snk_tx = "none"
  /\ snk_pc = "sendState" => snk_PD_State = "TX_SOFTRST" /\ snk_tx = "SOFT_RESET"
  /\ snk_pc \in {"msg", "sendMsg"} => snk_Msg_Recvd = 1
  /\ snk_PD_State = "RX_PS_RDY" => snk_pc \in {"det", "state"}

(* The source sends PS_RDY in a pass that has seen time go by.             *)
SrcControl ==
  /\ src_tx # "none" <=> src_pc \in {"sendState", "sendMsg"}
  /\ src_polling = 1 => src_tx # "none"
  /\ src_pc = "sendState" => /\ src_PD_State \in DOMAIN Src!Sends
                             /\ src_tx = Src!Sends[src_PD_State]
  /\ src_pc = "sendMsg" => src_tx = "ACCEPT"
  /\ src_elapsed = 1 => /\ src_PD_State \notin {"TX_SOFTRST", "TX_HRST"}
                        /\ src_pc \in {"det", "state", "sendState"}
  /\ src_PD_State = "TX_PS_RDY" => /\ src_PD_Comm_Timer <= ReadyMax
                                   /\ src_pc = "sendState" => src_elapsed = 1

SnkInv == Snk!SinkTypeOK /\ SnkControl
SrcInv == Src!SourceTypeOK /\ SrcControl

(* What an end may do.                                                     *)
SnkStep ==
  \/ \E cc \in BOOLEAN : Snk!Detect(cc)
  \/ Snk!Step
  \/ \E m \in Snk!Packets : Snk!Hear(m)
  \/ Snk!Ack \/ Snk!Send \/ Snk!SendAgain \/ Snk!Sent(TRUE) \/ Snk!Sent(FALSE)
  \/ Snk!HardReset

(* Each of it keeps the end's types and control.                           *)
LEMMA SnkKeepsInv ==
  ASSUME SnkInv, SnkStep
  PROVE  SnkInv'
<1> USE LinkNumbers DEF SnkInv, SnkControl, Snk!SinkTypeOK, Snk!PortTypeOK,
         Snk!portVars, Snk!detVars, Snk!mainVars,
         Snk!States, Snk!Packets
<1>1. CASE \E cc \in BOOLEAN : Snk!Detect(cc)
  BY <1>1, SMT DEF Snk!Detect
<1>2. CASE Snk!Wait \/ Snk!ConnectTimeout \/ Snk!ReplyTimeout
  BY <1>2, SMT DEF Snk!Wait, Snk!ConnectTimeout, Snk!ReplyTimeout, Snk!StateDone
<1>3. CASE Snk!SoftReset
  BY <1>3, SMT DEF Snk!SoftReset, Snk!StartSend
<1>4. CASE Snk!SrcCap
  BY <1>4, SMT DEF Snk!SrcCap, Snk!StartSend, Snk!Message
<1>5. CASE Snk!Answer
  BY <1>5, SMT DEF Snk!Answer, Snk!StartSend, Snk!Reply, Snk!Message
<1>6. CASE Snk!Accept \/ Snk!PsRdy \/ Snk!Unsupported
  BY <1>6, SMT DEF Snk!Accept, Snk!PsRdy, Snk!Unsupported, Snk!MsgDone, Snk!PD_Rx_Mode,
     Snk!Message
<1>7. CASE \E m \in Snk!Packets : Snk!Hear(m)
  BY <1>7, SMT DEF Snk!Hear, Snk!Receive, Snk!Listening, Snk!Overhear
<1>8. CASE Snk!Ack \/ Snk!Send \/ Snk!SendAgain
  BY <1>8, SMT DEF Snk!Ack, Snk!AckSent, Snk!Send, Snk!Transmit, Snk!SendAgain,
     Snk!Retry
<1>9. CASE Snk!SoftResetSent(TRUE) \/ Snk!SoftResetSent(FALSE)
  BY <1>9, SMT DEF Snk!SoftResetSent, Snk!SendDone, Snk!PD_Rx_Mode, Snk!StateDone
<1>10. CASE Snk!MsgSent(TRUE) \/ Snk!MsgSent(FALSE)
  BY <1>10, SMT DEF Snk!MsgSent, Snk!SendDone, Snk!PD_Rx_Mode, Snk!MsgDone
<1>11. CASE Snk!HardReset
  BY <1>11, SMT DEF Snk!HardReset, Snk!ResetSent, Snk!ResetMissed, Snk!PD_Rx_Mode,
     Snk!StateDone
<1> HIDE DEF SnkInv
<1> QED
  BY <1>1, <1>2, <1>3, <1>4, <1>5, <1>6, <1>7, <1>8, <1>9, <1>10, <1>11 DEF SnkStep,
     Snk!Step, Snk!Sent

(* What an end may do.                                                     *)
SrcStep ==
  \/ \E cc \in BOOLEAN : Src!Detect(cc)
  \/ Src!Step \/ Src!Request \/ Src!Disconnect \/ Src!ResetReceived
  \/ \E m \in Src!Packets : Src!Hear(m)
  \/ Src!Ack \/ Src!Send \/ Src!SendAgain \/ Src!Sent(TRUE) \/ Src!Sent(FALSE)
  \/ Src!HardReset

(* Each of it keeps the end's types and control.                           *)
LEMMA SrcKeepsInv ==
  ASSUME SrcInv, SrcStep
  PROVE  SrcInv'
<1> USE LinkNumbers DEF SrcInv, SrcControl, Src!SourceTypeOK, Src!PortTypeOK,
         Src!portVars, Src!detVars, Src!mainVars,
         Src!States, Src!Packets
<1>1. CASE \E cc \in BOOLEAN : Src!Detect(cc)
  BY <1>1, SMT DEF Src!Detect
<1>2. CASE Src!Wait \/ Src!Offer \/ Src!RequestTimeout
  BY <1>2, SMT DEF Src!Wait, Src!Offer, Src!RequestTimeout, Src!StateDone, Src!Due,
     Src!Timed, Src!Limit
<1>3. CASE Src!Disconnect
  BY <1>3, SMT DEF Src!Disconnect, Src!PD_Rx_Mode, Src!StateDone
<1>4. CASE Src!SendNow
  BY <1>4, SMT DEF Src!SendNow, Src!StartSend, Src!Sends, Src!Due, Src!Timed, Src!Limit
<1>5. CASE Src!SoftReset
  BY <1>5, SMT DEF Src!SoftReset, Src!StartSend, Src!Message
<1>6. CASE Src!Request \/ Src!Accepted \/ Src!Unsupported
  BY <1>6, SMT DEF Src!Request, Src!Accepted, Src!Unsupported, Src!MsgDone,
     Src!PD_Rx_Mode,
     Src!Message
<1>7. CASE \E m \in Src!Packets : Src!Hear(m)
  BY <1>7, SMT DEF Src!Hear, Src!Receive, Src!Listening, Src!Overhear
<1>8. CASE Src!Ack \/ Src!Send \/ Src!SendAgain
  BY <1>8, SMT DEF Src!Ack, Src!AckSent, Src!Send, Src!Transmit, Src!SendAgain,
     Src!Retry
<1>9. CASE Src!StateSent(TRUE) \/ Src!StateSent(FALSE)
  BY <1>9, SMT DEF Src!StateSent, Src!SendDone, Src!PD_Rx_Mode, Src!StateDone,
     Src!AfterOk, Src!AfterFailure, Src!Sends
<1>10. CASE Src!MsgSent(TRUE) \/ Src!MsgSent(FALSE)
  BY <1>10, SMT DEF Src!MsgSent, Src!SendDone, Src!PD_Rx_Mode, Src!MsgDone
<1>11. CASE Src!HardReset
  BY <1>11, SMT DEF Src!HardReset, Src!ResetSent, Src!ResetMissed, Src!PD_Rx_Mode,
     Src!StateDone
<1>12. CASE Src!ResetReceived
  BY <1>12, SMT DEF Src!ResetReceived
<1> HIDE DEF SrcInv
<1> QED
  BY <1>1, <1>2, <1>3, <1>4, <1>5, <1>6, <1>7, <1>8, <1>9, <1>10, <1>11,
     <1>12 DEF SrcStep, Src!Step, Src!Sent

-----------------------------------------------------------------------------
(* The link.                                                               *)

LinkInv == LinkTypeOK /\ SnkControl /\ SrcControl

LEMMA EndsStep ==
  ASSUME LinkInv, Next
  PROVE  /\ SnkStep \/ UNCHANGED snkVars \/ Tick
         /\ SrcStep \/ UNCHANGED srcVars \/ Tick
<1> USE DEF SnkStep, SrcStep
<1>1. plugged \in BOOLEAN /\ (plugged /\ src_role = "SRC") \in BOOLEAN
  BY DEF LinkInv, LinkTypeOK
<1>2. CASE Plug \/ Pull \/ Tick BY <1>2 DEF Plug, Pull
<1>3. CASE Tester
  <2>1. {"QUERY", "ANSWER"} \subseteq Snk!Packets BY DEF Snk!Packets
  <2> QED BY <1>3, <2>1 DEF Tester
<1>4. CASE SnkPass BY <1>1, <1>4 DEF SnkPass
<1>5. CASE SrcPass BY <1>1, <1>5 DEF SrcPass
<1>6. CASE SnkTransmit
  <2>1. snk_tx \in Src!Packets
    BY <1>6, SMT DEF SnkTransmit, Snk!Send, Snk!Transmit, LinkInv, LinkTypeOK,
     Snk!SinkTypeOK,
       Snk!PortTypeOK, Snk!Packets, Src!Packets
  <2> QED BY <1>6, <2>1 DEF SnkTransmit
<1>7. CASE SrcTransmit
  <2>1. src_tx \in Snk!Packets
    BY <1>7, SMT DEF SrcTransmit, Src!Send, Src!Transmit, LinkInv, LinkTypeOK,
     Src!SourceTypeOK,
       Src!PortTypeOK, Snk!Packets, Src!Packets
  <2> QED BY <1>7, <2>1 DEF SrcTransmit
<1>8. CASE SnkTimeout \/ SrcTimeout BY <1>8 DEF SnkTimeout, SrcTimeout
<1>9. CASE SnkAck \/ SrcAck BY <1>9 DEF SnkAck, SrcAck
<1>10. CASE SnkHardReset \/ SrcHardReset BY <1>10 DEF SnkHardReset, SrcHardReset
<1> QED
  BY <1>2, <1>3, <1>4, <1>5, <1>6, <1>7, <1>8, <1>9, <1>10 DEF Next, SnkMain, SrcMain

LEMMA CableStep ==
  ASSUME LinkInv, Next
  PROVE  /\ plugged' \in BOOLEAN /\ pulls' \in 0 .. MaxPulls
         /\ lost' \in BOOLEAN /\ contract' \in {"none", "asked", "granted", "ready"}
<1> USE DEF Next, SnkMain, SrcMain, Plug, Pull, Tick, Tester, SnkPass, SrcPass,
         SnkTransmit,
         SrcTransmit, SnkTimeout, SrcTimeout, SnkAck, SrcAck, SnkHardReset,
         SrcHardReset, history
<1>1. /\ plugged \in BOOLEAN /\ pulls \in 0 .. MaxPulls
      /\ lost \in BOOLEAN /\ contract \in {"none", "asked", "granted", "ready"}
  BY DEF LinkInv, LinkTypeOK
<1>2. plugged' \in BOOLEAN BY <1>1, Zenon
<1>3. \/ pulls' = pulls
      \/ pulls < MaxPulls /\ pulls' = pulls + 1
  BY Zenon
<1>4. pulls' \in 0 .. MaxPulls BY <1>1, <1>3, LinkNumbers, SMT
<1>5. lost' \in BOOLEAN BY <1>1, Zenon
<1>6. contract' \in {"none", "asked", "granted", "ready"} BY <1>1, Zenon
<1> QED BY <1>2, <1>4, <1>5, <1>6

LEMMA LinkKeepsInv ==
  ASSUME LinkInv, [Next]_vars
  PROVE  LinkInv'
<1>0. SnkInv /\ SrcInv BY DEF LinkInv, LinkTypeOK, SnkInv, SrcInv
<1>1. CASE UNCHANGED vars
  BY <1>1, SMT DEF vars, snkVars, srcVars, history, LinkInv, LinkTypeOK, SnkControl,
     SrcControl,
     Snk!SinkTypeOK, Snk!PortTypeOK, Src!SourceTypeOK, Src!PortTypeOK
<1>2. CASE Next
  <2>1. ASSUME UNCHANGED snkVars PROVE SnkInv'
    BY <1>0, <2>1, SMT DEF snkVars, SnkInv, SnkControl, Snk!SinkTypeOK, Snk!PortTypeOK
  <2>2. ASSUME UNCHANGED srcVars PROVE SrcInv'
    BY <1>0, <2>2, SMT DEF srcVars, SrcInv, SrcControl, Src!SourceTypeOK, Src!PortTypeOK
  <2>3. ASSUME Tick PROVE SnkInv'
    BY <1>0, <2>3, SMT DEF Tick, snkPort, SnkInv, SnkControl, Snk!SinkTypeOK,
     Snk!PortTypeOK
  <2>4. ASSUME Tick PROVE SrcInv'
    BY <1>0, <2>4, SMT DEF Tick, AtRest, SrcDead, Src!HasWork, srcPort, SrcInv,
     SrcControl,
       Src!SourceTypeOK, Src!PortTypeOK
  <2>5. SnkInv' /\ SrcInv'
    BY <1>0, <1>2, <2>1, <2>2, <2>3, <2>4, EndsStep, SnkKeepsInv, SrcKeepsInv
  <2>6. /\ plugged' \in BOOLEAN /\ pulls' \in 0 .. MaxPulls
        /\ lost' \in BOOLEAN /\ contract' \in {"none", "asked", "granted", "ready"}
    BY <1>2, CableStep
  <2> QED BY <2>5, <2>6 DEF LinkInv, LinkTypeOK, SnkInv, SrcInv
<1> QED BY <1>1, <1>2

-----------------------------------------------------------------------------
(* Success is granted.                                                     *)

(* The source waits while the sink acknowledges what it sent.              *)
OnTheWire == plugged /\ snk_acking = 1 => src_polling = 1 /\ snk_PD_Rx_Buf = src_tx

(* The sink has taken a PS_RDY or may still do so.  One that it overheard  *)
(* stays in the buffer, and becomes a message with the next hard reset.    *)
ReadyAhead ==
  \/ snk_PD_State = "RX_PS_RDY"
  \/ /\ ~SnkDead /\ snk_PD_Rx_Buf = "PS_RDY"
     /\ \/ snk_acking = 1 \/ snk_Msg_Recvd = 1
        \/ snk_PD_State \notin {"IDLE", "SRC_CONNECT"}

Waiting == {"RX_ACCEPT_WAIT", "RX_PS_RDY_WAIT"}

(* A sink that waits handles a PS_RDY at once: none is left when both ends *)
(* are at rest, and none comes from the past after a tick of the clock.    *)
NoneKept ==
  /\ snk_PD_Rx_Buf = "PS_RDY" /\ snk_PD_State \in Waiting /\ ~SnkDead
     => snk_pc # "sendMsg" /\ (snk_acking = 1 \/ snk_Msg_Recvd = 1)
  /\ src_elapsed = 1 /\ ~SnkDead /\ snk_PD_State \in Waiting
     /\ (snk_acking = 1 \/ snk_Msg_Recvd = 1)
     => snk_PD_Rx_Buf \notin {"QUERY", "SOFT_RESET"}
  /\ src_elapsed = 1 /\ snk_pc = "sendMsg" /\ snk_tx # "REQUEST" => snk_PD_State \notin Waiting
  /\ src_elapsed = 1 /\ src_pc \in {"det", "state"} => ~ReadyAhead

(* A source that has yet to be asked, or is unplugged, finds no PS_RDY of  *)
(* the last contract under way.                                            *)
NotBefore ==
  src_PD_State \in {"DISCONNECT", "SINK_CONNECT", "TX_SRC_CAP", "RX_REQ_WAIT"} => ~ReadyAhead

(* From the acknowledged ACCEPT until the sink has taken the PS_RDY the    *)
(* contract stands, and nobody can ask for another one.                    *)
Granted ==
  /\ src_PD_State = "TX_PS_RDY" => contract = "granted"
  /\ ReadyAhead \/ src_PD_State = "TX_PS_RDY" =>
       /\ contract \in {"granted", "ready"}
       /\ snk_PD_Rx_Buf # "SRC_CAP" /\ snk_tx # "REQUEST" /\ src_PD_Rx_Buf # "REQUEST"

GrantInv == OnTheWire /\ NoneKept /\ NotBefore /\ Granted

LEMMA CableGrants ==
  ASSUME LinkInv, GrantInv, Plug \/ Pull \/ Tick \/ Tester
  PROVE  GrantInv'
<1> USE DEF LinkInv, LinkTypeOK, GrantInv, OnTheWire, ReadyAhead, NoneKept,
         NotBefore, Granted,
         Waiting, SnkDead, SrcDead, AtRest, SnkControl, SrcControl, Snk!SinkTypeOK,
         Src!SourceTypeOK,
         Snk!PortTypeOK, Src!PortTypeOK, snkVars, srcVars, snkPort, srcPort, history
<1>1. CASE Plug BY <1>1, SMT DEF Plug
<1>2. CASE Pull BY <1>2, SMT DEF Pull
<1>3. CASE Tick BY <1>3, SMT DEF Tick, Snk!HasWork, Src!HasWork, Snk!States
<1>4. CASE Tester BY <1>4, SMT DEF Tester, Snk!Hear, Snk!Receive, Snk!Overhear,
     Snk!mainVars, Snk!detVars, Snk!Listening, Snk!HasWork, Src!HasWork
<1> QED BY <1>1, <1>2, <1>3, <1>4

LEMMA SnkPassGrants ==
  ASSUME LinkInv, GrantInv, SnkPass
  PROVE  GrantInv'
<1> USE DEF LinkInv, LinkTypeOK, GrantInv, OnTheWire, ReadyAhead, NoneKept,
         NotBefore, Granted,
         Waiting, SnkDead, SrcDead, AtRest, SnkControl, SrcControl, Snk!SinkTypeOK,
         Src!SourceTypeOK,
         Snk!PortTypeOK, Src!PortTypeOK, snkVars, srcVars, snkPort, srcPort, history,
         Snk!mainVars, Snk!detVars, Snk!portVars, Snk!Message, Snk!TypeCode,
         Snk!States, Snk!Packets
<1>0. UNCHANGED <<srcVars, plugged, pulls, history>> BY DEF SnkPass
<1>1. CASE \E cc \in BOOLEAN : Snk!Detect(cc) BY <1>0, <1>1, SMT DEF Snk!Detect
<1>2. CASE Snk!Wait BY <1>0, <1>2, SMT DEF Snk!Wait, Snk!StateDone
<1>3. CASE Snk!ConnectTimeout BY <1>0, <1>3, SMT DEF Snk!ConnectTimeout, Snk!StateDone
<1>4. CASE Snk!ReplyTimeout BY <1>0, <1>4, SMT DEF Snk!ReplyTimeout, Snk!StateDone
<1>5. CASE Snk!SoftReset BY <1>0, <1>5, SMT DEF Snk!SoftReset, Snk!StartSend
<1>6. CASE Snk!SrcCap BY <1>0, <1>6, SMT DEF Snk!SrcCap, Snk!StartSend, Snk!DataObjects
<1>7. CASE Snk!Answer BY <1>0, <1>7, SMT DEF Snk!Answer, Snk!StartSend, Snk!Reply
<1>8. CASE Snk!Accept BY <1>0, <1>8, SMT DEF Snk!Accept, Snk!MsgDone, Snk!PD_Rx_Mode
<1>9. CASE Snk!PsRdy BY <1>0, <1>9, SMT DEF Snk!PsRdy, Snk!MsgDone, Snk!PD_Rx_Mode
<1>10. CASE Snk!Unsupported BY <1>0, <1>10, SMT DEF Snk!Unsupported, Snk!MsgDone,
     Snk!PD_Rx_Mode, Snk!Reply
<1> HIDE DEF GrantInv
<1> QED BY <1>1, <1>2, <1>3, <1>4, <1>5, <1>6, <1>7, <1>8, <1>9, <1>10 DEF SnkPass,
     Snk!Step

LEMMA SrcPassGrants ==
  ASSUME LinkInv, GrantInv, SrcPass
  PROVE  GrantInv'
<1> USE DEF LinkInv, LinkTypeOK, GrantInv, OnTheWire, ReadyAhead, NoneKept,
         NotBefore, Granted,
         Waiting, SnkDead, SrcDead, AtRest, SnkControl, SrcControl, Snk!SinkTypeOK,
         Src!SourceTypeOK,
         Snk!PortTypeOK, Src!PortTypeOK, snkVars, srcVars, snkPort, srcPort, history,
         Src!mainVars, Src!detVars, Src!portVars, Src!Message, Src!TypeCode,
         Src!States, Src!Packets
<1>0. UNCHANGED <<snkVars, plugged, pulls, lost>> BY DEF SrcPass
<1>1. CASE UNCHANGED contract /\ \E cc \in BOOLEAN : Src!Detect(cc) BY <1>0, <1>1,
     SMT DEF Src!Detect
<1>2. CASE UNCHANGED contract /\ Src!Wait BY <1>0, <1>2, SMT DEF Src!Wait, Src!StateDone
<1>3. CASE UNCHANGED contract /\ Src!Offer BY <1>0, <1>3, SMT DEF Src!Offer,
     Src!StateDone
<1>4. CASE UNCHANGED contract /\ Src!RequestTimeout BY <1>0, <1>4,
     SMT DEF Src!RequestTimeout, Src!StateDone
<1>5. CASE UNCHANGED contract /\ Src!SendNow BY <1>0, <1>5, SMT DEF Src!SendNow,
     Src!StartSend, Src!Sends
<1>6. CASE UNCHANGED contract /\ Src!SoftReset BY <1>0, <1>6, SMT DEF Src!SoftReset,
     Src!StartSend
<1>7. CASE UNCHANGED contract /\ Src!Accepted BY <1>0, <1>7, SMT DEF Src!Accepted,
     Src!MsgDone, Src!PD_Rx_Mode
<1>8. CASE UNCHANGED contract /\ Src!Unsupported BY <1>0, <1>8,
     SMT DEF Src!Unsupported, Src!MsgDone, Src!PD_Rx_Mode
<1>9. CASE Src!Request /\ contract' = "asked" BY <1>0, <1>9, SMT DEF Src!Request, Src!MsgDone, Src!PD_Rx_Mode
<1>10. CASE Src!Disconnect /\ contract' = "none" BY <1>0, <1>10, SMT DEF Src!Disconnect, Src!PD_Rx_Mode, Src!StateDone
<1>11. plugged \in BOOLEAN OBVIOUS
<1> HIDE DEF GrantInv
<1> QED BY <1>1, <1>2, <1>3, <1>4, <1>5, <1>6, <1>7, <1>8, <1>9, <1>10,
     <1>11 DEF SrcPass, Src!Step

LEMMA TransmitGrants ==
  ASSUME LinkInv, GrantInv, SnkTransmit \/ SrcTransmit
  PROVE  GrantInv'
<1> USE DEF LinkInv, LinkTypeOK, GrantInv, OnTheWire, ReadyAhead, NoneKept,
         NotBefore, Granted,
         Waiting, SnkDead, SrcDead, AtRest, SnkControl, SrcControl, Snk!SinkTypeOK,
         Src!SourceTypeOK,
         Snk!PortTypeOK, Src!PortTypeOK, snkVars, srcVars, snkPort, srcPort, history,
         Snk!mainVars, Snk!detVars, Src!mainVars, Src!detVars, Src!Sends
<1>1. CASE SnkTransmit
  BY <1>1, SMT DEF SnkTransmit, Snk!Send, Snk!Transmit, Src!Hear, Src!Receive,
     Src!Overhear
<1>2. CASE SrcTransmit
  BY <1>2, SMT DEF SrcTransmit, Src!Send, Src!Transmit, Snk!Hear, Snk!Receive,
     Snk!Overhear, Snk!Listening
<1> QED BY <1>1, <1>2

LEMMA AckGrants ==
  ASSUME LinkInv, GrantInv, SnkAck \/ SrcAck
  PROVE  GrantInv'
<1> USE DEF LinkInv, LinkTypeOK, GrantInv, OnTheWire, ReadyAhead, NoneKept,
         NotBefore, Granted,
         Waiting, SnkDead, SrcDead, AtRest, SnkControl, SrcControl, Snk!SinkTypeOK,
         Src!SourceTypeOK,
         Snk!PortTypeOK, Src!PortTypeOK, snkVars, srcVars, snkPort, srcPort, history,
         Snk!mainVars, Snk!detVars, Src!mainVars, Src!detVars
<1>1. CASE SnkAck
  BY <1>1, SMT DEF SnkAck, Snk!Ack, Snk!AckSent, Src!Sent, Src!StateSent,
     Src!MsgSent, Src!SendDone,
     Src!PD_Rx_Mode, Src!MsgDone, Src!StateDone, Src!AfterOk, Src!Sends
<1>2. CASE SrcAck
  BY <1>2, SMT DEF SrcAck, Src!Ack, Src!AckSent, Snk!Sent, Snk!SoftResetSent,
     Snk!MsgSent, Snk!SendDone,
     Snk!PD_Rx_Mode, Snk!MsgDone, Snk!StateDone
<1> QED BY <1>1, <1>2

LEMMA TimeoutGrants ==
  ASSUME LinkInv, GrantInv, SnkTimeout \/ SrcTimeout
  PROVE  GrantInv'
<1> USE DEF LinkInv, LinkTypeOK, GrantInv, OnTheWire, ReadyAhead, NoneKept,
         NotBefore, Granted,
         Waiting, SnkDead, SrcDead, AtRest, SnkControl, SrcControl, Snk!SinkTypeOK,
         Src!SourceTypeOK,
         Snk!PortTypeOK, Src!PortTypeOK, snkVars, srcVars, snkPort, srcPort, history,
         Snk!mainVars, Snk!detVars, Src!mainVars, Src!detVars
<1>1. CASE SnkTimeout
  BY <1>1, SMT DEF SnkTimeout, Snk!SendAgain, Snk!Retry, Snk!Sent, Snk!SoftResetSent,
     Snk!MsgSent, Snk!SendDone,
     Snk!PD_Rx_Mode, Snk!MsgDone, Snk!StateDone
<1>2. CASE SrcTimeout
  BY <1>2, SMT DEF SrcTimeout, Src!SendAgain, Src!Retry, Src!Sent, Src!StateSent,
     Src!MsgSent, Src!SendDone,
     Src!PD_Rx_Mode, Src!MsgDone, Src!StateDone, Src!AfterFailure, Src!Sends
<1> QED BY <1>1, <1>2

LEMMA ResetGrants ==
  ASSUME LinkInv, GrantInv, SnkHardReset \/ SrcHardReset
  PROVE  GrantInv'
<1> USE DEF LinkInv, LinkTypeOK, GrantInv, OnTheWire, ReadyAhead, NoneKept,
         NotBefore, Granted,
         Waiting, SnkDead, SrcDead, AtRest, SnkControl, SrcControl, Snk!SinkTypeOK,
         Src!SourceTypeOK,
         Snk!PortTypeOK, Src!PortTypeOK, snkVars, srcVars, snkPort, srcPort, history,
         Snk!mainVars, Snk!detVars, Src!mainVars, Src!detVars, Snk!portVars,
         Src!portVars
<1>1. CASE SnkHardReset
  BY <1>1, SMT DEF SnkHardReset, Snk!HardReset, Snk!ResetSent, Snk!ResetMissed,
     Snk!PD_Rx_Mode, Snk!StateDone,
     Src!ResetReceived
<1>2. CASE SrcHardReset
  BY <1>2, SMT DEF SrcHardReset, Src!HardReset, Src!ResetSent, Src!ResetMissed,
     Src!PD_Rx_Mode, Src!StateDone
<1> QED BY <1>1, <1>2

LEMMA LinkKeepsGrant ==
  ASSUME LinkInv, GrantInv, [Next]_vars
  PROVE  GrantInv'
<1>1. CASE UNCHANGED vars
  BY <1>1, SMT DEF vars, snkVars, srcVars, history, GrantInv, OnTheWire, ReadyAhead,
     NoneKept,
     NotBefore, Granted, SnkDead
<1>2. CASE Next
  BY <1>2, CableGrants, SnkPassGrants, SrcPassGrants, TransmitGrants, AckGrants, TimeoutGrants,
     ResetGrants DEF Next, SnkMain, SrcMain
<1> QED BY <1>1, <1>2

LEMMA LinkStarts == Init => LinkInv /\ GrantInv
<1> SUFFICES ASSUME Init PROVE LinkInv /\ GrantInv OBVIOUS
<1> USE DEF Init, Snk!Init, Src!Init, Snk!PortInit, Src!PortInit
<1>1. Snk!SinkTypeOK
  BY LinkNumbers, SMT DEF Snk!SinkTypeOK, Snk!PortTypeOK, Snk!States
<1>2. Src!SourceTypeOK
  BY LinkNumbers, SMT DEF Src!SourceTypeOK, Src!PortTypeOK, Src!States
<1>3. plugged \in BOOLEAN /\ lost \in BOOLEAN /\ contract \in {"none", "asked", "granted", "ready"}
  BY Zenon
<1>4. pulls \in 0 .. MaxPulls BY LinkNumbers, SMT
<1>5. SnkControl BY SMT DEF SnkControl
<1>6. SrcControl BY SMT DEF SrcControl
<1>7. GrantInv
  BY SMT DEF GrantInv, OnTheWire, ReadyAhead, NoneKept, NotBefore, Granted, Waiting,
     SnkDead
<1> QED BY <1>1, <1>2, <1>3, <1>4, <1>5, <1>6, <1>7 DEF LinkInv, LinkTypeOK

(* Both programs keep the types of their state through every loss,         *)
(* retransmission, hard reset and pull of the cable: the counters of       *)
(* PD_Det_Proc stay below their limits, every PD_State written is one of   *)
(* the states PD_Main_Proc handles, and tries stays in PD_Send_Handle's    *)
(* bound, for every bound and every timeout.                               *)
THEOREM LinkTypeCorrect == Spec => []LinkTypeOK
<1>1. LinkInv /\ [Next]_vars => LinkInv' BY LinkKeepsInv
<1>2. LinkInv => LinkTypeOK BY DEF LinkInv
<1> QED BY <1>1, <1>2, LinkStarts, PTL DEF Spec

(* PD_Main_Proc of the sink (PD_Process.c:760) reaches STA_RX_PS_RDY, and  *)
(* reports success, only while the source has accepted its request,        *)
(* whatever is lost, overheard or sent again and whenever the cable is     *)
(* pulled.                                                                 *)
THEOREM SuccessAlwaysGranted == Spec => []SuccessIsGranted
<1>1. LinkInv /\ GrantInv /\ [Next]_vars => (LinkInv /\ GrantInv)'
  BY LinkKeepsInv, LinkKeepsGrant
<1>2. GrantInv => SuccessIsGranted
  BY DEF GrantInv, Granted, ReadyAhead, SuccessIsGranted
<1> QED BY <1>1, <1>2, LinkStarts, PTL DEF Spec

-----------------------------------------------------------------------------
(* Both ends agree.                                                        *)

SnkPending == snk_acking = 1 \/ snk_Msg_Recvd = 1
SrcPending == src_acking = 1 \/ src_Msg_Recvd = 1

(* Where a GoodCRC may stand for a message, where the endless loops leave  *)
(* the sink, and what a source in Stop_Det_Chk does not do.                *)
EndsTidy ==
  /\ snk_pc \in {"msg", "sendMsg"} => snk_elapsed = 0
  /\ snk_acking = 1 => snk_PD_Rx_Buf # "GoodCRC"
  /\ snk_Msg_Recvd = 1 /\ snk_PD_Rx_Buf = "GoodCRC" =>
       /\ snk_pc \in {"msg", "hung", "stuck"}
       /\ snk_pc = "msg" => snk_PD_State = "IDLE"
  /\ snk_pc = "hung" => snk_PD_State = "IDLE"
  /\ snk_pc = "stuck" => snk_irq = 0 /\ snk_acking = 0
  /\ src_acking = 1 => src_tx = "none"
  /\ src_PD_State = "DISCONNECT" => src_pc = "state" /\ src_Connected = 0
  /\ src_pc = "stuck" => src_PD_State = "TX_HRST"
  /\ src_PD_State = "TX_SRC_CAP" => /\ src_PD_Comm_Timer <= CapMax
                                    /\ src_pc = "sendState" => src_elapsed = 1
  /\ src_Stop_Det_Chk = 1 =>
       src_PD_State \notin {"DISCONNECT", "SINK_CONNECT", "TX_SRC_CAP", "RX_REQ_WAIT"}

(* The source may yet be asked for a contract: a REQUEST is under way, or  *)
(* the SRC_CAP that leads to one.                                          *)
RequestAhead ==
  \/ snk_tx = "REQUEST"
  \/ /\ ~SnkDead /\ snk_PD_Rx_Buf = "SRC_CAP"
     /\ SnkPending \/ snk_PD_State \notin {"IDLE", "SRC_CONNECT"}
  \/ SrcPending /\ src_PD_Rx_Buf = "REQUEST"

(* None outlives the clock's tick, as in NoneKept.                         *)
NoOfferKept ==
  /\ snk_PD_Rx_Buf = "SRC_CAP" /\ snk_PD_State \in Waiting /\ ~SnkDead
     => snk_tx = "REQUEST" \/ (snk_tx = "none" /\ SnkPending)
  /\ src_elapsed = 1 /\ src_pc \in {"det", "state"} => ~RequestAhead

(* A source that finds no sink, and may look for one, has no contract.     *)
Unplugged ==
  src_Connected = 0 /\ src_Stop_Det_Chk = 0 =>
    /\ src_PD_State \in {"IDLE", "DISCONNECT"} /\ ~RequestAhead
    /\ src_PD_State = "IDLE" => contract = "none"

TidyInv == EndsTidy /\ NoOfferKept /\ Unplugged

(* Each action keeps it.                                                   *)
LEMMA TidyCable ==
  ASSUME LinkInv, GrantInv, TidyInv, Plug \/ Pull \/ Tick \/ Tester
  PROVE  TidyInv'
<1> USE DEF LinkInv, LinkTypeOK, SnkControl, SrcControl, Snk!SinkTypeOK,
         Src!SourceTypeOK, Snk!PortTypeOK, Src!PortTypeOK, snkVars, srcVars, snkPort,
         srcPort, history, Snk!mainVars, Snk!detVars, Src!mainVars, Src!detVars,
         Snk!portVars, Src!portVars, SnkDead, SrcDead, AtRest, SnkPending, SrcPending,
         Waiting, GrantInv, OnTheWire, NoneKept, Granted,
         TidyInv, EndsTidy, NoOfferKept, Unplugged, RequestAhead
<1>1. CASE Plug
  BY LinkNumbers, <1>1, SMT DEF Plug
<1>2. CASE Pull
  BY LinkNumbers, <1>2, SMT DEF Pull
<1>3. CASE Tick
  <2>1. EndsTidy' BY LinkNumbers, <1>3, SMT DEF Tick, Snk!HasWork, Src!HasWork, Snk!States
  <2>2. NoOfferKept' BY LinkNumbers, <1>3, SMT DEF Tick, Snk!HasWork, Src!HasWork,
     Snk!States
  <2>3. Unplugged' BY LinkNumbers, <1>3, SMT DEF Tick, Snk!HasWork, Src!HasWork, Snk!States
  <2> HIDE DEF EndsTidy, NoOfferKept, Unplugged
  <2> QED BY <2>1, <2>2, <2>3
<1>4. CASE Tester
  BY LinkNumbers, <1>4, SMT DEF Tester, Snk!Hear, Snk!Receive, Snk!Overhear,
     Snk!Listening, Snk!HasWork, Src!HasWork
<1> QED BY <1>1, <1>2, <1>3, <1>4

LEMMA TidySnkPass ==
  ASSUME LinkInv, GrantInv, TidyInv, SnkPass
  PROVE  TidyInv'
<1> USE DEF LinkInv, LinkTypeOK, SnkControl, SrcControl, Snk!SinkTypeOK,
         Src!SourceTypeOK, Snk!PortTypeOK, Src!PortTypeOK, snkVars, srcVars, snkPort,
         srcPort, history, Snk!mainVars, Snk!detVars, Src!mainVars, Src!detVars,
         Snk!portVars, Src!portVars, SnkDead, SrcDead, AtRest, SnkPending, SrcPending,
         Waiting, GrantInv, OnTheWire, NoneKept, Granted,
         TidyInv, EndsTidy, NoOfferKept, Unplugged, RequestAhead
<1>0. UNCHANGED <<srcVars, plugged, pulls, history>> BY DEF SnkPass
<1>1. CASE \E cc \in BOOLEAN : Snk!Detect(cc)
  BY <1>0, LinkNumbers, <1>1, SMT DEF Snk!Detect
<1>2. CASE Snk!Wait
  BY <1>0, LinkNumbers, <1>2, SMT DEF Snk!Wait, Snk!StateDone, Snk!Timed, Snk!Limit
<1>3. CASE Snk!ConnectTimeout
  BY <1>0, LinkNumbers, <1>3, SMT DEF Snk!ConnectTimeout, Snk!StateDone
<1>4. CASE Snk!ReplyTimeout
  BY <1>0, LinkNumbers, <1>4, SMT DEF Snk!ReplyTimeout, Snk!StateDone, Snk!Limit
<1>5. CASE Snk!SoftReset
  BY <1>0, LinkNumbers, <1>5, SMT DEF Snk!SoftReset, Snk!StartSend
<1>6. CASE Snk!SrcCap
  BY <1>0, LinkNumbers, <1>6, SMT DEF Snk!SrcCap, Snk!StartSend, Snk!DataObjects,
     Snk!Message, Snk!TypeCode
<1>7. CASE Snk!Answer
  BY <1>0, LinkNumbers, <1>7, SMT DEF Snk!Answer, Snk!StartSend, Snk!Reply, Snk!Message,
     Snk!TypeCode
<1>8. CASE Snk!Accept
  BY <1>0, LinkNumbers, <1>8, SMT DEF Snk!Accept, Snk!MsgDone, Snk!PD_Rx_Mode,
     Snk!Message, Snk!TypeCode
<1>9. CASE Snk!PsRdy
  BY <1>0, LinkNumbers, <1>9, SMT DEF Snk!PsRdy, Snk!MsgDone, Snk!PD_Rx_Mode, Snk!Message,
     Snk!TypeCode
<1>10. CASE Snk!Unsupported
  BY <1>0, LinkNumbers, <1>10, SMT DEF Snk!Unsupported, Snk!MsgDone, Snk!PD_Rx_Mode,
     Snk!Reply, Snk!TypeCode
<1>11. (plugged /\ src_role = "SRC") \in BOOLEAN OBVIOUS
<1> HIDE DEF TidyInv, RequestAhead
<1> QED BY <1>1, <1>2, <1>3, <1>4, <1>5, <1>6, <1>7, <1>8, <1>9, <1>10, <1>11 DEF SnkPass,
     Snk!Step

LEMMA TidySrcPass ==
  ASSUME LinkInv, GrantInv, TidyInv, SrcPass
  PROVE  TidyInv'
<1> USE DEF LinkInv, LinkTypeOK, SnkControl, SrcControl, Snk!SinkTypeOK,
         Src!SourceTypeOK, Snk!PortTypeOK, Src!PortTypeOK, snkVars, srcVars, snkPort,
         srcPort, history, Snk!mainVars, Snk!detVars, Src!mainVars, Src!detVars,
         Snk!portVars, Src!portVars, SnkDead, SrcDead, AtRest, SnkPending, SrcPending,
         Waiting, GrantInv, OnTheWire, NoneKept, Granted,
         TidyInv, EndsTidy, NoOfferKept, Unplugged, RequestAhead
<1>0. UNCHANGED <<snkVars, plugged, pulls, lost>> BY DEF SrcPass
<1>1. CASE UNCHANGED contract /\ \E cc \in BOOLEAN : Src!Detect(cc)
  BY <1>0, LinkNumbers, <1>1, SMT DEF Src!Detect
<1>2. CASE UNCHANGED contract /\ Src!Wait
  BY <1>0, LinkNumbers, <1>2, SMT DEF Src!Wait, Src!StateDone, Src!Timed, Src!Due, Src!Limit
<1>3. CASE UNCHANGED contract /\ Src!Offer
  BY <1>0, LinkNumbers, <1>3, SMT DEF Src!Offer, Src!StateDone
<1>4. CASE UNCHANGED contract /\ Src!RequestTimeout
  BY <1>0, LinkNumbers, <1>4, SMT DEF Src!RequestTimeout, Src!StateDone
<1>5. CASE UNCHANGED contract /\ Src!SendNow
  BY <1>0, LinkNumbers, <1>5, SMT DEF Src!SendNow, Src!StartSend, Src!Sends, Src!Due,
     Src!Timed, Src!Limit
<1>6. CASE UNCHANGED contract /\ Src!SoftReset
  BY <1>0, LinkNumbers, <1>6, SMT DEF Src!SoftReset, Src!StartSend, Src!Message,
     Src!TypeCode
<1>7. CASE UNCHANGED contract /\ Src!Accepted
  BY <1>0, LinkNumbers, <1>7, SMT DEF Src!Accepted, Src!MsgDone, Src!PD_Rx_Mode,
     Src!Message, Src!TypeCode
<1>8. CASE UNCHANGED contract /\ Src!Unsupported
  BY <1>0, LinkNumbers, <1>8, SMT DEF Src!Unsupported, Src!MsgDone, Src!PD_Rx_Mode
<1>9. CASE Src!Request /\ contract' = "asked"
  BY <1>0, LinkNumbers, <1>9, SMT DEF Src!Request, Src!MsgDone, Src!PD_Rx_Mode,
     Src!Message, Src!TypeCode
<1>10. CASE Src!Disconnect /\ contract' = "none"
  BY <1>0, LinkNumbers, <1>10, SMT DEF Src!Disconnect, Src!PD_Rx_Mode, Src!StateDone
<1>11. plugged \in BOOLEAN OBVIOUS
<1> HIDE DEF TidyInv, RequestAhead
<1> QED BY <1>1, <1>2, <1>3, <1>4, <1>5, <1>6, <1>7, <1>8, <1>9, <1>10, <1>11 DEF SrcPass,
     Src!Step

LEMMA TidyTransmit ==
  ASSUME LinkInv, GrantInv, TidyInv, SnkTransmit \/ SrcTransmit
  PROVE  TidyInv'
<1> USE DEF LinkInv, LinkTypeOK, SnkControl, SrcControl, Snk!SinkTypeOK,
         Src!SourceTypeOK, Snk!PortTypeOK, Src!PortTypeOK, snkVars, srcVars, snkPort,
         srcPort, history, Snk!mainVars, Snk!detVars, Src!mainVars, Src!detVars,
         Snk!portVars, Src!portVars, SnkDead, SrcDead, AtRest, SnkPending, SrcPending,
         Waiting, GrantInv, OnTheWire, NoneKept, Granted,
         TidyInv, EndsTidy, NoOfferKept, Unplugged, RequestAhead
<1>1. CASE SnkTransmit
  BY LinkNumbers, <1>1, SMT DEF SnkTransmit, Snk!Send, Snk!Transmit, Src!Hear,
     Src!Receive, Src!Overhear, Src!Listening
<1>2. CASE SrcTransmit
  BY LinkNumbers, <1>2, SMT DEF SrcTransmit, Src!Send, Src!Transmit, Snk!Hear,
     Snk!Receive, Snk!Overhear, Snk!Listening, Src!Sends
<1> QED BY <1>1, <1>2

LEMMA TidyAck ==
  ASSUME LinkInv, GrantInv, TidyInv, SnkAck \/ SrcAck
  PROVE  TidyInv'
<1> USE DEF LinkInv, LinkTypeOK, SnkControl, SrcControl, Snk!SinkTypeOK,
         Src!SourceTypeOK, Snk!PortTypeOK, Src!PortTypeOK, snkVars, srcVars, snkPort,
         srcPort, history, Snk!mainVars, Snk!detVars, Src!mainVars, Src!detVars,
         Snk!portVars, Src!portVars, SnkDead, SrcDead, AtRest, SnkPending, SrcPending,
         Waiting, GrantInv, OnTheWire, NoneKept, Granted,
         TidyInv, EndsTidy, NoOfferKept, Unplugged, RequestAhead
<1>1. CASE SnkAck
  BY LinkNumbers, <1>1, SMT DEF SnkAck, Snk!Ack, Snk!AckSent, Src!Sent, Src!StateSent,
     Src!MsgSent, Src!SendDone, Src!PD_Rx_Mode, Src!MsgDone, Src!StateDone, Src!AfterOk,
     Src!Sends
<1>2. CASE SrcAck
  BY LinkNumbers, <1>2, SMT DEF SrcAck, Src!Ack, Src!AckSent, Snk!Sent, Snk!SoftResetSent,
     Snk!MsgSent, Snk!SendDone, Snk!PD_Rx_Mode, Snk!MsgDone, Snk!StateDone
<1> QED BY <1>1, <1>2

LEMMA TidyTimeout ==
  ASSUME LinkInv, GrantInv, TidyInv, SnkTimeout \/ SrcTimeout
  PROVE  TidyInv'
<1> USE DEF LinkInv, LinkTypeOK, SnkControl, SrcControl, Snk!SinkTypeOK,
         Src!SourceTypeOK, Snk!PortTypeOK, Src!PortTypeOK, snkVars, srcVars, snkPort,
         srcPort, history, Snk!mainVars, Snk!detVars, Src!mainVars, Src!detVars,
         Snk!portVars, Src!portVars, SnkDead, SrcDead, AtRest, SnkPending, SrcPending,
         Waiting, GrantInv, OnTheWire, NoneKept, Granted,
         TidyInv, EndsTidy, NoOfferKept, Unplugged, RequestAhead
<1>1. CASE SnkTimeout
  BY LinkNumbers, <1>1, SMT DEF SnkTimeout, Snk!SendAgain, Snk!Retry, Snk!Sent,
     Snk!SoftResetSent, Snk!MsgSent, Snk!SendDone, Snk!PD_Rx_Mode, Snk!MsgDone,
     Snk!StateDone
<1>2. CASE SrcTimeout
  BY LinkNumbers, <1>2, SMT DEF SrcTimeout, Src!SendAgain, Src!Retry, Src!Sent,
     Src!StateSent, Src!MsgSent, Src!SendDone, Src!PD_Rx_Mode, Src!MsgDone, Src!StateDone,
     Src!AfterFailure, Src!Sends
<1> QED BY <1>1, <1>2

LEMMA TidyReset ==
  ASSUME LinkInv, GrantInv, TidyInv, SnkHardReset \/ SrcHardReset
  PROVE  TidyInv'
<1> USE DEF LinkInv, LinkTypeOK, SnkControl, SrcControl, Snk!SinkTypeOK,
         Src!SourceTypeOK, Snk!PortTypeOK, Src!PortTypeOK, snkVars, srcVars, snkPort,
         srcPort, history, Snk!mainVars, Snk!detVars, Src!mainVars, Src!detVars,
         Snk!portVars, Src!portVars, SnkDead, SrcDead, AtRest, SnkPending, SrcPending,
         Waiting, GrantInv, OnTheWire, NoneKept, Granted,
         TidyInv, EndsTidy, NoOfferKept, Unplugged, RequestAhead
<1>1. CASE SnkHardReset
  BY LinkNumbers, <1>1, SMT DEF SnkHardReset, Snk!HardReset, Snk!ResetSent,
     Snk!ResetMissed, Snk!PD_Rx_Mode, Snk!StateDone, Src!ResetReceived
<1>2. CASE SrcHardReset
  BY LinkNumbers, <1>2, SMT DEF SrcHardReset, Src!HardReset, Src!ResetSent,
     Src!ResetMissed, Src!PD_Rx_Mode, Src!StateDone
<1> QED BY <1>1, <1>2

(* Periods since the source's ACCEPT was acknowledged, and since the sink  *)
(* has taken one.                                                          *)
SrcTime == src_PD_Comm_Timer + src_elapsed
SnkTime == snk_PD_Comm_Timer + snk_elapsed

(* In the period of the acknowledged ACCEPT a sink that waits has just     *)
(* taken it, or is about to: it has transmitted nothing since.             *)
Accepting ==
  src_PD_State = "TX_PS_RDY" /\ SrcTime = 0 /\ ~SnkDead /\ snk_PD_State \in Waiting =>
    \/ snk_PD_State = "RX_PS_RDY_WAIT" /\ SnkTime = 0
    \/ /\ snk_Msg_Recvd = 1 /\ snk_PD_Rx_Buf = "ACCEPT"
       /\ snk_irq = 0 /\ snk_acking = 0 /\ snk_tx = "none"

(* In later ones nothing is under way but the PS_RDY: the soft resets of   *)
(* the first are over, and the sink's time does not run ahead.             *)
Settled ==
  src_PD_State = "TX_PS_RDY" /\ SrcTime > 0 =>
    /\ src_tx \in {"none", "PS_RDY"}
    /\ SrcPending => src_PD_Rx_Buf \notin {"REQUEST", "SOFT_RESET", "ACCEPT"}
    /\ snk_tx \in {"none", "ANSWER"}
    /\ SnkDead \/ /\ snk_PD_State \in {"IDLE", "SRC_CONNECT", "RX_PS_RDY_WAIT", "RX_PS_RDY"}
                  /\ SnkPending => snk_PD_Rx_Buf \in {"PS_RDY", "QUERY", "ANSWER"}
                  /\ snk_PD_State = "RX_PS_RDY_WAIT" => SnkTime <= SrcTime

(* Once the PS_RDY is acknowledged the source has nothing to send, and a   *)
(* sink that still waits for it takes it from the buffer in time.          *)
Ready ==
  contract = "ready" =>
    /\ src_PD_State \in {"IDLE", "DISCONNECT"} /\ src_tx = "none"
    /\ SrcPending => src_PD_Rx_Buf \notin {"REQUEST", "SOFT_RESET"}
    /\ snk_tx \in {"none", "ANSWER"} /\ snk_pc # "stuck"
    /\ SnkPending /\ snk_pc # "hung" => snk_PD_Rx_Buf \in {"PS_RDY", "QUERY", "ANSWER"}
    /\ \/ snk_PD_State \in {"IDLE", "SRC_CONNECT", "RX_PS_RDY"}
       \/ /\ snk_PD_State = "RX_PS_RDY_WAIT" /\ SnkTime <= ReplyMax
          /\ snk_Msg_Recvd = 1 /\ snk_PD_Rx_Buf = "PS_RDY"
          /\ snk_irq = 0 /\ snk_acking = 0 /\ snk_tx = "none"

AgreeInv == Accepting /\ Settled /\ Ready

(* Each action keeps it, while no sink gives up in time for the PS_RDY.    *)
LEMMA AgreeCable ==
  ASSUME LinkInv, GrantInv, TidyInv, ReplyMax > ReadyMax, AgreeInv, Plug \/ Pull \/ Tick
     \/ Tester
  PROVE  AgreeInv'
<1> USE DEF LinkInv, LinkTypeOK, SnkControl, SrcControl, Snk!SinkTypeOK,
         Src!SourceTypeOK, Snk!PortTypeOK, Src!PortTypeOK, snkVars, srcVars, snkPort,
         srcPort, history, Snk!mainVars, Snk!detVars, Src!mainVars, Src!detVars,
         Snk!portVars, Src!portVars, SnkDead, SrcDead, AtRest, SnkPending, SrcPending,
         Waiting, GrantInv, OnTheWire, NoneKept, Granted,
         TidyInv, EndsTidy, Unplugged, AgreeInv, Accepting, Settled, Ready, SrcTime, SnkTime
<1>1. CASE Plug
  BY LinkNumbers, <1>1, SMT DEF Plug
<1>2. CASE Pull
  BY LinkNumbers, <1>2, SMT DEF Pull
<1>3. CASE Tick
  <2>1. Accepting' BY LinkNumbers, <1>3, SMT DEF Tick, Snk!HasWork, Src!HasWork, Snk!States
  <2>2. Settled' BY LinkNumbers, <1>3, SMT DEF Tick, Snk!HasWork, Src!HasWork, Snk!States
  <2>3. Ready' BY LinkNumbers, <1>3, SMT DEF Tick, Snk!HasWork, Src!HasWork, Snk!States
  <2> HIDE DEF Accepting, Settled, Ready
  <2> QED BY <2>1, <2>2, <2>3
<1>4. CASE Tester
  BY LinkNumbers, <1>4, SMT DEF Tester, Snk!Hear, Snk!Receive, Snk!Overhear,
     Snk!Listening, Snk!HasWork, Src!HasWork
<1> QED BY <1>1, <1>2, <1>3, <1>4

LEMMA AgreeSnkPass ==
  ASSUME LinkInv, GrantInv, TidyInv, ReplyMax > ReadyMax, AgreeInv, SnkPass
  PROVE  AgreeInv'
<1> USE DEF LinkInv, LinkTypeOK, SnkControl, SrcControl, Snk!SinkTypeOK,
         Src!SourceTypeOK, Snk!PortTypeOK, Src!PortTypeOK, snkVars, srcVars, snkPort,
         srcPort, history, Snk!mainVars, Snk!detVars, Src!mainVars, Src!detVars,
         Snk!portVars, Src!portVars, SnkDead, SrcDead, AtRest, SnkPending, SrcPending,
         Waiting, GrantInv, OnTheWire, NoneKept, Granted,
         TidyInv, EndsTidy, Unplugged, AgreeInv, Accepting, Settled, Ready, SrcTime, SnkTime
<1>0. UNCHANGED <<srcVars, plugged, pulls, history>> BY DEF SnkPass
<1>1. CASE \E cc \in BOOLEAN : Snk!Detect(cc)
  BY <1>0, LinkNumbers, <1>1, SMT DEF Snk!Detect
<1>2. CASE Snk!Wait
  BY <1>0, LinkNumbers, <1>2, SMT DEF Snk!Wait, Snk!StateDone, Snk!Timed, Snk!Limit
<1>3. CASE Snk!ConnectTimeout
  BY <1>0, LinkNumbers, <1>3, SMT DEF Snk!ConnectTimeout, Snk!StateDone
<1>4. CASE Snk!ReplyTimeout
  BY <1>0, LinkNumbers, <1>4, SMT DEF Snk!ReplyTimeout, Snk!StateDone, Snk!Limit
<1>5. CASE Snk!SoftReset
  BY <1>0, LinkNumbers, <1>5, SMT DEF Snk!SoftReset, Snk!StartSend
<1>6. CASE Snk!SrcCap
  BY <1>0, LinkNumbers, <1>6, SMT DEF Snk!SrcCap, Snk!StartSend, Snk!DataObjects,
     Snk!Message, Snk!TypeCode
<1>7. CASE Snk!Answer
  BY <1>0, LinkNumbers, <1>7, SMT DEF Snk!Answer, Snk!StartSend, Snk!Reply, Snk!Message,
     Snk!TypeCode
<1>8. CASE Snk!Accept
  BY <1>0, LinkNumbers, <1>8, SMT DEF Snk!Accept, Snk!MsgDone, Snk!PD_Rx_Mode,
     Snk!Message, Snk!TypeCode
<1>9. CASE Snk!PsRdy
  BY <1>0, LinkNumbers, <1>9, SMT DEF Snk!PsRdy, Snk!MsgDone, Snk!PD_Rx_Mode, Snk!Message,
     Snk!TypeCode
<1>10. CASE Snk!Unsupported
  BY <1>0, LinkNumbers, <1>10, SMT DEF Snk!Unsupported, Snk!MsgDone, Snk!PD_Rx_Mode,
     Snk!Reply, Snk!TypeCode
<1>11. (plugged /\ src_role = "SRC") \in BOOLEAN OBVIOUS
<1> HIDE DEF AgreeInv
<1> QED BY <1>1, <1>2, <1>3, <1>4, <1>5, <1>6, <1>7, <1>8, <1>9, <1>10, <1>11 DEF SnkPass,
     Snk!Step

LEMMA AgreeSrcPass ==
  ASSUME LinkInv, GrantInv, TidyInv, ReplyMax > ReadyMax, AgreeInv, SrcPass
  PROVE  AgreeInv'
<1> USE DEF LinkInv, LinkTypeOK, SnkControl, SrcControl, Snk!SinkTypeOK,
         Src!SourceTypeOK, Snk!PortTypeOK, Src!PortTypeOK, snkVars, srcVars, snkPort,
         srcPort, history, Snk!mainVars, Snk!detVars, Src!mainVars, Src!detVars,
         Snk!portVars, Src!portVars, SnkDead, SrcDead, AtRest, SnkPending, SrcPending,
         Waiting, GrantInv, OnTheWire, NoneKept, Granted,
         TidyInv, EndsTidy, Unplugged, AgreeInv, Accepting, Settled, Ready, SrcTime, SnkTime
<1>0. UNCHANGED <<snkVars, plugged, pulls, lost>> BY DEF SrcPass
<1>1. CASE UNCHANGED contract /\ \E cc \in BOOLEAN : Src!Detect(cc)
  BY <1>0, LinkNumbers, <1>1, SMT DEF Src!Detect
<1>2. CASE UNCHANGED contract /\ Src!Wait
  BY <1>0, LinkNumbers, <1>2, SMT DEF Src!Wait, Src!StateDone, Src!Timed, Src!Due, Src!Limit
<1>3. CASE UNCHANGED contract /\ Src!Offer
  BY <1>0, LinkNumbers, <1>3, SMT DEF Src!Offer, Src!StateDone
<1>4. CASE UNCHANGED contract /\ Src!RequestTimeout
  BY <1>0, LinkNumbers, <1>4, SMT DEF Src!RequestTimeout, Src!StateDone
<1>5. CASE UNCHANGED contract /\ Src!SendNow
  BY <1>0, LinkNumbers, <1>5, SMT DEF Src!SendNow, Src!StartSend, Src!Sends, Src!Due,
     Src!Timed, Src!Limit
<1>6. CASE UNCHANGED contract /\ Src!SoftReset
  BY <1>0, LinkNumbers, <1>6, SMT DEF Src!SoftReset, Src!StartSend, Src!Message,
     Src!TypeCode
<1>7. CASE UNCHANGED contract /\ Src!Accepted
  BY <1>0, LinkNumbers, <1>7, SMT DEF Src!Accepted, Src!MsgDone, Src!PD_Rx_Mode,
     Src!Message, Src!TypeCode
<1>8. CASE UNCHANGED contract /\ Src!Unsupported
  BY <1>0, LinkNumbers, <1>8, SMT DEF Src!Unsupported, Src!MsgDone, Src!PD_Rx_Mode
<1>9. CASE Src!Request /\ contract' = "asked"
  BY <1>0, LinkNumbers, <1>9, SMT DEF Src!Request, Src!MsgDone, Src!PD_Rx_Mode,
     Src!Message, Src!TypeCode
<1>10. CASE Src!Disconnect /\ contract' = "none"
  BY <1>0, LinkNumbers, <1>10, SMT DEF Src!Disconnect, Src!PD_Rx_Mode, Src!StateDone
<1>11. plugged \in BOOLEAN OBVIOUS
<1> HIDE DEF AgreeInv
<1> QED BY <1>1, <1>2, <1>3, <1>4, <1>5, <1>6, <1>7, <1>8, <1>9, <1>10, <1>11 DEF SrcPass,
     Src!Step

LEMMA AgreeTransmit ==
  ASSUME LinkInv, GrantInv, TidyInv, ReplyMax > ReadyMax, AgreeInv, SnkTransmit \/
     SrcTransmit
  PROVE  AgreeInv'
<1> USE DEF LinkInv, LinkTypeOK, SnkControl, SrcControl, Snk!SinkTypeOK,
         Src!SourceTypeOK, Snk!PortTypeOK, Src!PortTypeOK, snkVars, srcVars, snkPort,
         srcPort, history, Snk!mainVars, Snk!detVars, Src!mainVars, Src!detVars,
         Snk!portVars, Src!portVars, SnkDead, SrcDead, AtRest, SnkPending, SrcPending,
         Waiting, GrantInv, OnTheWire, NoneKept, Granted,
         TidyInv, EndsTidy, Unplugged, AgreeInv, Accepting, Settled, Ready, SrcTime, SnkTime
<1>1. CASE SnkTransmit
  BY LinkNumbers, <1>1, SMT DEF SnkTransmit, Snk!Send, Snk!Transmit, Src!Hear,
     Src!Receive, Src!Overhear, Src!Listening
<1>2. CASE SrcTransmit
  BY LinkNumbers, <1>2, SMT DEF SrcTransmit, Src!Send, Src!Transmit, Snk!Hear,
     Snk!Receive, Snk!Overhear, Snk!Listening, Src!Sends
<1> QED BY <1>1, <1>2

LEMMA AgreeAck ==
  ASSUME LinkInv, GrantInv, TidyInv, ReplyMax > ReadyMax, AgreeInv, SnkAck \/ SrcAck
  PROVE  AgreeInv'
<1> USE DEF LinkInv, LinkTypeOK, SnkControl, SrcControl, Snk!SinkTypeOK,
         Src!SourceTypeOK, Snk!PortTypeOK, Src!PortTypeOK, snkVars, srcVars, snkPort,
         srcPort, history, Snk!mainVars, Snk!detVars, Src!mainVars, Src!detVars,
         Snk!portVars, Src!portVars, SnkDead, SrcDead, AtRest, SnkPending, SrcPending,
         Waiting, GrantInv, OnTheWire, NoneKept, Granted,
         TidyInv, EndsTidy, Unplugged, AgreeInv, Accepting, Settled, Ready, SrcTime, SnkTime
<1>1. CASE SnkAck
  BY LinkNumbers, <1>1, SMT DEF SnkAck, Snk!Ack, Snk!AckSent, Src!Sent, Src!StateSent,
     Src!MsgSent, Src!SendDone, Src!PD_Rx_Mode, Src!MsgDone, Src!StateDone, Src!AfterOk,
     Src!Sends
<1>2. CASE SrcAck
  BY LinkNumbers, <1>2, SMT DEF SrcAck, Src!Ack, Src!AckSent, Snk!Sent, Snk!SoftResetSent,
     Snk!MsgSent, Snk!SendDone, Snk!PD_Rx_Mode, Snk!MsgDone, Snk!StateDone
<1> QED BY <1>1, <1>2

LEMMA AgreeTimeout ==
  ASSUME LinkInv, GrantInv, TidyInv, ReplyMax > ReadyMax, AgreeInv, SnkTimeout \/ SrcTimeout
  PROVE  AgreeInv'
<1> USE DEF LinkInv, LinkTypeOK, SnkControl, SrcControl, Snk!SinkTypeOK,
         Src!SourceTypeOK, Snk!PortTypeOK, Src!PortTypeOK, snkVars, srcVars, snkPort,
         srcPort, history, Snk!mainVars, Snk!detVars, Src!mainVars, Src!detVars,
         Snk!portVars, Src!portVars, SnkDead, SrcDead, AtRest, SnkPending, SrcPending,
         Waiting, GrantInv, OnTheWire, NoneKept, Granted,
         TidyInv, EndsTidy, Unplugged, AgreeInv, Accepting, Settled, Ready, SrcTime, SnkTime
<1>1. CASE SnkTimeout
  BY LinkNumbers, <1>1, SMT DEF SnkTimeout, Snk!SendAgain, Snk!Retry, Snk!Sent,
     Snk!SoftResetSent, Snk!MsgSent, Snk!SendDone, Snk!PD_Rx_Mode, Snk!MsgDone,
     Snk!StateDone
<1>2. CASE SrcTimeout
  BY LinkNumbers, <1>2, SMT DEF SrcTimeout, Src!SendAgain, Src!Retry, Src!Sent,
     Src!StateSent, Src!MsgSent, Src!SendDone, Src!PD_Rx_Mode, Src!MsgDone, Src!StateDone,
     Src!AfterFailure, Src!Sends
<1> QED BY <1>1, <1>2

LEMMA AgreeReset ==
  ASSUME LinkInv, GrantInv, TidyInv, ReplyMax > ReadyMax, AgreeInv, SnkHardReset \/
     SrcHardReset
  PROVE  AgreeInv'
<1> USE DEF LinkInv, LinkTypeOK, SnkControl, SrcControl, Snk!SinkTypeOK,
         Src!SourceTypeOK, Snk!PortTypeOK, Src!PortTypeOK, snkVars, srcVars, snkPort,
         srcPort, history, Snk!mainVars, Snk!detVars, Src!mainVars, Src!detVars,
         Snk!portVars, Src!portVars, SnkDead, SrcDead, AtRest, SnkPending, SrcPending,
         Waiting, GrantInv, OnTheWire, NoneKept, Granted,
         TidyInv, EndsTidy, Unplugged, AgreeInv, Accepting, Settled, Ready, SrcTime, SnkTime
<1>1. CASE SnkHardReset
  BY LinkNumbers, <1>1, SMT DEF SnkHardReset, Snk!HardReset, Snk!ResetSent,
     Snk!ResetMissed, Snk!PD_Rx_Mode, Snk!StateDone, Src!ResetReceived
<1>2. CASE SrcHardReset
  BY LinkNumbers, <1>2, SMT DEF SrcHardReset, Src!HardReset, Src!ResetSent,
     Src!ResetMissed, Src!PD_Rx_Mode, Src!StateDone
<1> QED BY <1>1, <1>2

-----------------------------------------------------------------------------
(* All together.                                                           *)

LEMMA LinkKeepsTidy ==
  ASSUME LinkInv, GrantInv, TidyInv, [Next]_vars
  PROVE  TidyInv'
<1>1. CASE UNCHANGED vars
  BY <1>1, SMT DEF vars, snkVars, srcVars, history, TidyInv, EndsTidy, NoOfferKept,
     Unplugged, RequestAhead, SnkPending, SrcPending, SnkDead
<1>2. CASE Next
  BY <1>2, TidyCable, TidySnkPass, TidySrcPass, TidyTransmit, TidyAck, TidyTimeout,
     TidyReset DEF Next, SnkMain, SrcMain
<1> QED BY <1>1, <1>2

LEMMA LinkKeepsAgreement ==
  ASSUME LinkInv, GrantInv, TidyInv, ReplyMax > ReadyMax, AgreeInv, [Next]_vars
  PROVE  AgreeInv'
<1>1. CASE UNCHANGED vars
  BY <1>1, SMT DEF vars, snkVars, srcVars, history, AgreeInv, Accepting, Settled, Ready,
     SrcTime, SnkTime, SnkPending, SrcPending, SnkDead
<1>2. CASE Next
  BY <1>2, AgreeCable, AgreeSnkPass, AgreeSrcPass, AgreeTransmit, AgreeAck,
     AgreeTimeout, AgreeReset DEF Next, SnkMain, SrcMain
<1> QED BY <1>1, <1>2

LEMMA AgreementStarts == Init => TidyInv /\ AgreeInv
BY SMT DEF Init, Snk!Init, Src!Init, Snk!PortInit, Src!PortInit, TidyInv, EndsTidy,
   NoOfferKept, Unplugged, RequestAhead, SnkPending, SrcPending, SnkDead, AgreeInv,
   Accepting, Settled, Ready, Waiting

LEMMA AgreementIsRest == ASSUME TidyInv, AgreeInv PROVE EndsAgree
BY SMT DEF TidyInv, EndsTidy, AgreeInv, Ready, EndsAgree, AtRest, SnkDead, SrcDead,
   Snk!HasWork, Src!HasWork

(* A source whose PS_RDY was acknowledged and a sink at rest agree on the  *)
(* contract (PD_Process.c:741 of the source, :673 to :684 and :757 of the  *)
(* sink), through every loss, retransmission, soft or hard reset and       *)
(* bounce of the plug, if only the sink waits longer for PS_RDY than the   *)
(* source takes to send it, as 499 ms are longer than 19.                  *)
THEOREM EndsAlwaysAgree == ReplyMax > ReadyMax => (Spec => []EndsAgree)
<1> SUFFICES ASSUME ReplyMax > ReadyMax PROVE Spec => []EndsAgree OBVIOUS
<1> DEFINE Inv == LinkInv /\ GrantInv /\ TidyInv /\ AgreeInv
<1>1. Init => Inv BY LinkStarts, AgreementStarts
<1>2. Inv /\ [Next]_vars => Inv'
  BY LinkKeepsInv, LinkKeepsGrant, LinkKeepsTidy, LinkKeepsAgreement
<1>3. Inv => EndsAgree BY AgreementIsRest
<1> QED BY <1>1, <1>2, <1>3, PTL DEF Spec

=============================================================================
