------------------------------- MODULE PdSink -------------------------------
(***************************************************************************)
(* The USB-PD sink program: PD_Det_Proc and PD_Main_Proc, called from the  *)
(* main loop one after the other.  A pass is cut where the interrupt may   *)
(* make a difference: before the detection, the state switch and the       *)
(* message switch, and around every transmission.  The unit of time is the *)
(* 5 ms period of the detection.                                           *)
(***************************************************************************)
EXTENDS PdPort

CONSTANTS
  DetMax,      \* detections in a row that make a connection: 5
  ConnectMax,  \* the 999 ms without SRC_CAP, in periods
  ReplyMax     \* the 499 ms without ACCEPT or PS_RDY, in periods

VARIABLES
  PD_State, PD_Comm_Timer, Connected, Stop_Det_Chk, Det_Cnt,
  elapsed,   \* periods not yet counted: 0 or 1
  pc         \* where the pass is; "hung" in the endless loop of PDO_Request,
             \* "stuck" in that of PD_Phy_SendPack

detVars == <<Connected, Det_Cnt>>
mainVars == <<PD_State, PD_Comm_Timer, detVars, Stop_Det_Chk, elapsed, pc>>

States == {"IDLE", "SRC_CONNECT", "RX_ACCEPT_WAIT", "RX_PS_RDY_WAIT", "RX_PS_RDY",
           "TX_SOFTRST", "TX_HRST"}

Init ==
  /\ PortInit
  /\ PD_State = "IDLE" /\ PD_Comm_Timer = 0 /\ Connected = 0 /\ Stop_Det_Chk = 0
  /\ Det_Cnt = 0 /\ elapsed = 0 /\ pc = "det"

(* A pass that finds nothing to do changes nothing and is no step.         *)
HasWork == elapsed = 1 \/ Msg_Recvd = 1 \/ PD_State \in {"RX_PS_RDY", "TX_SOFTRST", "TX_HRST"}

(* PD_Det_Proc, every 5 ms; `cc' is what PD_Detect finds.  A connection is *)
(* never given up.                                                         *)
Detect(cc) ==
  /\ pc = "det" /\ HasWork /\ pc' = "state"
  /\ IF elapsed = 0 \/ Connected = 1
     THEN UNCHANGED <<detVars, PD_State, PD_Comm_Timer>>
     ELSE IF cc /\ Det_Cnt + 1 >= DetMax
     THEN /\ Det_Cnt' = 0 /\ Connected' = 1
          /\ IF Stop_Det_Chk = 0
             THEN PD_State' = "SRC_CONNECT" /\ PD_Comm_Timer' = 0
             ELSE UNCHANGED <<PD_State, PD_Comm_Timer>>
     ELSE /\ Det_Cnt' = IF cc THEN Det_Cnt + 1 ELSE 0
          /\ UNCHANGED <<Connected, PD_State, PD_Comm_Timer>>
  /\ UNCHANGED <<portVars, Stop_Det_Chk, elapsed>>

-----------------------------------------------------------------------------
(* The state switch of PD_Main_Proc.                                       *)

(* The message switch follows at once; nothing is left of a pass without.  *)
StateDone == pc' = (IF Msg_Recvd' = 1 THEN "msg" ELSE "det") /\ elapsed' = 0

Timed == PD_State \in {"SRC_CONNECT", "RX_ACCEPT_WAIT", "RX_PS_RDY_WAIT"}
Limit == IF PD_State = "SRC_CONNECT" THEN ConnectMax ELSE ReplyMax

Wait ==
  /\ pc = "state"
  /\ ~Timed \/ PD_Comm_Timer + elapsed <= Limit
  /\ PD_State \notin {"TX_SOFTRST", "TX_HRST"}
  /\ PD_Comm_Timer' = IF Timed THEN PD_Comm_Timer + elapsed ELSE PD_Comm_Timer
  /\ PD_State' = IF PD_State = "RX_PS_RDY" THEN "IDLE" ELSE PD_State
  /\ UNCHANGED <<portVars, detVars, Stop_Det_Chk>>
  /\ StateDone

(* No SRC_CAP: PD_PHY_Reset, or giving up after the sixth time, which      *)
(* comes to the same: the state is idle, and Stop_Det_Chk is 0 already.    *)
ConnectTimeout ==
  /\ pc = "state"
  /\ PD_State = "SRC_CONNECT" /\ PD_Comm_Timer + elapsed > Limit
  /\ PD_Comm_Timer' = PD_Comm_Timer + elapsed
  /\ PD_State' = "IDLE" /\ Stop_Det_Chk' = 0
  /\ UNCHANGED <<portVars, detVars>>
  /\ StateDone

ReplyTimeout ==
  /\ pc = "state"
  /\ PD_State \in {"RX_ACCEPT_WAIT", "RX_PS_RDY_WAIT"}
  /\ PD_Comm_Timer + elapsed > Limit
  /\ PD_State' = "TX_SOFTRST" /\ PD_Comm_Timer' = 0 /\ Stop_Det_Chk' = 0
  /\ UNCHANGED <<portVars, detVars>>
  /\ StateDone

SoftReset ==
  /\ pc = "state" /\ PD_State = "TX_SOFTRST"
  /\ StartSend("SOFT_RESET") /\ pc' = "sendState"
  /\ UNCHANGED <<PD_State, PD_Comm_Timer, detVars, Stop_Det_Chk, elapsed>>

SoftResetSent(ok) ==
  /\ pc = "sendState" /\ SendDone(ok)
  /\ PD_State' = IF ok THEN "IDLE" ELSE "TX_HRST"
  /\ PD_Comm_Timer' = 0
  /\ UNCHANGED <<Msg_Recvd, detVars, Stop_Det_Chk>>
  /\ StateDone

(* The reset signal itself is the link's business.                         *)
HardReset ==
  /\ pc = "state" /\ PD_State = "TX_HRST"
  /\ Stop_Det_Chk' = 1
  /\ \/ /\ ResetSent /\ StateDone
        /\ PD_State' = "IDLE" /\ PD_Comm_Timer' = 0
     \/ /\ ResetMissed /\ pc' = "stuck"
        /\ UNCHANGED <<PD_State, PD_Comm_Timer, elapsed>>
  /\ UNCHANGED detVars

-----------------------------------------------------------------------------
(* The message switch of PD_Main_Proc.                                     *)

Message(m) == pc = "msg" /\ Msg_Recvd = 1 /\ TypeCode(PD_Rx_Buf) = m

(* Back to reception, then the flag is cleared.                            *)
StaysDeaf == pc' = "det" /\ UNCHANGED <<irq, ie, acking>> /\ Msg_Recvd' = 0   \* mutant of MsgDone

MsgDone == pc' = "det" /\ PD_Rx_Mode /\ Msg_Recvd' = 0

Reply == [SOFT_RESET |-> "ACCEPT", QUERY |-> "ANSWER"]

(* PD_Save_Adapter_SrcCap and PDO_Request(1): an offer without objects     *)
(* ends in an endless loop.                                                *)
SrcCap ==
  /\ Message("SRC_CAP")
  /\ Stop_Det_Chk' = 0
  /\ IF DataObjects(PD_Rx_Buf) = 0
     THEN pc' = "hung" /\ UNCHANGED portVars
     ELSE pc' = "sendMsg" /\ StartSend("REQUEST")
  /\ UNCHANGED <<PD_State, PD_Comm_Timer, detVars, elapsed>>

Answer ==
  /\ \E m \in DOMAIN Reply : Message(m) /\ StartSend(Reply[m])
  /\ pc' = "sendMsg"
  /\ UNCHANGED <<PD_State, PD_Comm_Timer, detVars, Stop_Det_Chk, elapsed>>

MsgSent(ok) ==
  /\ pc = "sendMsg" /\ SendDone(ok) /\ MsgDone
  /\ IF tx = "REQUEST"
     THEN /\ PD_State' = IF ok THEN "RX_ACCEPT_WAIT" ELSE "TX_SOFTRST"
          /\ PD_Comm_Timer' = 0
     ELSE UNCHANGED <<PD_State, PD_Comm_Timer>>
  /\ UNCHANGED <<detVars, Stop_Det_Chk, elapsed>>

(* ACCEPT and PS_RDY are taken in every state.                             *)
Accept ==
  /\ Message("ACCEPT") /\ MsgDone
  /\ PD_State' = "RX_PS_RDY_WAIT" /\ PD_Comm_Timer' = 0
  /\ UNCHANGED <<PD_Rx_Buf, tx, tries, polling, detVars, Stop_Det_Chk, elapsed>>

ReadyUnseen ==   \* mutant of PsRdy
  /\ Message("PS_RDY") /\ MsgDone
  /\ UNCHANGED <<PD_Rx_Buf, tx, tries, polling, PD_State, PD_Comm_Timer, detVars,
                 Stop_Det_Chk, elapsed>>

PsRdy ==
  /\ Message("PS_RDY") /\ MsgDone
  /\ PD_State' = "RX_PS_RDY"
  /\ UNCHANGED <<PD_Rx_Buf, tx, tries, polling, PD_Comm_Timer, detVars, Stop_Det_Chk, elapsed>>

Unsupported ==
  /\ pc = "msg" /\ Msg_Recvd = 1
  /\ TypeCode(PD_Rx_Buf) \notin {"SRC_CAP", "ACCEPT", "PS_RDY"} \cup DOMAIN Reply
  /\ MsgDone
  /\ UNCHANGED <<PD_Rx_Buf, tx, tries, polling, PD_State, PD_Comm_Timer, detVars,
                 Stop_Det_Chk, elapsed>>

-----------------------------------------------------------------------------
(* Steps of the main loop that concern nobody else.                        *)
Step == \/ Wait \/ ConnectTimeout \/ ReplyTimeout \/ SoftReset
        \/ SrcCap \/ Answer \/ Accept \/ PsRdy \/ Unsupported

(* What the main loop takes no part in, or only by waiting.                *)
Hear(m)   == (Receive(m) \/ Overhear(m)) /\ UNCHANGED mainVars
Ack       == AckSent /\ UNCHANGED mainVars
Send      == Transmit /\ UNCHANGED mainVars
SendAgain == Retry /\ UNCHANGED mainVars

(* The end of a transmission.                                              *)
Sent(ok) == SoftResetSent(ok) \/ MsgSent(ok)

SinkTypeOK ==
  /\ PortTypeOK
  /\ PD_State \in States /\ PD_Comm_Timer \in Nat
  /\ Connected \in 0 .. 1 /\ Stop_Det_Chk \in 0 .. 1
  /\ Det_Cnt \in 0 .. DetMax - 1
  /\ elapsed \in 0 .. 1
  /\ pc \in {"det", "state", "sendState", "msg", "sendMsg", "hung", "stuck"}

=============================================================================
