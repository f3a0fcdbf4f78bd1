------------------------------ MODULE PdSource ------------------------------
(***************************************************************************)
(* The USB-PD source program, cut into steps as PdSink is.                 *)
(***************************************************************************)
EXTENDS PdPort

CONSTANTS
  DetMax,       \* detections in a row that make or end a connection: 5
  ConnectMax,   \* the 159 ms before the first SRC_CAP, in periods of 5 ms
  CapMax,       \* the 159 ms between two SRC_CAP
  RequestMax,   \* the 29 ms without REQUEST
  AcceptMax,    \* the 2 ms before ACCEPT
  ReadyMax      \* the 19 ms before PS_RDY

VARIABLES
  PD_State, PD_Comm_Timer, Connected, Stop_Det_Chk, Det_Cnt,
  role,      \* PR_Role and the CC resistors: "SRC" or "SINK"
  elapsed, pc

detVars == <<Connected, Det_Cnt>>
mainVars == <<PD_State, PD_Comm_Timer, detVars, Stop_Det_Chk, role, elapsed, pc>>

States == {"IDLE", "DISCONNECT", "SINK_CONNECT", "TX_SRC_CAP", "RX_REQ_WAIT",
           "TX_ACCEPT", "TX_PS_RDY", "TX_SOFTRST", "TX_HRST"}

Init ==
  /\ PortInit
  /\ PD_State = "IDLE" /\ PD_Comm_Timer = 0 /\ Connected = 0 /\ Stop_Det_Chk = 0
  /\ Det_Cnt = 0 /\ role = "SRC" /\ elapsed = 0 /\ pc = "det"

HasWork == elapsed = 1 \/ Msg_Recvd = 1 \/ PD_State \in {"DISCONNECT", "TX_SOFTRST", "TX_HRST"}

(* PD_Det_Proc.  With the sink's resistors on CC, PD_Detect finds nothing. *)
Detect(plugged) ==
  /\ pc = "det" /\ HasWork /\ pc' = "state"
  /\ LET found == plugged /\ role = "SRC"
         news  == (Connected = 1) # found IN
       IF elapsed = 1 /\ news /\ Det_Cnt + 1 >= DetMax
       THEN /\ Det_Cnt' = 0 /\ Connected' = 1 - Connected
            /\ IF Stop_Det_Chk = 1
               THEN UNCHANGED <<PD_State, PD_Comm_Timer>>
               ELSE IF found
               THEN PD_State' = "SINK_CONNECT" /\ PD_Comm_Timer' = 0
               ELSE PD_State' = "DISCONNECT" /\ UNCHANGED PD_Comm_Timer
       ELSE /\ Det_Cnt' = IF elapsed = 0 THEN Det_Cnt
                          ELSE IF news THEN Det_Cnt + 1 ELSE 0
            /\ UNCHANGED <<Connected, PD_State, PD_Comm_Timer>>
  /\ UNCHANGED <<portVars, Stop_Det_Chk, role, elapsed>>

(* USBPD_IRQHandler, IF_RX_RESET: a hard reset puts the sink's resistors   *)
(* on CC (PD_SINK_Init).                                                   *)
ResetReceived ==
  /\ role' = "SINK"
  /\ UNCHANGED <<portVars, PD_State, PD_Comm_Timer, detVars, Stop_Det_Chk, elapsed, pc>>

-----------------------------------------------------------------------------
(* The state switch of PD_Main_Proc.                                       *)

(* The message switch follows at once; nothing is left of a pass without.  *)
StateDone == pc' = (IF Msg_Recvd' = 1 THEN "msg" ELSE "det") /\ elapsed' = 0

Limit == CASE PD_State = "SINK_CONNECT" -> ConnectMax
           [] PD_State = "TX_SRC_CAP"   -> CapMax
           [] PD_State = "RX_REQ_WAIT"  -> RequestMax
           [] PD_State = "TX_ACCEPT"    -> AcceptMax
           [] PD_State = "TX_PS_RDY"    -> ReadyMax

Timed == PD_State \in {"SINK_CONNECT", "TX_SRC_CAP", "RX_REQ_WAIT", "TX_ACCEPT", "TX_PS_RDY"}
Due   == Timed /\ PD_Comm_Timer + elapsed > Limit

Wait ==
  /\ pc = "state"
  /\ PD_State = "IDLE" \/ (Timed /\ ~Due)
  /\ PD_Comm_Timer' = IF Timed THEN PD_Comm_Timer + elapsed ELSE PD_Comm_Timer
  /\ UNCHANGED <<portVars, PD_State, detVars, Stop_Det_Chk, role>>
  /\ StateDone

(* PD_PHY_Reset; the sleep before it ends with the next timer interrupt.   *)
Disconnect ==
  /\ pc = "state"
  /\ PD_State = "DISCONNECT" /\ PD_State' = "IDLE"
  /\ Connected' = 0 /\ Det_Cnt' = 0 /\ Stop_Det_Chk' = 0 /\ PD_Comm_Timer' = 0
  /\ role' = "SRC"
  /\ Msg_Recvd' = 0 /\ PD_Rx_Mode
  /\ UNCHANGED <<PD_Rx_Buf, tx, tries, polling>>
  /\ StateDone

Offer ==
  /\ pc = "state"
  /\ PD_State = "SINK_CONNECT" /\ Due /\ PD_State' = "TX_SRC_CAP"
  /\ PD_Comm_Timer' = 0 /\ Stop_Det_Chk' = 0
  /\ UNCHANGED <<portVars, detVars, role>>
  /\ StateDone

RequestTimeout ==
  /\ pc = "state"
  /\ PD_State = "RX_REQ_WAIT" /\ Due /\ PD_State' = "TX_HRST"
  /\ PD_Comm_Timer' = PD_Comm_Timer + elapsed
  /\ UNCHANGED <<portVars, detVars, Stop_Det_Chk, role>>
  /\ StateDone

(* What a state transmits when it is due, and the state after success and  *)
(* after failure.                                                          *)
Sends == [TX_SRC_CAP |-> "SRC_CAP", TX_ACCEPT |-> "ACCEPT", TX_PS_RDY |-> "PS_RDY",
          TX_SOFTRST |-> "SOFT_RESET"]
SkipsReady == [TX_SRC_CAP |-> "RX_REQ_WAIT", TX_ACCEPT |-> "IDLE",   \* mutant of AfterOk
               TX_PS_RDY |-> "IDLE", TX_SOFTRST |-> "IDLE"]
AfterOk == [TX_SRC_CAP |-> "RX_REQ_WAIT", TX_ACCEPT |-> "TX_PS_RDY",
            TX_PS_RDY |-> "IDLE", TX_SOFTRST |-> "IDLE"]
ReadyAnyway == [TX_SRC_CAP |-> "TX_SRC_CAP", TX_ACCEPT |-> "TX_PS_RDY",   \* mutant of AfterFailure
                TX_PS_RDY |-> "TX_SOFTRST", TX_SOFTRST |-> "TX_HRST"]
AfterFailure == [TX_SRC_CAP |-> "TX_SRC_CAP", TX_ACCEPT |-> "TX_SOFTRST",
                 TX_PS_RDY |-> "TX_SOFTRST", TX_SOFTRST |-> "TX_HRST"]

SendNow ==
  /\ pc = "state" /\ PD_State \in DOMAIN Sends
  /\ Due \/ PD_State = "TX_SOFTRST"
  /\ StartSend(Sends[PD_State]) /\ pc' = "sendState"
  /\ UNCHANGED <<PD_State, PD_Comm_Timer, detVars, Stop_Det_Chk, role, elapsed>>

StateSent(ok) ==
  /\ pc = "sendState" /\ SendDone(ok)
  /\ PD_State' = IF ok THEN AfterOk[PD_State] ELSE AfterFailure[PD_State]
  /\ PD_Comm_Timer' = 0
  /\ UNCHANGED <<Msg_Recvd, detVars, Stop_Det_Chk, role>>
  /\ StateDone

HardReset ==
  /\ pc = "state" /\ PD_State = "TX_HRST"
  /\ Stop_Det_Chk' = 1
  /\ \/ /\ ResetSent /\ StateDone
        /\ PD_State' = "IDLE" /\ PD_Comm_Timer' = 0
     \/ /\ ResetMissed /\ pc' = "stuck"
        /\ UNCHANGED <<PD_State, PD_Comm_Timer, elapsed>>
  /\ UNCHANGED <<detVars, role>>

-----------------------------------------------------------------------------
(* The message switch of PD_Main_Proc.                                     *)

Message(m) == pc = "msg" /\ Msg_Recvd = 1 /\ TypeCode(PD_Rx_Buf) = m
StaysDeaf  == pc' = "det" /\ UNCHANGED <<irq, ie, acking>> /\ Msg_Recvd' = 0   \* mutant of MsgDone
MsgDone    == pc' = "det" /\ PD_Rx_Mode /\ Msg_Recvd' = 0

(* The modelled sink asks for the first PDO.  A REQUEST for position 0 or  *)
(* beyond 7, which would lead to TX_HRST, never comes from it.             *)
Request ==
  /\ Message("REQUEST") /\ MsgDone
  /\ PD_State' = "TX_ACCEPT" /\ PD_Comm_Timer' = 0
  /\ UNCHANGED <<PD_Rx_Buf, tx, tries, polling, detVars, Stop_Det_Chk, role, elapsed>>

Accepted ==
  /\ Message("ACCEPT") /\ MsgDone
  /\ PD_Comm_Timer' = 0
  /\ UNCHANGED <<PD_Rx_Buf, tx, tries, polling, PD_State, detVars, Stop_Det_Chk, role,
                 elapsed>>

SoftReset ==
  /\ Message("SOFT_RESET") /\ StartSend("ACCEPT") /\ pc' = "sendMsg"
  /\ UNCHANGED <<PD_State, PD_Comm_Timer, detVars, Stop_Det_Chk, role, elapsed>>

MsgSent(ok) ==
  /\ pc = "sendMsg" /\ SendDone(ok) /\ MsgDone
  /\ UNCHANGED <<PD_State, PD_Comm_Timer, detVars, Stop_Det_Chk, role, elapsed>>

Unsupported ==
  /\ pc = "msg" /\ Msg_Recvd = 1
  /\ TypeCode(PD_Rx_Buf) \notin {"REQUEST", "ACCEPT", "SOFT_RESET"}
  /\ MsgDone
  /\ UNCHANGED <<PD_Rx_Buf, tx, tries, polling, PD_State, PD_Comm_Timer, detVars,
                 Stop_Det_Chk, role, elapsed>>

-----------------------------------------------------------------------------
(* Steps of the main loop besides Request and Disconnect.                  *)
Step == \/ Wait \/ Offer \/ RequestTimeout \/ SendNow
        \/ Accepted \/ SoftReset \/ Unsupported

Hear(m)   == (Receive(m) \/ Overhear(m)) /\ UNCHANGED mainVars
Ack       == AckSent /\ UNCHANGED mainVars
Send      == Transmit /\ UNCHANGED mainVars
SendAgain == Retry /\ UNCHANGED mainVars

Sent(ok) == StateSent(ok) \/ MsgSent(ok)

SourceTypeOK ==
  /\ PortTypeOK
  /\ PD_State \in States /\ PD_Comm_Timer \in Nat
  /\ Connected \in 0 .. 1 /\ Stop_Det_Chk \in 0 .. 1
  /\ Det_Cnt \in 0 .. DetMax - 1 /\ role \in {"SRC", "SINK"}
  /\ elapsed \in 0 .. 1
  /\ pc \in {"det", "state", "sendState", "msg", "sendMsg", "stuck"}

=============================================================================
