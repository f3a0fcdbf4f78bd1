------------------------------- MODULE PdLink -------------------------------
(***************************************************************************)
(* The sink and the source program at the two ends of a cable.  Either end *)
(* may transmit at any time; a packet or a GoodCRC may be lost, and the    *)
(* cable may be pulled and plugged again.  A tick of the common clock      *)
(* waits until both programs have done what the last one asked of them:    *)
(* an exchange takes two milliseconds, a period five.                      *)
(***************************************************************************)
EXTENDS Integers

CONSTANTS
  Tries, DetMax,
  SnkConnectMax, ReplyMax,                                  \* of PdSink
  SrcConnectMax, CapMax, RequestMax, AcceptMax, ReadyMax,   \* of PdSource
  MaxPulls    \* how often the cable may be pulled

ASSUME PdLinkAssumption ==
  /\ {Tries, DetMax} \subseteq Nat \ {0}
  /\ {SnkConnectMax, ReplyMax, SrcConnectMax, CapMax, RequestMax, AcceptMax,
      ReadyMax, MaxPulls} \subseteq Nat

VARIABLES
  snk_irq, snk_ie, snk_acking, snk_Msg_Recvd, snk_PD_Rx_Buf, snk_tx, snk_tries,
  snk_polling, snk_PD_State, snk_PD_Comm_Timer, snk_Connected,
  snk_Stop_Det_Chk, snk_Det_Cnt, snk_elapsed, snk_pc,
  src_irq, src_ie, src_acking, src_Msg_Recvd, src_PD_Rx_Buf, src_tx, src_tries,
  src_polling, src_PD_State, src_PD_Comm_Timer, src_Connected,
  src_Stop_Det_Chk, src_Det_Cnt, src_role, src_elapsed, src_pc,
  plugged,    \* is the cable plugged at both ends?
  pulls,      \* how often it was pulled
  lost,       \* history: a packet was lost since the cable was plugged
  contract    \* history: "none"; "asked", "granted" and "ready" as the source
              \* takes a REQUEST and its ACCEPT and PS_RDY are acknowledged

Snk == INSTANCE PdSink
         WITH irq <- snk_irq, ie <- snk_ie, acking <- snk_acking,
                 Msg_Recvd <- snk_Msg_Recvd, PD_Rx_Buf <- snk_PD_Rx_Buf,
                 tx <- snk_tx, tries <- snk_tries, polling <- snk_polling,
                 PD_State <- snk_PD_State,
                 PD_Comm_Timer <- snk_PD_Comm_Timer,
                 Connected <- snk_Connected,
                 Stop_Det_Chk <- snk_Stop_Det_Chk, Det_Cnt <- snk_Det_Cnt,
                 elapsed <- snk_elapsed,
                 pc <- snk_pc,
                 ConnectMax <- SnkConnectMax
Src == INSTANCE PdSource
         WITH irq <- src_irq, ie <- src_ie, acking <- src_acking,
                 Msg_Recvd <- src_Msg_Recvd, PD_Rx_Buf <- src_PD_Rx_Buf,
                 tx <- src_tx, tries <- src_tries, polling <- src_polling,
                 PD_State <- src_PD_State,
                 PD_Comm_Timer <- src_PD_Comm_Timer,
                 Connected <- src_Connected,
                 Stop_Det_Chk <- src_Stop_Det_Chk, Det_Cnt <- src_Det_Cnt,
                 role <- src_role, elapsed <- src_elapsed, pc <- src_pc,
                 ConnectMax <- SrcConnectMax

snkVars == <<snk_irq, snk_ie, snk_acking, snk_Msg_Recvd, snk_PD_Rx_Buf, snk_tx,
             snk_tries, snk_polling, snk_PD_State, snk_PD_Comm_Timer,
             snk_Connected, snk_Stop_Det_Chk, snk_Det_Cnt,
             snk_elapsed, snk_pc>>
srcVars == <<src_irq, src_ie, src_acking, src_Msg_Recvd, src_PD_Rx_Buf, src_tx,
             src_tries, src_polling, src_PD_State, src_PD_Comm_Timer,
             src_Connected, src_Stop_Det_Chk, src_Det_Cnt, src_role,
             src_elapsed, src_pc>>
snkPort == <<snk_irq, snk_ie, snk_acking, snk_Msg_Recvd, snk_PD_Rx_Buf, snk_tx,
             snk_tries, snk_polling>>
srcPort == <<src_irq, src_ie, src_acking, src_Msg_Recvd, src_PD_Rx_Buf, src_tx,
             src_tries, src_polling>>
history == <<lost, contract>>
vars    == <<snkVars, srcVars, plugged, pulls, history>>

Init ==
  /\ Snk!Init /\ Src!Init
  /\ plugged = FALSE /\ pulls = 0 /\ lost = FALSE /\ contract = "none"

-----------------------------------------------------------------------------
(* The cable and the clock (external).                                     *)

Pull ==
  /\ plugged /\ pulls < MaxPulls
  /\ plugged' = FALSE /\ pulls' = pulls + 1
  /\ UNCHANGED <<snkVars, srcVars, history>>

SnkDead == snk_pc \in {"hung", "stuck"}
SrcDead == src_pc = "stuck"
AtRest == /\ SnkDead \/ (snk_pc = "det" /\ ~Snk!HasWork)
          /\ SrcDead \/ (src_pc = "det" /\ ~Src!HasWork)
          /\ snk_acking = 0 /\ src_acking = 0

(* The plug is slow: it finds both ends at rest.                           *)
Plug ==
  /\ AtRest
  /\ ~plugged /\ plugged' = TRUE
  /\ lost' = FALSE
  /\ UNCHANGED <<snkVars, srcVars, pulls, contract>>

Tick ==
  /\ AtRest
  /\ snk_elapsed' = (IF SnkDead THEN 0 ELSE 1)
  /\ src_elapsed' = (IF SrcDead THEN 0 ELSE 1)
  /\ UNCHANGED <<snkPort, snk_PD_State, snk_PD_Comm_Timer, snk_Connected,
                 snk_Stop_Det_Chk, snk_Det_Cnt, snk_pc,
                 srcPort, src_PD_State, src_PD_Comm_Timer, src_Connected,
                 src_Stop_Det_Chk, src_Det_Cnt, src_role, src_pc,
                 plugged, pulls, history>>

-----------------------------------------------------------------------------
(* Passes of the two main loops.                                           *)

SnkPass ==
  /\ Snk!Detect(plugged /\ src_role = "SRC") \/ Snk!Step
  /\ UNCHANGED <<srcVars, plugged, pulls, history>>

SrcPass ==
  /\ \/ (Src!Detect(plugged) \/ Src!Step) /\ UNCHANGED contract
     \/ Src!Request /\ contract' = "asked"
     \/ Src!Disconnect /\ contract' = "none"
  /\ UNCHANGED <<snkVars, plugged, pulls, lost>>

(* A packet: the other end receives or overhears it, or is deaf, or the    *)
(* packet is lost on the way.                                              *)
SnkTransmit ==
  /\ Snk!Send
  /\ \/ /\ plugged /\ UNCHANGED lost
        /\ Src!Hear(snk_tx)
     \/ /\ UNCHANGED srcVars
        /\ lost' = (lost \/ (plugged /\ (Src!Listening \/ src_polling = 1)))
  /\ UNCHANGED <<plugged, pulls, contract>>

SrcTransmit ==
  /\ Src!Send
  /\ \/ /\ plugged /\ UNCHANGED lost
        /\ Snk!Hear(src_tx)
     \/ /\ UNCHANGED snkVars
        /\ lost' = (lost \/ (plugged /\ (Snk!Listening \/ snk_polling = 1)))
  /\ UNCHANGED <<plugged, pulls, contract>>

(* A GoodCRC ends the transmission it answers, unless it is lost.          *)
SrcAck ==
  /\ Src!Ack
  /\ \/ plugged /\ Snk!Sent(TRUE) /\ UNCHANGED lost
     \/ UNCHANGED snkVars /\ lost' = TRUE
  /\ UNCHANGED <<plugged, pulls, contract>>

SnkAck ==
  /\ Snk!Ack
  /\ \/ /\ plugged /\ Src!Sent(TRUE) /\ UNCHANGED lost
        /\ contract' = IF src_pc # "sendState" THEN contract
                       ELSE IF src_tx = "ACCEPT" THEN "granted"
                       ELSE IF src_tx = "PS_RDY" THEN "ready"
                       ELSE contract
     \/ UNCHANGED <<srcVars, contract>> /\ lost' = TRUE
  /\ UNCHANGED <<plugged, pulls>>

(* No GoodCRC within 750 us.                                               *)
SnkTimeout ==
  /\ snk_polling = 1 /\ src_acking = 0
  /\ Snk!SendAgain \/ Snk!Sent(FALSE)
  /\ UNCHANGED <<srcVars, plugged, pulls, history>>

SrcTimeout ==
  /\ src_polling = 1 /\ snk_acking = 0
  /\ Src!SendAgain \/ Src!Sent(FALSE)
  /\ UNCHANGED <<snkVars, plugged, pulls, history>>

(* A hard reset reaches a port that receives.  The sink's handler of it    *)
(* changes nothing it does not have already.                               *)
SnkHardReset ==
  /\ Snk!HardReset
  /\ \/ plugged /\ Src!Listening /\ Src!ResetReceived
     \/ UNCHANGED srcVars
  /\ UNCHANGED <<plugged, pulls, history>>

(* Another partner than the source program, while that is unplugged, sends *)
(* what the source never sends.                                            *)
Tester ==
  /\ ~plugged /\ AtRest /\ snk_pc = "det"
  /\ \E m \in {"QUERY", "ANSWER"} : Snk!Hear(m)
  /\ UNCHANGED <<srcVars, plugged, pulls, history>>

SrcHardReset ==
  /\ Src!HardReset
  /\ UNCHANGED <<snkVars, plugged, pulls, history>>

SnkMain == SnkPass \/ SnkTransmit \/ SnkTimeout \/ SnkHardReset
SrcMain == SrcPass \/ SrcTransmit \/ SrcTimeout \/ SrcHardReset

Next == Plug \/ Pull \/ Tick \/ Tester \/ SnkMain \/ SrcMain \/ SnkAck \/ SrcAck

Spec == Init /\ [][Next]_vars

(* The clock runs, and so do both processors and their interrupts.         *)
Fairness == /\ WF_vars(Tick) /\ WF_vars(SnkMain) /\ WF_vars(SrcMain)
            /\ WF_vars(SnkAck) /\ WF_vars(SrcAck)
FairSpec == Spec /\ Fairness

-----------------------------------------------------------------------------
(* Properties.                                                             *)

LinkTypeOK ==
  /\ Snk!SinkTypeOK /\ Src!SourceTypeOK
  /\ plugged \in BOOLEAN /\ pulls \in 0 .. MaxPulls
  /\ lost \in BOOLEAN /\ contract \in {"none", "asked", "granted", "ready"}

(* PD_Process.c:92 says of the interrupt that went off with a packet that  *)
(* it "can be turned on after the main function has finished processing    *)
(* the data".  PD_Send_Handle turns it on earlier.                         *)
BufferIsKept == snk_Msg_Recvd = 1 => snk_irq = 0

(* PD_Process.c:364 says of the end of a transmission that "this will      *)
(* definitely complete, no need to do a timeout".                          *)
ResetCompletes == snk_pc # "stuck" /\ src_pc # "stuck"

(* The sink reports success only when the source has granted its request,  *)
(* whatever is lost and whenever the cable is pulled.                      *)
SuccessIsGranted == snk_PD_State = "RX_PS_RDY" => contract \in {"granted", "ready"}

(* Both ends agree on the contract: a source that has sent PS_RDY is idle, *)
(* and leaves no sink waiting for an answer.  A sink whose contacts        *)
(* bounced finds the connection only then, and waits in SRC_CONNECT for an *)
(* offer it has had already.                                               *)
EndsAgree == contract = "ready" /\ AtRest =>
               src_PD_State = "IDLE" /\ snk_PD_State \in {"IDLE", "SRC_CONNECT"}

(* Without loss, plugging the cable leads two idle programs to a contract. *)
Fresh == /\ AtRest /\ snk_PD_State \in {"IDLE", "SRC_CONNECT"} /\ ~SnkDead /\ ~SrcDead
         /\ src_Connected = 0 /\ src_Stop_Det_Chk = 0 /\ src_role = "SRC"
PlugLeadsToContract ==
  plugged /\ Fresh ~> contract = "ready" \/ lost \/ ~plugged

(* A port that went deaf listens again, unless one of the endless loops    *)
(* was entered.                                                            *)
SinkListensAgain   == snk_irq = 0 ~> snk_irq = 1 \/ SnkDead
SourceListensAgain == src_irq = 0 ~> src_irq = 1 \/ SrcDead

=============================================================================
