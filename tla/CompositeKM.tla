---------------------------- MODULE CompositeKM ----------------------------
(***************************************************************************)
(* The keyboard of the composite device: keys scanned by a timer           *)
(* interrupt, a report built by the main loop and loaded into endpoint 1,  *)
(* and key values received from USART2 that use the same report            *)
(* (usbd_compostie_km.c, ch32l103_usbfs_device.c).  Scan results are sets  *)
(* of pressed keys: a pressed key is a cleared bit.                        *)
(***************************************************************************)
EXTENDS Naturals, FiniteSets

CONSTANTS
  NKeys,      \* keys, the bits 12 .. 15 of the port
  Slots,      \* key positions of a report, KB_Data_Pack[2 .. 7]
  ResetSlot,  \* the position cleared when a released key is not found
  Bytes       \* values USART2 may receive

ASSUMPTION KMAssumption ==
  /\ NKeys \in Nat \ {0} /\ Slots \in Nat /\ NKeys < Slots
  /\ ResetSlot \in 0 .. Slots - 1
  /\ Bytes \subseteq Nat

Keys  == 1 .. NKeys
Empty == [s \in 0 .. Slots - 1 |-> 0]

VARIABLES
  pins,                 \* the keys held down
  KB_Scan_Done, KB_Scan_Result, KB_Scan_Last_Result,
  KB_Data_Pack,         \* shared by the keyboard and the USART
  key_cnt, kb_flag,     \* static variables of KB_Scan_Handle
  USART_Recv_Dat,
  USART_Send_Cnt,       \* 1 from 50 on
  us_flag,              \* static variable of USART2_Receive_Handle
  Busy,                 \* USBFS_Endp_Busy[1]
  EP1_RES, EP1_Buf,     \* endpoint 1: response, keys of the report in it
  DevEnumStatus,
  pc, i,                \* position of the main loop; bit it looks at
  seen,                 \* the keys of the report the host read last
  damage                \* history: what has spoiled the report

scanVars == <<KB_Scan_Done, KB_Scan_Result>>
kbVars   == <<KB_Scan_Last_Result, key_cnt, kb_flag, i>>
usVars   == <<USART_Recv_Dat, USART_Send_Cnt, us_flag>>
epVars   == <<Busy, EP1_RES, EP1_Buf>>
hostVars == <<DevEnumStatus, seen>>
vars == <<pins, scanVars, kbVars, KB_Data_Pack, usVars, epVars, hostVars, pc, damage>>

Init ==
  /\ pins = {} /\ KB_Scan_Done = 0 /\ KB_Scan_Result = {} /\ KB_Scan_Last_Result = {}
  /\ KB_Data_Pack = Empty /\ key_cnt = 0 /\ kb_flag = 0 /\ i = 1
  /\ USART_Recv_Dat = 0 /\ USART_Send_Cnt = 0 /\ us_flag = 0
  /\ Busy = 0 /\ EP1_RES = "NAK" /\ EP1_Buf = {}
  /\ DevEnumStatus = 0 /\ seen = {} /\ pc = "kb" /\ damage = {}

-----------------------------------------------------------------------------
(* The user, and the interrupts of timer and USART.                        *)

PressOrRelease ==
  \E k \in Keys :
    /\ pins' = IF k \in pins THEN pins \ {k} ELSE pins \cup {k}
    /\ UNCHANGED <<scanVars, kbVars, KB_Data_Pack, usVars, epVars, hostVars, pc, damage>>

(* Bits the loop of KB_Scan_Handle has looked at already.                  *)
Passed == CASE pc = "bit"   -> 1 .. i - 1
            [] pc = "apply" -> 1 .. i
            [] pc = "last"  -> Keys
            [] OTHER        -> {}

Changed(r, s) == (r \ s) \cup (s \ r)

(* Two samples that agree; two that differ change nothing.  The timer may  *)
(* come between two bits of the main loop's comparison.                    *)
KB_Scan ==
  /\ KB_Scan_Done' = 1 /\ KB_Scan_Result' = pins
  /\ damage' = IF Changed(KB_Scan_Result, pins) \cap Passed # {}
               THEN damage \cup {"torn"} ELSE damage
  /\ UNCHANGED <<pins, kbVars, KB_Data_Pack, usVars, epVars, hostVars, pc>>

(* USART_Send_Cnt reaches 50; it wraps at 256 only if the main loop has no *)
(* business with it for 20 ms.                                             *)
CountTick ==
  /\ us_flag = 2 /\ (USART_Send_Cnt = 0 \/ DevEnumStatus = 0)
  /\ USART_Send_Cnt' = 1 - USART_Send_Cnt
  /\ UNCHANGED <<pins, scanVars, kbVars, KB_Data_Pack, USART_Recv_Dat, us_flag, epVars,
                 hostVars, pc, damage>>

USART2_IRQHandler ==
  \E b \in Bytes :
    /\ USART_Recv_Dat' = b
    /\ UNCHANGED <<pins, scanVars, kbVars, KB_Data_Pack, USART_Send_Cnt, us_flag, epVars,
                   hostVars, pc, damage>>

-----------------------------------------------------------------------------
(* The host and the USB interrupt.  A report is read and the interrupt     *)
(* served in one step: until then the endpoint refuses the host and        *)
(* USBFS_Endp_DataUp the main loop.                                        *)
HostIn ==
  /\ DevEnumStatus = 1 /\ EP1_RES = "ACK"
  /\ seen' = EP1_Buf
  /\ EP1_RES' = "NAK" /\ Busy' = 0 /\ EP1_Buf' = {}
  /\ damage' = damage \ {"forgotten"}
  /\ UNCHANGED <<pins, scanVars, kbVars, KB_Data_Pack, usVars, DevEnumStatus, pc>>

SetConfiguration ==
  /\ DevEnumStatus = 0 /\ DevEnumStatus' = 1
  /\ UNCHANGED <<pins, scanVars, kbVars, KB_Data_Pack, usVars, epVars, seen, pc, damage>>

(* USBFS_Device_Endp_Init disarms the endpoint but leaves its busy mark.   *)
(* The host forgets the keys of the device it enumerates anew.             *)
BusReset ==
  /\ DevEnumStatus = 1 /\ DevEnumStatus' = 0 /\ seen' = {}
  /\ EP1_RES' = "NAK" /\ EP1_Buf' = {}
  /\ damage' = damage \cup {"forgotten"}
  /\ UNCHANGED <<pins, scanVars, kbVars, KB_Data_Pack, usVars, Busy, pc>>

(* SET_FEATURE or CLEAR_FEATURE(ENDPOINT_HALT): STALL and NAK both refuse  *)
(* the host, and the next report to be loaded replaces either.             *)
Halt ==
  /\ DevEnumStatus = 1 /\ EP1_RES' = "NAK" /\ EP1_Buf' = {}
  /\ UNCHANGED <<pins, scanVars, kbVars, KB_Data_Pack, usVars, Busy, hostVars, pc, damage>>

-----------------------------------------------------------------------------
(* KB_Scan_Handle.                                                         *)

KbTest ==
  /\ pc = "kb" /\ DevEnumStatus = 1
  /\ KB_Scan_Done' = 0
  /\ pc' = IF KB_Scan_Done = 1 /\ KB_Scan_Result # KB_Scan_Last_Result THEN "bit" ELSE "send"
  /\ UNCHANGED <<pins, KB_Scan_Result, kbVars, KB_Data_Pack,
                 usVars, epVars, hostVars, damage>>

Next_iOver == /\ i' = i + 1                                      \* mutant
              /\ pc' = IF i <= NKeys THEN "bit" ELSE "last"
Next_i == /\ i' = i + 1
          /\ pc' = IF i < NKeys THEN "bit" ELSE "last"

KbBit ==
  /\ pc = "bit"
  /\ IF (i \in KB_Scan_Result) # (i \in KB_Scan_Last_Result)
     THEN pc' = "apply" /\ UNCHANGED i
     ELSE Next_i
  /\ UNCHANGED <<pins, scanVars, KB_Scan_Last_Result, key_cnt, kb_flag, KB_Data_Pack, usVars,
                 epVars, hostVars, damage>>

(* A pressed key goes to the position the counter names.                   *)
KbPressed ==
  /\ pc = "apply" /\ i \in KB_Scan_Result
  /\ KB_Data_Pack' = [KB_Data_Pack EXCEPT ![key_cnt] = i]
  /\ key_cnt' = key_cnt + 1
  /\ Next_i
  /\ UNCHANGED <<pins, scanVars, KB_Scan_Last_Result, kb_flag, usVars, epVars, hostVars, damage>>

(* A released key is taken out where it is first found.                    *)
Found(k)  == {s \in 0 .. Slots - 1 : KB_Data_Pack[s] = k}
First(S)  == CHOOSE s \in S : \A t \in S : s <= t
ZeroAt(j) == [KB_Data_Pack EXCEPT ![j] = 0]                       \* mutant
ShiftAt(j) ==
  [s \in 0 .. Slots - 1 |-> IF s < j THEN KB_Data_Pack[s]
                            ELSE IF s = Slots - 1 THEN 0 ELSE KB_Data_Pack[s + 1]]
CountDown == IF key_cnt > 0 THEN key_cnt - 1 ELSE 0

KbReleased ==
  /\ pc = "apply" /\ i \notin KB_Scan_Result
  /\ KB_Data_Pack' = IF Found(i) = {} THEN [KB_Data_Pack EXCEPT ![ResetSlot] = 0]
                     ELSE ShiftAt(First(Found(i)))
  /\ key_cnt' = CountDown
  /\ Next_i
  /\ UNCHANGED <<pins, scanVars, KB_Scan_Last_Result, kb_flag, usVars, epVars, hostVars, damage>>

(* What the USART left behind is gone when no key is pressed.              *)
Healed(last, flag) == IF last = {} /\ flag = 0 THEN damage \ {"mixed"} ELSE damage

KbLast ==
  /\ pc = "last" /\ pc' = "send" /\ i' = 1
  /\ KB_Scan_Last_Result' = KB_Scan_Result /\ kb_flag' = 1
  /\ damage' = Healed(KB_Scan_Result, us_flag)
  /\ UNCHANGED <<pins, scanVars, key_cnt, KB_Data_Pack, usVars, epVars, hostVars>>

(* USBFS_Endp_DataUp up to its last assignment, which arms the endpoint    *)
(* (Arm): the report is copied before, but nobody reads the copy sooner.   *)
InPack == {KB_Data_Pack[s] : s \in 0 .. Slots - 1} \ {0}
Load == Busy' = 1 /\ UNCHANGED <<EP1_RES, EP1_Buf>>

KbRefusedDropped == 0                                             \* mutant
KbRefused        == kb_flag

KbSend ==
  /\ pc = "send"
  /\ IF kb_flag = 1 /\ Busy = 0
     THEN Load /\ pc' = "arm" /\ kb_flag' = 0
     ELSE pc' = "us" /\ kb_flag' = KbRefused /\ UNCHANGED epVars
  /\ UNCHANGED <<pins, scanVars, KB_Scan_Last_Result, key_cnt, i, KB_Data_Pack, usVars,
                 hostVars, damage>>

Arm ==
  /\ pc \in {"arm", "usArm"} /\ pc' = IF pc = "arm" THEN "us" ELSE "kb"
  /\ EP1_RES' = "ACK" /\ EP1_Buf' = InPack
  /\ UNCHANGED <<pins, scanVars, kbVars, KB_Data_Pack, usVars, Busy, hostVars, damage>>

-----------------------------------------------------------------------------
(* USART2_Receive_Handle.                                                  *)

UsTest ==
  /\ pc = "us" /\ us_flag = 0
  /\ pc' = IF USART_Recv_Dat \in Keys THEN "store" ELSE "kb"
  /\ UNCHANGED <<pins, scanVars, kbVars, KB_Data_Pack, usVars, epVars, hostVars, damage>>

(* The byte is read again to be stored.                                    *)
UsStore ==
  /\ pc = "store" /\ pc' = "kb"
  /\ KB_Data_Pack' = [Empty EXCEPT ![0] = USART_Recv_Dat]
  /\ us_flag' = 1
  /\ damage' = damage \cup {"mixed"}
  /\ UNCHANGED <<pins, scanVars, kbVars, USART_Recv_Dat, USART_Send_Cnt, epVars, hostVars>>

UsSend ==
  /\ pc = "us" /\ us_flag = 1
  /\ IF Busy = 0
     THEN Load /\ pc' = "usArm" /\ us_flag' = 2 /\ USART_Send_Cnt' = 0
     ELSE pc' = "kb" /\ UNCHANGED <<epVars, us_flag, USART_Send_Cnt>>
  /\ UNCHANGED <<pins, scanVars, kbVars, KB_Data_Pack, USART_Recv_Dat, hostVars, damage>>

UsDelay ==
  /\ pc = "us" /\ us_flag = 2 /\ pc' = "kb"
  /\ IF USART_Send_Cnt = 1
     THEN KB_Data_Pack' = Empty /\ us_flag' = 3 /\ USART_Send_Cnt' = 0
     ELSE UNCHANGED <<KB_Data_Pack, us_flag, USART_Send_Cnt>>
  /\ UNCHANGED <<pins, scanVars, kbVars, USART_Recv_Dat, epVars, hostVars, damage>>

UsRefusedDone == 0                                                \* mutant
UsRefused     == us_flag

UsRelease ==
  /\ pc = "us" /\ us_flag = 3
  /\ IF Busy = 0
     THEN /\ Load /\ pc' = "usArm" /\ us_flag' = 0 /\ USART_Recv_Dat' = 0
          /\ damage' = Healed(KB_Scan_Last_Result, 0)
     ELSE pc' = "kb" /\ us_flag' = UsRefused /\ UNCHANGED <<epVars, USART_Recv_Dat, damage>>
  /\ UNCHANGED <<pins, scanVars, kbVars, KB_Data_Pack, USART_Send_Cnt, hostVars>>

-----------------------------------------------------------------------------
Main == \/ KbTest \/ KbBit \/ KbPressed \/ KbReleased \/ KbLast \/ KbSend \/ Arm
        \/ UsTest \/ UsStore \/ UsSend \/ UsDelay \/ UsRelease

Next == \/ PressOrRelease \/ KB_Scan \/ CountTick \/ USART2_IRQHandler
        \/ HostIn \/ SetConfiguration \/ BusReset \/ Halt
        \/ Main

Spec == Init /\ [][Next]_vars

(* The timer and the main loop run, and the host configures the device and *)
(* polls endpoint 1.                                                       *)
Fairness == /\ WF_vars(KB_Scan) /\ WF_vars(CountTick) /\ WF_vars(Main)
            /\ WF_vars(HostIn) /\ WF_vars(SetConfiguration)
FairSpec == Spec /\ Fairness

-----------------------------------------------------------------------------
(* Properties.                                                             *)

(* Types.  The counter that indexes the report stays below the number of   *)
(* keys, so that no key is written behind the report, unless a scan result *)
(* changed under the loop.                                                 *)
KMTypeOK ==
  /\ pins \subseteq Keys /\ KB_Scan_Result \subseteq Keys /\ KB_Scan_Last_Result \subseteq Keys
  /\ KB_Scan_Done \in 0 .. 1 /\ kb_flag \in 0 .. 1 /\ i \in 1 .. NKeys + 1
  /\ KB_Data_Pack \in [0 .. Slots - 1 -> {0} \cup Keys \cup Bytes]
  /\ EP1_Buf \subseteq Keys \cup Bytes
  /\ USART_Recv_Dat \in {0} \cup Bytes /\ USART_Send_Cnt \in 0 .. 1 /\ us_flag \in 0 .. 3
  /\ Busy \in 0 .. 1 /\ EP1_RES \in {"NAK", "ACK"} /\ DevEnumStatus \in 0 .. 1
  /\ pc \in {"kb", "bit", "apply", "last", "send", "arm", "us", "store", "usArm"}
  /\ seen \subseteq Keys \cup Bytes /\ damage \subseteq {"torn", "mixed", "forgotten"}
  /\ "torn" \notin damage => key_cnt \in 0 .. NKeys

(* The keys taken into account so far: in the middle of the loop, the bits *)
(* passed as they are now and the others as they were.                     *)
Reported == IF pc \in {"bit", "apply", "last"}
            THEN LET done == 1 .. i - 1
                 IN (KB_Scan_Result \cap done) \cup (KB_Scan_Last_Result \ done)
            ELSE KB_Scan_Last_Result

(* Between a scan whose result changed under the loop and the end of time  *)
(* nothing is known.  Otherwise the counter is the number of pressed keys; *)
(* while the USART has no key on the way, the report names pressed keys    *)
(* only; and from the first moment when no key is pressed it names them    *)
(* all, without gaps, until the USART uses the report again.               *)
ReportIsKeys ==
  "torn" \notin damage =>
    /\ key_cnt = Cardinality(Reported)
    /\ us_flag = 0 => InPack \subseteq Reported
    /\ "mixed" \notin damage =>
         /\ InPack = Reported
         /\ \A s \in 0 .. Slots - 1 : KB_Data_Pack[s] # 0 <=> s < key_cnt

(* A request that disarms endpoint 1 under a report leaves the busy mark:  *)
(* no report is loaded any more.                                           *)
Dead == Busy = 1 /\ EP1_RES # "ACK" /\ pc \notin {"arm", "usArm"}

(* Keys held long enough reach the host: all of them and no other, unless  *)
(* the host forgot them, the USART mixed in, or the endpoint died.         *)
KeysAtRest == <>[][pins' = pins]_pins

KeysReachHost ==
  KeysAtRest /\ <>[](damage = {} /\ ~Dead) => <>[](seen = pins)

(* Whatever the USART sends in between, the host is not left with a key    *)
(* that nobody presses.                                                    *)
NoKeySticks ==
  KeysAtRest /\ <>[]("torn" \notin damage /\ ~Dead) => []<>(seen \subseteq pins)

=============================================================================
