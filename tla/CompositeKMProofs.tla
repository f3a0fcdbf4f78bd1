------------------------- MODULE CompositeKMProofs -------------------------
(***************************************************************************)
(* The keyboard's report is the set of pressed keys, for any number of     *)
(* keys and positions.                                                     *)
(***************************************************************************)
EXTENDS CompositeKM, FiniteSetTheorems, TLAPS

Positions == 0 .. Slots - 1
Image(f)  == {f[s] : s \in Positions} \ {0}
Once(f)   == \A s, t \in Positions : f[s] = f[t] /\ f[s] # 0 => s = t
Front(f, n) == \A s \in Positions : f[s] # 0 <=> s < n

(* The loop of KB_Scan_Handle and its counter; the USART is marked as      *)
(* mixed in while it has a key on the way.                                 *)
LoopInv ==
  /\ pc \in {"bit", "apply"} => i \in 1 .. NKeys
  /\ pc = "last" => i = NKeys + 1
  /\ pc \notin {"bit", "apply", "last"} => i = 1
  /\ us_flag # 0 => "mixed" \in damage

(* The report, in so far as no scan result changed under the loop.  From   *)
(* the moment the USART has cleared it, no key is in it twice.             *)
PackInv ==
  "torn" \notin damage =>
    /\ pc = "apply" => (i \in KB_Scan_Result) # (i \in KB_Scan_Last_Result)
    /\ key_cnt = Cardinality(Reported)
    /\ us_flag \in {0, 3} => InPack \subseteq Reported /\ Once(KB_Data_Pack)
    /\ "mixed" \notin damage => InPack = Reported /\ Front(KB_Data_Pack, key_cnt)

-----------------------------------------------------------------------------
(* What the three ways of changing the report do to the keys in it.        *)

LEMMA ConstantsAreNumbers ==
  NKeys \in Nat /\ NKeys > 0 /\ Slots \in Nat /\ NKeys < Slots /\ Bytes \subseteq Nat
  /\ ResetSlot \in Positions
BY KMAssumption, SMT DEF Positions

LEMMA ImageMember ==
  ASSUME NEW f, NEW x
  PROVE  x \in Image(f) <=> x # 0 /\ \E s \in Positions : f[s] = x
BY DEF Image

Shifted(f, j) == [s \in Positions |-> IF s < j THEN f[s]
                                      ELSE IF s = Slots - 1 THEN 0 ELSE f[s + 1]]

(* A shift takes out the value at its place and keeps all others.          *)
LEMMA ShiftRemoves ==
  ASSUME NEW f \in [Positions -> Nat], Once(f), NEW j \in Positions, f[j] # 0
  PROVE  /\ Once(Shifted(f, j)) /\ Image(Shifted(f, j)) = Image(f) \ {f[j]}
         /\ \A n \in Positions : n > 0 /\ Front(f, n) => Front(Shifted(f, j), n - 1)
<1> DEFINE g == Shifted(f, j)
<1>0. Slots \in Nat /\ Slots > 0 BY ConstantsAreNumbers, SMT
<1>1. /\ \A s \in Positions : s < j => g[s] = f[s]
      /\ \A s \in Positions : ~(s < j) /\ s # Slots - 1 => s + 1 \in Positions /\ g[s] = f[s + 1]
      /\ ~(Slots - 1 < j) /\ g[Slots - 1] = 0 /\ Slots - 1 \in Positions
  BY <1>0, SMT DEF Shifted, Positions
<1>2. \A s \in Positions : g[s] # 0 =>
        \E t \in Positions : t # j /\ g[s] = f[t] /\ t = IF s < j THEN s ELSE s + 1
  <2> SUFFICES ASSUME NEW s \in Positions, g[s] # 0
               PROVE  \E t \in Positions :
                        t # j /\ g[s] = f[t] /\ t = IF s < j THEN s ELSE s + 1
    OBVIOUS
  <2> HIDE DEF g
  <2>1. CASE s < j
    <3>1. s # j /\ g[s] = f[s] BY <2>1, <1>1, <1>0, SMT DEF Positions
    <3> QED BY <3>1, <2>1
  <2>2. CASE ~(s < j)
    <3>1. s # Slots - 1 BY <2>2, <1>1
    <3>2. s + 1 \in Positions /\ g[s] = f[s + 1] BY <2>2, <3>1, <1>1
    <3>3. s + 1 # j BY <2>2, <1>0, SMT DEF Positions
    <3> QED BY <3>2, <3>3, <2>2
  <2> QED BY <2>1, <2>2
<1>3. Once(g)
  <2> SUFFICES ASSUME NEW s \in Positions, NEW u \in Positions, g[s] = g[u], g[s] # 0
               PROVE  s = u
    BY DEF Once
  <2>1. PICK t \in Positions : t # j /\ g[s] = f[t] /\ t = IF s < j THEN s ELSE s + 1
    BY <1>2
  <2>2. PICK v \in Positions : v # j /\ g[u] = f[v] /\ v = IF u < j THEN u ELSE u + 1
    BY <1>2
  <2>3. t = v BY <2>1, <2>2 DEF Once
  <2> QED BY <2>1, <2>2, <2>3, <1>0, SMT DEF Positions
<1>4. Image(g) \subseteq Image(f) \ {f[j]}
  <2> SUFFICES ASSUME NEW x \in Image(g) PROVE x \in Image(f) /\ x # f[j]
    OBVIOUS
  <2>1. PICK s \in Positions : g[s] = x /\ x # 0 BY ImageMember
  <2>2. PICK t \in Positions : t # j /\ f[t] = x BY <1>2, <2>1
  <2> QED BY <2>1, <2>2, ImageMember DEF Once
<1>5. Image(f) \ {f[j]} \subseteq Image(g)
  <2> SUFFICES ASSUME NEW x \in Image(f), x # f[j] PROVE x \in Image(g)
    OBVIOUS
  <2>1. PICK t \in Positions : f[t] = x /\ x # 0 BY ImageMember
  <2>2. CASE t < j BY <2>1, <2>2, <1>1, ImageMember
  <2>3. CASE ~(t < j)
    <3>1. t - 1 \in Positions /\ ~(t - 1 < j) /\ t - 1 # Slots - 1 /\ (t - 1) + 1 = t
      BY <2>1, <2>3, <1>0, SMT DEF Positions
    <3>2. g[t - 1] = f[(t - 1) + 1] BY <3>1, <1>1
    <3> HIDE DEF g
    <3> QED BY <3>1, <3>2, <2>1, ImageMember
  <2> QED BY <2>2, <2>3
<1>6. ASSUME NEW n \in Positions, n > 0, Front(f, n)
      PROVE  Front(g, n - 1)
  <2>1. j < n BY <1>6 DEF Front
  <2> SUFFICES ASSUME NEW s \in Positions PROVE g[s] # 0 <=> s < n - 1
    BY DEF Front
  <2>2. CASE s < j
    BY <2>1, <2>2, <1>1, <1>6, <1>0, SMT DEF Front, Positions
  <2>3. CASE ~(s < j) /\ s # Slots - 1
    BY <2>1, <2>3, <1>1, <1>6, <1>0, SMT DEF Front, Positions
  <2>4. CASE s = Slots - 1
    BY <2>1, <2>4, <1>1, <1>6, <1>0, SMT DEF Positions
  <2> QED BY <2>2, <2>3, <2>4
<1> QED BY <1>3, <1>4, <1>5, <1>6

(* A new value is in the report once.                                      *)
LEMMA PutAdds ==
  ASSUME NEW f \in [Positions -> Nat], Once(f), NEW n \in Positions,
         NEW k \in Nat, k # 0, k \notin Image(f)
  PROVE  LET g == [f EXCEPT ![n] = k]
         IN /\ Once(g) /\ Image(g) \subseteq Image(f) \cup {k}
            /\ Front(f, n) => Image(g) = Image(f) \cup {k} /\ Front(g, n + 1)
<1> DEFINE g == [f EXCEPT ![n] = k]
<1>0. Slots \in Nat BY ConstantsAreNumbers
<1>1. g[n] = k /\ \A s \in Positions : s # n => g[s] = f[s] OBVIOUS
<1>2. \A s \in Positions : f[s] # k BY ImageMember
<1>3. Once(g) BY <1>1, <1>2 DEF Once
<1>4. Image(g) \subseteq Image(f) \cup {k}
  <2> SUFFICES ASSUME NEW x \in Image(g) PROVE x \in Image(f) \cup {k}
    OBVIOUS
  <2>1. PICK s \in Positions : g[s] = x /\ x # 0 BY ImageMember
  <2> HIDE DEF g
  <2>2. CASE s = n BY <2>1, <2>2, <1>1
  <2>3. CASE s # n BY <2>1, <2>3, <1>1, ImageMember
  <2> QED BY <2>2, <2>3
<1>5. ASSUME Front(f, n)
      PROVE  Image(g) = Image(f) \cup {k} /\ Front(g, n + 1)
  <2>1. f[n] = 0 BY <1>5, <1>0, SMT DEF Front, Positions
  <2>2. Image(f) \cup {k} \subseteq Image(g)
    <3> SUFFICES ASSUME NEW x \in Image(f) \cup {k} PROVE x \in Image(g)
      OBVIOUS
    <3> QED BY <1>1, <2>1, ImageMember
  <2>3. Front(g, n + 1)
    BY <1>1, <1>5, <1>0, SMT DEF Front, Positions
  <2> QED BY <2>2, <2>3, <1>4
<1> QED BY <1>3, <1>4, <1>5

LEMMA ZeroKeeps ==
  ASSUME NEW f \in [Positions -> Nat], Once(f), NEW n \in Positions
  PROVE  /\ Once([f EXCEPT ![n] = 0]) /\ Image([f EXCEPT ![n] = 0]) \subseteq Image(f)
<1> DEFINE g == [f EXCEPT ![n] = 0]
<1>1. g[n] = 0 /\ \A s \in Positions : s # n => g[s] = f[s] OBVIOUS
<1>2. Once(g) BY <1>1 DEF Once
<1>3. Image(g) \subseteq Image(f)
  <2> SUFFICES ASSUME NEW x \in Image(g) PROVE x \in Image(f)
    OBVIOUS
  <2> QED BY <1>1, ImageMember
<1> QED BY <1>2, <1>3

(* Sets of keys are finite.                                                *)
LEMMA KeysAreFinite ==
  ASSUME NEW S, S \subseteq Keys
  PROVE  IsFiniteSet(S) /\ Cardinality(S) \in 0 .. NKeys
<1>1. NKeys \in Nat BY ConstantsAreNumbers
<1>2. IsFiniteSet(Keys) /\ Cardinality(Keys) = NKeys
  BY <1>1, FS_Interval, SMT DEF Keys
<1>3. IsFiniteSet(S) /\ Cardinality(S) <= Cardinality(Keys) BY <1>2, FS_Subset
<1> QED BY <1>1, <1>2, <1>3, FS_CardinalityType, SMT

-----------------------------------------------------------------------------
(* Types, without the counter's range, which follows from PackInv.         *)
KMVarTypes ==
  /\ pins \subseteq Keys /\ KB_Scan_Result \subseteq Keys /\ KB_Scan_Last_Result \subseteq Keys
  /\ KB_Scan_Done \in 0 .. 1 /\ kb_flag \in 0 .. 1 /\ i \in 1 .. NKeys + 1
  /\ KB_Data_Pack \in [Positions -> {0} \cup Keys \cup Bytes]
  /\ EP1_Buf \subseteq Keys \cup Bytes
  /\ USART_Recv_Dat \in {0} \cup Bytes /\ USART_Send_Cnt \in 0 .. 1 /\ us_flag \in 0 .. 3
  /\ Busy \in 0 .. 1 /\ EP1_RES \in {"NAK", "ACK"} /\ DevEnumStatus \in 0 .. 1
  /\ pc \in {"kb", "bit", "apply", "last", "send", "arm", "us", "store", "usArm"}
  /\ seen \subseteq Keys \cup Bytes /\ damage \subseteq {"torn", "mixed", "forgotten"}

CountInRange == "torn" \notin damage => key_cnt \in 0 .. NKeys

LEMMA TypesSplit == KMTypeOK <=> KMVarTypes /\ CountInRange
BY DEF KMTypeOK, KMVarTypes, CountInRange, Positions

LEMMA KMInit == Init => KMVarTypes /\ LoopInv /\ PackInv
<1> SUFFICES ASSUME Init PROVE KMVarTypes /\ LoopInv /\ PackInv
  OBVIOUS
<1> USE ConstantsAreNumbers
<1>1. KMVarTypes BY SMT DEF Init, KMVarTypes, Empty, Positions
<1>2. LoopInv BY SMT DEF Init, LoopInv
<1>3. Reported = {} /\ InPack = {} BY SMT DEF Init, Reported, InPack, Empty
<1>4. Once(KB_Data_Pack) /\ Front(KB_Data_Pack, 0)
  BY SMT DEF Init, Once, Front, Empty, Positions
<1>5. PackInv BY <1>3, <1>4, FS_EmptySet DEF Init, PackInv
<1> QED BY <1>1, <1>2, <1>5

(* Steps of the user, the host and the interrupts, but for the scan.       *)
Outside == \/ PressOrRelease \/ CountTick \/ USART2_IRQHandler
           \/ HostIn \/ SetConfiguration \/ BusReset \/ Halt

Quiet == /\ UNCHANGED <<KB_Scan_Result, kbVars, KB_Data_Pack, us_flag, pc>>
         /\ "torn" \in damage' <=> "torn" \in damage
         /\ "mixed" \in damage' <=> "mixed" \in damage

LEMMA OutsideIsQuiet == Outside => Quiet
BY SMT DEF Outside, Quiet, PressOrRelease, CountTick, USART2_IRQHandler, HostIn, SetConfiguration,
           BusReset, Halt, scanVars, kbVars, usVars, epVars, hostVars

LEMMA QuietKeeps == LoopInv /\ PackInv /\ Quiet => LoopInv' /\ PackInv'
<1> SUFFICES ASSUME LoopInv, PackInv, Quiet PROVE LoopInv' /\ PackInv'
  OBVIOUS
<1> USE DEF Quiet, kbVars
<1>1. LoopInv' BY DEF LoopInv
<1>2. Reported' = Reported /\ InPack' = InPack BY DEF Reported, InPack
<1>3. PackInv' BY <1>2 DEF PackInv, Once, Front
<1> QED BY <1>1, <1>3

-----------------------------------------------------------------------------
(* Every step keeps the types.                                             *)

LEMMA TypesStep ==
  ASSUME KMVarTypes, LoopInv, [Next]_vars
  PROVE  KMVarTypes'
<1> USE ConstantsAreNumbers DEF KMVarTypes
<1>0. InPack \subseteq Keys \cup Bytes BY SMT DEF InPack, Positions
<1>1. CASE Outside
  <2> USE DEF scanVars, kbVars, usVars, epVars, hostVars
  <2>1. CASE PressOrRelease BY <2>1, SMT DEF PressOrRelease
  <2>2. CASE CountTick BY <2>2, SMT DEF CountTick
  <2>3. CASE USART2_IRQHandler BY <2>3, SMT DEF USART2_IRQHandler
  <2>4. CASE HostIn BY <2>4, SMT DEF HostIn
  <2>5. CASE SetConfiguration BY <2>5, SMT DEF SetConfiguration
  <2>6. CASE BusReset BY <2>6, SMT DEF BusReset
  <2>7. CASE Halt BY <2>7, SMT DEF Halt
  <2> QED BY <1>1, <2>1, <2>2, <2>3, <2>4, <2>5, <2>6, <2>7 DEF Outside
<1>2. CASE KB_Scan
  BY <1>2, SMT DEF KB_Scan, kbVars, usVars, epVars, hostVars
<1>3. CASE KbTest \/ KbSend \/ UsTest \/ UsSend
  <2> USE DEF scanVars, kbVars, usVars, epVars, hostVars
  <2>1. CASE KbTest BY <2>1, SMT DEF KbTest
  <2>2. CASE KbSend BY <2>2, SMT DEF KbSend, KbRefused, Load
  <2>3. CASE UsTest BY <2>3, SMT DEF UsTest
  <2>4. CASE UsSend BY <2>4, SMT DEF UsSend, Load
  <2> QED BY <1>3, <2>1, <2>2, <2>3, <2>4
<1>4. CASE KbBit BY <1>4, SMT DEF KbBit, Next_i, LoopInv, scanVars, usVars, epVars, hostVars
<1>5. CASE KbPressed
  <2>1. i \in Keys BY <1>5 DEF KbPressed
  <2>2. KB_Data_Pack' \in [Positions -> {0} \cup Keys \cup Bytes] BY <1>5, <2>1 DEF KbPressed
  <2> QED BY <1>5, <2>2, SMT DEF KbPressed, Next_i, LoopInv, scanVars, usVars, epVars, hostVars
<1>6. CASE KbReleased
  <2>1. KB_Data_Pack' \in [Positions -> {0} \cup Keys \cup Bytes]
    BY <1>6, SMT DEF KbReleased, ShiftAt, Positions
  <2> QED BY <1>6, <2>1, SMT DEF KbReleased, Next_i, LoopInv, scanVars, usVars, epVars, hostVars
<1>7. CASE KbLast BY <1>7, SMT DEF KbLast, Healed, scanVars, usVars, epVars, hostVars
<1>8. CASE Arm BY <1>8, <1>0, SMT DEF Arm, scanVars, kbVars, usVars, hostVars
<1>9. CASE UsStore
  BY <1>9, SMT DEF UsStore, Empty, Positions, scanVars, kbVars, epVars, hostVars
<1>10. CASE UsDelay BY <1>10, SMT DEF UsDelay, Empty, Positions, scanVars, kbVars, epVars, hostVars
<1>11. CASE UsRelease
  <2>1. damage' \in {damage, damage \ {"mixed"}} BY <1>11 DEF UsRelease, Healed, epVars
  <2> QED BY <1>11, <2>1, SMT DEF UsRelease, UsRefused, Load, scanVars, kbVars, epVars, hostVars
<1>12. CASE UNCHANGED vars
  BY <1>12 DEF vars, scanVars, kbVars, usVars, epVars, hostVars
<1> QED BY <1>1, <1>2, <1>3, <1>4, <1>5, <1>6, <1>7, <1>8, <1>9, <1>10, <1>11, <1>12
        DEF Next, Main, Outside

-----------------------------------------------------------------------------
(* The steps of the main loop, and the scan that comes between them.       *)

LEMMA LoopStep ==
  ASSUME KMVarTypes, LoopInv, KB_Scan \/ Main
  PROVE  LoopInv'
<1> USE ConstantsAreNumbers DEF LoopInv
<1> USE DEF scanVars, kbVars, usVars
<1>1. CASE KB_Scan BY <1>1, SMT DEF KB_Scan
<1>2. CASE KbTest BY <1>2, SMT DEF KbTest
<1>3. CASE KbBit BY <1>3, SMT DEF KbBit, Next_i, KMVarTypes
<1>4. CASE KbPressed BY <1>4, SMT DEF KbPressed, Next_i, KMVarTypes
<1>5. CASE KbReleased BY <1>5, SMT DEF KbReleased, Next_i, KMVarTypes
<1>6. CASE KbLast BY <1>6, SMT DEF KbLast, Healed
<1>7. CASE KbSend BY <1>7, SMT DEF KbSend
<1>8. CASE Arm BY <1>8, SMT DEF Arm
<1>9. CASE UsTest BY <1>9, SMT DEF UsTest
<1>10. CASE UsStore BY <1>10, SMT DEF UsStore
<1>11. CASE UsSend BY <1>11, SMT DEF UsSend
<1>12. CASE UsDelay BY <1>12, SMT DEF UsDelay
<1>13. CASE UsRelease BY <1>13, SMT DEF UsRelease, UsRefused
<1> QED BY <1>1, <1>2, <1>3, <1>4, <1>5, <1>6, <1>7, <1>8, <1>9, <1>10, <1>11, <1>12, <1>13
        DEF Main

(* A scan changes no bit the loop has passed, or the report is torn.       *)
LEMMA ScanKeepsPack ==
  ASSUME KMVarTypes, LoopInv, PackInv, KB_Scan
  PROVE  PackInv'
<1> SUFFICES ASSUME "torn" \notin damage'
             PROVE  PackInv'
  BY DEF PackInv
<1> USE ConstantsAreNumbers
<1>0. UNCHANGED <<KB_Scan_Last_Result, i, key_cnt, KB_Data_Pack, us_flag, pc, damage>>
      /\ "torn" \notin damage /\ KB_Scan_Result' = pins
      /\ Changed(KB_Scan_Result, KB_Scan_Result') \cap Passed = {}
  BY DEF KB_Scan, kbVars, usVars
<1>1. \A k \in Passed : k \in KB_Scan_Result' <=> k \in KB_Scan_Result
  BY <1>0 DEF Changed
<1>2. pc \in {"bit", "apply", "last"} => 1 .. i - 1 \subseteq Passed
  BY SMT DEF Passed, LoopInv, Keys
<1>3. pc = "apply" => i \in Passed BY SMT DEF Passed, LoopInv
<1>4. Reported' = Reported /\ InPack' = InPack BY <1>0, <1>1, <1>2 DEF Reported, InPack
<1>5. pc = "apply" => (i \in KB_Scan_Result') # (i \in KB_Scan_Last_Result)
  BY <1>0, <1>1, <1>3 DEF PackInv
<1> QED BY <1>0, <1>4, <1>5 DEF PackInv, Once, Front

(* Steps that leave the report and what it stands for alone.               *)
SamePack == /\ UNCHANGED <<key_cnt, KB_Data_Pack>> /\ Reported' = Reported
            /\ "torn" \in damage' <=> "torn" \in damage
            /\ us_flag' \in {0, 3} => us_flag \in {0, 3}
            /\ "mixed" \notin damage' => "mixed" \notin damage
            /\ pc' = "apply" => (i' \in KB_Scan_Result') # (i' \in KB_Scan_Last_Result')

LEMMA SamePackKeeps == PackInv /\ SamePack => PackInv'
BY DEF PackInv, SamePack, InPack, Once, Front

(* What is reported before and while the loop looks at bit i.              *)
LEMMA ReportedAt ==
  ASSUME KMVarTypes
  PROVE  /\ Reported \subseteq Keys
         /\ pc \notin {"bit", "apply", "last"} => Reported = KB_Scan_Last_Result
         /\ pc \in {"bit", "apply"} => (i \in Reported <=> i \in KB_Scan_Last_Result)
<1> QED BY SMT DEF KMVarTypes, Reported

LEMMA SamePackSteps ==
  ASSUME KMVarTypes, LoopInv, PackInv,
         KbTest \/ KbBit \/ KbSend \/ Arm \/ UsTest \/ UsSend
  PROVE  SamePack
<1> USE ConstantsAreNumbers DEF scanVars, kbVars, usVars
<1>1. CASE KbTest
  <2>1. Reported' = Reported BY <1>1, SMT DEF KbTest, LoopInv, Reported, KMVarTypes
  <2> QED BY <1>1, <2>1 DEF KbTest, SamePack
<1>2. CASE KbBit
  <2>1. CASE (i \in KB_Scan_Result) # (i \in KB_Scan_Last_Result)
    <3>1. pc' = "apply" /\ i' = i BY <1>2, <2>1 DEF KbBit
    <3>2. Reported' = Reported BY <1>2, <3>1 DEF KbBit, Reported
    <3> QED BY <1>2, <2>1, <3>1, <3>2 DEF KbBit, SamePack
  <2>2. CASE (i \in KB_Scan_Result) <=> (i \in KB_Scan_Last_Result)
    <3>1. i' = i + 1 /\ pc' \in {"bit", "last"} BY <1>2, <2>2 DEF KbBit, Next_i
    <3>2. i \in 1 .. NKeys /\ pc = "bit" BY <1>2 DEF KbBit, LoopInv
    <3>3. 1 .. i' - 1 = (1 .. i - 1) \cup {i} BY <3>1, <3>2, SMT
    <3>4. Reported' = Reported BY <1>2, <2>2, <3>1, <3>2, <3>3 DEF KbBit, Reported
    <3> QED BY <1>2, <3>1, <3>4 DEF KbBit, SamePack
  <2> QED BY <2>1, <2>2
<1>3. CASE KbSend
  <2>1. Reported' = Reported BY <1>3 DEF KbSend, Reported
  <2> QED BY <1>3, <2>1 DEF KbSend, SamePack
<1>4. CASE Arm
  <2>1. Reported' = Reported BY <1>4 DEF Arm, Reported
  <2> QED BY <1>4, <2>1 DEF Arm, SamePack
<1>5. CASE UsTest
  <2>1. Reported' = Reported BY <1>5 DEF UsTest, Reported
  <2> QED BY <1>5, <2>1 DEF UsTest, SamePack
<1>6. CASE UsSend
  <2>1. Reported' = Reported BY <1>6 DEF UsSend, Reported
  <2> QED BY <1>6, <2>1, SMT DEF UsSend, SamePack
<1> QED BY <1>1, <1>2, <1>3, <1>4, <1>5, <1>6

(* An applied bit is accounted for from then on.                           *)
LEMMA Applied ==
  ASSUME KMVarTypes, LoopInv, pc = "apply", Next_i,
         UNCHANGED <<KB_Scan_Result, KB_Scan_Last_Result>>
  PROVE  /\ i \in KB_Scan_Result => Reported' = Reported \cup {i}
         /\ i \notin KB_Scan_Result => Reported' = Reported \ {i}
         /\ pc' # "apply"
<1> USE ConstantsAreNumbers
<1>1. i' = i + 1 /\ pc' \in {"bit", "last"} BY DEF Next_i
<1>2. i \in 1 .. NKeys BY DEF LoopInv
<1>3. 1 .. i' - 1 = (1 .. i - 1) \cup {i} /\ i \notin 1 .. i - 1 BY <1>1, <1>2, SMT
<1> QED BY <1>1, <1>3 DEF Reported

LEMMA PackIsNumbers ==
  ASSUME KMVarTypes
  PROVE  KB_Data_Pack \in [Positions -> Nat] /\ InPack = Image(KB_Data_Pack)
<1>1. {0} \cup Keys \cup Bytes \subseteq Nat BY ConstantsAreNumbers, SMT DEF Keys
<1> QED BY <1>1 DEF KMVarTypes, InPack, Image, Positions

LEMMA PressedKeepsPack ==
  ASSUME KMVarTypes, LoopInv, PackInv, KbPressed
  PROVE  PackInv'
<1> SUFFICES ASSUME "torn" \notin damage'
             PROVE  PackInv'
  BY DEF PackInv
<1>0. pc = "apply" /\ i \in KB_Scan_Result /\ Next_i
      /\ UNCHANGED <<KB_Scan_Result, KB_Scan_Last_Result, us_flag, damage>>
      /\ KB_Data_Pack' = [KB_Data_Pack EXCEPT ![key_cnt] = i] /\ key_cnt' = key_cnt + 1
  BY DEF KbPressed, scanVars, usVars
<1>1. i \notin KB_Scan_Last_Result /\ key_cnt = Cardinality(Reported)
  BY <1>0 DEF PackInv
<1>2. Reported' = Reported \cup {i} /\ pc' # "apply" BY <1>0, Applied
<1>3. i \notin Reported /\ Reported \subseteq Keys BY <1>0, <1>1, ReportedAt
<1>4. i \in Keys BY <1>0 DEF KMVarTypes
<1>5. Cardinality(Reported') = key_cnt + 1
  BY <1>1, <1>2, <1>3, KeysAreFinite, FS_AddElement
<1>6. key_cnt \in Positions
  BY <1>1, <1>3, KeysAreFinite, ConstantsAreNumbers, SMT DEF Positions
<1>7. i \in Nat /\ i # 0 BY <1>4, ConstantsAreNumbers, SMT DEF Keys
<1>8. InPack' = Image(KB_Data_Pack') BY DEF InPack, Image, Positions
<1>9. ASSUME us_flag \in {0, 3}
      PROVE  /\ InPack' \subseteq Reported' /\ Once(KB_Data_Pack')
             /\ "mixed" \notin damage =>
                  InPack' = Reported' /\ Front(KB_Data_Pack', key_cnt + 1)
  <2>1. Once(KB_Data_Pack) /\ InPack \subseteq Reported BY <1>0, <1>9 DEF PackInv
  <2>2. i \notin Image(KB_Data_Pack) BY <2>1, <1>3, PackIsNumbers
  <2>3. /\ Once(KB_Data_Pack') /\ Image(KB_Data_Pack') \subseteq Image(KB_Data_Pack) \cup {i}
        /\ Front(KB_Data_Pack, key_cnt) =>
             /\ Image(KB_Data_Pack') = Image(KB_Data_Pack) \cup {i}
             /\ Front(KB_Data_Pack', key_cnt + 1)
    BY <1>0, <2>1, <2>2, <1>6, <1>7, PackIsNumbers, PutAdds
  <2>4. "mixed" \notin damage => InPack = Reported /\ Front(KB_Data_Pack, key_cnt)
    BY <1>0 DEF PackInv
  <2> QED BY <2>1, <2>3, <2>4, <1>2, <1>8, PackIsNumbers
<1>10. "mixed" \notin damage => us_flag \in {0, 3} BY DEF LoopInv
<1> QED BY <1>0, <1>2, <1>5, <1>9, <1>10 DEF PackInv

LEMMA ReleasedKeepsPack ==
  ASSUME KMVarTypes, LoopInv, PackInv, KbReleased
  PROVE  PackInv'
<1> SUFFICES ASSUME "torn" \notin damage'
             PROVE  PackInv'
  BY DEF PackInv
<1>0. /\ pc = "apply" /\ i \notin KB_Scan_Result /\ Next_i
      /\ UNCHANGED <<KB_Scan_Result, KB_Scan_Last_Result, us_flag, damage>>
      /\ key_cnt' = CountDown
      /\ KB_Data_Pack' = IF Found(i) = {} THEN [KB_Data_Pack EXCEPT ![ResetSlot] = 0]
                         ELSE ShiftAt(First(Found(i)))
  BY DEF KbReleased, scanVars, usVars
<1>1. i \in KB_Scan_Last_Result /\ key_cnt = Cardinality(Reported) BY <1>0 DEF PackInv
<1>2. Reported' = Reported \ {i} /\ pc' # "apply" BY <1>0, Applied
<1>3. i \in Reported /\ Reported \subseteq Keys BY <1>0, <1>1, ReportedAt
<1>4. i \in Nat /\ i # 0 BY <1>3, ConstantsAreNumbers, SMT DEF Keys
<1>5. /\ Cardinality(Reported') = key_cnt - 1
      /\ key_cnt \in 0 .. NKeys /\ Cardinality(Reported') \in 0 .. NKeys
  BY <1>1, <1>2, <1>3, KeysAreFinite, FS_RemoveElement
<1>6. key_cnt > 0 /\ key_cnt' = key_cnt - 1
  BY <1>0, <1>5, ConstantsAreNumbers, SMT DEF CountDown
<1>7. key_cnt \in Positions BY <1>5, ConstantsAreNumbers, SMT DEF Positions
<1>8. InPack' = Image(KB_Data_Pack') BY DEF InPack, Image, Positions
<1>9. ASSUME us_flag \in {0, 3}
      PROVE  /\ InPack' \subseteq Reported' /\ Once(KB_Data_Pack')
             /\ "mixed" \notin damage =>
                  InPack' = Reported' /\ Front(KB_Data_Pack', key_cnt - 1)
  <2>1. Once(KB_Data_Pack) /\ InPack \subseteq Reported BY <1>0, <1>9 DEF PackInv
  <2>2. "mixed" \notin damage => InPack = Reported /\ Front(KB_Data_Pack, key_cnt)
    BY <1>0 DEF PackInv
  <2>3. CASE Found(i) = {}
    <3>1. i \notin InPack BY <2>3, ImageMember, PackIsNumbers DEF Found, Positions
    <3>2. /\ Once(KB_Data_Pack') /\ Image(KB_Data_Pack') \subseteq Image(KB_Data_Pack)
      BY <1>0, <2>1, <2>3, PackIsNumbers, ZeroKeeps, ConstantsAreNumbers
    <3> QED BY <2>1, <2>2, <3>1, <3>2, <1>2, <1>3, <1>8, PackIsNumbers
  <2>4. CASE Found(i) # {}
    <3> DEFINE j == First(Found(i))
    <3>1. PICK t \in Positions : KB_Data_Pack[t] = i BY <2>4 DEF Found, Positions
    <3>2. Found(i) = {t} BY <3>1, <2>1, <1>4 DEF Found, Once, Positions
    <3>3. t <= t BY <3>1, ConstantsAreNumbers, SMT DEF Positions
    <3>4. j = t BY <3>2, <3>3 DEF First
    <3>5. KB_Data_Pack' = Shifted(KB_Data_Pack, t)
      BY <1>0, <2>4, <3>4 DEF ShiftAt, Shifted, Positions
    <3>6. /\ Once(KB_Data_Pack') /\ Image(KB_Data_Pack') = Image(KB_Data_Pack) \ {i}
          /\ \A n \in Positions : n > 0 /\ Front(KB_Data_Pack, n) => Front(KB_Data_Pack', n - 1)
      BY <3>1, <3>5, <2>1, <1>4, PackIsNumbers, ShiftRemoves
    <3>7. Front(KB_Data_Pack, key_cnt) => Front(KB_Data_Pack', key_cnt - 1)
      BY <3>6, <1>6, <1>7
    <3> QED BY <2>1, <2>2, <3>6, <3>7, <1>2, <1>8, PackIsNumbers
  <2> QED BY <2>3, <2>4
<1>10. "mixed" \notin damage => us_flag \in {0, 3} BY DEF LoopInv
<1> QED BY <1>0, <1>2, <1>5, <1>6, <1>9, <1>10 DEF PackInv

(* A report in which no key can be is empty, and right again.              *)
LEMMA EmptyReport ==
  ASSUME NEW f, Image(f) = {}
  PROVE  Front(f, 0)
<1>1. \A s \in Positions : f[s] = 0 BY ImageMember
<1> QED BY <1>1, ConstantsAreNumbers, SMT DEF Front, Positions

LEMMA LastKeepsPack ==
  ASSUME KMVarTypes, LoopInv, PackInv, KbLast
  PROVE  PackInv'
<1> SUFFICES ASSUME "torn" \notin damage'
             PROVE  PackInv'
  BY DEF PackInv
<1>0. /\ pc = "last" /\ pc' = "send" /\ KB_Scan_Last_Result' = KB_Scan_Result
      /\ UNCHANGED <<KB_Scan_Result, key_cnt, KB_Data_Pack, us_flag>>
      /\ damage' = Healed(KB_Scan_Result, us_flag)
  BY DEF KbLast, scanVars, usVars
<1>1. i = NKeys + 1 /\ 1 .. i - 1 = Keys BY <1>0, ConstantsAreNumbers, SMT DEF LoopInv, Keys
<1>2. Reported = KB_Scan_Result BY <1>0, <1>1 DEF Reported, KMVarTypes
<1>3. Reported' = KB_Scan_Result BY <1>0 DEF Reported
<1>4. "torn" \notin damage BY <1>0 DEF Healed
<1>5. ASSUME "mixed" \notin damage', "mixed" \in damage
      PROVE  InPack = Reported /\ Front(KB_Data_Pack, key_cnt)
  <2>1. KB_Scan_Result = {} /\ us_flag = 0 BY <1>0, <1>5 DEF Healed
  <2>2. Reported = {} /\ InPack = {} /\ key_cnt = 0
    BY <2>1, <1>2, <1>4, FS_EmptySet DEF PackInv
  <2> QED BY <2>2, EmptyReport, PackIsNumbers
<1> QED BY <1>0, <1>2, <1>3, <1>4, <1>5 DEF PackInv, InPack

LEMMA StoreKeepsPack ==
  ASSUME KMVarTypes, LoopInv, PackInv, UsStore
  PROVE  PackInv'
<1>0. /\ pc = "store" /\ pc' = "kb" /\ us_flag' = 1 /\ damage' = damage \cup {"mixed"}
      /\ UNCHANGED <<KB_Scan_Last_Result, key_cnt>>
  BY DEF UsStore, kbVars
<1>1. Reported' = Reported BY <1>0 DEF Reported, UsStore, scanVars, kbVars
<1> QED BY <1>0, <1>1 DEF PackInv

LEMMA DelayKeepsPack ==
  ASSUME KMVarTypes, LoopInv, PackInv, UsDelay
  PROVE  PackInv'
<1>0. /\ pc = "us" /\ pc' = "kb" /\ us_flag = 2
      /\ UNCHANGED <<KB_Scan_Last_Result, key_cnt, damage>>
      /\ \/ KB_Data_Pack' = Empty /\ us_flag' = 3
         \/ us_flag' = 2
  BY DEF UsDelay, kbVars
<1>1. Reported' = Reported BY <1>0 DEF Reported, UsDelay, scanVars, kbVars
<1>2. "mixed" \in damage' BY <1>0 DEF LoopInv
<1>3. CASE us_flag' = 3
  <2>1. KB_Data_Pack' = Empty BY <1>0, <1>3
  <2>2. \A s \in Positions : KB_Data_Pack'[s] = 0 BY <2>1 DEF Empty, Positions
  <2>3. InPack' = {} /\ Once(KB_Data_Pack') BY <2>2 DEF InPack, Once, Positions
  <2> QED BY <1>0, <1>1, <1>2, <2>3 DEF PackInv
<1>4. CASE us_flag' = 2 BY <1>0, <1>1, <1>2, <1>4 DEF PackInv
<1> QED BY <1>0, <1>3, <1>4

LEMMA ReleaseKeepsPack ==
  ASSUME KMVarTypes, LoopInv, PackInv, UsRelease
  PROVE  PackInv'
<1> SUFFICES ASSUME "torn" \notin damage'
             PROVE  PackInv'
  BY DEF PackInv
<1>0. /\ pc = "us" /\ pc' \in {"usArm", "kb"} /\ us_flag = 3
      /\ UNCHANGED <<KB_Scan_Last_Result, key_cnt, KB_Data_Pack>>
      /\ damage' \in {damage, Healed(KB_Scan_Last_Result, 0)}
  BY DEF UsRelease, kbVars
<1>1. Reported' = Reported /\ Reported = KB_Scan_Last_Result
  BY <1>0 DEF Reported, UsRelease, scanVars, kbVars
<1>2. "torn" \notin damage BY <1>0 DEF Healed
<1>3. key_cnt = Cardinality(Reported) /\ InPack \subseteq Reported /\ Once(KB_Data_Pack)
  BY <1>0, <1>2 DEF PackInv
<1>4. ASSUME "mixed" \notin damage'
      PROVE  InPack = Reported /\ Front(KB_Data_Pack, key_cnt)
  <2>1. KB_Scan_Last_Result = {} BY <1>0, <1>4 DEF Healed, LoopInv
  <2>2. Reported = {} /\ InPack = {} /\ key_cnt = 0
    BY <2>1, <1>1, <1>3, FS_EmptySet
  <2> QED BY <2>2, EmptyReport, PackIsNumbers
<1>5. InPack' = InPack BY <1>0 DEF InPack
<1> QED BY <1>0, <1>1, <1>3, <1>4, <1>5 DEF PackInv

-----------------------------------------------------------------------------
(* Together.                                                               *)

LEMMA PackStep ==
  ASSUME KMVarTypes, LoopInv, PackInv, KB_Scan \/ Main
  PROVE  PackInv'
<1>1. CASE KbTest \/ KbBit \/ KbSend \/ Arm \/ UsTest \/ UsSend
  BY <1>1, SamePackSteps, SamePackKeeps
<1> QED BY <1>1, ScanKeepsPack, PressedKeepsPack, ReleasedKeepsPack, LastKeepsPack,
           StoreKeepsPack, DelayKeepsPack, ReleaseKeepsPack DEF Main

LEMMA KMStep ==
  ASSUME KMVarTypes, LoopInv, PackInv, [Next]_vars
  PROVE  KMVarTypes' /\ LoopInv' /\ PackInv'
<1>1. KMVarTypes' BY TypesStep
<1>2. CASE Outside BY <1>1, <1>2, OutsideIsQuiet, QuietKeeps
<1>3. CASE KB_Scan \/ Main BY <1>1, <1>3, LoopStep, PackStep
<1>4. CASE UNCHANGED vars
  <2>1. Quiet BY <1>4 DEF vars, Quiet, scanVars, kbVars, usVars, epVars, hostVars
  <2> QED BY <1>1, <2>1, QuietKeeps
<1> QED BY <1>2, <1>3, <1>4 DEF Next, Outside

LEMMA PackImpliesReport ==
  ASSUME KMVarTypes, LoopInv, PackInv
  PROVE  CountInRange /\ ReportIsKeys
<1>1. CountInRange BY ReportedAt, KeysAreFinite DEF PackInv, CountInRange
<1>2. ReportIsKeys BY DEF PackInv, ReportIsKeys, Front, Positions
<1> QED BY <1>1, <1>2

(* In every reachable state of the keyboard, whatever the user, the timer, *)
(* the USART and the host do, the variables keep their types, and the      *)
(* counter that indexes the report stays in range unless a scan result     *)
(* changed under the loop of KB_Scan_Handle.                               *)
THEOREM KMTypeCorrect == Spec => []KMTypeOK
<1>1. KMVarTypes /\ LoopInv /\ PackInv => KMTypeOK BY PackImpliesReport, TypesSplit
<1> QED BY KMInit, KMStep, <1>1, PTL DEF Spec

(* The report names the pressed keys, each once and without gaps, unless a *)
(* scan result changed under the loop or the USART used the report; and    *)
(* the counter is their number.                                            *)
THEOREM ReportCorrect == Spec => []ReportIsKeys
<1>1. KMVarTypes /\ LoopInv /\ PackInv => ReportIsKeys BY PackImpliesReport
<1> QED BY KMInit, KMStep, <1>1, PTL DEF Spec

=============================================================================
