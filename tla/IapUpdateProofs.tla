-------------------------- MODULE IapUpdateProofs --------------------------
(***************************************************************************)
(* Proofs about IapUpdate for every set of images, page size, number of    *)
(* pages and bound on interruptions.                                       *)
(***************************************************************************)
EXTENDS IapUpdate, SequenceTheorems, TLAPS

(* What the step proofs need of the constants, free of products.           *)
LEMMA Constants ==
  /\ FF \in Bytes
  /\ PageSize \in Nat /\ PageSize > 0 /\ ChunkMax \in 1 .. PageSize
  /\ CalPage \in Nat /\ CalPage > 0
  /\ \A f \in Images : f \in Seq(Bytes) /\ Len(f) \in 1 .. CalPage
<1>1. PageSize * AppPages \in Nat /\ PageSize * AppPages > 0
  BY IapAssumption, SMT
<1>2. QED
  BY <1>1, IapAssumption DEF CalPage

(* The image, also when there is none yet.                                 *)
LEMMA ImageFacts ==
  ASSUME IapTypeOK
  PROVE  image \in Seq(Bytes) /\ Len(image) \in Nat /\ Len(image) <= CalPage
<1>1. CASE image \in Images
  BY <1>1, Constants
<1>2. CASE image = <<>>
  BY <1>2, Constants
<1>3. QED
  BY <1>1, <1>2 DEF IapTypeOK

(* What a command takes of the image.                                      *)
LEMMA Piece ==
  ASSUME IapTypeOK, NEW m \in Nat, NEW n \in 1 .. ChunkMax, m + n <= Len(image)
  PROVE  /\ SubSeq(image, m + 1, m + n) \in Seq(Bytes)
         /\ Len(SubSeq(image, m + 1, m + n)) = n
         /\ \A i \in 1 .. n : SubSeq(image, m + 1, m + n)[i] = image[m + i]
         /\ SubSeq(image, m + 1, m + n) # <<>>
<1>1. n \in Nat /\ n >= 1
  BY Constants
<1>2. /\ Len(SubSeq(image, m + 1, m + n)) = n
      /\ \A i \in 1 .. n : SubSeq(image, m + 1, m + n)[i] = image[m + i]
  BY <1>1, ImageFacts, SMT
<1>3. SubSeq(image, m + 1, m + n) \in Seq(Bytes)
  BY <1>1, ImageFacts, SMT
<1>4. QED
  BY <1>1, <1>2, <1>3

-----------------------------------------------------------------------------
(* Types and the handler's control: who runs, and when the buffer is full. *)
LEMMA InitControl == Init => IapTypeOK /\ Handling
<1> SUFFICES ASSUME Init PROVE IapTypeOK /\ Handling
  OBVIOUS
<1>1. flash \in [Addr -> Bytes]
  <2>1. CASE flash = [a \in Addr |-> FF]
    BY <2>1, Constants
  <2>2. ASSUME NEW f \in Images,
               flash = [a \in Addr |-> IF a < Len(f) THEN f[a + 1] ELSE FF]
        PROVE  flash \in [Addr -> Bytes]
    <3>1. \A a \in Addr : a < Len(f) => f[a + 1] \in Bytes
      BY Constants DEF Addr
    <3>2. QED
      BY <2>2, <3>1, Constants
  <2>3. QED
    BY <2>1, <2>2 DEF Init
<1>2. <<>> \in Seq(Bytes) /\ Len(<<>>) = 0
  OBVIOUS
<1>3. QED
  BY <1>1, <1>2, Constants DEF Init, IapTypeOK, Handling, Session

LEMMA BootControl ==
  ASSUME IapTypeOK, Handling, Boot \/ IAP_2_APP \/ APP_2_IAP
  PROVE  IapTypeOK' /\ Handling'
<1>1. CASE Boot
  <2>1. Buf' = <<>> /\ Len(Buf') = 0 /\ verify' = <<>>
    BY <1>1 DEF Boot, Start
  <2>2. QED
    BY <1>1, <2>1, Constants
    DEF Boot, Start, IapTypeOK, Handling, Session, flashVars, toolVars, pastVars
<1>2. CASE IAP_2_APP
  BY <1>2 DEF IAP_2_APP, IapTypeOK, Handling, Session, flashVars, iapVars, toolVars, pastVars
<1>3. CASE APP_2_IAP
  BY <1>3 DEF APP_2_IAP, IapTypeOK, Handling, Session, flashVars, iapVars, toolVars, pastVars
<1>4. QED
  BY <1>1, <1>2, <1>3

LEMMA PowerLossControl ==
  ASSUME IapTypeOK, Handling, PowerLoss
  PROVE  IapTypeOK' /\ Handling'
<1>1. flash' \in [Addr -> Bytes]
  <2>1. ASSUME NEW c \in [PageAt(Program_addr) -> Bytes],
               flash' = [a \in Addr |-> IF a \in DOMAIN c THEN c[a] ELSE flash[a]]
        PROVE  flash' \in [Addr -> Bytes]
    BY <2>1 DEF IapTypeOK
  <2>2. QED
    BY <2>1 DEF PowerLoss, IapTypeOK
<1>2. marker' \in 0 .. 1 /\ excused' \in 0 .. 1
  BY DEF PowerLoss, IapTypeOK
<1>3. QED
  BY <1>1, <1>2 DEF PowerLoss, IapTypeOK, Handling, Session, iapVars

LEMMA CommandControl ==
  ASSUME IapTypeOK, Handling,
         \/ \E f \in Images : CmdErase(f)
         \/ \E n \in 1 .. ChunkMax : CmdProgram(n) \/ CmdVerify(n)
         \/ CmdEnd
  PROVE  IapTypeOK' /\ Handling'
<1>1. ASSUME NEW f \in Images, CmdErase(f) PROVE IapTypeOK' /\ Handling'
  BY <1>1, Constants
  DEF CmdErase, IapTypeOK, Handling, Session, flashVars, iapVars
<1>2. ASSUME NEW n \in 1 .. ChunkMax, CmdProgram(n) PROVE IapTypeOK' /\ Handling'
  <2>1. /\ sent \in Nat /\ n \in Nat /\ sent + n <= Len(image) /\ sent' = sent + n
        /\ Len(Buf) \in Nat /\ Len(Buf) < PageSize
    BY <1>2, Constants, ImageFacts
    DEF CmdProgram, Command, Sends, IapTypeOK, Handling
  <2>2. Chunk(n) \in Seq(Bytes) /\ Len(Chunk(n)) = n
    BY <2>1, Piece DEF Chunk
  <2>3. Buf' \in Seq(Bytes) /\ Len(Buf') = Len(Buf) + n
    <3>1. Buf \in Seq(Bytes) /\ Buf' = Buf \o Chunk(n)
      BY <1>2 DEF CmdProgram, IapTypeOK
    <3>2. QED
      BY <2>2, <3>1, ConcatProperties
  <2>4. Len(Buf') < PageSize + ChunkMax /\ sent' \in 0 .. Len(image')
    BY <1>2, <2>1, <2>3, Constants, ImageFacts DEF CmdProgram
  <2>5. op' \in {"none", "erase"} /\ (op' = "erase" <=> Len(Buf') >= PageSize)
    BY <1>2 DEF CmdProgram
  <2>6. QED
    BY <1>2, <2>1, <2>3, <2>4, <2>5, Constants
    DEF CmdProgram, Command, IapTypeOK, Handling, Session, flashVars, pastVars
<1>3. ASSUME NEW n \in 1 .. ChunkMax, CmdVerify(n) PROVE IapTypeOK' /\ Handling'
  <2> DEFINE from == IF phase = "program" THEN 0 ELSE sent
  <2>1. /\ from \in Nat /\ n \in Nat /\ from + n <= Len(image)
        /\ sent' = from + n /\ verify' = SubSeq(image, from + 1, from + n)
    BY <1>3, Constants, ImageFacts DEF CmdVerify, IapTypeOK
  <2>2. verify' \in Seq(Bytes) /\ verify' # <<>> /\ sent' \in 0 .. Len(image')
    <3>1. image' = image
      BY <1>3 DEF CmdVerify
    <3> HIDE DEF from
    <3>2. verify' \in Seq(Bytes) /\ verify' # <<>>
      BY <2>1, Piece
    <3>3. QED
      BY <2>1, <3>1, <3>2, ImageFacts
  <2>3. Buf' \in Seq(Bytes) /\
        \/ Len(Buf') = PageSize /\ op' = "erase"
        \/ Buf' = Buf /\ op' = op
    <3>1. CASE Verify_Star_flag = 0 /\ Buf # <<>>
      <4>1. /\ Buf' = [i \in 1 .. PageSize |-> IF i <= Len(Buf) THEN Buf[i] ELSE FF]
            /\ op' = "erase"
        BY <1>3, <3>1 DEF CmdVerify
      <4>2. \A i \in 1 .. PageSize : (IF i <= Len(Buf) THEN Buf[i] ELSE FF) \in Bytes
        BY Constants DEF IapTypeOK
      <4>3. QED
        BY <4>1, <4>2, Constants
    <3>2. CASE ~(Verify_Star_flag = 0 /\ Buf # <<>>)
      BY <1>3, <3>2 DEF CmdVerify, IapTypeOK
    <3>3. QED
      BY <3>1, <3>2
  <2>4. Len(Buf) < PageSize
    BY <1>3 DEF CmdVerify, Command, Handling
  <2>5. Len(Buf') < PageSize + ChunkMax
    BY <2>3, <2>4, Constants DEF IapTypeOK
  <2>6. /\ mode = "iap" /\ op = "none" /\ End_Flag = 0 /\ phase' = "verify"
        /\ Verify_Star_flag' = 1 /\ image \in Images
    BY <1>3 DEF CmdVerify, Command, Handling, Session
  <2>7. UNCHANGED <<flashVars, mode, Program_addr, Verify_addr, End_Flag,
                    image, clean, sessions, pastVars, bounds>>
    BY <1>3 DEF CmdVerify
  <2>8. IapTypeOK'
    BY <2>2, <2>3, <2>5, <2>6, <2>7 DEF IapTypeOK, flashVars, pastVars
  <2>9. Handling'
    BY <2>3, <2>4, <2>6, <2>7, Constants DEF Handling, Session
  <2>10. QED
    BY <2>8, <2>9
<1>4. CASE CmdEnd
  BY <1>4 DEF CmdEnd, Command, IapTypeOK, Handling, Session, flashVars
<1>5. QED
  BY <1>1, <1>2, <1>3, <1>4

LEMMA FlashControl ==
  ASSUME IapTypeOK, Handling, Compare \/ Erase \/ Write
  PROVE  IapTypeOK' /\ Handling'
<1>1. CASE Compare
  <2>1. /\ phase' \in {phase, "end", "refused"}
        /\ phase' # phase => phase = "verify"
    BY <1>1 DEF Compare
  <2>2. Verify_addr' \in Nat /\ verify' = <<>>
    BY <1>1 DEF Compare, IapTypeOK
  <2>3. /\ mode = "iap" /\ op = "none"
        /\ UNCHANGED <<flashVars, mode, op, Program_addr, Buf, Verify_Star_flag, End_Flag,
                       image, sent, clean, sessions, pastVars, bounds>>
    BY <1>1 DEF Compare
  <2>4. QED
    BY <2>1, <2>2, <2>3 DEF IapTypeOK, Handling, Session, flashVars, pastVars
<1>2. CASE Erase
  <2>1. flash' \in [Addr -> Bytes]
    BY <1>2, Constants DEF Erase, IapTypeOK
  <2>2. QED
    BY <1>2, <2>1 DEF Erase, IapTypeOK, Handling, Session, iapVars, toolVars, pastVars
<1>3. CASE Write
  <2>1. Len(Buf) >= PageSize /\ mode = "iap" /\ End_Flag = 0 /\ Len(Buf) \in Nat
    BY <1>3 DEF Write, Handling, IapTypeOK
  <2>2. flash' \in [Addr -> Bytes]
    <3>1. \A a \in PageAt(Program_addr) : Buf[a - Program_addr + 1] \in Bytes
      BY <2>1, Constants DEF PageAt, Addr, IapTypeOK
    <3>2. QED
      BY <1>3, <3>1 DEF Write, IapTypeOK
  <2>3. Buf' \in Seq(Bytes) /\ Len(Buf') = Len(Buf) - PageSize
    BY <1>3, <2>1, Constants DEF Write, IapTypeOK
  <2>4. Len(Buf') < PageSize
    BY <2>1, <2>3, Constants DEF IapTypeOK
  <2>5. Program_addr' \in Nat
    BY <1>3, Constants DEF Write, IapTypeOK
  <2>6. Len(Buf') < PageSize + ChunkMax
    BY <2>3, <2>4, Constants
  <2>7. QED
    BY <1>3, <2>1, <2>2, <2>3, <2>4, <2>5, <2>6
    DEF Write, IapTypeOK, Handling, Session, toolVars, pastVars
<1>4. QED
  BY <1>1, <1>2, <1>3

LEMMA MarkerControl ==
  ASSUME IapTypeOK, Handling, CmdJumpIap \/ EraseCal \/ WriteCal \/ Abort
  PROVE  IapTypeOK' /\ Handling'
<1>1. CASE CmdJumpIap
  BY <1>1 DEF CmdJumpIap, IapTypeOK, Handling, Session, flashVars, iapVars, pastVars
<1>2. CASE EraseCal
  BY <1>2 DEF EraseCal, IapTypeOK, Handling, Session, iapVars, toolVars, pastVars
<1>3. CASE WriteCal
  BY <1>3 DEF WriteCal, IapTypeOK, Handling, Session, iapVars, toolVars, pastVars
<1>4. CASE Abort
  BY <1>4 DEF Abort, IapTypeOK, Handling, Session, flashVars, iapVars, pastVars
<1>5. QED
  BY <1>1, <1>2, <1>3, <1>4

LEMMA StutterControl ==
  ASSUME IapTypeOK, Handling, UNCHANGED vars
  PROVE  IapTypeOK' /\ Handling'
BY DEF vars, IapTypeOK, Handling, Session, flashVars, iapVars, toolVars, pastVars

(* The steps, by the actions they come from.                               *)
LEMMA StepKinds ==
  ASSUME [Next]_vars
  PROVE  \/ Boot \/ IAP_2_APP \/ APP_2_IAP
         \/ PowerLoss
         \/ \E f \in Images : CmdErase(f)
         \/ \E n \in 1 .. ChunkMax : CmdProgram(n) \/ CmdVerify(n)
         \/ CmdEnd
         \/ Compare \/ Erase \/ Write
         \/ CmdJumpIap \/ EraseCal \/ WriteCal \/ Abort
         \/ UNCHANGED vars
BY DEF Next, Device, Tool

LEMMA ControlStep ==
  ASSUME IapTypeOK, Handling, [Next]_vars
  PROVE  IapTypeOK' /\ Handling'
<1>1. CASE Boot \/ IAP_2_APP \/ APP_2_IAP
  BY <1>1, BootControl
<1>2. CASE PowerLoss
  BY <1>2, PowerLossControl
<1>3. CASE \/ \E f \in Images : CmdErase(f)
           \/ \E n \in 1 .. ChunkMax : CmdProgram(n) \/ CmdVerify(n)
           \/ CmdEnd
  BY <1>3, CommandControl
<1>4. CASE Compare \/ Erase \/ Write
  BY <1>4, FlashControl
<1>5. CASE CmdJumpIap \/ EraseCal \/ WriteCal \/ Abort
  BY <1>5, MarkerControl
<1>6. CASE UNCHANGED vars
  BY <1>6, StutterControl
<1>7. QED
  BY <1>1, <1>2, <1>3, <1>4, <1>5, <1>6, StepKinds

-----------------------------------------------------------------------------
(* What a clean session has done to flash.                                 *)
LEMMA InitClean == Init => CleanSession
BY DEF Init, CleanSession, Session

(* Steps outside a session, and those that open one or end it.             *)
LEMMA OutsideClean ==
  ASSUME IapTypeOK, Handling, CleanSession,
         \/ Boot \/ IAP_2_APP \/ APP_2_IAP \/ PowerLoss
         \/ \E f \in Images : CmdErase(f)
         \/ CmdEnd \/ CmdJumpIap \/ EraseCal \/ WriteCal \/ Abort
  PROVE  CleanSession'
<1>1. CASE Boot \/ IAP_2_APP \/ APP_2_IAP
  BY <1>1 DEF Boot, IAP_2_APP, APP_2_IAP, Handling, CleanSession, Session, toolVars
<1>2. CASE PowerLoss
  BY <1>2 DEF PowerLoss, CleanSession, Session
<1>3. ASSUME NEW f \in Images, CmdErase(f) PROVE CleanSession'
  <2>1. CASE Initialised
    <3>1. /\ Program_addr' = 0 /\ Buf' = <<>> /\ Verify_Star_flag' = 0 /\ verify' = <<>>
          /\ sent' = 0 /\ phase' = "program"
      BY <1>3, <2>1 DEF CmdErase, Initialised, iapVars
    <3>2. Programming'
      BY <3>1 DEF Programming, Programmed, Addr
    <3>3. QED
      BY <3>1, <3>2 DEF CleanSession
  <2>2. CASE ~Initialised
    BY <1>3, <2>2 DEF CmdErase, CleanSession
  <2>3. QED
    BY <2>1, <2>2
<1>4. CASE CmdEnd \/ CmdJumpIap \/ Abort
  BY <1>4 DEF CmdEnd, CmdJumpIap, Abort, CleanSession, Session
<1>5. CASE EraseCal \/ WriteCal
  BY <1>5 DEF EraseCal, WriteCal, Handling, CleanSession, Session, toolVars
<1>6. QED
  BY <1>1, <1>2, <1>3, <1>4, <1>5

LEMMA ProgramClean ==
  ASSUME IapTypeOK, Handling, CleanSession,
         NEW n \in 1 .. ChunkMax, CmdProgram(n)
  PROVE  CleanSession'
<1> SUFFICES ASSUME clean' = 1 PROVE CleanSession'
  BY DEF CleanSession
<1>1. /\ phase = "program" /\ phase' = "program" /\ clean = 1
      /\ UNCHANGED <<flash, Program_addr, Verify_Star_flag, verify, image>>
  BY DEF CmdProgram, Command, flashVars
<1>2. Programming
  BY <1>1 DEF CleanSession, Session
<1>3. /\ sent \in Nat /\ n \in Nat /\ sent + n <= Len(image) /\ sent' = sent + n
      /\ Program_addr \in Nat /\ Len(Buf) \in Nat
  BY Constants, ImageFacts DEF CmdProgram, Sends, IapTypeOK
<1>4. /\ Chunk(n) \in Seq(Bytes) /\ Len(Chunk(n)) = n
      /\ \A i \in 1 .. n : Chunk(n)[i] = image[sent + i]
  BY <1>3, Piece DEF Chunk
<1>5. /\ Len(Buf') = Len(Buf) + n
      /\ \A i \in 1 .. Len(Buf) + n :
           Buf'[i] = IF i <= Len(Buf) THEN Buf[i] ELSE Chunk(n)[i - Len(Buf)]
  <2>1. Buf \in Seq(Bytes) /\ Buf' = Buf \o Chunk(n)
    BY DEF CmdProgram, IapTypeOK
  <2>2. /\ Len(Buf \o Chunk(n)) = Len(Buf) + Len(Chunk(n))
        /\ \A i \in 1 .. Len(Buf) + Len(Chunk(n)) :
             (Buf \o Chunk(n))[i] = IF i <= Len(Buf) THEN Buf[i] ELSE Chunk(n)[i - Len(Buf)]
    BY <1>4, <2>1, ConcatProperties, Zenon
  <2>3. Len(Chunk(n)) = n
    BY <1>4
  <2>4. QED
    BY <2>1, <2>2, <2>3, Zenon
<1>6. \A i \in 1 .. Len(Buf') : Buf'[i] = image[Program_addr + i]
  <2> SUFFICES ASSUME NEW i \in 1 .. Len(Buf) + n
               PROVE  Buf'[i] = image[Program_addr + i]
    BY <1>5
  <2>1. CASE i <= Len(Buf)
    BY <1>2, <1>3, <1>5, <2>1 DEF Programming
  <2>2. CASE i > Len(Buf)
    <3>1. i - Len(Buf) \in 1 .. n /\ sent + (i - Len(Buf)) = Program_addr + i
      <4>1. Program_addr + Len(Buf) = sent
        BY <1>2 DEF Programming
      <4>2. i \in Int
        BY <1>3
      <4>3. QED
        BY <1>3, <2>2, <4>1, <4>2
    <3>2. QED
      BY <1>3, <1>4, <1>5, <2>2, <3>1
  <2>3. QED
    BY <1>3, <2>1, <2>2
<1>7. Programming'
  <2>1. Programmed(Program_addr)'
    BY <1>1, <1>2 DEF Programming, Programmed
  <2>2. Verify_Star_flag = 0 /\ verify = <<>> /\ Program_addr + Len(Buf) = sent
    BY <1>2 DEF Programming
  <2>3. Program_addr' + Len(Buf') = sent'
    <3>1. Program_addr' = Program_addr /\ Len(Buf') = Len(Buf) + n /\ sent' = sent + n
      BY <1>1, <1>3, <1>5
    <3>2. Program_addr + (Len(Buf) + n) = sent + n
      BY <1>3, <2>2
    <3>3. QED
      BY <3>1, <3>2
  <2>4. Verify_Star_flag' = 0 /\ verify' = <<>>
    BY <1>1, <2>2
  <2>5. \A i \in 1 .. Len(Buf') : Buf'[i] = image'[Program_addr' + i]
    BY <1>1, <1>6
  <2>6. QED
    BY <2>1, <2>3, <2>4, <2>5 DEF Programming, Programmed
<1>8. QED
  BY <1>1, <1>7 DEF CleanSession

LEMMA VerifyClean ==
  ASSUME IapTypeOK, Handling, CleanSession,
         NEW n \in 1 .. ChunkMax, CmdVerify(n)
  PROVE  CleanSession'
<1> SUFFICES ASSUME clean' = 1 PROVE CleanSession'
  BY DEF CleanSession
<1>1. /\ mode = "iap" /\ op = "none" /\ phase \in {"program", "verify"}
      /\ phase' = "verify" /\ clean = 1
      /\ UNCHANGED <<flash, Program_addr, image>>
  BY DEF CmdVerify, Command, flashVars
<1>2. /\ Program_addr \in Nat /\ Buf \in Seq(Bytes) /\ Len(Buf) \in Nat
      /\ Len(Buf) < PageSize
  BY <1>1 DEF IapTypeOK, Handling
<1>3. verify' # <<>>
  <2> DEFINE from == IF phase = "program" THEN 0 ELSE sent
  <2>1. from \in Nat /\ from + n <= Len(image) /\ verify' = SubSeq(image, from + 1, from + n)
    BY DEF CmdVerify, IapTypeOK
  <2> HIDE DEF from
  <2>2. QED
    BY <2>1, Piece
<1>4. CASE phase = "program"
  <2>1. Programming /\ sent = Len(image)
    BY <1>1, <1>4 DEF CleanSession, Session, CmdVerify, Command
  <2>2. CASE Buf # <<>>
    <3>1. /\ Buf' = [i \in 1 .. PageSize |-> IF i <= Len(Buf) THEN Buf[i] ELSE FF]
          /\ op' = "erase"
      BY <2>1, <2>2 DEF CmdVerify, Programming
    <3>2. Len(Buf) > 0
      BY <1>2, <2>2, EmptySeq
    <3>3. Program_addr < Len(image) /\ Len(image) < Program_addr + PageSize
      BY <1>2, <2>1, <3>2, Constants DEF Programming
    <3>4. \A i \in 1 .. PageSize :
            Program_addr + i <= Len(image) => Buf'[i] = image[Program_addr + i]
      <4> SUFFICES ASSUME NEW i \in 1 .. PageSize, Program_addr + i <= Len(image)
                   PROVE  Buf'[i] = image[Program_addr + i]
        OBVIOUS
      <4>1. i <= Len(Buf) /\ i \in 1 .. Len(Buf)
        BY <1>2, <2>1, Constants DEF Programming
      <4>2. Buf'[i] = Buf[i]
        BY <3>1, <4>1
      <4>3. QED
        BY <2>1, <4>1, <4>2 DEF Programming
    <3>5. Flushing'
      BY <1>1, <1>3, <2>1, <3>3, <3>4 DEF Flushing, Programming, Programmed
    <3>6. QED
      BY <1>1, <3>1, <3>5 DEF CleanSession
  <2>3. CASE Buf = <<>>
    <3>1. op' = "none" /\ Program_addr = Len(image)
      BY <1>1, <1>2, <2>1, <2>3 DEF CmdVerify, Programming
    <3>2. Programmed(Len(image))'
      BY <1>1, <2>1, <3>1 DEF Programming, Programmed
    <3>3. QED
      BY <1>1, <3>1, <3>2 DEF CleanSession
  <2>4. QED
    BY <2>2, <2>3
<1>5. CASE phase = "verify"
  <2>1. Verify_Star_flag = 1 /\ op' = "none"
    BY <1>1, <1>5 DEF Handling, CmdVerify
  <2>2. Programmed(Len(image))
    BY <1>1, <1>5 DEF CleanSession, Session
  <2>3. Programmed(Len(image))'
    BY <1>1, <2>2 DEF Programmed
  <2>4. QED
    BY <1>1, <2>1, <2>3 DEF CleanSession
<1>6. QED
  BY <1>1, <1>4, <1>5

LEMMA FlashClean ==
  ASSUME IapTypeOK, Handling, CleanSession, Compare \/ Erase \/ Write
  PROVE  CleanSession'
<1> SUFFICES ASSUME clean' = 1, Session' PROVE CleanSession'
  BY DEF CleanSession
<1>1. CASE Compare
  <2>1. /\ op = "none" /\ op' = "none" /\ verify # <<>> /\ clean = 1
        /\ phase' \in {phase, "end", "refused"}
        /\ phase' # phase => phase = "verify"
        /\ UNCHANGED <<flash, image>>
    BY <1>1 DEF Compare, flashVars
  <2>2. Session /\ phase # "program"
    BY <2>1 DEF Session, CleanSession, Programming
  <2>3. Programmed(Len(image))'
    BY <2>1, <2>2 DEF CleanSession, Programmed
  <2>4. phase' # "program"
    BY <2>1, <2>2
  <2>5. QED
    BY <2>1, <2>3, <2>4 DEF CleanSession
<1>2. CASE Erase
  <2>1. /\ op = "erase" /\ op' = "write" /\ clean = 1 /\ phase' = phase
        /\ UNCHANGED <<Program_addr, Buf, Verify_Star_flag, verify, image, sent>>
        /\ flash' = [a \in Addr |-> IF a \in PageAt(Program_addr) THEN FF ELSE flash[a]]
    BY <1>2 DEF Erase, iapVars, toolVars
  <2>2. Session /\ phase # "end"
    BY <2>1 DEF Session, Handling
  <2>3. Programmed(Program_addr) => Programmed(Program_addr)'
    BY <2>1, Constants DEF Programmed, PageAt, Addr, IapTypeOK
  <2>4. Programming => Programming'
    BY <2>1, <2>3 DEF Programming
  <2>5. Flushing => Flushing'
    BY <2>1, <2>3 DEF Flushing
  <2>6. QED
    BY <2>1, <2>2, <2>4, <2>5 DEF CleanSession
<1>3. CASE Write
  <2>1. /\ op = "write" /\ op' = "none" /\ clean = 1 /\ phase' = phase
        /\ UNCHANGED <<Verify_Star_flag, verify, image, sent>>
        /\ flash' = [a \in Addr |-> IF a \in PageAt(Program_addr)
                                    THEN Buf[a - Program_addr + 1] ELSE flash[a]]
        /\ Buf' = SubSeq(Buf, PageSize + 1, Len(Buf))
    BY <1>3 DEF Write, toolVars
  <2>2. Session /\ phase # "end"
    BY <2>1 DEF Session, Handling
  <2>3. /\ Program_addr \in Nat /\ Buf \in Seq(Bytes) /\ Len(Buf) \in Nat
        /\ Len(Buf) >= PageSize
    BY <2>1 DEF IapTypeOK, Handling
  <2>4. \A a \in Addr : a < Program_addr => flash'[a] = flash[a]
    BY <2>1, <2>3 DEF PageAt, Addr
  <2>5. \A a \in Addr : Program_addr <= a /\ a < Program_addr + PageSize =>
          flash'[a] = Buf[a - Program_addr + 1]
    BY <2>1, <2>3 DEF PageAt, Addr
  <2>6. CASE phase = "program"
    <3>1. Programming
      BY <2>1, <2>2, <2>6 DEF CleanSession
    <3>2. Program_addr' = Program_addr + PageSize
      BY <1>3, <3>1 DEF Write, Programming
    <3>3. /\ Len(Buf') = Len(Buf) - PageSize
          /\ \A i \in 1 .. Len(Buf') : Buf'[i] = Buf[PageSize + i]
      BY <2>1, <2>3, Constants
    <3>4. \A i \in 1 .. Len(Buf') : Buf'[i] = image[Program_addr' + i]
      <4> SUFFICES ASSUME NEW i \in 1 .. Len(Buf')
                   PROVE  Buf'[i] = image[Program_addr' + i]
        OBVIOUS
      <4>1. PageSize + i \in 1 .. Len(Buf)
        BY <2>3, <3>3, Constants
      <4>2. Buf[PageSize + i] = image[Program_addr + (PageSize + i)]
        BY <3>1, <4>1 DEF Programming
      <4>3. Program_addr + (PageSize + i) = Program_addr' + i
        BY <2>3, <3>2, Constants
      <4>4. QED
        BY <3>3, <4>2, <4>3
    <3>5. ASSUME NEW a \in Addr, a < Program_addr'
          PROVE  flash'[a] = image'[a + 1]
      <4>1. CASE a < Program_addr
        BY <2>1, <2>4, <3>1, <4>1 DEF Programming, Programmed
      <4>2. CASE a >= Program_addr
        <5>1. a - Program_addr + 1 \in 1 .. Len(Buf)
          BY <2>3, <3>2, <3>5, <4>2, Constants DEF Addr
        <5>2. Buf[a - Program_addr + 1] = image[Program_addr + (a - Program_addr + 1)]
          BY <3>1, <5>1 DEF Programming
        <5>3. Program_addr + (a - Program_addr + 1) = a + 1
          BY <2>3, Constants DEF Addr
        <5>4. flash'[a] = Buf[a - Program_addr + 1]
          BY <2>5, <3>2, <3>5, <4>2
        <5>5. QED
          BY <2>1, <5>2, <5>3, <5>4
      <4>3. QED
        BY <2>3, <4>1, <4>2, Constants DEF Addr
    <3>6. Programming'
      <4>1. Programmed(Program_addr)'
        BY <3>5 DEF Programmed
      <4>2. Verify_Star_flag = 0 /\ verify = <<>> /\ Program_addr + Len(Buf) = sent
        BY <3>1 DEF Programming
      <4>3. Program_addr' + Len(Buf') = sent'
        <5>1. (Program_addr + PageSize) + (Len(Buf) - PageSize) = sent
          BY <2>3, <4>2, Constants
        <5>2. QED
          BY <2>1, <3>2, <3>3, <5>1
      <4>4. Verify_Star_flag' = 0 /\ verify' = <<>>
        BY <2>1, <4>2
      <4>5. \A i \in 1 .. Len(Buf') : Buf'[i] = image'[Program_addr' + i]
        BY <2>1, <3>4
      <4>6. QED
        BY <4>1, <4>3, <4>4, <4>5 DEF Programming, Programmed
    <3>7. QED
      BY <2>1, <2>6, <3>6 DEF CleanSession
  <2>7. CASE phase = "verify"
    <3>1. Flushing
      BY <2>1, <2>2, <2>7 DEF CleanSession
    <3>2. ASSUME NEW a \in Addr, a < Len(image)
          PROVE  flash'[a] = image'[a + 1]
      <4>1. CASE a < Program_addr
        BY <2>1, <2>4, <3>1, <4>1 DEF Flushing, Programmed
      <4>2. CASE a >= Program_addr
        <5>1. /\ a - Program_addr + 1 \in 1 .. PageSize
              /\ Program_addr + (a - Program_addr + 1) = a + 1
              /\ a + 1 <= Len(image)
          BY <2>3, <3>1, <3>2, <4>2, Constants, ImageFacts DEF Addr, Flushing
        <5>2. Buf[a - Program_addr + 1] = image[Program_addr + (a - Program_addr + 1)]
          BY <3>1, <5>1 DEF Flushing
        <5>3. a < Program_addr + PageSize
          BY <2>3, <3>1, <3>2, Constants, ImageFacts DEF Addr, Flushing
        <5>4. QED
          BY <2>1, <2>5, <4>2, <5>1, <5>2, <5>3
      <4>3. QED
        BY <2>3, <4>1, <4>2, Constants DEF Addr
    <3>3. Programmed(Len(image))'
      BY <2>1, <3>2 DEF Programmed
    <3>4. QED
      BY <2>1, <2>7, <3>3 DEF CleanSession
  <2>8. QED
    BY <2>2, <2>6, <2>7 DEF Session
<1>4. QED
  BY <1>1, <1>2, <1>3

LEMMA CleanStep ==
  ASSUME IapTypeOK, Handling, CleanSession, [Next]_vars
  PROVE  CleanSession'
<1>1. CASE UNCHANGED vars
  BY <1>1
  DEF vars, CleanSession, Session, Programming, Flushing, Programmed,
      flashVars, iapVars, toolVars
<1>2. CASE ~UNCHANGED vars
  BY <1>2, StepKinds, OutsideClean, ProgramClean, VerifyClean, FlashClean
<1>3. QED
  BY <1>1, <1>2

-----------------------------------------------------------------------------
(* What keeps a torn image from being booted.                              *)
LEMMA InitGuarded == Init => Guarded
<1> SUFFICES ASSUME Init PROVE Guarded
  OBVIOUS
<1>1. 0 \in Addr
  BY Constants DEF Addr
<1>2. Whole \/ flash[0] = FF
  <2>1. CASE flash = [a \in Addr |-> FF]
    BY <1>1, <2>1
  <2>2. ASSUME NEW f \in Images,
               flash = [a \in Addr |-> IF a < Len(f) THEN f[a + 1] ELSE FF]
        PROVE  Whole
    <3>1. \A i \in 1 .. Len(f) : /\ i - 1 \in Addr /\ i - 1 < Len(f)
                                 /\ (i - 1) + 1 = i
      BY Constants DEF Addr
    <3>2. Holds(f)
      BY <2>2, <3>1 DEF Holds
    <3>3. QED
      BY <3>2 DEF Whole
  <2>3. QED
    BY <2>1, <2>2 DEF Init
<1>3. QED
  BY <1>2 DEF Init, Guarded, Session

(* An image that has been programmed to its end is whole.                  *)
LEMMA ProgrammedHolds ==
  ASSUME image \in Images, Programmed(Len(image))
  PROVE  Whole
<1>1. \A i \in 1 .. Len(image) : /\ i - 1 \in Addr /\ i - 1 < Len(image)
                                 /\ (i - 1) + 1 = i
  BY Constants DEF Addr
<1>2. Holds(image)
  BY <1>1 DEF Programmed, Holds
<1>3. QED
  BY <1>2 DEF Whole

LEMMA WholeKept == ASSUME UNCHANGED flash PROVE Whole <=> Whole'
BY DEF Whole, Holds

LEMMA BootGuarded ==
  ASSUME IapTypeOK, Handling, Guarded, Boot \/ IAP_2_APP \/ APP_2_IAP
  PROVE  Guarded'
<1>1. UNCHANGED <<flash, marker, op, phase, clean, excused, unmarked>>
  BY DEF Boot, IAP_2_APP, APP_2_IAP, flashVars, toolVars, pastVars
<1>2. Whole <=> Whole'
  BY <1>1, WholeKept
<1>3. CASE Boot
  <2>1. /\ mode = "boot" /\ End_Flag' = 0
        /\ mode' = IF flash[0] # FF /\ marker = 0 THEN "app" ELSE "iap"
    BY <1>3 DEF Boot, Start
  <2>2. op = "none"
    BY <2>1 DEF Handling, IapTypeOK
  <2>3. ~Session /\ ~Session'
    BY <1>1, <2>1 DEF Handling, Session
  <2>4. QED
    BY <1>1, <1>2, <2>1, <2>2, <2>3 DEF Guarded
<1>4. CASE IAP_2_APP
  <2>1. mode = "iap" /\ End_Flag = 1 /\ op = "none" /\ mode' = "app"
    BY <1>4 DEF IAP_2_APP
  <2>2. ~Session /\ ~Session'
    BY <1>1, <2>1 DEF Handling, Session
  <2>3. QED
    BY <1>1, <1>2, <2>1, <2>2 DEF Guarded
<1>5. CASE APP_2_IAP
  <2>1. mode = "app" /\ op = "none" /\ mode' = "boot"
    BY <1>5 DEF APP_2_IAP
  <2>2. ~Session /\ ~Session'
    BY <1>1, <2>1 DEF Handling, Session
  <2>3. QED
    BY <1>1, <1>2, <2>1, <2>2 DEF Guarded
<1>6. QED
  BY <1>3, <1>4, <1>5

LEMMA PowerLossGuarded ==
  ASSUME IapTypeOK, Handling, Guarded, PowerLoss
  PROVE  Guarded'
<1> SUFFICES ASSUME excused' = 0 PROVE Guarded'
  BY DEF Guarded
<1>1. /\ excused = 0 /\ unmarked = 0 /\ unmarked' = 0
      /\ mode' = "boot" /\ op' = "none"
  BY DEF PowerLoss, IapTypeOK
<1>2. ~Session'
  BY DEF PowerLoss, Session
<1>3. Whole' \/ marker' = 1 \/ flash'[0] = FF
  <2>1. CASE op \in {"erase", "write"}
    <3>1. Program_addr < CalPage /\ Program_addr \in Nat /\ marker = 1
      BY <1>1, <2>1 DEF Guarded, IapTypeOK
    <3>2. marker' = marker
      BY <2>1, <3>1, Constants DEF PowerLoss
    <3>3. QED
      BY <3>1, <3>2
  <2>2. CASE op \in {"eraseCal", "writeCal"}
    <3>1. UNCHANGED flash
      BY <2>2 DEF PowerLoss
    <3>2. Whole
      BY <1>1, <2>2 DEF Guarded
    <3>3. QED
      BY <3>1, <3>2, WholeKept
  <2>3. CASE op = "none"
    <3>1. UNCHANGED flash /\ UNCHANGED marker
      BY <2>3 DEF PowerLoss
    <3>2. Whole \/ marker = 1 \/ flash[0] = FF
      BY <1>1 DEF Guarded
    <3>3. QED
      BY <3>1, <3>2, WholeKept
  <2>4. QED
    BY <2>1, <2>2, <2>3 DEF IapTypeOK
<1>4. QED
  BY <1>1, <1>2, <1>3 DEF Guarded

(* A command changes no flash.  An interrupted session leaves the marker,  *)
(* or counts as unmarked.                                                  *)
LEMMA CommandGuarded ==
  ASSUME IapTypeOK, Handling, CleanSession, Guarded, IapTypeOK', CleanSession',
         \/ \E f \in Images : CmdErase(f)
         \/ \E n \in 1 .. ChunkMax : CmdProgram(n) \/ CmdVerify(n)
         \/ CmdEnd
  PROVE  Guarded'
<1> SUFFICES ASSUME excused' = 0 PROVE Guarded'
  BY DEF Guarded
<1>1. UNCHANGED <<flash, marker, mode>> /\ mode = "iap" /\ op = "none" /\ End_Flag = 0
  BY DEF CmdErase, CmdProgram, CmdVerify, CmdEnd, Command, flashVars
<1>2. Whole <=> Whole'
  BY <1>1, WholeKept
<1>3. ASSUME NEW f \in Images, CmdErase(f) PROVE Guarded'
  <2>1. /\ excused = 0 /\ clean' = 1 /\ op' = "none" /\ End_Flag' = 0
        /\ unmarked' = IF marker = 0 THEN 1 ELSE unmarked
    BY <1>1, <1>3 DEF CmdErase, iapVars
  <2>2. marker = 1 \/ unmarked' = 1
    BY <2>1 DEF IapTypeOK
  <2>3. QED
    BY <1>1, <2>1, <2>2 DEF Guarded
<1>4. ASSUME NEW n \in 1 .. ChunkMax, CmdProgram(n) \/ CmdVerify(n) PROVE Guarded'
  <2>1. /\ UNCHANGED <<Program_addr, End_Flag, clean, unmarked, excused, image>>
        /\ Session /\ phase' \in {"program", "verify"} /\ op' \in {"none", "erase"}
    BY <1>1, <1>4 DEF CmdProgram, CmdVerify, Command, Session, pastVars
  <2>2. clean' = 1 /\ Session'
    BY <2>1 DEF Guarded, Session
  <2>3. marker' = 1 \/ unmarked' = 1
    BY <1>1, <2>1 DEF Guarded
  <2>4. ASSUME op' = "erase" PROVE Program_addr' < CalPage
    <3>1. /\ Program_addr' \in Nat /\ Len(Buf') \in Nat /\ Len(image') \in Nat
          /\ Len(image') <= CalPage /\ sent' \in Nat /\ sent' <= Len(image')
      BY <2>1, Constants, ImageFacts DEF IapTypeOK
    <3>2. CASE phase' = "program"
      <4>1. Program_addr' + Len(Buf') = sent'
        BY <2>2, <3>2 DEF CleanSession, Programming
      <4>2. Len(Buf') > 0
        BY <1>4, <2>4, <3>1, <3>2, Constants DEF CmdProgram, CmdVerify
      <4>3. QED
        BY <3>1, <4>1, <4>2, Constants
    <3>3. CASE phase' = "verify"
      <4>1. Program_addr' < Len(image')
        BY <2>2, <2>4, <3>3 DEF CleanSession, Flushing
      <4>2. QED
        BY <3>1, <4>1, Constants
    <3>4. QED
      BY <2>1, <3>2, <3>3
  <2>5. QED
    BY <1>1, <2>1, <2>2, <2>3, <2>4 DEF Guarded
<1>5. CASE CmdEnd
  <2>1. /\ phase = "end" /\ clean' = clean /\ phase' = "done" /\ End_Flag' = 1
        /\ unmarked' = 0 /\ op' = "eraseCal"
        /\ excused' = IF clean = 1 THEN 0 ELSE excused
    BY <1>5 DEF CmdEnd, Command
  <2>2. clean = 1
    BY <2>1 DEF Guarded, Session
  <2>3. image \in Images /\ Programmed(Len(image))
    BY <1>1, <2>1, <2>2 DEF CleanSession, Handling, Session
  <2>4. Whole'
    BY <1>2, <2>3, ProgrammedHolds
  <2>5. QED
    BY <1>1, <2>1, <2>4 DEF Guarded, Session
<1>6. QED
  BY <1>3, <1>4, <1>5

LEMMA FlashGuarded ==
  ASSUME IapTypeOK, Handling, Guarded, Compare \/ Erase \/ Write
  PROVE  Guarded'
<1> SUFFICES ASSUME excused = 0 PROVE Guarded'
  BY DEF Guarded, Compare, Erase, Write, pastVars
<1>1. UNCHANGED <<mode, End_Flag, clean, excused, unmarked>>
  BY DEF Compare, Erase, Write, pastVars, iapVars, toolVars
<1>2. CASE Compare
  <2>1. /\ UNCHANGED <<flash, marker, op, Program_addr>> /\ op = "none"
        /\ phase' \in {phase, "end", "refused"}
        /\ phase' # phase => phase = "verify"
    BY <1>2 DEF Compare, flashVars
  <2>2. Whole <=> Whole'
    BY <2>1, WholeKept
  <2>3. Session' => Session
    BY <2>1 DEF Session
  <2>4. QED
    BY <1>1, <2>1, <2>2, <2>3 DEF Guarded
<1>3. CASE Erase \/ Write
  <2>1. /\ op \in {"erase", "write"} /\ op' \in {"none", "write"} /\ phase' = phase
        /\ (Program_addr # CalPage => marker' = marker)
        /\ (op' = "write" => Program_addr' = Program_addr)
    BY <1>3 DEF Erase, Write, iapVars, toolVars
  <2>2. /\ Program_addr < CalPage /\ Program_addr \in Nat /\ mode = "iap" /\ End_Flag = 0
        /\ (marker = 1 \/ unmarked = 1) /\ (Session => clean = 1)
    BY <2>1 DEF Guarded, Handling, IapTypeOK
  <2>3. marker' = 1 \/ unmarked' = 1
    BY <1>1, <2>1, <2>2, Constants
  <2>4. Session' <=> Session
    BY <2>1 DEF Session
  <2>5. QED
    BY <1>1, <2>1, <2>2, <2>3, <2>4 DEF Guarded
<1>4. QED
  BY <1>2, <1>3

LEMMA MarkerGuarded ==
  ASSUME IapTypeOK, Handling, Guarded, CmdJumpIap \/ EraseCal \/ WriteCal \/ Abort
  PROVE  Guarded'
<1>1. UNCHANGED <<flash, mode, Program_addr, End_Flag, clean, excused, unmarked>>
  BY DEF CmdJumpIap, EraseCal, WriteCal, Abort, flashVars, iapVars, toolVars, pastVars
<1>2. Whole <=> Whole'
  BY <1>1, WholeKept
<1>3. CASE CmdJumpIap
  <2>1. mode = "app" /\ phase' = "jump" /\ op' = "eraseCal" /\ marker' = marker
    BY <1>3 DEF CmdJumpIap, flashVars
  <2>2. QED
    BY <1>1, <1>2, <2>1 DEF Guarded, Session
<1>4. CASE EraseCal \/ WriteCal
  <2>1. /\ op \in {"eraseCal", "writeCal"} /\ op' \in {"none", "writeCal"}
        /\ phase' = phase
    BY <1>4 DEF EraseCal, WriteCal, toolVars
  <2>2. ~Session /\ ~Session'
    BY <2>1 DEF Handling, Session
  <2>3. QED
    BY <1>1, <1>2, <2>1, <2>2 DEF Guarded
<1>5. CASE Abort
  <2>1. UNCHANGED <<marker, op>> /\ phase' = "aborted"
    BY <1>5 DEF Abort, flashVars
  <2>2. QED
    BY <1>1, <1>2, <2>1 DEF Guarded, Session
<1>6. QED
  BY <1>3, <1>4, <1>5

LEMMA GuardedStep ==
  ASSUME IapTypeOK, IapInv, [Next]_vars, IapTypeOK', CleanSession'
  PROVE  Guarded'
<1>1. CASE UNCHANGED vars
  BY <1>1, WholeKept
  DEF vars, IapInv, Guarded, Session, flashVars, iapVars, toolVars, pastVars
<1>2. CASE ~UNCHANGED vars
  BY <1>2, StepKinds, BootGuarded, PowerLossGuarded, CommandGuarded, FlashGuarded,
     MarkerGuarded DEF IapInv
<1>3. QED
  BY <1>1, <1>2

-----------------------------------------------------------------------------
(* The types of the state and the invariant, over all behaviours: neither  *)
(* a power failure nor a session given up leads out of them.               *)
THEOREM Invariance == Spec => [](IapTypeOK /\ IapInv)
<1>1. Init => IapTypeOK /\ IapInv
  BY InitControl, InitClean, InitGuarded DEF IapInv
<1>2. IapTypeOK /\ IapInv /\ [Next]_vars => (IapTypeOK /\ IapInv)'
  <2> SUFFICES ASSUME IapTypeOK, IapInv, [Next]_vars PROVE (IapTypeOK /\ IapInv)'
    OBVIOUS
  <2>1. IapTypeOK' /\ Handling'
    BY ControlStep DEF IapInv
  <2>2. CleanSession'
    BY CleanStep DEF IapInv
  <2>3. Guarded'
    BY <2>1, <2>2, GuardedStep
  <2>4. QED
    BY <2>1, <2>2, <2>3 DEF IapInv
<1>3. QED
  BY <1>1, <1>2, PTL DEF Spec

(* The handler's variables keep their types; its buffer of 390 bytes takes *)
(* every command, whatever session it belongs to.                          *)
THEOREM IapTypeCorrect == Spec => []IapTypeOK
BY Invariance, PTL

(* What runs after a boot or a jump is whole, wherever power failed.       *)
THEOREM OnlyWholeImagesRun == Spec => []BootsWhole
<1>1. IapTypeOK /\ IapInv => BootsWhole
  BY DEF IapInv, Guarded, BootsWhole
<1>2. QED
  BY <1>1, Invariance, PTL

=============================================================================
