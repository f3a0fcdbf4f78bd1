----------------------------- MODULE IapUpdate -----------------------------
(***************************************************************************)
(* In-application programming (EXAM/IAP/USB_UART): the boot decision and   *)
(* the command handler of the IAP program, the request of the application  *)
(* to be updated, and the tool that sends an image (external).  Power may  *)
(* fail at any moment, also within a flash operation.  The two transports, *)
(* USB and UART, call the same handler; a command and its answer are one   *)
(* exchange here, and one that is lost makes the tool give up.             *)
(* A "byte" stands for what one boot test or comparison looks at.          *)
(***************************************************************************)
EXTENDS Integers, Sequences

CONSTANTS
  Bytes, FF,    \* contents of flash; FF is an erased one
  Images,       \* what the tool may be told to install
  PageSize,     \* 256
  AppPages,     \* pages between FLASH_Base and the page of CalAddr
  ChunkMax,     \* data of one command: 62, or 56 in a VERIFY
  MaxLosses, MaxAborts, MaxSessions   \* bounds

ASSUME IapAssumption ==
  /\ FF \in Bytes
  /\ PageSize \in Nat \ {0} /\ AppPages \in Nat \ {0}
  /\ ChunkMax \in 1 .. PageSize
  /\ \A f \in Images : /\ f \in Seq(Bytes)
                       /\ Len(f) \in 1 .. PageSize * AppPages
                       /\ f[1] # FF
  /\ MaxLosses \in Nat /\ MaxAborts \in Nat /\ MaxSessions \in Nat

VARIABLES
  flash,      \* the application's part, from address 0 = FLASH_Base on
  marker,     \* is *CalAddr = CheckNum?
  mode,       \* "boot", "iap" or "app": who runs
  op,         \* flash operation in progress: "none", "erase", "write",
              \* "eraseCal", "writeCal"
  Program_addr, Verify_addr, Buf, Verify_Star_flag, End_Flag,  \* Len(Buf) = CodeLen
  verify,     \* the data of the VERIFY in progress, <<>> if there is none
  phase,      \* what the tool is doing
  image,      \* the image it sends
  sent,       \* bytes of it sent in this phase
  clean,      \* did the session find the handler's state initialised?
  unmarked,   \* has a session begun without the marker, and not ended?
  excused,    \* has a session begun with other than initialised state, or
              \* power failed in an unmarked one?  Until a clean one ends
  losses, aborts, sessions

flashVars == <<flash, marker>>
iapVars   == <<Program_addr, Verify_addr, Buf, Verify_Star_flag, End_Flag, verify>>
toolVars  == <<phase, image, sent, clean, sessions>>
pastVars  == <<excused, unmarked>>
bounds    == <<losses, aborts>>
vars == <<flashVars, mode, op, iapVars, toolVars, pastVars, bounds>>

CalPage   == PageSize * AppPages
Addr      == 0 .. CalPage - 1
PageAt(a) == {b \in Addr : b >= a /\ b < a + PageSize}

(* The image is in flash.                                                  *)
Holds(f) == \A i \in 1 .. Len(f) : flash[i - 1] = f[i]
Whole    == \E f \in Images : Holds(f)

Initialised ==
  Program_addr = 0 /\ Verify_addr = 0 /\ Buf = <<>> /\ Verify_Star_flag = 0

(* The program starts: variables are initialised.                          *)
Start == /\ Program_addr' = 0 /\ Verify_addr' = 0 /\ Buf' = <<>>
         /\ Verify_Star_flag' = 0 /\ End_Flag' = 0 /\ verify' = <<>>

(* A new chip, or one with an application in it.                           *)
Init ==
  /\ flash \in {[a \in Addr |-> FF]} \cup
               {[a \in Addr |-> IF a < Len(f) THEN f[a + 1] ELSE FF] : f \in Images}
  /\ marker = 0 /\ mode = "boot" /\ op = "none"
  /\ Program_addr = 0 /\ Verify_addr = 0 /\ Buf = <<>>
  /\ Verify_Star_flag = 0 /\ End_Flag = 0 /\ verify = <<>>
  /\ phase = "idle" /\ image = <<>> /\ sent = 0 /\ clean = 0 /\ sessions = 0
  /\ excused = 0 /\ unmarked = 0
  /\ losses = 0 /\ aborts = 0

-----------------------------------------------------------------------------
(* Who runs.                                                               *)

Boot ==
  /\ mode = "boot"
  /\ mode' = IF flash[0] # FF /\ marker = 0 THEN "app" ELSE "iap"
  /\ Start
  /\ UNCHANGED <<flashVars, op, toolVars, pastVars, bounds>>

IAP_2_APP ==
  /\ mode = "iap" /\ End_Flag = 1 /\ op = "none"
  /\ mode' = "app"
  /\ UNCHANGED <<flashVars, op, iapVars, toolVars, pastVars, bounds>>

APP_2_IAP ==
  /\ mode = "app" /\ marker = 1 /\ op = "none"
  /\ mode' = "boot"
  /\ UNCHANGED <<flashVars, op, iapVars, toolVars, pastVars, bounds>>

(* What a page holds after power failed within an erase or write of it is  *)
(* anybody's guess.                                                        *)
PowerLoss ==
  /\ losses < MaxLosses /\ losses' = losses + 1
  /\ mode # "boot" /\ mode' = "boot"
  /\ op' = "none"
  /\ IF op \in {"erase", "write"} /\ Program_addr < CalPage
     THEN \E c \in [PageAt(Program_addr) -> Bytes] :
            flash' = [a \in Addr |-> IF a \in DOMAIN c THEN c[a] ELSE flash[a]]
     ELSE UNCHANGED flash
  /\ IF op \in {"eraseCal", "writeCal"} \/ (op # "none" /\ Program_addr = CalPage)
     THEN marker' \in 0 .. 1 ELSE UNCHANGED marker
  /\ phase' = IF phase \in {"program", "verify", "end", "jump"} \/ (mode = "iap" /\ phase = "done")
              THEN "aborted" ELSE phase
  /\ excused' = IF unmarked = 1 THEN 1 ELSE excused
  /\ UNCHANGED <<iapVars, image, sent, clean, sessions, unmarked, aborts>>

-----------------------------------------------------------------------------
(* The command handler of the IAP program.  `Command' says when the tool   *)
(* sends one and what becomes of its session.                              *)

Command(p) == mode = "iap" /\ op = "none" /\ End_Flag = 0 /\ verify = <<>> /\ phase = p

(* CMD_IAP_ERASE opens a session.  It initialises nothing.                 *)
ClearsMarker(f) ==   \* mutant of CmdErase
  /\ mode = "iap" /\ op = "none" /\ End_Flag = 0 /\ verify = <<>>
  /\ phase \in {"idle", "aborted", "refused", "done", "jump"}
  /\ sessions < MaxSessions /\ sessions' = sessions + 1
  /\ phase' = "program" /\ image' = f /\ sent' = 0
  /\ clean' = IF Initialised THEN 1 ELSE 0
  /\ excused' = IF Initialised THEN excused ELSE 1
  /\ unmarked' = IF marker = 0 THEN 1 ELSE unmarked
  /\ marker' = 0
  /\ UNCHANGED <<flash, mode, op, iapVars, bounds>>

CmdErase(f) ==
  /\ mode = "iap" /\ op = "none" /\ End_Flag = 0 /\ verify = <<>>
  /\ phase \in {"idle", "aborted", "refused", "done", "jump"}
  /\ sessions < MaxSessions /\ sessions' = sessions + 1
  /\ phase' = "program" /\ image' = f /\ sent' = 0
  /\ clean' = IF Initialised THEN 1 ELSE 0
  /\ excused' = IF Initialised THEN excused ELSE 1
  /\ unmarked' = IF marker = 0 THEN 1 ELSE unmarked
  /\ UNCHANGED <<flashVars, mode, op, iapVars, bounds>>

Chunk(n) == SubSeq(image, sent + 1, sent + n)
Sends(n) == n \in 1 .. ChunkMax /\ sent + n <= Len(image) /\ sent' = sent + n

CmdProgram(n) ==
  /\ Command("program") /\ Sends(n)
  /\ Buf' = Buf \o Chunk(n)
  /\ op' = IF Len(Buf') >= PageSize THEN "erase" ELSE "none"
  /\ UNCHANGED <<flashVars, mode, Program_addr, Verify_addr, Verify_Star_flag, End_Flag,
                 verify, phase, image, clean, sessions, pastVars, bounds>>

(* The first VERIFY programs what is left in the buffer.                   *)
LeavesRest(n) ==   \* mutant of CmdVerify
  /\ (Command("program") /\ sent = Len(image)) \/ Command("verify")
  /\ n \in 1 .. ChunkMax
  /\ LET from == IF phase = "program" THEN 0 ELSE sent IN
     /\ from + n <= Len(image) /\ sent' = from + n
     /\ verify' = SubSeq(image, from + 1, from + n)
  /\ phase' = "verify" /\ Verify_Star_flag' = 1
  /\ UNCHANGED <<flashVars, mode, Buf, op, Program_addr, Verify_addr, End_Flag,
                 image, clean, sessions, pastVars, bounds>>

CmdVerify(n) ==
  /\ (Command("program") /\ sent = Len(image)) \/ Command("verify")
  /\ n \in 1 .. ChunkMax
  /\ LET from == IF phase = "program" THEN 0 ELSE sent IN
     /\ from + n <= Len(image) /\ sent' = from + n
     /\ verify' = SubSeq(image, from + 1, from + n)
  /\ phase' = "verify" /\ Verify_Star_flag' = 1
  /\ IF Verify_Star_flag = 0 /\ Buf # <<>>
     THEN /\ Buf' = [i \in 1 .. PageSize |-> IF i <= Len(Buf) THEN Buf[i] ELSE FF]
          /\ op' = "erase"
     ELSE UNCHANGED <<Buf, op>>
  /\ UNCHANGED <<flashVars, mode, Program_addr, Verify_addr, End_Flag,
                 image, clean, sessions, pastVars, bounds>>

(* The comparison and its answer.  Past the application's part anything    *)
(* may be read.                                                            *)
Compare ==
  /\ mode = "iap" /\ op = "none" /\ verify # <<>>
  /\ LET at(i) == Verify_addr + i - 1
         inside == {i \in 1 .. Len(verify) : at(i) \in Addr} IN
     \/ /\ \A i \in inside : flash[at(i)] = verify[i]
        /\ phase' = IF phase = "verify" /\ sent = Len(image) THEN "end" ELSE phase
     \/ /\ \/ \E i \in inside : flash[at(i)] # verify[i]
           \/ inside # 1 .. Len(verify)
        /\ phase' = IF phase = "verify" THEN "refused" ELSE phase
  /\ Verify_addr' = Verify_addr + Len(verify) /\ verify' = <<>>
  /\ UNCHANGED <<flashVars, mode, op, Program_addr, Buf, Verify_Star_flag, End_Flag,
                 image, sent, clean, sessions, pastVars, bounds>>

(* CMD_IAP_END, which the tool sends when everything has been verified.    *)
CmdEnd ==
  /\ Command("end")
  /\ Verify_Star_flag' = 0 /\ End_Flag' = 1 /\ Program_addr' = 0 /\ Verify_addr' = 0
  /\ op' = "eraseCal"
  /\ phase' = "done" /\ unmarked' = 0 /\ excused' = IF clean = 1 THEN 0 ELSE excused
  /\ UNCHANGED <<flashVars, mode, Buf, verify, image, sent, clean, sessions, bounds>>

-----------------------------------------------------------------------------
(* Flash operations.  Outside the flash the driver refuses them, and       *)
(* nobody looks at its answer.                                             *)

Erase ==
  /\ op = "erase" /\ op' = "write"
  /\ flash' = [a \in Addr |-> IF a \in PageAt(Program_addr) THEN FF ELSE flash[a]]
  /\ marker' = IF Program_addr = CalPage THEN 0 ELSE marker
  /\ UNCHANGED <<mode, iapVars, toolVars, pastVars, bounds>>

(* The rest of the buffer moves up; no data of an image is CheckNum.       *)
BufferKept ==   \* mutant of Write
  /\ op = "write" /\ op' = "none"
  /\ flash' = [a \in Addr |-> IF a \in PageAt(Program_addr)
                              THEN Buf[a - Program_addr + 1] ELSE flash[a]]
  /\ Program_addr' = IF verify = <<>> THEN Program_addr + PageSize ELSE Program_addr
  /\ UNCHANGED <<Buf, marker, mode, Verify_addr, Verify_Star_flag, End_Flag, verify, toolVars,
                 pastVars, bounds>>

Write ==
  /\ op = "write" /\ op' = "none"
  /\ flash' = [a \in Addr |-> IF a \in PageAt(Program_addr)
                              THEN Buf[a - Program_addr + 1] ELSE flash[a]]
  /\ Buf' = SubSeq(Buf, PageSize + 1, Len(Buf))
  /\ Program_addr' = IF verify = <<>> THEN Program_addr + PageSize ELSE Program_addr
  /\ UNCHANGED <<marker, mode, Verify_addr, Verify_Star_flag, End_Flag, verify, toolVars,
                 pastVars, bounds>>

(* CMD_JUMP_IAP in the application: the page of CalAddr is read, erased    *)
(* and written with the marker in it.  What a torn one does is not known.  *)
CmdJumpIap ==
  /\ mode = "app" /\ op = "none" /\ phase # "jump" /\ Whole
  /\ phase' = "jump" /\ op' = "eraseCal"
  /\ UNCHANGED <<flashVars, mode, iapVars, image, sent, clean, sessions, pastVars, bounds>>

EraseCal ==
  /\ op = "eraseCal" /\ op' = IF mode = "app" THEN "writeCal" ELSE "none"
  /\ marker' = 0
  /\ UNCHANGED <<flash, mode, iapVars, toolVars, pastVars, bounds>>

MarksNothing ==   \* mutant of WriteCal
  /\ op = "writeCal" /\ op' = "none"
  /\ UNCHANGED <<flashVars, mode, iapVars, toolVars, pastVars, bounds>>

WriteCal ==
  /\ op = "writeCal" /\ op' = "none"
  /\ marker' = 1
  /\ UNCHANGED <<flash, mode, iapVars, toolVars, pastVars, bounds>>

(* The tool gives up: it is closed, or an answer does not come.            *)
Abort ==
  /\ phase \in {"program", "verify", "end", "jump"} /\ phase' = "aborted"
  /\ aborts < MaxAborts /\ aborts' = aborts + 1
  /\ UNCHANGED <<flashVars, mode, op, iapVars, image, sent, clean, sessions, pastVars, losses>>

-----------------------------------------------------------------------------
Device == Boot \/ IAP_2_APP \/ APP_2_IAP \/ Erase \/ Write \/ EraseCal \/ WriteCal \/ Compare
Tool   == \/ \E n \in 1 .. ChunkMax : CmdProgram(n) \/ CmdVerify(n)
          \/ CmdEnd

Next == \/ Device \/ Tool \/ PowerLoss \/ Abort \/ CmdJumpIap
        \/ \E f \in Images : CmdErase(f)

Spec == Init /\ [][Next]_vars

(* The device runs on, and a tool in the middle of a session goes on.      *)
FairSpec == Spec /\ WF_vars(Device) /\ WF_vars(Tool)

-----------------------------------------------------------------------------
(* Properties.                                                             *)

(* The buffer of 390 bytes takes what a command adds to a page not full.   *)
IapTypeOK ==
  /\ flash \in [Addr -> Bytes] /\ marker \in 0 .. 1
  /\ mode \in {"boot", "iap", "app"}
  /\ op \in {"none", "erase", "write", "eraseCal", "writeCal"}
  /\ Program_addr \in Nat /\ Verify_addr \in Nat
  /\ Buf \in Seq(Bytes) /\ Len(Buf) < PageSize + ChunkMax
  /\ Verify_Star_flag \in 0 .. 1 /\ End_Flag \in 0 .. 1
  /\ verify \in Seq(Bytes)
  /\ phase \in {"idle", "program", "verify", "end", "done", "refused", "aborted", "jump"}
  /\ image \in Images \cup {<<>>} /\ sent \in 0 .. Len(image)
  /\ clean \in 0 .. 1 /\ excused \in 0 .. 1 /\ unmarked \in 0 .. 1

(* Whatever runs after a boot or a jump is an image that was installed as  *)
(* a whole: the marker outlives every interruption of an update (main.c:69 *)
(* of the IAP program).  Excused are the first installation on a new chip, *)
(* which no marker guards, and a session that follows one given up in the  *)
(* same power cycle.                                                       *)
BootsWhole == mode = "app" /\ excused = 0 => Whole

(* The inductive invariant behind it.  A clean session has put the image   *)
(* up to Program_addr into flash and the rest of what was sent, padded in  *)
(* the end, into the buffer ...                                            *)
Session == phase \in {"program", "verify", "end"}

Programmed(n) == \A a \in Addr : a < n => flash[a] = image[a + 1]

Programming ==
  /\ Verify_Star_flag = 0 /\ verify = <<>>
  /\ Program_addr + Len(Buf) = sent
  /\ \A i \in 1 .. Len(Buf) : Buf[i] = image[Program_addr + i]
  /\ Programmed(Program_addr)

Flushing ==
  /\ verify # <<>>
  /\ Program_addr < Len(image) /\ Len(image) < Program_addr + PageSize
  /\ \A i \in 1 .. PageSize :
       Program_addr + i <= Len(image) => Buf[i] = image[Program_addr + i]
  /\ Programmed(Program_addr)

CleanSession ==
  clean = 1 /\ Session =>
    /\ phase = "program" => Programming
    /\ phase = "verify" /\ op # "none" => Flushing
    /\ phase # "program" /\ op = "none" => Programmed(Len(image))

(* ... the handler, whose buffer holds a full page just when it is about   *)
(* to write one, works only in the boot loader ...                         *)
Handling ==
  /\ Session => mode = "iap" /\ op \in {"none", "erase", "write"} /\ End_Flag = 0
                 /\ image \in Images
  /\ phase \in {"verify", "end"} => Verify_Star_flag = 1
  /\ phase = "end" => op = "none"
  /\ op \in {"erase", "write"} => mode = "iap" /\ End_Flag = 0 /\ Len(Buf) >= PageSize
  /\ mode = "iap" /\ op \in {"none", "eraseCal"} => Len(Buf) < PageSize
  /\ op = "eraseCal" => mode = "app" \/ (mode = "iap" /\ End_Flag = 1)
  /\ op = "writeCal" => mode = "app"
  /\ verify # <<>> /\ mode = "iap" => End_Flag = 0

(* ... and unless excused, something keeps a torn image from being booted. *)
Guarded ==
  excused = 0 =>
    /\ Whole \/ marker = 1 \/ unmarked = 1 \/ flash[0] = FF
    /\ Session => clean = 1
    /\ Session \/ op \in {"erase", "write"} => marker = 1 \/ unmarked = 1
    /\ op \in {"erase", "write"} => Program_addr < CalPage
    /\ op \in {"eraseCal", "writeCal"} \/ (mode = "iap" /\ End_Flag = 1) => Whole
    /\ mode # "iap" \/ End_Flag = 1 => unmarked = 0
    /\ mode = "app" => Whole

IapInv == CleanSession /\ Handling /\ Guarded

(* A session that finds the handler initialised, the one after a power     *)
(* failure in the last one included, ends with its image running, unless   *)
(* it is interrupted: its verification never fails.                        *)
UpdateCompletes ==
  phase = "program" /\ clean = 1 ~>
    phase = "aborted" \/ (phase = "done" /\ mode = "app" /\ Holds(image))

(* The request to be updated brings the IAP program up, unless the tool or *)
(* the power goes away first.                                              *)
RequestReachesIap == phase = "jump" /\ mode = "app" ~> phase # "jump" \/ mode = "iap"

=============================================================================
