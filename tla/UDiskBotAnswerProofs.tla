------------------------- MODULE UDiskBotAnswerProofs -------------------------
(***************************************************************************)
(* The disk's answers are true: by one invariant that follows a command    *)
(* through its stages, with what host and transport each know of it.       *)
(***************************************************************************)
EXTENDS UDiskBotProofs

(* The packet on endpoint 2 was taken already, its handshake was lost; the *)
(* host's next packet on endpoint 3 is new to the transport.               *)
Unseen == TX_TOG # inTog
Seen   == RX_TOG = outTog
Quiet  == TX_RES = "NAK" \/ (TX_RES = "ACK" /\ Unseen)

(* Whatever happened: the toggles are out of step only while a handshake   *)
(* is missing, and the host begins a command at a quiet endpoint.          *)
InToggle ==
  /\ hs \in {"idle", "in", "csw", "stalled"} => Seen
  /\ TX_RES = "ACK" => Endp_Busy = 1
  /\ TX_RES = "NAK" => ~Unseen
  /\ hs = "idle" \/ (hs = "cbw" /\ Seen) => Quiet
  /\ hs = "clearOut" => TX_RES = "NAK"
  /\ TX_RES = "ACK" /\ ~Unseen /\ TX_Buf.kind = "csw" => Udisk_Transfer_Status = {}

(* A failure leaves its sense key until the host has asked for it.         *)
InSense ==
  /\ Udisk_CSW_Status # 0 => Udisk_Sense_Key = 5
  /\ hs \notin {"reset", "clearIn"} /\ TX_RES = "ACK" /\ ~Unseen /\ TX_Buf.kind = "csw"
     /\ TX_Buf.val # 0 => Udisk_Sense_Key = 5
  /\ senseDue => Udisk_Sense_Key = 5
  /\ senseDue /\ hs = "cbw" => cmd.op = "REQUEST_SENSE"

(* Where a command can be.                                                 *)
Judged == /\ Udisk_CBW_Tag_Save = tag
          /\ cmd.op # "MODE_SENSE" => (Udisk_CSW_Status = 0 <=> ~Failing(cmd))

Answering ==
  /\ Udisk_Transfer_Status = {} /\ TX_RES = "ACK" /\ ~Unseen /\ Judged
  /\ TX_Buf = Csw(tag, Udisk_CSW_Status)
  /\ cmd.op = "WRITE" => Stored(cmd)

Failed == /\ Udisk_Transfer_Status = {"CSW"} /\ TX_RES = "STALL"
          /\ Judged /\ Failing(cmd)

(* Nothing tells the host of this failure: it has to give up.              *)
Mute == /\ Udisk_Transfer_Status = {"CSW"} /\ TX_RES = "NAK"
        /\ Judged /\ cmd.op = "MODE_SENSE2" /\ cmd.dir = "none"

(* The status follows when the transport learns that the host has the      *)
(* packet before it.                                                       *)
Owed == /\ Udisk_Transfer_Status = {"CSW"} /\ TX_RES = "ACK" /\ Unseen
        /\ Judged /\ cmd.op # "WRITE"

ItsAhead(s) == Ahead(s) /\ UDISK_Cur_Sec_Lba + s = cmd.lba + cmd.n /\ s <= cmd.n

Reading ==
  /\ cmd.op = "READ" /\ mCBW_Op = "READ" /\ Judged /\ TX_RES = "ACK"
  /\ UDISK_Transfer_DataLen = 0 => Udisk_Transfer_Status = {"CSW"}
  /\ UDISK_Transfer_DataLen # 0 => /\ Udisk_Transfer_Status = {"UP", "CSW"}
                                   /\ \E s \in 1 .. Capacity : ItsAhead(s)
  /\ Unseen => left = UDISK_Transfer_DataLen
  /\ ~Unseen => /\ left = UDISK_Transfer_DataLen + 1
                /\ TX_Buf = Data(flash[cmd.lba + Position \div PPS][Position % PPS])

Replying ==
  /\ cmd.op \in Replies /\ Udisk_Transfer_Status = {"CSW"} /\ Judged
  /\ TX_RES = "ACK" /\ ~Unseen /\ left = 1
  /\ cmd.op = "REQUEST_SENSE" /\ senseDue => TX_Buf.kind = "reply" /\ TX_Buf.val = 5

(* With s sectors ahead the others are in the flash, and the buffer holds  *)
(* what has come of the first one ahead.                                   *)
Written(s) ==
  /\ \A j \in 0 .. cmd.n - s - 1, i \in 0 .. PPS - 1 :
       flash[cmd.lba + j][i] = Payload(tag, j * PPS + i)
  /\ \A i \in 0 .. UDISK_Sec_Pack_Count - 1 :
       UDisk_Down_Buffer[i] = Payload(tag, (cmd.n - s) * PPS + i)

Underway ==
  /\ cmd.op = "WRITE" /\ Udisk_Transfer_Status = {"DOWN", "CSW"} /\ Judged /\ Quiet
  /\ \E s \in 1 .. Capacity : ItsAhead(s) /\ Written(s)

Writing ==
  /\ Underway
  /\ hs = "out" /\ ~Seen => left = UDISK_Transfer_DataLen + 1
  /\ ~(hs = "out" /\ ~Seen) => left = UDISK_Transfer_DataLen

(* What a stage of the host says of the command, unless damage excuses it. *)
InTune ==
  damage = {} =>
    /\ hs = "idle" \/ (hs = "cbw" /\ Seen) => Udisk_Transfer_Status = {}
    /\ hs = "cbw" /\ ~Seen => \/ (Answering \/ Mute \/ Owed) /\ cmd.n = 0
                              \/ Failed \/ (Reading /\ ~Unseen) \/ Replying \/ Writing
    /\ hs = "out" => Writing \/ Failed \/ (Answering /\ ~Seen /\ left = 1)
    /\ hs = "in" => Reading \/ Replying \/ Failed
    /\ hs = "csw" => Answering \/ Failed \/ Mute \/ Owed
    /\ hs = "stalled" => Failed

AnswerInv == UDiskInv /\ InToggle /\ InSense /\ InTune

-----------------------------------------------------------------------------
(* Positions.                                                              *)

LEMMA Quotient ==
  ASSUME NEW k \in Nat
  PROVE  \E q \in Nat, r \in 0 .. PPS - 1 : q = k \div PPS /\ r = k % PPS /\ k = q * PPS + r
<1>1. PPS \in Nat \ {0} BY UDiskAssumption
<1>2. k % PPS \in 0 .. PPS - 1 BY <1>1, SMT
<1>3. k \div PPS \in Int /\ k \div PPS >= 0 BY <1>1, SMT
<1>4. PICK q \in Int : q = k \div PPS BY <1>3
<1>5. PICK r \in 0 .. PPS - 1 : r = k % PPS BY <1>2
<1>6. k = q * PPS + r BY <1>1, <1>4, <1>5, SMT
<1>7. q \in Nat BY <1>3, <1>4, SMT
<1> QED BY <1>4, <1>5, <1>6, <1>7

LEMMA QuotientOf ==
  ASSUME NEW q \in Nat, NEW r \in 0 .. PPS - 1
  PROVE  (q * PPS + r) \div PPS = q /\ (q * PPS + r) % PPS = r
BY UDiskAssumption, SMT

(* What is written when nothing is ahead any more.                         *)
LEMMA AllStored ==
  ASSUME NEW f, NEW c \in Commands, c.op = "WRITE", NEW t,
         \A j \in 0 .. c.n - 1, i \in 0 .. PPS - 1 : f[c.lba + j][i] = Payload(t, j * PPS + i)
  PROVE  \A k \in 0 .. Packets(c) - 1 : f[c.lba + k \div PPS][k % PPS] = Payload(t, k)
<1> SUFFICES ASSUME NEW k \in 0 .. Packets(c) - 1
             PROVE  f[c.lba + k \div PPS][k % PPS] = Payload(t, k)
  OBVIOUS
<1>1. c.n \in Nat /\ Packets(c) = c.n * PPS /\ c.n * PPS \in Nat
  BY CommandFields, ProductGrows, Numbers, SMT DEF Packets
<1>2. k \in Nat /\ k < c.n * PPS BY <1>1, SMT
<1>3. PICK q \in Nat, r \in 0 .. PPS - 1 : q = k \div PPS /\ r = k % PPS /\ k = q * PPS + r
  BY <1>2, Quotient
<1>4. q \in 0 .. c.n - 1
  <2>1. CASE c.n <= q
    <3>1. c.n * PPS <= q * PPS /\ q * PPS \in Nat BY <1>1, <1>3, <2>1, ProductGrows
    <3> QED BY <1>1, <1>2, <1>3, <3>1, Numbers, SMT
  <2> QED BY <1>1, <1>3, <2>1, SMT
<1>5. f[c.lba + q][r] = Payload(t, q * PPS + r) BY <1>3, <1>4
<1> QED BY <1>3, <1>5, Zenon

-----------------------------------------------------------------------------
(* Endpoint 2.                                                             *)

LEMMA Upload ==
  ASSUME AnswerInv, Quiet, NEW p, USBFS_Endp_DataUp(Endp_Busy, TX_RES, p), damage' = {}
  PROVE  /\ ~Unseen /\ TX_RES' = "ACK" /\ TX_Buf' = p /\ Endp_Busy' = 1
<1>1. Endp_Busy = 0 BY DEF USBFS_Endp_DataUp
<1>2. TX_RES = "NAK" BY <1>1 DEF AnswerInv, InToggle, Quiet
<1> QED BY <1>1, <1>2 DEF USBFS_Endp_DataUp, AnswerInv, InToggle

LEMMA UploadFree ==
  ASSUME NEW res, NEW p, USBFS_Endp_DataUp(0, res, p)
  PROVE  TX_RES' = "ACK" /\ TX_Buf' = p /\ Endp_Busy' = 1 /\ damage' = damage
BY DEF USBFS_Endp_DataUp

(* The status that is due, with what the transport remembers of it.        *)
LEMMA StatusAnswers ==
  ASSUME Judged, cmd.op # "WRITE", UNCHANGED <<reqVars, Udisk_CBW_Tag_Save, statVars>>,
         ~Unseen', Udisk_Transfer_Status' = {}, TX_RES' = "ACK",
         TX_Buf' = Csw(Udisk_CBW_Tag_Save, Udisk_CSW_Status)
  PROVE  Answering'
BY DEF Judged, Answering, reqVars, statVars, Failing

-----------------------------------------------------------------------------
(* A command block that is new to the transport.                           *)

LEMMA CommandTuned ==
  ASSUME AnswerInv, hs = "cbw", Seen, UDISK_SCSI_CMD_Deal, damage = {}, damage' = {},
         UNCHANGED <<reqVars, inTog, senseDue, TX_TOG, left>>
  PROVE  \/ (Answering \/ Mute \/ Owed)' /\ cmd.n = 0
         \/ Failed' \/ (Reading' /\ ~Unseen') \/ Replying'
         \/ Underway' /\ left = UDISK_Transfer_DataLen'
<1>1. /\ cmd \in Commands /\ tag \in 0 .. 1 /\ left = Packets(cmd)
      /\ Quiet /\ Udisk_Transfer_Status = {} /\ TransportOK /\ HostTypes
      /\ senseDue => Udisk_Sense_Key = 5
  BY DEF AnswerInv, UDiskInv, TransportInv, HostTypes, HostControl, InToggle, InSense, InTune
<1>2. /\ cmd.op \in Ops /\ cmd.dir \in {"in", "out", "none"}
      /\ cmd.lba \in 0 .. Capacity - 1 /\ cmd.n \in 0 .. Capacity
      /\ cmd.dir = "none" <=> cmd.n = 0
      /\ cmd.op \in {"READ", "WRITE"} => cmd.lba + cmd.n <= Capacity
      /\ cmd.op = "READ" => cmd.dir = "in"
      /\ cmd.op = "WRITE" => cmd.dir = "out"
      /\ cmd.op = "TEST_READY" => cmd.dir = "none"
      /\ cmd.op \in Replies => cmd.dir = "in" /\ cmd.n = 1
      /\ cmd.op = "MODE_SENSE2" => cmd.dir # "out"
  BY <1>1, CommandFields, UDiskAssumption
<1>3. /\ cmd' = cmd /\ tag' = tag /\ (Unseen' <=> Unseen) /\ left' = left /\ senseDue' = senseDue
      /\ Udisk_CBW_Tag_Save' = tag /\ mCBW_Op' = cmd.op /\ UNCHANGED storeVars
  BY DEF reqVars, Unseen, UDISK_SCSI_CMD_Deal
<1>4. /\ cmd.dir = "in" => Flags(cmd) = {"UP", "CSW"}
      /\ cmd.dir = "out" => Flags(cmd) = {"DOWN", "CSW"}
      /\ cmd.dir = "none" => Flags(cmd) = {"CSW"}
  BY <1>1 DEF Flags
<1>5. Packets(cmd) = IF cmd.op \in {"READ", "WRITE"} THEN cmd.n * PPS ELSE cmd.n BY DEF Packets
<1>6. CASE ReadCommand(cmd)
  <2>1. /\ cmd.op = "READ" /\ UDISK_Up_OnePack(Endp_Busy, TX_RES, {"UP", "CSW"}, cmd.lba, 0, cmd.n * PPS)
        /\ Udisk_CSW_Status' = 0 /\ cmd.n # 0
    BY <1>2, <1>4, <1>6 DEF ReadCommand
  <2>2. /\ USBFS_Endp_DataUp(Endp_Busy, TX_RES, Data(flash[cmd.lba][0]))
        /\ UDISK_Sec_Pack_Count' = IF 0 + 1 = PPS THEN 0 ELSE 0 + 1
        /\ UDISK_Cur_Sec_Lba' = IF 0 + 1 = PPS THEN cmd.lba + 1 ELSE cmd.lba
        /\ UDISK_Transfer_DataLen' = cmd.n * PPS - 1
        /\ Udisk_Transfer_Status' = IF cmd.n * PPS = 1 THEN {"UP", "CSW"} \ {"UP"} ELSE {"UP", "CSW"}
    BY <2>1 DEF UDISK_Up_OnePack, NextPack
  <2>3. ~Unseen /\ TX_RES' = "ACK" /\ TX_Buf' = Data(flash[cmd.lba][0])
    BY <1>1, <2>2, Upload
  <2>4. PICK k \in 1 .. Capacity : k = cmd.n BY <1>2, <2>1, Numbers, SMT
  <2>5. /\ k * PPS - 0 \in 1 .. PPS * Capacity
        /\ k * PPS - 0 = 1 => 0 + 1 = PPS
        /\ 0 + 1 # PPS => k * PPS - 0 - 1 = k * PPS - (0 + 1)
        /\ 0 + 1 = PPS /\ k * PPS - 0 # 1 => k - 1 \in 1 .. Capacity /\ k * PPS - 0 - 1 = (k - 1) * PPS
    <3>1. 0 \in 0 .. PPS - 1 BY Numbers, SMT
    <3> QED BY <3>1, OnePacket
  <2>6. k * PPS \in Nat /\ k * PPS - 0 = k * PPS /\ k * PPS > 0
    BY <2>4, <2>5, Numbers, ProductGrows, SMT
  <2>7. Judged' BY <1>3, <2>1 DEF Judged, Failing
  <2>8. left' = UDISK_Transfer_DataLen' + 1
    BY <1>1, <1>3, <1>5, <2>1, <2>2, <2>4, <2>6, SMT
  <2>9. UDISK_Transfer_DataLen' = 0 => Udisk_Transfer_Status' = {"CSW"}
    BY <2>2, <2>4, <2>6, SMT
  <2>10. UDISK_Transfer_DataLen' # 0 =>
           Udisk_Transfer_Status' = {"UP", "CSW"} /\ \E s \in 1 .. Capacity : ItsAhead(s)'
    <3> SUFFICES ASSUME UDISK_Transfer_DataLen' # 0
                 PROVE  Udisk_Transfer_Status' = {"UP", "CSW"} /\ \E s \in 1 .. Capacity : ItsAhead(s)'
      OBVIOUS
    <3>1. cmd.n * PPS # 1 BY <2>2, <2>4, <2>6, SMT
    <3>2. CASE 0 + 1 = PPS
      <4>1. ItsAhead(k - 1)'
        BY <1>2, <1>3, <2>1, <2>2, <2>4, <2>5, <2>6, <3>1, <3>2, Numbers, SMT DEF ItsAhead, Ahead
      <4>2. k - 1 \in 1 .. Capacity BY <2>4, <2>5, <2>6, <3>1, <3>2
      <4> QED BY <2>2, <3>1, <4>1, <4>2
    <3>3. CASE 0 + 1 # PPS
      <4>1. ItsAhead(k)'
        BY <1>2, <1>3, <2>1, <2>2, <2>4, <2>5, <2>6, <3>3, Numbers, SMT DEF ItsAhead, Ahead
      <4> QED BY <2>2, <3>1, <4>1
    <3> QED BY <3>2, <3>3
  <2>11. TX_Buf' = Data(flash'[cmd'.lba + Position' \div PPS][Position' % PPS])
    <3>1. Position' = 0
      <4>1. Packets(cmd)' = Packets(cmd) BY <1>3 DEF Packets
      <4>2. Packets(cmd) \in 0 .. PPS * Capacity BY <1>1, PacketsFit
      <4> QED BY <1>1, <1>3, <4>1, <4>2, Numbers, SMT DEF Position
    <3>2. 0 \div PPS = 0 /\ 0 % PPS = 0 /\ cmd.lba + 0 = cmd.lba BY <1>2, Numbers, SMT
    <3> QED BY <1>3, <2>3, <3>1, <3>2 DEF storeVars
  <2> QED BY <1>3, <2>1, <2>3, <2>7, <2>8, <2>9, <2>10, <2>11 DEF Reading
<1>7. CASE WriteCommand(cmd)
  <2>1. /\ cmd.op = "WRITE" /\ Udisk_Transfer_Status' = {"DOWN", "CSW"}
        /\ UDISK_Cur_Sec_Lba' = cmd.lba /\ UDISK_Sec_Pack_Count' = 0
        /\ UDISK_Transfer_DataLen' = cmd.n * PPS /\ Udisk_CSW_Status' = 0
        /\ TX_RES' = TX_RES /\ cmd.n # 0
    BY <1>2, <1>4, <1>7 DEF WriteCommand, StartSector, ep2Vars
  <2>2. PICK k \in 1 .. Capacity : k = cmd.n BY <1>2, <2>1, Numbers, SMT
  <2>3. k * PPS \in Nat BY <2>2, ProductGrows, Numbers, SMT
  <2>4. ItsAhead(k)' BY <1>2, <1>3, <2>1, <2>2, <2>3, Numbers, SMT DEF ItsAhead, Ahead
  <2>5. Written(k)'
    <3>1. 0 .. cmd'.n - k - 1 = {} /\ 0 .. UDISK_Sec_Pack_Count' - 1 = {} BY <1>3, <2>1, <2>2, SMT
    <3> QED BY <3>1 DEF Written
  <2>6. Judged' BY <1>3, <2>1 DEF Judged, Failing
  <2>7. Quiet' BY <1>1, <1>3, <2>1 DEF Quiet
  <2> QED BY <1>1, <1>3, <1>5, <2>1, <2>4, <2>5, <2>6, <2>7 DEF Underway
<1>8. CASE ReplyCommand(cmd)
  <2>1. /\ cmd.op \in Replies /\ UDISK_Bulk_UpData(Endp_Busy, TX_RES, {"UP", "CSW"}, cmd.n)
        /\ cmd.n = 1 /\ (cmd.op # "MODE_SENSE" => Udisk_CSW_Status' = 0)
    BY <1>2, <1>4, <1>8 DEF ReplyCommand, ReplyStatus
  <2>2. /\ USBFS_Endp_DataUp(Endp_Busy, TX_RES, [kind |-> "reply", tag |-> 0, val |-> Udisk_Sense_Key])
        /\ Udisk_Transfer_Status' = {"CSW"}
    BY <2>1, SMT DEF UDISK_Bulk_UpData
  <2>3. ~Unseen /\ TX_RES' = "ACK" /\ TX_Buf' = [kind |-> "reply", tag |-> 0, val |-> Udisk_Sense_Key]
    BY <1>1, <2>2, Upload
  <2>4. ~Failing(cmd) BY <2>1 DEF Failing, Replies
  <2>5. Judged' BY <1>3, <2>1, <2>4 DEF Judged, Failing
  <2>6. left = 1 BY <1>1, <1>5, <2>1 DEF Replies
  <2> QED BY <1>1, <1>3, <2>1, <2>2, <2>3, <2>5, <2>6 DEF Replying
<1>9. CASE PlainCommand(cmd)
  <2>1. /\ cmd.op = "TEST_READY" /\ UDISK_Up_CSW(Endp_Busy, TX_RES, tag, 0)
        /\ Udisk_CSW_Status' = 0 /\ cmd.n = 0
    BY <1>2, <1>4, <1>9 DEF PlainCommand
  <2>2. ~Unseen /\ TX_RES' = "ACK" /\ TX_Buf' = Csw(tag, 0) /\ Udisk_Transfer_Status' = {}
    BY <1>1, <2>1, Upload DEF UDISK_Up_CSW
  <2>3. Judged' BY <1>3, <2>1 DEF Judged, Failing
  <2> QED BY <1>3, <2>1, <2>2, <2>3 DEF Answering
<1>10. CASE FailedCommand(cmd)
  <2>1. /\ cmd.op \in {"UNSUPPORTED", "MODE_SENSE2"} /\ Udisk_CSW_Status' = 1
        /\ UDISK_CMD_Deal_Fail(Flags(cmd) \cup (IF cmd.op = "UNSUPPORTED" THEN {"UP"} ELSE {}))
    BY <1>10 DEF FailedCommand
  <2>2. Judged' BY <1>3, <2>1, SMT DEF Judged, Failing
  <2>3. Udisk_Transfer_Status' = {"CSW"} BY <1>2, <1>4, <2>1 DEF UDISK_CMD_Deal_Fail
  <2>4. CASE cmd.op = "UNSUPPORTED" \/ cmd.dir = "in"
    <3>1. TX_RES' = "STALL" BY <1>4, <2>1, <2>4 DEF UDISK_CMD_Deal_Fail
    <3> QED BY <1>3, <2>1, <2>2, <2>3, <3>1 DEF Failed, Failing
  <2>5. CASE cmd.op = "MODE_SENSE2" /\ cmd.dir = "none"
    <3>1. TX_RES' = TX_RES BY <1>4, <2>1, <2>5 DEF UDISK_CMD_Deal_Fail
    <3> QED BY <1>1, <1>2, <1>3, <2>2, <2>3, <2>5, <3>1 DEF Quiet, Mute, Owed
  <2> QED BY <1>2, <2>1, <2>4, <2>5
<1> QED BY <1>6, <1>7, <1>8, <1>9, <1>10 DEF UDISK_SCSI_CMD_Deal

-----------------------------------------------------------------------------
(* A data packet of a write that is new to the transport.                  *)

LEMMA DownTuned ==
  ASSUME AnswerInv, hs = "out", Underway, left = UDISK_Transfer_DataLen,
         UDISK_Down_OnePack(Payload(tag, Position)), damage' = {},
         UNCHANGED <<reqVars, inTog, senseDue, TX_TOG>>
  PROVE  (Underway' /\ left = UDISK_Transfer_DataLen' + 1) \/ (Answering' /\ left = 1)
<1> DEFINE count  == UDISK_Sec_Pack_Count
           len    == UDISK_Transfer_DataLen
           cur    == UDISK_Cur_Sec_Lba
           buffer == [UDisk_Down_Buffer EXCEPT ![count] = Payload(tag, Position)]
<1>1. PICK s \in 1 .. Capacity : ItsAhead(s) /\ Written(s) BY DEF Underway
<1>2. /\ cmd \in Commands /\ tag \in 0 .. 1 /\ cmd.op = "WRITE" /\ TransportOK
      /\ Udisk_Transfer_Status = {"DOWN", "CSW"} /\ Judged /\ Quiet
  BY DEF AnswerInv, UDiskInv, TransportInv, HostTypes, Underway
<1>3. PICK k \in 1 .. Capacity, lba \in 0 .. Capacity - 1 :
        k = cmd.n /\ lba = cmd.lba /\ lba + k <= Capacity
  <2>1. cmd.n \in 0 .. Capacity /\ cmd.lba \in 0 .. Capacity - 1 /\ cmd.lba + cmd.n <= Capacity
    BY <1>2, CommandFields
  <2>2. s <= cmd.n BY <1>1 DEF ItsAhead
  <2> QED BY <2>1, <2>2, Numbers, SMT
<1>4. /\ count \in 0 .. PPS - 1 /\ len = s * PPS - count /\ cur + s = lba + k /\ s <= k
      /\ cur \in 0 .. Capacity /\ cur + s <= Capacity
  BY <1>1, <1>2, <1>3 DEF TransportOK, ItsAhead, Ahead
<1>5. /\ len \in 1 .. PPS * Capacity
      /\ len = 1 => count + 1 = PPS
      /\ count + 1 # PPS => len - 1 = s * PPS - (count + 1)
      /\ count + 1 = PPS /\ len # 1 => s - 1 \in 1 .. Capacity /\ len - 1 = (s - 1) * PPS
  BY <1>4, OnePacket
<1>6. /\ UDisk_Down_Buffer' = buffer
      /\ flash' = IF count + 1 = PPS THEN [flash EXCEPT ![cur] = buffer] ELSE flash
      /\ UDISK_Sec_Pack_Count' = IF count + 1 = PPS THEN 0 ELSE count + 1
      /\ UDISK_Cur_Sec_Lba' = IF count + 1 = PPS THEN cur + 1 ELSE cur
      /\ UDISK_Transfer_DataLen' = len - 1
      /\ UNCHANGED <<Udisk_CBW_Tag_Save, Udisk_CSW_Status>>
      /\ cmd' = cmd /\ tag' = tag /\ (Unseen' <=> Unseen)
  BY DEF UDISK_Down_OnePack, NextPack, statVars, reqVars, Unseen
<1>7. Judged' BY <1>2, <1>6 DEF Judged, Failing
<1>8. Position = (k - s) * PPS + count
  <2>1. Packets(cmd) = k * PPS BY <1>2, <1>3 DEF Packets
  <2>2. k * PPS \in Nat /\ s * PPS \in Nat BY ProductGrows, Numbers, SMT
  <2>3. (k - s) * PPS = k * PPS - s * PPS BY Numbers, SMT
  <2> QED BY <1>4, <2>1, <2>2, <2>3, Numbers, SMT DEF Position
<1>9. \A i \in 0 .. count : buffer[i] = Payload(tag, (k - s) * PPS + i)
  <2> TAKE i \in 0 .. count
  <2>1. UDisk_Down_Buffer \in Sector /\ i \in 0 .. PPS - 1
    BY <1>2, <1>4, Numbers, SMT DEF TransportOK
  <2>2. CASE i = count BY <1>8, <2>1, <2>2 DEF Sector
  <2>3. CASE i # count
    <3>1. buffer[i] = UDisk_Down_Buffer[i] BY <2>1, <2>3 DEF Sector
    <3>2. i \in 0 .. count - 1 BY <1>4, <2>3, SMT
    <3> QED BY <1>1, <1>3, <3>1, <3>2 DEF Written
  <2> QED BY <2>2, <2>3
<1>10. \A j \in 0 .. k - s - 1, i \in 0 .. PPS - 1 : flash[lba + j][i] = Payload(tag, j * PPS + i)
  BY <1>1, <1>3 DEF Written
<1>11. flash \in [0 .. Capacity - 1 -> Sector] BY <1>2 DEF TransportOK
<1> HIDE DEF buffer
<1>12. CASE count + 1 # PPS
  <2>1. ItsAhead(s)' BY <1>1, <1>4, <1>5, <1>6, <1>12, Numbers, SMT DEF ItsAhead, Ahead
  <2>2. Written(s)'
    <3>1. flash' = flash /\ UDISK_Sec_Pack_Count' = count + 1 BY <1>6, <1>12
    <3>2. 0 .. UDISK_Sec_Pack_Count' - 1 = 0 .. count BY <1>4, <3>1, SMT
    <3> QED BY <1>3, <1>6, <1>9, <1>10, <3>1, <3>2 DEF Written
  <2>3. UNCHANGED <<Udisk_Transfer_Status, ep2Vars>> BY <1>12 DEF UDISK_Down_OnePack
  <2>4. Underway'
    BY <1>2, <1>6, <1>7, <2>1, <2>2, <2>3 DEF Underway, Quiet, ep2Vars
  <2> QED BY <1>5, <1>6, <2>4, SMT
<1>13. CASE count + 1 = PPS
  <2>1. \A j \in 0 .. k - s, i \in 0 .. PPS - 1 : flash'[lba + j][i] = Payload(tag, j * PPS + i)
    <3> TAKE j \in 0 .. k - s, i \in 0 .. PPS - 1
    <3>1. flash' = [flash EXCEPT ![cur] = buffer] BY <1>6, <1>13
    <3>2. lba + j \in 0 .. Capacity - 1 BY <1>3, <1>4, Numbers, SMT
    <3>3. CASE j = k - s
      <4>1. lba + j = cur BY <1>3, <1>4, <3>3, SMT
      <4>2. i \in 0 .. count BY <1>4, <1>13, SMT
      <4>3. flash'[lba + j] = buffer BY <1>11, <3>1, <3>2, <4>1
      <4> QED BY <1>9, <3>3, <4>2, <4>3
    <3>4. CASE j # k - s
      <4>1. lba + j # cur /\ j \in 0 .. k - s - 1 BY <1>3, <1>4, <3>4, SMT
      <4>2. flash'[lba + j] = flash[lba + j] BY <1>11, <3>1, <3>2, <4>1
      <4> QED BY <1>10, <4>1, <4>2
    <3> QED BY <3>3, <3>4
  <2>2. CASE len # 1
    <3>1. s - 1 \in 1 .. Capacity BY <1>5, <1>13, <2>2
    <3>2. ItsAhead(s - 1)'
      BY <1>3, <1>4, <1>5, <1>6, <1>13, <2>2, Numbers, SMT DEF ItsAhead, Ahead
    <3>3. Written(s - 1)'
      <4>1. 0 .. k - (s - 1) - 1 = 0 .. k - s BY <1>4, SMT
      <4>2. 0 .. UDISK_Sec_Pack_Count' - 1 = {} BY <1>6, <1>13, SMT
      <4> QED BY <1>3, <1>6, <2>1, <4>1, <4>2 DEF Written
    <3>4. UNCHANGED <<Udisk_Transfer_Status, ep2Vars>> BY <2>2 DEF UDISK_Down_OnePack
    <3>5. Underway'
      BY <1>2, <1>6, <1>7, <3>1, <3>2, <3>3, <3>4 DEF Underway, Quiet, ep2Vars
    <3> QED BY <1>5, <1>6, <3>5, SMT
  <2>3. CASE len = 1
    <3>1. s = 1
      <4>1. CASE 2 <= s
        <5>1. 2 * PPS <= s * PPS /\ s * PPS \in Nat BY <4>1, ProductGrows, Numbers, SMT
        <5> QED BY <1>4, <2>3, <5>1, Numbers, SMT
      <4> QED BY <4>1, Numbers, SMT
    <3>2. \A j \in 0 .. k - 1, i \in 0 .. PPS - 1 : flash'[lba + j][i] = Payload(tag, j * PPS + i)
      BY <2>1, <3>1
    <3>3. \A i \in 0 .. Packets(cmd) - 1 : flash'[cmd.lba + i \div PPS][i % PPS] = Payload(tag, i)
      BY <1>2, <1>3, <3>2, AllStored
    <3>4. Stored(cmd)' BY <1>6, <3>3 DEF Stored, Packets
    <3>5. /\ USBFS_Endp_DataUp(Endp_Busy, TX_RES, Csw(tag, Udisk_CSW_Status))
          /\ Udisk_Transfer_Status' = {}
      BY <1>2, <1>13, <2>3 DEF UDISK_Down_OnePack, UDISK_Up_CSW, Judged
    <3>6. ~Unseen /\ TX_RES' = "ACK" /\ TX_Buf' = Csw(tag, Udisk_CSW_Status)
      BY <1>2, <3>5, Upload
    <3>7. Answering' BY <1>6, <1>7, <3>4, <3>5, <3>6 DEF Answering
    <3> QED BY <2>3, <3>7
  <2> QED BY <2>2, <2>3
<1> QED BY <1>12, <1>13

-----------------------------------------------------------------------------
(* Packets out.                                                            *)

(* Where a command is depends on the transport and the command alone.      *)
LEMMA Unmoved ==
  ASSUME UNCHANGED <<xferVars, statVars, posVars, storeVars, ep2Vars, TX_TOG, inTog, reqVars>>
  PROVE  /\ Answering' <=> Answering
         /\ Failed' <=> Failed
         /\ Mute' <=> Mute
         /\ Owed' <=> Owed
         /\ Underway' <=> Underway
         /\ left' = left => (Reading' <=> Reading)
         /\ left' = left /\ senseDue' = senseDue => (Replying' <=> Replying)
<1>1. Judged' <=> Judged BY DEF Judged, Failing, xferVars, statVars, reqVars
<1>2. Unseen' <=> Unseen BY DEF Unseen
<1>3. \A s : ItsAhead(s)' <=> ItsAhead(s)
  BY DEF ItsAhead, Ahead, posVars, reqVars
<1>4. Answering' <=> Answering
  BY <1>1, <1>2 DEF Answering, Stored, Packets, xferVars, statVars, ep2Vars, storeVars, reqVars
<1>5. Failed' <=> Failed BY <1>1 DEF Failed, Failing, xferVars, ep2Vars, reqVars
<1>6. Mute' <=> Mute BY <1>1 DEF Mute, xferVars, ep2Vars, reqVars
<1>7. Owed' <=> Owed BY <1>1, <1>2 DEF Owed, xferVars, ep2Vars, reqVars
<1>8. Underway' <=> Underway
  BY <1>1, <1>2, <1>3 DEF Underway, Written, Quiet, xferVars, ep2Vars, storeVars, posVars, reqVars
<1>9. ASSUME left' = left PROVE Reading' <=> Reading
  BY <1>1, <1>2, <1>3, <1>9 DEF Reading, Position, Packets, xferVars, posVars, ep2Vars, storeVars, reqVars
<1>10. ASSUME left' = left, senseDue' = senseDue PROVE Replying' <=> Replying
  BY <1>1, <1>2, <1>10 DEF Replying, xferVars, ep2Vars, reqVars
<1> QED BY <1>4, <1>5, <1>6, <1>7, <1>8, <1>9, <1>10

(* What a packet leads to, whether or not the transport had it before.     *)
LEMMA PacketTuned ==
  ASSUME AnswerInv, hs \in {"cbw", "out"}, OutIsr, damage' = {},
         UNCHANGED <<reqVars, inTog, senseDue>>, hs = "cbw" => left' = left
  PROVE  /\ hs = "cbw" => \/ (Answering \/ Mute \/ Owed)' /\ cmd.n = 0
                          \/ Failed' \/ (Reading' /\ ~Unseen') \/ Replying'
                          \/ Underway' /\ left = UDISK_Transfer_DataLen'
         /\ hs = "out" => \/ Underway' /\ left = UDISK_Transfer_DataLen' + 1
                          \/ Failed'
                          \/ Answering' /\ left = 1
<1>1. TX_TOG' = TX_TOG BY DEF OutIsr
<1>2. damage = {}
  BY DEF OutIsr, OutDeal, UDISK_SCSI_CMD_Deal, ReadCommand, WriteCommand, ReplyCommand, PlainCommand,
     FailedCommand, BadCommand, IgnoredPacket, UDISK_Down_OnePack, UDISK_Up_OnePack, UDISK_Bulk_UpData,
     UDISK_Up_CSW, UDISK_CMD_Deal_Fail, USBFS_Endp_DataUp
<1>3. CASE Seen
  <2>1. OutDeal BY <1>3 DEF OutIsr, Seen
  <2>2. CASE hs = "cbw"
    <3>1. Udisk_Transfer_Status = {} BY <1>2, <1>3, <2>2 DEF AnswerInv, InTune
    <3>2. UDISK_SCSI_CMD_Deal BY <2>1, <2>2, <3>1 DEF OutDeal, UDISK_Down_OnePack
    <3> QED BY <1>1, <1>2, <1>3, <2>2, <3>2, CommandTuned
  <2>3. CASE hs = "out" /\ Writing
    <3>1. Underway /\ left = UDISK_Transfer_DataLen BY <1>3, <2>3 DEF Writing
    <3>2. "DOWN" \in Udisk_Transfer_Status BY <3>1 DEF Underway
    <3>3. UDISK_Down_OnePack(Payload(tag, Position))
      BY <2>1, <2>3, <3>2 DEF OutDeal, IgnoredPacket, BadCommand
    <3> QED BY <1>1, <2>3, <3>1, <3>3, DownTuned
  <2>4. CASE hs = "out" /\ Failed
    <3>1. "DOWN" \notin Udisk_Transfer_Status /\ Udisk_Transfer_Status = {"CSW"} BY <2>4 DEF Failed
    <3>2. IgnoredPacket \/ (BadCommand /\ cmd.op = "UNSUPPORTED")
      BY <2>1, <2>4, <3>1 DEF OutDeal, UDISK_Down_OnePack
    <3>3. CASE IgnoredPacket BY <1>1, <2>4, <3>3, Unmoved DEF IgnoredPacket
    <3>4. CASE BadCommand /\ cmd.op = "UNSUPPORTED"
      <4>1. /\ Udisk_Transfer_Status' = {"CSW"} /\ TX_RES' = "STALL"
            /\ Udisk_CSW_Status' = 2 /\ Udisk_CBW_Tag_Save' = Udisk_CBW_Tag_Save
            /\ cmd' = cmd /\ tag' = tag
        BY <3>1, <3>4 DEF BadCommand, UDISK_CMD_Deal_Fail, reqVars
      <4>2. Judged' /\ Failing(cmd')
        BY <2>4, <3>4, <4>1, SMT DEF Failed, Judged, Failing
      <4> QED BY <2>4, <4>1, <4>2 DEF Failed, Failing
    <3> QED BY <3>2, <3>3, <3>4
  <2> QED BY <1>2, <1>3, <2>2, <2>3, <2>4 DEF AnswerInv, InTune
<1>4. CASE ~Seen
  <2>1. UNCHANGED <<xferVars, statVars, posVars, storeVars, ep2Vars>> BY <1>4 DEF OutIsr, Seen
  <2>2. /\ Answering' <=> Answering
        /\ Failed' <=> Failed
        /\ Mute' <=> Mute
        /\ Owed' <=> Owed
        /\ Underway' <=> Underway
        /\ left' = left => (Reading' <=> Reading)
        /\ left' = left /\ senseDue' = senseDue => (Replying' <=> Replying)
        /\ Unseen' <=> Unseen
        /\ UDISK_Transfer_DataLen' = UDISK_Transfer_DataLen
    BY <1>1, <2>1, Unmoved DEF Unseen, posVars
  <2>3. CASE hs = "cbw"
    <3>1. \/ (Answering \/ Mute \/ Owed) /\ cmd.n = 0
          \/ Failed \/ (Reading /\ ~Unseen) \/ Replying \/ Writing
      BY <1>2, <1>4, <2>3 DEF AnswerInv, InTune
    <3>2. Writing => Underway /\ left = UDISK_Transfer_DataLen BY <2>3 DEF Writing
    <3> QED BY <2>2, <2>3, <3>1, <3>2
  <2>4. CASE hs = "out"
    <3>1. Writing \/ Failed \/ (Answering /\ left = 1)
      BY <1>2, <2>4 DEF AnswerInv, InTune
    <3>2. Writing => Underway /\ left = UDISK_Transfer_DataLen + 1 BY <1>4, <2>4 DEF Writing
    <3> QED BY <2>2, <2>4, <3>1, <3>2
  <2> QED BY <2>3, <2>4
<1> QED BY <1>3, <1>4

LEMMA OutTuned ==
  ASSUME AnswerInv, HostOut
  PROVE  InTune'
<1> SUFFICES ASSUME damage' = {} PROVE InTune' BY DEF InTune
<1>1. /\ hs \in {"cbw", "out"} /\ OutIsr /\ outTog' = 1 - outTog
      /\ UNCHANGED <<reqVars, inTog, senseDue>>
      /\ left' = IF hs = "out" THEN left - 1 ELSE left
      /\ hs' = IF left' = 0 THEN "csw" ELSE IF cmd.dir = "in" THEN "in" ELSE "out"
  BY DEF HostOut, AfterOut
<1>2. UDiskInv /\ HostTypes /\ HostControl BY DEF AnswerInv, UDiskInv
<1>3. Seen'
  <2>1. RX_TOG' \in 0 .. 1 /\ RX_TOG' # outTog BY <1>1, <1>2, OutGoesOn
  <2> QED BY <1>1, <1>2, <2>1, SMT DEF Seen, HostTypes
<1>4. /\ cmd \in Commands /\ left \in Nat /\ (hs = "cbw" => left = Packets(cmd)) /\ cmd' = cmd
      /\ hs' \in {"csw", "in", "out"}
  BY <1>1, <1>2, Numbers, SMT DEF HostTypes, HostControl, reqVars
<1>5. /\ cmd.op = "READ" => cmd.dir = "in"
      /\ cmd.op = "WRITE" => cmd.dir = "out"
      /\ cmd.op \in Replies => cmd.dir = "in"
  BY <1>4, CommandFields
<1>6. TransportInv' BY <1>2, TransportKept DEF Next
<1>7. ASSUME Failed' PROVE InTune' BY <1>4, <1>7 DEF InTune
<1>8. ASSUME Underway', left' = UDISK_Transfer_DataLen' PROVE InTune'
  <2>1. left' > 0 /\ left' \in Nat /\ cmd.op = "WRITE"
    <3>1. PICK s \in 1 .. Capacity : Ahead(s)' BY <1>8 DEF Underway, ItsAhead
    <3>2. /\ UDISK_Sec_Pack_Count' \in 0 .. PPS - 1
          /\ UDISK_Transfer_DataLen' = s * PPS - UDISK_Sec_Pack_Count'
      BY <1>6, <3>1 DEF TransportInv, TransportOK, Ahead
    <3>3. left' \in 1 .. PPS * Capacity BY <1>8, <3>2, OnePacket
    <3>4. left' > 0 /\ left' \in Nat BY <3>3, Numbers, SMT
    <3> QED BY <1>4, <1>8, <3>4 DEF Underway
  <2>2. hs' = "out"
    <3>1. left' # 0 BY <2>1, SMT
    <3> QED BY <1>1, <1>5, <2>1, <3>1
  <2> QED BY <1>3, <1>8, <2>2 DEF InTune, Writing
<1>9. CASE hs = "cbw"
  <2>1. left' = left BY <1>1, <1>9
  <2>2. \/ (Answering \/ Mute \/ Owed)' /\ cmd.n = 0
        \/ Failed' \/ (Reading' /\ ~Unseen') \/ Replying'
        \/ Underway' /\ left = UDISK_Transfer_DataLen'
    BY <1>1, <1>9, <2>1, PacketTuned
  <2>3. ASSUME (Answering \/ Mute \/ Owed)', cmd.n = 0 PROVE InTune'
    <3>1. Packets(cmd) = 0 BY <2>3, Numbers, SMT DEF Packets
    <3>2. hs' = "csw" BY <1>1, <1>4, <1>9, <2>1, <3>1
    <3> QED BY <2>3, <3>2 DEF InTune
  <2>4. ASSUME Reading', ~Unseen' PROVE InTune'
    <3>1. left' = UDISK_Transfer_DataLen' + 1 /\ cmd.op = "READ" BY <1>4, <2>4 DEF Reading
    <3>2. UDISK_Transfer_DataLen' \in Nat BY <1>6, Numbers, SMT DEF TransportInv, TransportOK
    <3>3. left' # 0
      <4>1. PICK k \in Nat : left' = k + 1 BY <3>1, <3>2
      <4> QED BY <4>1, SMT
    <3>4. hs' = "in" BY <1>1, <1>5, <3>1, <3>3
    <3> QED BY <2>4, <3>4 DEF InTune
  <2>5. ASSUME Replying' PROVE InTune'
    <3>1. left' = 1 /\ cmd.op \in Replies BY <1>4, <2>5 DEF Replying
    <3>2. hs' = "in" BY <1>1, <1>5, <3>1, SMT
    <3> QED BY <2>5, <3>2 DEF InTune
  <2>6. ASSUME Underway', left = UDISK_Transfer_DataLen' PROVE InTune' BY <1>8, <2>1, <2>6
  <2> QED BY <1>7, <2>2, <2>3, <2>4, <2>5, <2>6
<1>10. CASE hs = "out"
  <2>1. left' = left - 1 BY <1>1, <1>10
  <2>2. \/ Underway' /\ left = UDISK_Transfer_DataLen' + 1
        \/ Failed'
        \/ Answering' /\ left = 1
    BY <1>1, <1>10, PacketTuned
  <2>3. ASSUME Underway', left = UDISK_Transfer_DataLen' + 1 PROVE InTune'
    <3>1. UDISK_Transfer_DataLen' \in Nat BY <1>6, Numbers, SMT DEF TransportInv, TransportOK
    <3>2. left' = UDISK_Transfer_DataLen' BY <2>1, <2>3, <3>1, OneLess
    <3> QED BY <1>8, <2>3, <3>2
  <2>4. ASSUME Answering', left = 1 PROVE InTune'
    <3>1. hs' = "csw" BY <1>1, <2>1, <2>4, SMT
    <3> QED BY <2>4, <3>1 DEF InTune
  <2> QED BY <1>7, <2>2, <2>3, <2>4
<1> QED BY <1>1, <1>9, <1>10

LEMMA OutLostTuned ==
  ASSUME AnswerInv, HostOutLost
  PROVE  InTune'
<1> SUFFICES ASSUME damage' = {} PROVE InTune' BY DEF InTune
<1>1. /\ hs \in {"cbw", "out"} /\ OutIsr /\ outTog' = outTog /\ hs' = hs /\ left' = left
      /\ UNCHANGED <<reqVars, inTog, senseDue>> /\ cmd' = cmd
  BY DEF HostOutLost, hostVars, reqVars
<1>2. ~Seen'
  <2>1. RX_TOG' # outTog BY <1>1, OutGoesOn DEF AnswerInv
  <2> QED BY <1>1, <2>1 DEF Seen
<1>3. CASE hs = "cbw"
  <2>1. \/ (Answering \/ Mute \/ Owed)' /\ cmd.n = 0
        \/ Failed' \/ (Reading' /\ ~Unseen') \/ Replying'
        \/ Underway' /\ left = UDISK_Transfer_DataLen'
    BY <1>1, <1>3, PacketTuned
  <2>2. Underway' /\ left = UDISK_Transfer_DataLen' => Writing' BY <1>1, <1>3 DEF Writing
  <2> QED BY <1>1, <1>2, <1>3, <2>1, <2>2 DEF InTune
<1>4. CASE hs = "out"
  <2>1. \/ Underway' /\ left = UDISK_Transfer_DataLen' + 1
        \/ Failed'
        \/ Answering' /\ left = 1
    BY <1>1, <1>4, PacketTuned
  <2>2. Underway' /\ left = UDISK_Transfer_DataLen' + 1 => Writing' BY <1>1, <1>2, <1>4 DEF Writing
  <2> QED BY <1>1, <1>2, <1>4, <2>1, <2>2 DEF InTune
<1> QED BY <1>1, <1>3, <1>4

-----------------------------------------------------------------------------
(* Packets in.                                                             *)

(* The next packet of a read; s sectors are ahead.                         *)
LEMMA NextTuned ==
  ASSUME UDiskInv, Reading, UDISK_Transfer_DataLen # 0, InIsr, left' = UDISK_Transfer_DataLen,
         UNCHANGED reqVars, ~Unseen'
  PROVE  Reading'
<1> DEFINE count == UDISK_Sec_Pack_Count
           len   == UDISK_Transfer_DataLen
           cur   == UDISK_Cur_Sec_Lba
<1>1. /\ Udisk_Transfer_Status = {"UP", "CSW"} /\ mCBW_Op = "READ" /\ cmd.op = "READ" /\ Judged
      /\ cmd \in Commands /\ TransportOK
  BY DEF Reading, UDiskInv, TransportInv, HostTypes
<1>2. PICK s \in 1 .. Capacity : ItsAhead(s) BY DEF Reading
<1>3. PICK k \in 1 .. Capacity, lba \in 0 .. Capacity - 1 : k = cmd.n /\ lba = cmd.lba
  <2>1. cmd.n \in 0 .. Capacity /\ cmd.lba \in 0 .. Capacity - 1 BY <1>1, CommandFields
  <2>2. s <= cmd.n BY <1>2 DEF ItsAhead
  <2> QED BY <2>1, <2>2, Numbers, SMT
<1>4. /\ count \in 0 .. PPS - 1 /\ len = s * PPS - count /\ cur + s = lba + k /\ s <= k
      /\ cur \in 0 .. Capacity /\ cur + s <= Capacity
  BY <1>1, <1>2, <1>3 DEF TransportOK, ItsAhead, Ahead
<1>5. /\ len \in 1 .. PPS * Capacity
      /\ len = 1 => count + 1 = PPS
      /\ count + 1 # PPS => len - 1 = s * PPS - (count + 1)
      /\ count + 1 = PPS /\ len # 1 => s - 1 \in 1 .. Capacity /\ len - 1 = (s - 1) * PPS
  BY <1>4, OnePacket
<1>6. UDISK_Up_OnePack(0, "NAK", Udisk_Transfer_Status, cur, count, len)
  BY <1>1 DEF InIsr, InDeal
<1>7. /\ USBFS_Endp_DataUp(0, "NAK", Data(flash[cur][count]))
      /\ UDISK_Sec_Pack_Count' = IF count + 1 = PPS THEN 0 ELSE count + 1
      /\ UDISK_Cur_Sec_Lba' = IF count + 1 = PPS THEN cur + 1 ELSE cur
      /\ UDISK_Transfer_DataLen' = len - 1
      /\ Udisk_Transfer_Status' = IF len = 1 THEN {"UP", "CSW"} \ {"UP"} ELSE {"UP", "CSW"}
  BY <1>1, <1>6 DEF UDISK_Up_OnePack, NextPack
<1>8. TX_RES' = "ACK" /\ TX_Buf' = Data(flash[cur][count]) BY <1>7, UploadFree
<1>9. /\ cmd' = cmd /\ tag' = tag /\ flash' = flash /\ mCBW_Op' = mCBW_Op
      /\ UNCHANGED <<Udisk_CBW_Tag_Save, Udisk_CSW_Status>>
  BY DEF InIsr, reqVars, storeVars, statVars
<1>10. Judged' BY <1>1, <1>9 DEF Judged, Failing
<1>11. Position' = (k - s) * PPS + count
  <2>1. Packets(cmd)' = k * PPS BY <1>1, <1>3, <1>9 DEF Packets
  <2>2. k * PPS \in Nat /\ s * PPS \in Nat BY ProductGrows, Numbers, SMT
  <2>3. (k - s) * PPS = k * PPS - s * PPS BY Numbers, SMT
  <2> QED BY <1>4, <2>1, <2>2, <2>3, Numbers, SMT DEF Position
<1>12. TX_Buf' = Data(flash'[cmd'.lba + Position' \div PPS][Position' % PPS])
  <2>1. k - s \in Nat BY <1>4, SMT
  <2>2. Position' \div PPS = k - s /\ Position' % PPS = count BY <1>4, <1>11, <2>1, QuotientOf
  <2>3. lba + (k - s) = cur BY <1>3, <1>4, SMT
  <2> QED BY <1>3, <1>8, <1>9, <2>2, <2>3
<1>13. left' = UDISK_Transfer_DataLen' + 1 BY <1>5, <1>7, SMT
<1>14. UDISK_Transfer_DataLen' = 0 => Udisk_Transfer_Status' = {"CSW"} BY <1>5, <1>7, SMT
<1>15. UDISK_Transfer_DataLen' # 0 =>
         Udisk_Transfer_Status' = {"UP", "CSW"} /\ \E r \in 1 .. Capacity : ItsAhead(r)'
  <2> SUFFICES ASSUME UDISK_Transfer_DataLen' # 0
               PROVE  Udisk_Transfer_Status' = {"UP", "CSW"} /\ \E r \in 1 .. Capacity : ItsAhead(r)'
    OBVIOUS
  <2>1. len # 1 BY <1>7, SMT
  <2>2. CASE count + 1 = PPS
    <3>1. ItsAhead(s - 1)'
      BY <1>3, <1>4, <1>5, <1>7, <1>9, <2>1, <2>2, Numbers, SMT DEF ItsAhead, Ahead
    <3> QED BY <1>5, <1>7, <2>1, <2>2, <3>1
  <2>3. CASE count + 1 # PPS
    <3>1. ItsAhead(s)'
      BY <1>3, <1>4, <1>5, <1>7, <1>9, <2>3, Numbers, SMT DEF ItsAhead, Ahead
    <3> QED BY <1>7, <2>1, <3>1
  <2> QED BY <2>2, <2>3
<1> QED BY <1>1, <1>8, <1>9, <1>10, <1>12, <1>13, <1>14, <1>15 DEF Reading

(* The status that was due, once the packet before it is through.          *)
LEMMA DueTuned ==
  ASSUME Judged, cmd.op # "WRITE", Udisk_Transfer_Status = {"CSW"}, InIsr,
         UNCHANGED reqVars, ~Unseen'
  PROVE  Answering'
<1>1. UDISK_Up_CSW(0, "NAK", Udisk_CBW_Tag_Save, Udisk_CSW_Status) BY DEF InIsr, InDeal
<1>2. /\ Udisk_Transfer_Status' = {}
      /\ USBFS_Endp_DataUp(0, "NAK", Csw(Udisk_CBW_Tag_Save, Udisk_CSW_Status))
  BY <1>1 DEF UDISK_Up_CSW
<1>3. TX_RES' = "ACK" /\ TX_Buf' = Csw(Udisk_CBW_Tag_Save, Udisk_CSW_Status)
  BY <1>2, UploadFree
<1> QED BY <1>2, <1>3, StatusAnswers DEF InIsr

LEMMA InKeepsDamage ==
  ASSUME InIsr
  PROVE  damage' = damage
BY DEF InIsr, InDeal, UDISK_Up_OnePack, UDISK_Bulk_UpData, UDISK_Up_CSW, USBFS_Endp_DataUp

LEMMA InTuned ==
  ASSUME AnswerInv, HostIn
  PROVE  InTune'
<1> SUFFICES ASSUME damage' = {} PROVE InTune' BY DEF InTune
<1>1. /\ hs \in {"in", "csw"} /\ TX_RES = "ACK" /\ InIsr /\ TX_TOG' = 1 - TX_TOG
      /\ UNCHANGED <<reqVars, outTog>> /\ damage = {}
  BY InKeepsDamage DEF HostIn, InIsr
<1>2. UDiskInv /\ HostTypes /\ HostControl BY DEF AnswerInv, UDiskInv
<1>3. /\ Unseen => UNCHANGED <<hs, left, inTog>>
      /\ ~Unseen => HostTakes(TX_Buf) /\ inTog' = 1 - inTog
  BY DEF HostIn, Unseen
<1>4. ~Unseen'
  <2>1. TX_TOG \in 0 .. 1 /\ inTog \in 0 .. 1 BY <1>2 DEF HostTypes
  <2> QED BY <1>1, <1>3, <2>1, SMT DEF Unseen
<1>5. CASE hs = "in" /\ Reading
  <2>1. /\ left' = UDISK_Transfer_DataLen
        /\ hs' = IF UDISK_Transfer_DataLen > 0 THEN "in" ELSE "csw"
    <3>1. UDISK_Transfer_DataLen \in Nat /\ left > 0
      BY <1>2, <1>5, Numbers, SMT DEF UDiskInv, TransportInv, TransportOK, HostControl
    <3>2. CASE Unseen BY <1>3, <1>5, <3>1, <3>2 DEF Reading
    <3>3. CASE ~Unseen
      <4>1. TX_Buf.kind = "data" /\ left = UDISK_Transfer_DataLen + 1 BY <1>5, <3>3 DEF Reading, Data
      <4>2. /\ left' = left - 1
            /\ hs' = IF TX_Buf.kind = "data" /\ left' > 0 THEN "in" ELSE "csw"
        BY <1>3, <1>5, <3>3 DEF HostTakes
      <4>3. left' = UDISK_Transfer_DataLen BY <3>1, <4>1, <4>2, OneLess
      <4> QED BY <4>1, <4>2, <4>3
    <3> QED BY <3>2, <3>3
  <2>2. CASE UDISK_Transfer_DataLen # 0
    <3>1. Reading' BY <1>1, <1>2, <1>4, <1>5, <2>1, <2>2, NextTuned
    <3>2. UDISK_Transfer_DataLen > 0
      BY <1>2, <2>2, Numbers, SMT DEF UDiskInv, TransportInv, TransportOK
    <3> QED BY <2>1, <3>1, <3>2 DEF InTune
  <2>3. CASE UDISK_Transfer_DataLen = 0
    <3>1. Udisk_Transfer_Status = {"CSW"} /\ Judged /\ cmd.op # "WRITE" BY <1>5, <2>3 DEF Reading
    <3>2. Answering' BY <1>1, <1>4, <3>1, DueTuned
    <3>3. hs' = "csw" BY <2>1, <2>3, SMT
    <3> QED BY <3>2, <3>3 DEF InTune
  <2> QED BY <2>2, <2>3
<1>6. CASE hs = "in" /\ Replying
  <2>1. Udisk_Transfer_Status = {"CSW"} /\ Judged /\ cmd.op # "WRITE" /\ ~Unseen /\ left = 1
    BY <1>6 DEF Replying, Replies
  <2>2. Answering' BY <1>1, <1>4, <2>1, DueTuned
  <2>3. hs' = "csw"
    <3>1. left' = 0 BY <1>3, <1>6, <2>1, SMT DEF HostTakes
    <3> QED BY <1>3, <1>6, <2>1, <3>1, SMT DEF HostTakes
  <2> QED BY <2>2, <2>3 DEF InTune
<1>7. CASE hs = "csw" /\ Owed
  <2>1. Udisk_Transfer_Status = {"CSW"} /\ Judged /\ cmd.op # "WRITE" /\ Unseen BY <1>7 DEF Owed
  <2>2. Answering' BY <1>1, <1>4, <2>1, DueTuned
  <2> QED BY <1>3, <1>7, <2>1, <2>2 DEF InTune
<1>8. CASE hs = "csw" /\ Answering
  <2>1. Udisk_Transfer_Status = {} /\ ~Unseen BY <1>8 DEF Answering
  <2>2. Udisk_Transfer_Status' = {} BY <1>1, <2>1 DEF InIsr, InDeal
  <2>3. hs' \in {"idle", "reset"} BY <1>3, <1>8, <2>1 DEF HostTakes
  <2> QED BY <2>2, <2>3 DEF InTune
<1> QED BY <1>1, <1>5, <1>6, <1>7, <1>8 DEF AnswerInv, InTune, Failed, Mute

(* The host has the packet, and the transport does not know it.            *)
LEMMA InLostTuned ==
  ASSUME AnswerInv, HostInLost
  PROVE  InTune'
<1> SUFFICES ASSUME damage' = {} PROVE InTune' BY DEF InTune
<1>1. /\ hs \in {"in", "csw"} /\ TX_RES = "ACK" /\ ~Unseen /\ HostTakes(TX_Buf)
      /\ inTog' = 1 - inTog /\ UNCHANGED <<devVars, reqVars, outTog>> /\ damage = {}
      /\ cmd' = cmd /\ tag' = tag
  BY DEF HostInLost, Unseen, reqVars
<1>2. UDiskInv /\ HostTypes BY DEF AnswerInv, UDiskInv
<1>3. Unseen'
  <2>1. TX_TOG \in 0 .. 1 /\ inTog \in 0 .. 1 BY <1>2 DEF HostTypes
  <2> QED BY <1>1, <2>1, SMT DEF Unseen, devVars
<1>4. /\ UNCHANGED <<Udisk_Transfer_Status, mCBW_Op, TX_RES, TX_Buf, flash>>
      /\ UNCHANGED posVars
      /\ Judged' <=> Judged
  BY <1>1 DEF devVars, xferVars, statVars, ep2Vars, storeVars, Judged, Failing, reqVars
<1>5. CASE hs = "in" /\ Reading
  <2>1. left' = left - 1 /\ left = UDISK_Transfer_DataLen + 1 /\ TX_Buf.kind = "data"
        /\ hs' = IF TX_Buf.kind = "data" /\ left' > 0 THEN "in" ELSE "csw"
    BY <1>1, <1>5 DEF HostTakes, Reading, Data
  <2>2. UDISK_Transfer_DataLen \in Nat
    BY <1>2, Numbers, SMT DEF UDiskInv, TransportInv, TransportOK
  <2>3. left' = UDISK_Transfer_DataLen BY <2>1, <2>2, OneLess
  <2>4. CASE UDISK_Transfer_DataLen = 0
    <3>1. hs' = "csw" BY <2>1, <2>3, <2>4, SMT
    <3>2. Owed' BY <1>1, <1>3, <1>4, <1>5, <2>4 DEF Reading, Owed
    <3> QED BY <3>1, <3>2 DEF InTune
  <2>5. CASE UDISK_Transfer_DataLen # 0
    <3>1. hs' = "in" BY <2>1, <2>2, <2>3, <2>5, SMT
    <3>2. \A s : ItsAhead(s) => ItsAhead(s)' BY <1>1, <1>4 DEF ItsAhead, Ahead, posVars
    <3>3. UDISK_Transfer_DataLen' = UDISK_Transfer_DataLen BY <1>4 DEF posVars
    <3>4. Reading' BY <1>1, <1>3, <1>4, <1>5, <2>3, <2>5, <3>2, <3>3 DEF Reading
    <3> QED BY <3>1, <3>4 DEF InTune
  <2> QED BY <2>4, <2>5
<1>6. CASE hs = "in" /\ Replying
  <2>1. left' = 0 BY <1>1, <1>6, SMT DEF HostTakes, Replying
  <2>2. hs' = "csw" BY <1>1, <1>6, <2>1, SMT DEF HostTakes
  <2>3. Owed' BY <1>1, <1>3, <1>4, <1>6 DEF Replying, Replies, Owed
  <2> QED BY <2>2, <2>3 DEF InTune
<1>7. CASE hs = "csw" /\ Answering
  <2>1. hs' \in {"idle", "reset"} BY <1>1, <1>7 DEF HostTakes
  <2> QED BY <1>4, <1>7, <2>1 DEF InTune, Answering
<1> QED BY <1>1, <1>5, <1>6, <1>7 DEF AnswerInv, InTune, Failed, Mute, Owed

-----------------------------------------------------------------------------
(* The other steps of a command.                                           *)

LEMMA IssueTuned ==
  ASSUME AnswerInv, NEW c \in Commands, Issue(c)
  PROVE  InTune'
<1> SUFFICES ASSUME damage' = {} PROVE InTune' BY DEF InTune
<1>1. /\ hs = "idle" /\ hs' = "cbw" /\ UNCHANGED <<RX_TOG, outTog, Udisk_Transfer_Status>>
      /\ damage' = IF InStep THEN {} ELSE damage
  BY DEF Issue, devVars, xferVars
<1>2. Seen' BY <1>1 DEF AnswerInv, InToggle, Seen
<1>3. Udisk_Transfer_Status = {} BY <1>1 DEF AnswerInv, InTune, InStep
<1> QED BY <1>1, <1>2, <1>3 DEF InTune

LEMMA GivesUpTuned ==
  ASSUME AnswerInv, HostStalled \/ HostTimeout \/ HostAborts
  PROVE  InTune'
<1> SUFFICES ASSUME damage' = {}, hs' # "reset" PROVE InTune' BY DEF InTune
<1>1. /\ HostStalled /\ damage = {} /\ hs \in {"in", "csw"} /\ TX_RES = "STALL" /\ hs' = "stalled"
      /\ UNCHANGED <<xferVars, statVars, posVars, storeVars, ep2Vars, TX_TOG, inTog, reqVars>>
  BY DEF HostStalled, HostTimeout, HostAborts, devVars
<1>2. Failed
  BY <1>1 DEF AnswerInv, InTune, Reading, Replying, Answering, Mute, Owed
<1>3. Failed' BY <1>1, <1>2, Unmoved
<1> QED BY <1>1, <1>3 DEF InTune

LEMMA ClearHaltTuned ==
  ASSUME AnswerInv, ClearHaltIn \/ ClearHaltOut
  PROVE  InTune'
<1> SUFFICES ASSUME damage' = {} PROVE InTune' BY DEF InTune
<1>1. CASE ClearHaltIn /\ hs = "stalled"
  <2>1. /\ ClearHaltUpload /\ hs' = "csw" /\ TX_TOG' = 0 /\ inTog' = 0
        /\ UNCHANGED <<reqVars, Udisk_CBW_Tag_Save, statVars>>
    BY <1>1 DEF ClearHaltIn
  <2>2. damage = {}
    BY <2>1 DEF ClearHaltUpload, UDISK_Up_CSW, USBFS_Endp_DataUp
  <2>3. Failed BY <1>1, <2>2 DEF AnswerInv, InTune
  <2>4. /\ Udisk_Transfer_Status' = {} /\ TX_RES' = "ACK"
        /\ TX_Buf' = Csw(Udisk_CBW_Tag_Save, Udisk_CSW_Status)
    BY <2>1, <2>3 DEF Failed, ClearHaltUpload, UDISK_Up_CSW, USBFS_Endp_DataUp
  <2>5. Judged /\ cmd.op # "WRITE" BY <2>3 DEF Failed, Failing
  <2>6. ~Unseen' BY <2>1 DEF Unseen
  <2>7. Answering' BY <2>1, <2>4, <2>5, <2>6, StatusAnswers
  <2> QED BY <2>1, <2>7 DEF InTune
<1>2. CASE ClearHaltIn /\ hs = "clearIn"
  <2>1. hs' = "clearOut" BY <1>2 DEF ClearHaltIn
  <2> QED BY <2>1 DEF InTune
<1>3. CASE ClearHaltOut
  <2>1. hs' = "idle" /\ Udisk_Transfer_Status' = {}
    BY <1>3 DEF ClearHaltOut, AnswerInv, UDiskInv, Recovering, xferVars
  <2> QED BY <2>1 DEF InTune
<1> QED BY <1>1, <1>2, <1>3 DEF ClearHaltIn

LEMMA ResetTuned ==
  ASSUME AnswerInv, ClassReset \/ HostBusReset \/ BusResetAnyway
  PROVE  InTune'
BY DEF ClassReset, HostBusReset, BusResetAnyway, BusResetIsr, InTune, xferVars

-----------------------------------------------------------------------------
(* Toggles and sense keys.                                                 *)

LEMMA UploadSteady ==
  ASSUME NEW busy, NEW res, res = "ACK" => busy = 1, NEW p, USBFS_Endp_DataUp(busy, res, p)
  PROVE  /\ TX_RES' = "ACK" => Endp_Busy' = 1
         /\ TX_RES' = "NAK" => res = "NAK"
         /\ TX_RES' = "ACK" => TX_Buf' = p \/ (res = "ACK" /\ TX_Buf' = TX_Buf)
BY DEF USBFS_Endp_DataUp

LEMMA OutSteady ==
  ASSUME AnswerInv, hs \in {"cbw", "out"}, OutIsr
  PROVE  /\ TX_RES' = "ACK" => Endp_Busy' = 1
         /\ TX_RES' = "NAK" => ~Unseen
         /\ TX_RES' = "ACK" /\ ~Unseen /\ TX_Buf'.kind = "csw" => Udisk_Transfer_Status' = {}
         /\ Udisk_CSW_Status' # 0 => Udisk_Sense_Key' = 5
         /\ TX_RES' = "ACK" /\ ~Unseen /\ TX_Buf'.kind = "csw" /\ TX_Buf'.val # 0 =>
              Udisk_Sense_Key' = 5
         /\ senseDue => Udisk_Sense_Key' = 5
<1>1. /\ TX_RES = "ACK" => Endp_Busy = 1
      /\ TX_RES = "NAK" => ~Unseen
      /\ TX_RES = "ACK" /\ ~Unseen /\ TX_Buf.kind = "csw" => Udisk_Transfer_Status = {}
      /\ Udisk_CSW_Status # 0 => Udisk_Sense_Key = 5
      /\ TX_RES = "ACK" /\ ~Unseen /\ TX_Buf.kind = "csw" /\ TX_Buf.val # 0 => Udisk_Sense_Key = 5
      /\ senseDue => Udisk_Sense_Key = 5
      /\ senseDue /\ hs = "cbw" => cmd.op = "REQUEST_SENSE"
      /\ hs = "cbw" /\ Seen => Quiet
  BY DEF AnswerInv, InToggle, InSense
<1>2. ASSUME UNCHANGED <<xferVars, statVars, ep2Vars>>
      PROVE  /\ UNCHANGED <<Udisk_Transfer_Status, Udisk_CSW_Status, Udisk_Sense_Key>>
             /\ UNCHANGED <<Endp_Busy, TX_RES, TX_Buf>>
  BY <1>2 DEF xferVars, statVars, ep2Vars
<1>3. CASE ~Seen BY <1>1, <1>2, <1>3 DEF OutIsr, Seen
<1>4. CASE Seen /\ IgnoredPacket BY <1>1, <1>2, <1>4 DEF IgnoredPacket
<1>5. CASE Seen /\ BadCommand BY <1>1, <1>5 DEF BadCommand, UDISK_CMD_Deal_Fail
<1>6. ASSUME NEW p, UDISK_Down_OnePack(p)
      PROVE  /\ TX_RES' = "ACK" => Endp_Busy' = 1
             /\ TX_RES' = "NAK" => ~Unseen
             /\ TX_RES' = "ACK" /\ ~Unseen /\ TX_Buf'.kind = "csw" => Udisk_Transfer_Status' = {}
             /\ Udisk_CSW_Status' # 0 => Udisk_Sense_Key' = 5
             /\ TX_RES' = "ACK" /\ ~Unseen /\ TX_Buf'.kind = "csw" /\ TX_Buf'.val # 0 =>
                  Udisk_Sense_Key' = 5
             /\ senseDue => Udisk_Sense_Key' = 5
  <2>1. Udisk_CSW_Status' = Udisk_CSW_Status /\ Udisk_Sense_Key' = Udisk_Sense_Key
    BY <1>6 DEF UDISK_Down_OnePack, statVars
  <2>2. CASE UNCHANGED <<Udisk_Transfer_Status, ep2Vars, damage>>
    BY <1>1, <2>1, <2>2 DEF ep2Vars
  <2>3. CASE UDISK_Up_CSW(Endp_Busy, TX_RES, Udisk_CBW_Tag_Save, Udisk_CSW_Status)
    <3>1. /\ Udisk_Transfer_Status' = {}
          /\ USBFS_Endp_DataUp(Endp_Busy, TX_RES, Csw(Udisk_CBW_Tag_Save, Udisk_CSW_Status))
      BY <2>3 DEF UDISK_Up_CSW
    <3>2. /\ TX_RES' = "ACK" => Endp_Busy' = 1
          /\ TX_RES' = "NAK" => TX_RES = "NAK"
          /\ TX_RES' = "ACK" => \/ TX_Buf' = Csw(Udisk_CBW_Tag_Save, Udisk_CSW_Status)
                                \/ TX_RES = "ACK" /\ TX_Buf' = TX_Buf
      BY <1>1, <3>1, UploadSteady
    <3>3. Csw(Udisk_CBW_Tag_Save, Udisk_CSW_Status).val = Udisk_CSW_Status BY DEF Csw
    <3> QED BY <1>1, <2>1, <3>1, <3>2, <3>3
  <2> QED BY <1>6, <2>2, <2>3 DEF UDISK_Down_OnePack
<1>7. CASE Seen /\ hs = "cbw" /\ UDISK_SCSI_CMD_Deal
  <2>1. TX_RES = "NAK" \/ (TX_RES = "ACK" /\ Unseen) BY <1>1, <1>7 DEF Quiet
  <2>2. ASSUME NEW p, USBFS_Endp_DataUp(Endp_Busy, TX_RES, p)
        PROVE  /\ TX_RES' = "ACK" => Endp_Busy' = 1
               /\ TX_RES' = "NAK" => ~Unseen
               /\ TX_RES' = "ACK" /\ ~Unseen => TX_Buf' = p
    BY <1>1, <2>1, <2>2, UploadSteady
  <2>3. CASE ReadCommand(cmd)
    <3>1. /\ cmd.op = "READ" /\ Udisk_CSW_Status' = 0
          /\ USBFS_Endp_DataUp(Endp_Busy, TX_RES, Data(flash[cmd.lba][0]))
      BY <2>3 DEF ReadCommand, UDISK_Up_OnePack
    <3>2. Data(flash[cmd.lba][0]).kind # "csw" BY DEF Data
    <3>3. ~senseDue BY <1>1, <1>7, <3>1
    <3> QED BY <2>2, <3>1, <3>2, <3>3
  <2>4. CASE WriteCommand(cmd)
    <3>1. cmd.op = "WRITE" /\ Udisk_CSW_Status' = 0 /\ UNCHANGED <<Endp_Busy, TX_RES, TX_Buf>>
      BY <2>4 DEF WriteCommand, ep2Vars
    <3> QED BY <1>1, <1>7, <2>1, <3>1
  <2>5. CASE ReplyCommand(cmd)
    <3> DEFINE p == IF cmd.n = 0 THEN NoPacket
                    ELSE [kind |-> "reply", tag |-> 0, val |-> Udisk_Sense_Key]
    <3>1. USBFS_Endp_DataUp(Endp_Busy, TX_RES, p) /\ ReplyStatus(cmd)
      BY <2>5 DEF ReplyCommand, UDISK_Bulk_UpData
    <3>2. p.kind # "csw" BY DEF NoPacket
    <3> HIDE DEF p
    <3>3. /\ Udisk_CSW_Status' = IF cmd.op = "MODE_SENSE" THEN Udisk_CSW_Status ELSE 0
          /\ Udisk_Sense_Key' = IF cmd.op = "INQUIRY" THEN 0 ELSE Udisk_Sense_Key
      BY <3>1 DEF ReplyStatus
    <3> QED BY <1>1, <1>7, <2>2, <3>1, <3>2, <3>3
  <2>6. CASE PlainCommand(cmd)
    <3>1. cmd.op = "TEST_READY" /\ Udisk_CSW_Status' = 0 BY <2>6 DEF PlainCommand
    <3>2. ~senseDue BY <1>1, <1>7, <3>1
    <3>3. CASE UDISK_Bulk_UpData(Endp_Busy, TX_RES, Flags(cmd), 0)
      <4>1. USBFS_Endp_DataUp(Endp_Busy, TX_RES, NoPacket) BY <3>3 DEF UDISK_Bulk_UpData
      <4>2. NoPacket.kind # "csw" BY DEF NoPacket
      <4> QED BY <2>2, <3>1, <3>2, <4>1, <4>2
    <3>4. CASE UDISK_Up_CSW(Endp_Busy, TX_RES, tag, 0)
      <4>1. Udisk_Transfer_Status' = {} /\ USBFS_Endp_DataUp(Endp_Busy, TX_RES, Csw(tag, 0))
        BY <3>4 DEF UDISK_Up_CSW
      <4>2. Csw(tag, 0).val = 0 BY DEF Csw
      <4> QED BY <2>2, <3>1, <3>2, <4>1, <4>2
    <3> QED BY <2>6, <3>3, <3>4 DEF PlainCommand
  <2>7. CASE FailedCommand(cmd)
    <3>1. /\ Udisk_Sense_Key' = 5 /\ Endp_Busy' = Endp_Busy
          /\ TX_RES' = "STALL" \/ UNCHANGED <<TX_RES, TX_Buf>>
      BY <2>7 DEF FailedCommand, UDISK_CMD_Deal_Fail
    <3> QED BY <1>1, <2>1, <3>1
  <2> QED BY <1>7, <2>3, <2>4, <2>5, <2>6, <2>7 DEF UDISK_SCSI_CMD_Deal
<1> QED BY <1>3, <1>4, <1>5, <1>6, <1>7 DEF OutIsr, OutDeal, Seen

LEMMA OutInSense ==
  ASSUME AnswerInv, HostOut \/ HostOutLost
  PROVE  InToggle' /\ InSense'
<1>1. /\ hs \in {"cbw", "out"} /\ OutIsr /\ UNCHANGED <<inTog, senseDue, TX_TOG>> /\ cmd' = cmd
      /\ \/ hs' \in {"csw", "in", "out"} /\ outTog' = 1 - outTog
         \/ hs' = hs /\ outTog' = outTog
  BY DEF HostOut, HostOutLost, OutIsr, AfterOut, hostVars, reqVars
<1>2. RX_TOG' \in 0 .. 1 /\ RX_TOG' # outTog /\ outTog \in 0 .. 1
  BY <1>1, OutGoesOn DEF AnswerInv, UDiskInv, HostTypes
<1>3. (hs' \in {"csw", "in", "out"} /\ Seen') \/ (hs' = hs /\ ~Seen')
  BY <1>1, <1>2, SMT DEF Seen
<1>4. /\ TX_RES' = "ACK" => Endp_Busy' = 1
      /\ TX_RES' = "NAK" => ~Unseen
      /\ TX_RES' = "ACK" /\ ~Unseen /\ TX_Buf'.kind = "csw" => Udisk_Transfer_Status' = {}
      /\ Udisk_CSW_Status' # 0 => Udisk_Sense_Key' = 5
      /\ TX_RES' = "ACK" /\ ~Unseen /\ TX_Buf'.kind = "csw" /\ TX_Buf'.val # 0 =>
           Udisk_Sense_Key' = 5
      /\ senseDue => Udisk_Sense_Key' = 5
  BY <1>1, OutSteady
<1>5. Unseen' <=> Unseen BY <1>1 DEF Unseen
<1>6. InToggle' BY <1>1, <1>3, <1>4, <1>5 DEF InToggle
<1>7. senseDue' /\ hs' = "cbw" => cmd'.op = "REQUEST_SENSE"
  BY <1>1, <1>3 DEF AnswerInv, InSense
<1>8. InSense' BY <1>1, <1>4, <1>5, <1>7 DEF InSense
<1> QED BY <1>6, <1>8

LEMMA InSteady ==
  ASSUME InIsr
  PROVE  /\ TX_RES' = "ACK" => Endp_Busy' = 1
         /\ Udisk_Transfer_Status = {} => TX_RES' = "NAK"
         /\ TX_RES' = "ACK" /\ TX_Buf'.kind = "csw" =>
              Udisk_Transfer_Status' = {} /\ TX_Buf'.val = Udisk_CSW_Status
         /\ UNCHANGED <<Udisk_CSW_Status, Udisk_Sense_Key, RX_TOG>>
<1>1. UNCHANGED <<Udisk_CSW_Status, Udisk_Sense_Key, RX_TOG>> /\ InDeal BY DEF InIsr, statVars
<1>2. ASSUME NEW p, USBFS_Endp_DataUp(0, "NAK", p)
      PROVE  TX_RES' = "ACK" /\ Endp_Busy' = 1 /\ TX_Buf' = p
  BY <1>2, UploadFree
<1>3. ASSUME "UP" \in Udisk_Transfer_Status,
             UDISK_Up_OnePack(0, "NAK", Udisk_Transfer_Status, UDISK_Cur_Sec_Lba,
                              UDISK_Sec_Pack_Count, UDISK_Transfer_DataLen)
      PROVE  TX_RES' = "ACK" /\ Endp_Busy' = 1 /\ TX_Buf'.kind # "csw"
  <2>1. USBFS_Endp_DataUp(0, "NAK", Data(flash[UDISK_Cur_Sec_Lba][UDISK_Sec_Pack_Count]))
    BY <1>3 DEF UDISK_Up_OnePack
  <2>2. Data(flash[UDISK_Cur_Sec_Lba][UDISK_Sec_Pack_Count]).kind # "csw" BY DEF Data
  <2> QED BY <1>2, <2>1, <2>2
<1>4. ASSUME "UP" \in Udisk_Transfer_Status,
             UDISK_Bulk_UpData(0, "NAK", Udisk_Transfer_Status, UDISK_Transfer_DataLen)
      PROVE  TX_RES' = "ACK" /\ Endp_Busy' = 1 /\ TX_Buf'.kind # "csw"
  <2> DEFINE p == IF UDISK_Transfer_DataLen = 0 THEN NoPacket
                  ELSE [kind |-> "reply", tag |-> 0, val |-> Udisk_Sense_Key]
  <2>1. USBFS_Endp_DataUp(0, "NAK", p) BY <1>4 DEF UDISK_Bulk_UpData
  <2>2. p.kind # "csw" BY DEF NoPacket
  <2> HIDE DEF p
  <2> QED BY <1>2, <2>1, <2>2
<1>5. ASSUME "CSW" \in Udisk_Transfer_Status,
             UDISK_Up_CSW(0, "NAK", Udisk_CBW_Tag_Save, Udisk_CSW_Status)
      PROVE  /\ TX_RES' = "ACK" /\ Endp_Busy' = 1 /\ Udisk_Transfer_Status' = {}
             /\ TX_Buf'.val = Udisk_CSW_Status
  BY <1>2, <1>5 DEF UDISK_Up_CSW, Csw
<1> QED BY <1>1, <1>3, <1>4, <1>5 DEF InDeal

LEMMA InInSense ==
  ASSUME AnswerInv, HostIn \/ HostInLost
  PROVE  InToggle' /\ InSense'
<1>1. /\ hs \in {"in", "csw"} /\ TX_RES = "ACK" /\ UNCHANGED <<reqVars, outTog>>
      /\ Seen /\ Endp_Busy = 1
      /\ ~Unseen /\ TX_Buf.kind = "csw" => Udisk_Transfer_Status = {}
      /\ Udisk_CSW_Status # 0 => Udisk_Sense_Key = 5
      /\ ~Unseen /\ TX_Buf.kind = "csw" /\ TX_Buf.val # 0 => Udisk_Sense_Key = 5
      /\ senseDue => Udisk_Sense_Key = 5
  BY DEF HostIn, HostInLost, AnswerInv, InToggle, InSense
<1>2. /\ TX_TOG \in 0 .. 1 /\ inTog \in 0 .. 1 /\ senseDue \in BOOLEAN
  BY DEF AnswerInv, UDiskInv, HostTypes
<1>3. ASSUME HostTakes(TX_Buf), ~Unseen
      PROVE  /\ hs' \in {"in", "csw", "idle", "reset"}
             /\ hs' = "idle" => Udisk_Transfer_Status = {}
             /\ senseDue' => Udisk_Sense_Key = 5
  <2>1. CASE hs = "csw" /\ Good(TX_Buf) /\ hs' = "idle" /\ senseDue' = (TX_Buf.val = 1)
    <3>1. TX_Buf.kind = "csw" BY <2>1 DEF Good
    <3>2. TX_Buf.val = 1 => TX_Buf.val # 0 BY SMT
    <3>3. Udisk_Transfer_Status = {} /\ (TX_Buf.val = 1 => Udisk_Sense_Key = 5)
      BY <1>1, <1>3, <3>1, <3>2
    <3> QED BY <2>1, <3>3
  <2>2. CASE hs' \in {"in", "csw", "reset"} /\ senseDue' = senseDue BY <1>1, <2>2
  <2> QED BY <1>3, <2>1, <2>2 DEF HostTakes
<1>4. CASE HostIn
  <2>1. InIsr /\ TX_TOG' = 1 - TX_TOG BY <1>4 DEF HostIn, InIsr
  <2>2. \/ Unseen /\ UNCHANGED <<hs, senseDue, inTog>>
        \/ ~Unseen /\ HostTakes(TX_Buf) /\ inTog' = 1 - inTog
    BY <1>4 DEF HostIn, Unseen
  <2>3. ~Unseen' BY <1>2, <2>1, <2>2, SMT DEF Unseen
  <2>4. /\ TX_RES' = "ACK" => Endp_Busy' = 1
        /\ Udisk_Transfer_Status = {} => TX_RES' = "NAK"
        /\ TX_RES' = "ACK" /\ TX_Buf'.kind = "csw" =>
             Udisk_Transfer_Status' = {} /\ TX_Buf'.val = Udisk_CSW_Status
        /\ UNCHANGED <<Udisk_CSW_Status, Udisk_Sense_Key, RX_TOG>>
    BY <2>1, InSteady
  <2>5. /\ hs' \in {"in", "csw", "idle", "reset"}
        /\ hs' = "idle" => Udisk_Transfer_Status = {}
        /\ senseDue' => Udisk_Sense_Key = 5
    BY <1>1, <1>3, <2>2
  <2>6. Seen' BY <1>1, <2>4 DEF Seen
  <2>7. InToggle' BY <2>3, <2>4, <2>5, <2>6 DEF InToggle, Quiet
  <2>8. InSense' BY <1>1, <2>4, <2>5 DEF InSense
  <2> QED BY <2>7, <2>8
<1>5. CASE HostInLost
  <2>1. ~Unseen /\ HostTakes(TX_Buf) /\ inTog' = 1 - inTog /\ UNCHANGED devVars
    BY <1>5 DEF HostInLost, Unseen
  <2>2. /\ UNCHANGED <<Endp_Busy, TX_RES, TX_TOG, RX_TOG>>
        /\ UNCHANGED <<Udisk_CSW_Status, Udisk_Sense_Key>>
    BY <2>1 DEF devVars, ep2Vars, statVars
  <2>3. Unseen' BY <1>2, <2>1, <2>2, SMT DEF Unseen
  <2>4. /\ hs' \in {"in", "csw", "idle", "reset"}
        /\ senseDue' => Udisk_Sense_Key = 5
    BY <1>3, <2>1
  <2>5. Seen' BY <1>1, <2>2 DEF Seen
  <2>6. InToggle' BY <1>1, <2>2, <2>3, <2>4, <2>5 DEF InToggle, Quiet
  <2>7. InSense' BY <1>1, <2>2, <2>3, <2>4 DEF InSense
  <2> QED BY <2>6, <2>7
<1> QED BY <1>4, <1>5

LEMMA HostInSense ==
  ASSUME AnswerInv, (\E c \in Commands : Issue(c)) \/ HostStalled \/ HostTimeout \/ HostAborts
  PROVE  InToggle' /\ InSense'
<1>1. /\ UNCHANGED <<devVars, inTog, outTog, senseDue>>
      /\ \/ hs = "idle" /\ hs' = "cbw" /\ (senseDue => cmd' = Sense)
         \/ hs \in {"in", "csw"} /\ hs' = "stalled"
         \/ hs' = "reset"
  BY DEF Issue, HostStalled, HostTimeout, HostAborts
<1>2. /\ UNCHANGED <<Udisk_Transfer_Status, Endp_Busy, TX_RES, TX_TOG, TX_Buf, RX_TOG>>
      /\ UNCHANGED <<Udisk_CSW_Status, Udisk_Sense_Key>>
  BY <1>1 DEF devVars, xferVars, ep2Vars, statVars
<1>3. (Unseen' <=> Unseen) /\ (Seen' <=> Seen) /\ (Quiet' <=> Quiet)
  BY <1>1, <1>2 DEF Unseen, Seen, Quiet
<1>4. InToggle' BY <1>1, <1>2, <1>3 DEF AnswerInv, InToggle
<1>5. InSense'
  <2>1. Sense.op = "REQUEST_SENSE" BY DEF Sense
  <2> QED BY <1>1, <1>2, <1>3, <2>1 DEF AnswerInv, InSense, InToggle
<1> QED BY <1>4, <1>5

LEMMA RecoveryInSense ==
  ASSUME AnswerInv, ClearHaltIn \/ ClearHaltOut \/ ClassReset \/ HostBusReset \/ BusResetAnyway
  PROVE  InToggle' /\ InSense'
<1>1. InToggle /\ InSense /\ Recovering BY DEF AnswerInv, UDiskInv
<1>2. CASE ClearHaltIn
  <2>1. /\ hs \in {"stalled", "clearIn"} /\ ClearHaltUpload
        /\ TX_TOG' = 0 /\ inTog' = 0
        /\ hs' = IF hs = "stalled" THEN "csw" ELSE "clearOut"
        /\ UNCHANGED <<statVars, RX_TOG, outTog, senseDue>>
    BY <1>2 DEF ClearHaltIn
  <2>2. /\ UNCHANGED <<Udisk_CSW_Status, Udisk_Sense_Key>> /\ ~Unseen' /\ (Seen' <=> Seen)
    BY <2>1 DEF statVars, Unseen, Seen
  <2>3. /\ TX_RES' = "ACK" =>
             /\ Endp_Busy' = 1 /\ Udisk_Transfer_Status' = {} /\ "CSW" \in Udisk_Transfer_Status
             /\ TX_Buf'.val = Udisk_CSW_Status
        /\ TX_RES' \in {"ACK", "NAK"}
    BY <2>1 DEF ClearHaltUpload, UDISK_Up_CSW, USBFS_Endp_DataUp, Csw
  <2>4. hs' = "clearOut" => TX_RES' = "NAK" BY <1>1, <2>1, <2>3 DEF Recovering
  <2>5. InToggle' BY <1>1, <2>1, <2>2, <2>3, <2>4 DEF InToggle
  <2>6. InSense' BY <1>1, <2>1, <2>2, <2>3 DEF InSense
  <2> QED BY <2>5, <2>6
<1>3. CASE ClearHaltOut
  <2>1. /\ hs = "clearOut" /\ hs' = "idle" /\ RX_TOG' = 0 /\ outTog' = 0
        /\ UNCHANGED <<Udisk_CSW_Status, Udisk_Sense_Key, senseDue>>
        /\ UNCHANGED <<TX_RES, TX_TOG, inTog>>
    BY <1>3 DEF ClearHaltOut, ep2Vars, statVars
  <2>2. TX_RES' = "NAK" /\ (Unseen' <=> Unseen) /\ Seen' BY <1>1, <2>1 DEF InToggle, Unseen, Seen
  <2>3. InToggle' BY <1>1, <2>1, <2>2 DEF InToggle, Quiet
  <2>4. InSense' BY <1>1, <2>1, <2>2 DEF InSense
  <2> QED BY <2>3, <2>4
<1>4. CASE ClassReset
  <2>1. /\ hs' = "clearIn" /\ senseDue' = FALSE /\ Udisk_Transfer_Status' = {}
        /\ Udisk_CSW_Status' = 0 /\ UNCHANGED <<Endp_Busy, TX_RES, TX_TOG, inTog>>
    BY <1>4 DEF ClassReset, ep2Vars
  <2>2. Unseen' <=> Unseen BY <2>1 DEF Unseen
  <2>3. InToggle' BY <1>1, <2>1, <2>2 DEF InToggle
  <2>4. InSense' BY <2>1 DEF InSense
  <2> QED BY <2>3, <2>4
<1>5. CASE HostBusReset \/ BusResetAnyway
  <2>1. /\ hs' \in {"reset", "idle"} /\ senseDue' = FALSE /\ TX_RES' = "NAK"
        /\ TX_TOG' = 0 /\ inTog' = 0 /\ RX_TOG' = 0 /\ outTog' = 0
        /\ UNCHANGED <<Udisk_CSW_Status, Udisk_Sense_Key>>
    BY <1>5 DEF HostBusReset, BusResetAnyway, BusResetIsr, statVars
  <2>2. ~Unseen' /\ Seen' BY <2>1 DEF Unseen, Seen
  <2>3. InToggle' BY <2>1, <2>2 DEF InToggle, Quiet
  <2>4. InSense' BY <1>1, <2>1 DEF InSense
  <2> QED BY <2>3, <2>4
<1> QED BY <1>2, <1>3, <1>4, <1>5

-----------------------------------------------------------------------------
(* The invariant.                                                          *)

LEMMA AnswerKept ==
  ASSUME AnswerInv, [Next]_vars
  PROVE  AnswerInv'
<1>1. UDiskInv' BY UDiskKeepsInv DEF AnswerInv
<1>2. CASE UNCHANGED vars
  <2>1. /\ UNCHANGED <<xferVars, statVars, posVars, storeVars, ep2Vars, TX_TOG, RX_TOG>>
        /\ UNCHANGED <<hs, reqVars, left, inTog, outTog, senseDue, damage>>
    BY <1>2 DEF vars, devVars, hostVars
  <2>2. (Unseen' <=> Unseen) /\ (Seen' <=> Seen) BY <2>1 DEF Unseen, Seen
  <2>3. InToggle' BY <2>1, <2>2 DEF AnswerInv, InToggle, Quiet, xferVars, ep2Vars
  <2>4. InSense' BY <2>1, <2>2 DEF AnswerInv, InSense, statVars, ep2Vars, reqVars
  <2>5. /\ UNCHANGED <<hs, left, damage, cmd, Udisk_Transfer_Status, UDISK_Transfer_DataLen>>
        /\ Answering' <=> Answering
        /\ Failed' <=> Failed
        /\ Mute' <=> Mute
        /\ Owed' <=> Owed
        /\ Underway' <=> Underway
        /\ Reading' <=> Reading
        /\ Replying' <=> Replying
    BY <2>1, Unmoved DEF xferVars, posVars, reqVars
  <2>6. Writing' <=> Writing BY <2>2, <2>5 DEF Writing
  <2>7. InTune' BY <2>2, <2>5, <2>6 DEF AnswerInv, InTune
  <2> QED BY <1>1, <2>3, <2>4, <2>7 DEF AnswerInv
<1>3. CASE Next
  <2>1. InTune'
    BY <1>3, IssueTuned, OutTuned, OutLostTuned, InTuned, InLostTuned, GivesUpTuned, ClearHaltTuned,
       ResetTuned DEF Next, Recovery
  <2>2. InToggle' /\ InSense'
    BY <1>3, OutInSense, InInSense, HostInSense, RecoveryInSense DEF Next, Recovery
  <2> QED BY <1>1, <2>1, <2>2 DEF AnswerInv
<1> QED BY <1>2, <1>3

LEMMA AnswerStarts == Init => AnswerInv
<1> SUFFICES ASSUME Init PROVE AnswerInv OBVIOUS
<1>1. UDiskInv BY UDiskStarts
<1>2. InToggle BY DEF Init, InToggle, Unseen, Seen, Quiet
<1>3. InSense BY DEF Init, InSense
<1>4. InTune BY DEF Init, InTune
<1> QED BY <1>1, <1>2, <1>3, <1>4 DEF AnswerInv

-----------------------------------------------------------------------------
(* Theorems.                                                               *)

(* UDISK_Up_CSW (SW_UDISK.c) gives each command its own status, success    *)
(* for just the commands the disk executes, and a write's only when all of *)
(* its packets are in the flash: for every size of disk and sector, every  *)
(* set of commands, and any number of repeated packets and resets, unless  *)
(* a refused upload or flags a bus reset left excuse it.                   *)
THEOREM StatusAlwaysTrue == Spec => []StatusIsTrue
<1>1. AnswerInv => StatusIsTrue
  <2> SUFFICES ASSUME AnswerInv, Offered, hs = "csw"
               PROVE  /\ TX_Buf.kind = "csw" /\ TX_Buf.tag = tag
                      /\ cmd.op # "MODE_SENSE" => (TX_Buf.val = 0 <=> ~Failing(cmd))
                      /\ cmd.op = "WRITE" => Stored(cmd)
    BY DEF StatusIsTrue
  <2>1. Answering BY DEF AnswerInv, InTune, Offered, Failed, Mute, Owed, Unseen
  <2> QED BY <2>1 DEF Answering, Csw, Judged
<1> QED BY <1>1, AnswerStarts, AnswerKept, PTL DEF Spec

(* The packets of UDISK_Up_OnePack are the disk's, in order and once each, *)
(* and REQUEST_SENSE tells of the failure that made the host ask.          *)
THEOREM ReadsAlwaysStored == Spec => []ReadsWhatIsStored
<1>1. AnswerInv => ReadsWhatIsStored
  <2> SUFFICES ASSUME AnswerInv, Offered, hs = "in"
               PROVE  /\ cmd.op = "READ" =>
                           TX_Buf = Data(flash[cmd.lba + Position \div PPS][Position % PPS])
                      /\ cmd.op = "REQUEST_SENSE" /\ senseDue =>
                           TX_Buf.kind = "reply" /\ TX_Buf.val = 5
    BY DEF ReadsWhatIsStored
  <2>1. (Reading \/ Replying) /\ ~Unseen BY DEF AnswerInv, InTune, Offered, Failed, Unseen
  <2> QED BY <2>1 DEF Reading, Replying, Replies
<1> QED BY <1>1, AnswerStarts, AnswerKept, PTL DEF Spec

(* The handlers leave the host without an answer only after a refused      *)
(* upload or flags a bus reset left, or for the one MODE_SENSE(10) without *)
(* data.                                                                   *)
THEOREM SilenceIsExcused == Spec => []SilentOnlyAfterDamage
<1>1. AnswerInv => SilentOnlyAfterDamage
  BY DEF AnswerInv, InTune, SilentOnlyAfterDamage, Silent, Reading, Replying, Failed, Answering, Owed, Mute
<1> QED BY <1>1, AnswerStarts, AnswerKept, PTL DEF Spec

=============================================================================
