---------------------------- MODULE UDiskBotProofs ----------------------------
(***************************************************************************)
(* No transfer of the disk leaves the disk, and only writes change it.     *)
(***************************************************************************)
EXTENDS UDiskBot, TLAPS

LEMMA Numbers ==
  /\ PPS \in Nat /\ PPS > 0 /\ Capacity \in Nat /\ Capacity > 0 /\ MaxFaults \in Nat
  /\ PPS * Capacity \in Nat
BY UDiskAssumption, SMT

LEMMA ProductGrows ==
  ASSUME NEW a \in Nat, NEW b \in Nat, a <= b
  PROVE  a * PPS <= b * PPS /\ a * PPS \in Nat
BY Numbers, SMT

LEMMA OneLess == \A a, b : \A c \in Nat : a = c + 1 /\ b = a - 1 => b = c
BY SMT

LEMMA CommandFields ==
  ASSUME NEW c \in Commands
  PROVE  /\ c.op \in Ops /\ c.dir \in {"in", "out", "none"}
         /\ c.lba \in 0 .. Capacity - 1 /\ c.n \in 0 .. Capacity
         /\ c.dir = "none" <=> c.n = 0
         /\ c.op \in {"READ", "WRITE"} => c.lba + c.n <= Capacity
         /\ c.op = "READ" => c.dir = "in"
         /\ c.op = "WRITE" => c.dir = "out"
         /\ c.op = "TEST_READY" => c.dir = "none"
         /\ c.op \in Replies => c.dir = "in"
         /\ c.op = "MODE_SENSE2" => c.dir # "out"
BY UDiskAssumption DEF CommandSet

LEMMA PacketsFit ==
  ASSUME NEW c \in Commands
  PROVE  Packets(c) \in 0 .. PPS * Capacity
<1>1. c.n \in Nat /\ c.n <= Capacity BY CommandFields, Numbers, SMT
<1>2. c.n * PPS <= Capacity * PPS /\ c.n * PPS \in Nat BY <1>1, Numbers, ProductGrows
<1>3. c.n <= PPS * Capacity BY <1>1, Numbers, SMT
<1> QED BY <1>1, <1>2, <1>3, Numbers, SMT DEF Packets

(* One packet of the sectors ahead: the last packet is the last of its     *)
(* sector, and after another one the sectors ahead are as many, or one     *)
(* less at the end of a sector.                                            *)
LEMMA OnePacket ==
  ASSUME NEW s \in 1 .. Capacity, NEW count \in 0 .. PPS - 1, NEW len, len = s * PPS - count
  PROVE  /\ len \in 1 .. PPS * Capacity
         /\ len = 1 => count + 1 = PPS
         /\ count + 1 # PPS => len - 1 = s * PPS - (count + 1)
         /\ count + 1 = PPS /\ len # 1 => s - 1 \in 1 .. Capacity /\ len - 1 = (s - 1) * PPS
<1>1. s * PPS <= Capacity * PPS /\ s * PPS \in Nat BY Numbers, ProductGrows, SMT
<1>2. (s - 1) * PPS = s * PPS - PPS BY Numbers, SMT
<1>3. CASE s = 1 BY <1>1, <1>2, <1>3, Numbers, SMT
<1>4. CASE s > 1
  <2>1. 1 * PPS <= (s - 1) * PPS BY <1>4, Numbers, ProductGrows, SMT
  <2> QED BY <1>1, <1>2, <1>4, <2>1, Numbers, SMT
<1> QED BY <1>3, <1>4, Numbers, SMT

-----------------------------------------------------------------------------
(* The transport.                                                          *)

(* Its types.                                                              *)
TransportOK ==
  /\ Udisk_Transfer_Status \subseteq {"UP", "DOWN", "CSW"}
  /\ Udisk_CSW_Status \in 0 .. 2 /\ Udisk_Sense_Key \in {0, 5}
  /\ Udisk_CBW_Tag_Save \in 0 .. 1 /\ mCBW_Op \in Ops
  /\ UDISK_Transfer_DataLen \in 0 .. PPS * Capacity
  /\ UDISK_Cur_Sec_Lba \in 0 .. Capacity
  /\ UDISK_Sec_Pack_Count \in 0 .. PPS - 1
  /\ UDisk_Down_Buffer \in Sector /\ flash \in [0 .. Capacity - 1 -> Sector]
  /\ Endp_Busy \in 0 .. 1 /\ TX_RES \in {"NAK", "ACK", "STALL"}
  /\ TX_Buf \in [kind : {"zlp", "reply", "data", "csw"}, tag : 0 .. 3,
                 val : 0 .. PPS * Capacity + 5]
  /\ damage \subseteq {"stale", "refused"}

(* A transfer of sectors under way has s of them ahead, counting the one   *)
(* it is in, all of them on the disk.                                      *)
Ahead(s) ==
  /\ UDISK_Cur_Sec_Lba + s <= Capacity
  /\ UDISK_Transfer_DataLen = s * PPS - UDISK_Sec_Pack_Count

Moving == \/ "DOWN" \in Udisk_Transfer_Status
          \/ "UP" \in Udisk_Transfer_Status /\ mCBW_Op = "READ"

InsideDisk == Moving => \E s \in 1 .. Capacity : Ahead(s)

TransportInv == TransportOK /\ InsideDisk

HostTypes ==
  /\ RX_RES = "ACK" /\ TX_TOG \in 0 .. 1 /\ RX_TOG \in 0 .. 1
  /\ hs \in {"idle", "cbw", "out", "in", "csw", "stalled", "reset", "clearIn", "clearOut"}
  /\ cmd \in Commands /\ tag \in 0 .. 1 /\ left \in 0 .. PPS * Capacity
  /\ inTog \in 0 .. 1 /\ outTog \in 0 .. 1 /\ resets \in 0 .. 1
  /\ senseDue \in BOOLEAN /\ retried \in BOOLEAN /\ answered \in BOOLEAN
  /\ faults \in 0 .. MaxFaults

LEMMA TypesSplit == UDiskTypeOK <=> TransportOK /\ HostTypes
BY DEF UDiskTypeOK, TransportOK, HostTypes

LEMMA PacketTypes ==
  /\ NoPacket \in [kind : {"zlp", "reply", "data", "csw"}, tag : 0 .. 3,
                   val : 0 .. PPS * Capacity + 5]
  /\ \A t \in 0 .. 1, s \in 0 .. 2 :
       Csw(t, s) \in [kind : {"zlp", "reply", "data", "csw"}, tag : 0 .. 3,
                      val : 0 .. PPS * Capacity + 5]
  /\ \A p \in PayloadSet :
       Data(p) \in [kind : {"zlp", "reply", "data", "csw"}, tag : 0 .. 3,
                    val : 0 .. PPS * Capacity + 5]
  /\ \A k \in {0, 5} :
       [kind |-> "reply", tag |-> 0, val |-> k] \in
         [kind : {"zlp", "reply", "data", "csw"}, tag : 0 .. 3, val : 0 .. PPS * Capacity + 5]
BY Numbers, SMT DEF NoPacket, Csw, Data, PayloadSet

(* What endpoint 2 offers is a packet, and it has been refused or not.     *)
LEMMA DataUpTypes ==
  ASSUME TransportOK, NEW busy \in 0 .. 1, NEW res \in {"NAK", "ACK", "STALL"},
         NEW p \in [kind : {"zlp", "reply", "data", "csw"}, tag : 0 .. 3,
                    val : 0 .. PPS * Capacity + 5],
         USBFS_Endp_DataUp(busy, res, p)
  PROVE  /\ Endp_Busy' \in 0 .. 1 /\ TX_RES' \in {"NAK", "ACK", "STALL"}
         /\ TX_Buf' \in [kind : {"zlp", "reply", "data", "csw"}, tag : 0 .. 3,
                         val : 0 .. PPS * Capacity + 5]
         /\ damage' \subseteq {"stale", "refused"}
<1>1. Endp_Busy' \in 0 .. 1 /\ TX_RES' \in {"NAK", "ACK", "STALL"}
  BY SMT DEF USBFS_Endp_DataUp
<1>2. \/ TX_Buf' = p \/ TX_Buf' = TX_Buf \/ TX_Buf' = NoPacket
  BY DEF USBFS_Endp_DataUp
<1>3. damage' = damage \/ damage' = damage \cup {"refused"}
  BY DEF USBFS_Endp_DataUp
<1> QED BY <1>1, <1>2, <1>3, PacketTypes DEF TransportOK

(* One packet up from sector lba, with s sectors ahead.                    *)
LEMMA OnePackUp ==
  ASSUME TransportOK, NEW busy \in 0 .. 1, NEW res \in {"NAK", "ACK", "STALL"}, NEW S,
         S \subseteq {"UP", "DOWN", "CSW"}, "DOWN" \notin S,
         NEW lba \in 0 .. Capacity - 1, NEW count \in 0 .. PPS - 1, NEW len,
         NEW s \in 1 .. Capacity, lba + s <= Capacity, len = s * PPS - count,
         UDISK_Up_OnePack(busy, res, S, lba, count, len),
         Udisk_CSW_Status' \in 0 .. 2, Udisk_Sense_Key' \in {0, 5},
         Udisk_CBW_Tag_Save' \in 0 .. 1, mCBW_Op' \in Ops, UNCHANGED storeVars
  PROVE  TransportInv'
<1>1. flash[lba][count] \in PayloadSet
  <2>1. flash[lba] \in Sector BY DEF TransportOK
  <2> QED BY <2>1 DEF Sector
<1>2. /\ Endp_Busy' \in 0 .. 1 /\ TX_RES' \in {"NAK", "ACK", "STALL"}
      /\ TX_Buf' \in [kind : {"zlp", "reply", "data", "csw"}, tag : 0 .. 3,
                      val : 0 .. PPS * Capacity + 5]
      /\ damage' \subseteq {"stale", "refused"}
  BY <1>1, DataUpTypes, PacketTypes DEF UDISK_Up_OnePack
<1>3. /\ UDISK_Transfer_DataLen' = len - 1
      /\ UDISK_Sec_Pack_Count' = IF count + 1 = PPS THEN 0 ELSE count + 1
      /\ UDISK_Cur_Sec_Lba' = IF count + 1 = PPS THEN lba + 1 ELSE lba
      /\ Udisk_Transfer_Status' = IF len = 1 THEN S \ {"UP"} ELSE S
  BY DEF UDISK_Up_OnePack, NextPack
<1>4. /\ len \in 1 .. PPS * Capacity
      /\ count + 1 # PPS => len - 1 = s * PPS - (count + 1)
      /\ count + 1 = PPS /\ len # 1 => s - 1 \in 1 .. Capacity /\ len - 1 = (s - 1) * PPS
      /\ len = 1 => count + 1 = PPS
  BY OnePacket
<1>5. TransportOK'
  <2>1. Udisk_Transfer_Status' \subseteq {"UP", "DOWN", "CSW"} BY <1>3
  <2>2. UDISK_Transfer_DataLen' \in 0 .. PPS * Capacity BY <1>3, <1>4, Numbers, SMT
  <2>3. UDISK_Cur_Sec_Lba' \in 0 .. Capacity /\ UDISK_Sec_Pack_Count' \in 0 .. PPS - 1
    BY <1>3, Numbers, SMT
  <2>4. UDisk_Down_Buffer' \in Sector /\ flash' \in [0 .. Capacity - 1 -> Sector]
    BY DEF storeVars, TransportOK
  <2> QED BY <1>2, <2>1, <2>2, <2>3, <2>4 DEF TransportOK
<1>6. InsideDisk'
  <2>1. CASE len = 1 BY <1>3, <2>1 DEF InsideDisk, Moving
  <2>2. CASE len # 1 /\ count + 1 = PPS
    <3>1. Ahead(s - 1)' BY <1>3, <1>4, <2>2, Numbers, SMT DEF Ahead
    <3> QED BY <1>4, <2>2, <3>1 DEF InsideDisk
  <2>3. CASE count + 1 # PPS
    <3>1. Ahead(s)' BY <1>3, <1>4, <2>3, Numbers, SMT DEF Ahead
    <3> QED BY <3>1 DEF InsideDisk
  <2> QED BY <2>1, <2>2, <2>3
<1> QED BY <1>5, <1>6 DEF TransportInv

(* A reply that fits a packet, or none; the transfer is over.              *)
LEMMA ReplyUp ==
  ASSUME TransportOK, NEW busy \in 0 .. 1, NEW res \in {"NAK", "ACK", "STALL"}, NEW S,
         S \subseteq {"UP", "DOWN", "CSW"}, "DOWN" \notin S, NEW len,
         UDISK_Bulk_UpData(busy, res, S, len)
  PROVE  /\ Endp_Busy' \in 0 .. 1 /\ TX_RES' \in {"NAK", "ACK", "STALL"}
         /\ TX_Buf' \in [kind : {"zlp", "reply", "data", "csw"}, tag : 0 .. 3,
                         val : 0 .. PPS * Capacity + 5]
         /\ damage' \subseteq {"stale", "refused"}
         /\ UDISK_Transfer_DataLen' \in 0 .. PPS * Capacity
         /\ Udisk_Transfer_Status' \subseteq {"UP", "DOWN", "CSW"} /\ ~Moving'
<1> DEFINE p == IF len = 0 THEN NoPacket
                ELSE [kind |-> "reply", tag |-> 0, val |-> Udisk_Sense_Key]
<1>1. p \in [kind : {"zlp", "reply", "data", "csw"}, tag : 0 .. 3,
             val : 0 .. PPS * Capacity + 5]
  BY PacketTypes DEF TransportOK
<1>2. USBFS_Endp_DataUp(busy, res, p) BY DEF UDISK_Bulk_UpData
<1>3. /\ UDISK_Transfer_DataLen' = 0 /\ Udisk_Transfer_Status' = S \ {"UP"}
  BY DEF UDISK_Bulk_UpData
<1> HIDE DEF p
<1> QED BY <1>1, <1>2, <1>3, DataUpTypes, Numbers, SMT DEF Moving

(* The status of a command, which ends it.                                 *)
LEMMA StatusUp ==
  ASSUME TransportOK, NEW busy \in 0 .. 1, NEW res \in {"NAK", "ACK", "STALL"},
         NEW t \in 0 .. 1, NEW status \in 0 .. 2, UDISK_Up_CSW(busy, res, t, status)
  PROVE  /\ Endp_Busy' \in 0 .. 1 /\ TX_RES' \in {"NAK", "ACK", "STALL"}
         /\ TX_Buf' \in [kind : {"zlp", "reply", "data", "csw"}, tag : 0 .. 3,
                         val : 0 .. PPS * Capacity + 5]
         /\ damage' \subseteq {"stale", "refused"}
         /\ Udisk_Transfer_Status' = {} /\ ~Moving'
BY DataUpTypes, PacketTypes DEF UDISK_Up_CSW, Moving

LEMMA FailureTypes ==
  ASSUME TransportOK, NEW S, S \subseteq {"UP", "DOWN", "CSW"}, UDISK_CMD_Deal_Fail(S)
  PROVE  /\ Endp_Busy' \in 0 .. 1 /\ TX_RES' \in {"NAK", "ACK", "STALL"}
         /\ TX_Buf' \in [kind : {"zlp", "reply", "data", "csw"}, tag : 0 .. 3,
                         val : 0 .. PPS * Capacity + 5]
         /\ damage' \subseteq {"stale", "refused"}
         /\ Udisk_Transfer_Status' \subseteq {"UP", "DOWN", "CSW"} /\ ~Moving'
BY PacketTypes DEF UDISK_CMD_Deal_Fail, TransportOK, Moving

(* The handlers of a command block.                                        *)
LEMMA CommandKeeps ==
  ASSUME TransportInv, HostTypes, UDISK_SCSI_CMD_Deal
  PROVE  TransportInv'
<1> DEFINE F == Flags(cmd)
<1>1. cmd \in Commands /\ tag \in 0 .. 1 BY DEF HostTypes
<1>2. /\ "DOWN" \notin Udisk_Transfer_Status /\ Udisk_Transfer_Status \subseteq {"UP", "DOWN", "CSW"}
      /\ Endp_Busy \in 0 .. 1 /\ TX_RES \in {"NAK", "ACK", "STALL"} /\ TransportOK
  BY DEF UDISK_SCSI_CMD_Deal, TransportInv, TransportOK
<1>3. F \subseteq {"UP", "DOWN", "CSW"} /\ (cmd.dir # "out" => "DOWN" \notin F)
  BY <1>2 DEF Flags
<1>4. /\ Udisk_CBW_Tag_Save' \in 0 .. 1 /\ mCBW_Op' \in Ops /\ UNCHANGED storeVars
      /\ mCBW_Op' = cmd.op
  BY <1>1, CommandFields DEF UDISK_SCSI_CMD_Deal
<1>5. UDisk_Down_Buffer' \in Sector /\ flash' \in [0 .. Capacity - 1 -> Sector]
  BY <1>2, <1>4 DEF storeVars, TransportOK
<1>6. /\ cmd.dir \in {"in", "out", "none"} /\ cmd.lba \in 0 .. Capacity - 1 /\ cmd.n \in 0 .. Capacity
      /\ cmd.dir = "none" <=> cmd.n = 0
      /\ cmd.op \in {"READ", "WRITE"} => cmd.lba + cmd.n <= Capacity
      /\ cmd.op = "READ" => cmd.dir = "in"
      /\ cmd.op = "WRITE" => cmd.dir = "out"
      /\ cmd.op = "TEST_READY" => cmd.dir = "none"
      /\ cmd.op \in Replies => cmd.dir = "in"
  BY <1>1, CommandFields
<1>7. cmd.n \in 0 .. PPS * Capacity
  <2>1. cmd.n <= PPS * Capacity BY <1>6, Numbers, SMT
  <2> QED BY <1>6, <2>1, Numbers, SMT
<1>8. /\ UDISK_Cur_Sec_Lba \in 0 .. Capacity /\ UDISK_Sec_Pack_Count \in 0 .. PPS - 1
      /\ Udisk_CSW_Status \in 0 .. 2 /\ Udisk_Sense_Key \in {0, 5}
  BY <1>2 DEF TransportOK
<1> HIDE DEF F
<1>9. CASE ReadCommand(cmd)
  <2>1. /\ UDISK_Up_OnePack(Endp_Busy, TX_RES, F, cmd.lba, 0, cmd.n * PPS)
        /\ Udisk_CSW_Status' = 0 /\ Udisk_Sense_Key' = 0
        /\ "DOWN" \notin F /\ cmd.n # 0 /\ cmd.lba + cmd.n <= Capacity
    BY <1>3, <1>6, <1>9, SMT DEF ReadCommand, F
  <2>2. /\ cmd.n \in 1 .. Capacity /\ 0 \in 0 .. PPS - 1
        /\ cmd.n * PPS = cmd.n * PPS - 0
    BY <1>6, <2>1, Numbers, ProductGrows, SMT
  <2>3. Udisk_CSW_Status' \in 0 .. 2 /\ Udisk_Sense_Key' \in {0, 5} BY <2>1, SMT
  <2> QED BY <1>2, <1>3, <1>4, <1>6, <2>1, <2>2, <2>3, OnePackUp
<1>10. CASE WriteCommand(cmd)
  <2>1. /\ Udisk_Transfer_Status' = F
        /\ UDISK_Cur_Sec_Lba' = cmd.lba /\ UDISK_Sec_Pack_Count' = 0
        /\ UDISK_Transfer_DataLen' = cmd.n * PPS
        /\ Udisk_CSW_Status' = 0 /\ Udisk_Sense_Key' = 0
        /\ UNCHANGED <<ep2Vars, damage>>
        /\ cmd.n # 0 /\ cmd.lba + cmd.n <= Capacity
    BY <1>6, <1>10, SMT DEF WriteCommand, StartSector, F
  <2>2. cmd.n \in 1 .. Capacity /\ cmd.n * PPS \in 0 .. PPS * Capacity
    <3>1. cmd.n * PPS <= Capacity * PPS /\ cmd.n * PPS \in Nat
      BY <1>6, Numbers, ProductGrows, SMT
    <3> QED BY <1>6, <2>1, <3>1, Numbers, SMT
  <2>3. PICK k \in 1 .. Capacity : k = cmd.n BY <2>2
  <2>4. Ahead(k)' BY <1>6, <2>1, <2>2, <2>3, Numbers, SMT DEF Ahead
  <2>5. /\ UDISK_Cur_Sec_Lba' \in 0 .. Capacity /\ UDISK_Sec_Pack_Count' \in 0 .. PPS - 1
        /\ UDISK_Transfer_DataLen' \in 0 .. PPS * Capacity
        /\ Udisk_CSW_Status' \in 0 .. 2 /\ Udisk_Sense_Key' \in {0, 5}
    BY <1>6, <2>1, <2>2, Numbers, SMT
  <2>6. TransportOK'
    BY <1>2, <1>3, <1>4, <1>5, <2>1, <2>5 DEF TransportOK, ep2Vars
  <2> QED BY <2>4, <2>6 DEF TransportInv, InsideDisk
<1>11. CASE ReplyCommand(cmd)
  <2>1. /\ UDISK_Bulk_UpData(Endp_Busy, TX_RES, F, cmd.n) /\ "DOWN" \notin F
        /\ UDISK_Cur_Sec_Lba' = UDISK_Cur_Sec_Lba /\ UDISK_Sec_Pack_Count' = UDISK_Sec_Pack_Count
    BY <1>3, <1>6, <1>11, SMT DEF ReplyCommand, F
  <2>2. Udisk_CSW_Status' \in 0 .. 2 /\ Udisk_Sense_Key' \in {0, 5}
    BY <1>8, <1>11, SMT DEF ReplyCommand, ReplyStatus
  <2> QED BY <1>2, <1>3, <1>4, <1>5, <1>8, <2>1, <2>2, ReplyUp DEF TransportInv, TransportOK, InsideDisk
<1>12. CASE PlainCommand(cmd)
  <2>1. /\ Udisk_CSW_Status' \in 0 .. 2 /\ Udisk_Sense_Key' \in {0, 5} /\ "DOWN" \notin F
        /\ UDISK_Cur_Sec_Lba' = UDISK_Cur_Sec_Lba /\ UDISK_Sec_Pack_Count' = UDISK_Sec_Pack_Count
    BY <1>3, <1>6, <1>12, SMT DEF PlainCommand
  <2>2. CASE UDISK_Bulk_UpData(Endp_Busy, TX_RES, F, 0)
    BY <1>2, <1>3, <1>4, <1>5, <1>8, <2>1, <2>2, ReplyUp DEF TransportInv, TransportOK, InsideDisk
  <2>3. CASE UDISK_Up_CSW(Endp_Busy, TX_RES, tag, 0) /\ UDISK_Transfer_DataLen' = 0
    <3>1. 0 \in 0 .. 2 /\ 0 \in 0 .. PPS * Capacity BY Numbers, SMT
    <3> QED
      BY <1>1, <1>2, <1>4, <1>5, <1>8, <2>1, <2>3, <3>1, StatusUp DEF TransportInv, TransportOK, InsideDisk
  <2> QED BY <1>12, <2>2, <2>3 DEF PlainCommand, F
<1>13. CASE FailedCommand(cmd)
  <2>1. \E S : S \subseteq {"UP", "DOWN", "CSW"} /\ UDISK_CMD_Deal_Fail(S)
    BY <1>3, <1>13 DEF FailedCommand, F
  <2>2. /\ Udisk_CSW_Status' \in 0 .. 2 /\ Udisk_Sense_Key' \in {0, 5}
        /\ UDISK_Transfer_DataLen' = cmd.n
        /\ UDISK_Cur_Sec_Lba' = UDISK_Cur_Sec_Lba /\ UDISK_Sec_Pack_Count' = UDISK_Sec_Pack_Count
    BY <1>13, SMT DEF FailedCommand
  <2> QED BY <1>2, <1>4, <1>5, <1>7, <1>8, <2>1, <2>2, FailureTypes DEF TransportInv, TransportOK, InsideDisk
<1> QED
  BY <1>9, <1>10, <1>11, <1>12, <1>13 DEF UDISK_SCSI_CMD_Deal

LEMMA BadCommandKeeps ==
  ASSUME TransportInv, BadCommand
  PROVE  TransportInv'
<1>1. \E S : S \subseteq {"UP", "DOWN", "CSW"} /\ UDISK_CMD_Deal_Fail(S)
  BY DEF BadCommand, TransportInv, TransportOK
<1>2. /\ Udisk_CSW_Status' \in 0 .. 2 /\ Udisk_Sense_Key' \in {0, 5} /\ mCBW_Op' \in Ops
      /\ UNCHANGED <<Udisk_CBW_Tag_Save, posVars, storeVars>>
  BY SMT DEF BadCommand, Ops
<1> QED
  BY <1>1, <1>2, FailureTypes DEF TransportInv, TransportOK, InsideDisk, posVars, storeVars

LEMMA IgnoredKeeps ==
  ASSUME TransportInv, UNCHANGED <<xferVars, statVars, posVars, storeVars, ep2Vars, damage>>
  PROVE  TransportInv'
BY DEF TransportInv, TransportOK, InsideDisk, Moving, Ahead, xferVars, statVars, posVars, storeVars, ep2Vars

(* A packet of a write.                                                    *)
LEMMA DownKeeps ==
  ASSUME TransportInv, NEW p \in PayloadSet, UDISK_Down_OnePack(p)
  PROVE  TransportInv'
<1> DEFINE buffer == [UDisk_Down_Buffer EXCEPT ![UDISK_Sec_Pack_Count] = p]
           count  == UDISK_Sec_Pack_Count
           len    == UDISK_Transfer_DataLen
<1>1. "DOWN" \in Udisk_Transfer_Status /\ TransportOK /\ InsideDisk
  BY DEF UDISK_Down_OnePack, TransportInv
<1>2. PICK s \in 1 .. Capacity : Ahead(s) BY <1>1 DEF InsideDisk, Moving
<1>3. buffer \in Sector BY <1>1 DEF Sector, TransportOK
<1>4. UDisk_Down_Buffer' \in Sector /\ flash' \in [0 .. Capacity - 1 -> Sector]
  <2>1. UDisk_Down_Buffer' = buffer /\ (flash' = flash \/ flash' = [flash EXCEPT ![UDISK_Cur_Sec_Lba] = buffer])
    BY DEF UDISK_Down_OnePack
  <2>2. flash \in [0 .. Capacity - 1 -> Sector] BY <1>1 DEF TransportOK
  <2> HIDE DEF buffer
  <2> QED BY <1>3, <2>1, <2>2
<1> HIDE DEF buffer
<1>5. /\ UDISK_Sec_Pack_Count' = IF count + 1 = PPS THEN 0 ELSE count + 1
      /\ UDISK_Cur_Sec_Lba' = IF count + 1 = PPS THEN UDISK_Cur_Sec_Lba + 1 ELSE UDISK_Cur_Sec_Lba
      /\ UDISK_Transfer_DataLen' = len - 1
      /\ UNCHANGED <<Udisk_CBW_Tag_Save, mCBW_Op, statVars>>
  BY DEF UDISK_Down_OnePack, NextPack
<1>6. /\ count \in 0 .. PPS - 1 /\ len = s * PPS - count
      /\ UDISK_Cur_Sec_Lba \in 0 .. Capacity /\ UDISK_Cur_Sec_Lba + s <= Capacity
  BY <1>1, <1>2 DEF TransportOK, Ahead
<1>7. /\ len \in 1 .. PPS * Capacity
      /\ count + 1 # PPS => len - 1 = s * PPS - (count + 1)
      /\ count + 1 = PPS /\ len # 1 => s - 1 \in 1 .. Capacity /\ len - 1 = (s - 1) * PPS
      /\ len = 1 => count + 1 = PPS
  BY <1>6, OnePacket
<1>8. /\ UDISK_Transfer_DataLen' \in 0 .. PPS * Capacity
      /\ UDISK_Cur_Sec_Lba' \in 0 .. Capacity /\ UDISK_Sec_Pack_Count' \in 0 .. PPS - 1
  BY <1>5, <1>6, <1>7, Numbers, SMT
<1>9. /\ Udisk_CSW_Status' \in 0 .. 2 /\ Udisk_Sense_Key' \in {0, 5}
      /\ Udisk_CBW_Tag_Save' \in 0 .. 1 /\ mCBW_Op' \in Ops
  BY <1>1, <1>5 DEF TransportOK, statVars
<1>10. CASE len = 1
  <2>1. UDISK_Up_CSW(Endp_Busy, TX_RES, Udisk_CBW_Tag_Save, Udisk_CSW_Status)
    BY <1>7, <1>10 DEF UDISK_Down_OnePack
  <2>2. /\ Endp_Busy \in 0 .. 1 /\ TX_RES \in {"NAK", "ACK", "STALL"}
        /\ Udisk_CBW_Tag_Save \in 0 .. 1 /\ Udisk_CSW_Status \in 0 .. 2
    BY <1>1 DEF TransportOK
  <2> QED BY <1>1, <1>4, <1>8, <1>9, <2>1, <2>2, StatusUp DEF TransportInv, TransportOK, InsideDisk
<1>11. CASE len # 1
  <2>1. UNCHANGED <<Udisk_Transfer_Status, ep2Vars, damage>>
    BY <1>11 DEF UDISK_Down_OnePack
  <2>2. TransportOK' BY <1>1, <1>4, <1>8, <1>9, <2>1 DEF TransportOK, ep2Vars
  <2>3. CASE count + 1 = PPS
    <3>1. Ahead(s - 1)' BY <1>5, <1>6, <1>7, <1>11, <2>3, Numbers, SMT DEF Ahead
    <3> QED BY <1>7, <1>11, <2>2, <2>3, <3>1 DEF TransportInv, InsideDisk
  <2>4. CASE count + 1 # PPS
    <3>1. Ahead(s)' BY <1>5, <1>6, <1>7, <2>4, Numbers, SMT DEF Ahead
    <3> QED BY <2>2, <3>1 DEF TransportInv, InsideDisk
  <2> QED BY <2>3, <2>4
<1> QED BY <1>10, <1>11

(* A token on endpoint 2.                                                  *)
LEMMA InKeeps ==
  ASSUME TransportInv, "DOWN" \notin Udisk_Transfer_Status, InIsr
  PROVE  TransportInv'
<1>1. /\ TransportOK /\ InsideDisk
      /\ UNCHANGED <<Udisk_CBW_Tag_Save, mCBW_Op, statVars, storeVars>> /\ InDeal
  BY DEF TransportInv, InIsr
<1>2. /\ Udisk_CSW_Status' \in 0 .. 2 /\ Udisk_Sense_Key' \in {0, 5}
      /\ Udisk_CBW_Tag_Save' \in 0 .. 1 /\ mCBW_Op' \in Ops /\ UNCHANGED storeVars
      /\ UDisk_Down_Buffer' \in Sector /\ flash' \in [0 .. Capacity - 1 -> Sector]
  BY <1>1 DEF TransportOK, statVars, storeVars
<1>3. /\ Udisk_Transfer_Status \subseteq {"UP", "DOWN", "CSW"} /\ 0 \in 0 .. 1
      /\ UDISK_Cur_Sec_Lba \in 0 .. Capacity /\ UDISK_Sec_Pack_Count \in 0 .. PPS - 1
      /\ UDISK_Transfer_DataLen \in 0 .. PPS * Capacity
      /\ Udisk_CBW_Tag_Save \in 0 .. 1 /\ Udisk_CSW_Status \in 0 .. 2
  BY <1>1, SMT DEF TransportOK
<1>4. CASE /\ "UP" \in Udisk_Transfer_Status /\ mCBW_Op = "READ"
           /\ UDISK_Up_OnePack(0, "NAK", Udisk_Transfer_Status, UDISK_Cur_Sec_Lba,
                               UDISK_Sec_Pack_Count, UDISK_Transfer_DataLen)
  <2>1. PICK s \in 1 .. Capacity : Ahead(s) BY <1>1, <1>4 DEF InsideDisk, Moving
  <2>2. /\ UDISK_Cur_Sec_Lba + s <= Capacity
        /\ UDISK_Transfer_DataLen = s * PPS - UDISK_Sec_Pack_Count
    BY <2>1 DEF Ahead
  <2>3. UDISK_Cur_Sec_Lba \in 0 .. Capacity - 1 BY <1>3, <2>2, Numbers, SMT
  <2> QED BY <1>1, <1>2, <1>3, <1>4, <2>2, <2>3, OnePackUp
<1>5. CASE /\ UDISK_Bulk_UpData(0, "NAK", Udisk_Transfer_Status, UDISK_Transfer_DataLen)
           /\ UNCHANGED <<UDISK_Cur_Sec_Lba, UDISK_Sec_Pack_Count>>
  BY <1>1, <1>2, <1>3, <1>5, ReplyUp DEF TransportInv, TransportOK, InsideDisk
<1>6. CASE UDISK_Up_CSW(0, "NAK", Udisk_CBW_Tag_Save, Udisk_CSW_Status) /\ UNCHANGED posVars
  BY <1>1, <1>2, <1>3, <1>6, StatusUp DEF TransportInv, TransportOK, InsideDisk, posVars
<1>7. CASE /\ Udisk_Transfer_Status \cap {"UP", "CSW"} = {}
           /\ Endp_Busy' = 0 /\ TX_RES' = "NAK" /\ TX_Buf' = NoPacket
           /\ UNCHANGED <<Udisk_Transfer_Status, posVars, damage>>
  <2>1. ~Moving' BY <1>7 DEF Moving
  <2> QED BY <1>1, <1>2, <1>3, <1>7, <2>1, PacketTypes DEF TransportInv, TransportOK, InsideDisk, posVars
<1> QED BY <1>1, <1>4, <1>5, <1>6, <1>7 DEF InDeal

(* CLEAR_FEATURE(ENDPOINT_HALT).                                           *)
LEMMA ClearHaltKeeps ==
  ASSUME TransportInv, ClearHaltUpload, UNCHANGED <<mCBW_Op, Udisk_CBW_Tag_Save, statVars, posVars, storeVars>>
  PROVE  TransportInv'
<1>1. CASE UDISK_Up_CSW(Endp_Busy, "NAK", Udisk_CBW_Tag_Save, Udisk_CSW_Status)
  BY <1>1, StatusUp DEF TransportInv, TransportOK, InsideDisk, statVars, posVars, storeVars
<1>2. CASE /\ TX_RES' = "NAK" /\ TX_Buf' = NoPacket
           /\ UNCHANGED <<Udisk_Transfer_Status, Endp_Busy, damage>>
  BY <1>2, PacketTypes DEF TransportInv, TransportOK, InsideDisk, Moving, Ahead, statVars, posVars, storeVars
<1> QED BY <1>1, <1>2 DEF ClearHaltUpload

LEMMA ClassResetKeeps ==
  ASSUME TransportInv, ClassReset
  PROVE  TransportInv'
<1>1. 0 \in 0 .. 2 /\ 0 \in 0 .. PPS * Capacity BY Numbers, SMT
<1> QED BY <1>1 DEF ClassReset, TransportInv, TransportOK, InsideDisk, Moving, storeVars, ep2Vars

LEMMA BusResetKeeps ==
  ASSUME TransportInv, BusResetIsr
  PROVE  TransportInv'
<1>1. 0 \in 0 .. 1 BY SMT
<1> QED BY <1>1, PacketTypes DEF BusResetIsr, EndpInitBusy, TransportInv, TransportOK, InsideDisk, Moving,
        Ahead, xferVars, statVars, posVars, storeVars

-----------------------------------------------------------------------------
(* The host.                                                               *)

HostControl ==
  /\ left <= Packets(cmd)
  /\ hs = "cbw" => left = Packets(cmd)
  /\ hs \in {"in", "out"} => left > 0

(* A write under way is the host's write, and the host and the transport   *)
(* count the same packets, unless a bus reset has left it behind, in which *)
(* case endpoint 2 offers nothing.  A repeated packet is counted once.     *)
ItsSectors ==
  \E s \in 1 .. Capacity : Ahead(s) /\ UDISK_Cur_Sec_Lba + s = cmd.lba + cmd.n /\ s <= cmd.n

InTheWrite ==
  "DOWN" \in Udisk_Transfer_Status /\ (damage = {} \/ TX_RES = "ACK") =>
    \/ hs = "reset"
    \/ /\ cmd.op = "WRITE" /\ ItsSectors
       /\ \/ hs = "cbw" /\ RX_TOG # outTog /\ left = UDISK_Transfer_DataLen
          \/ hs = "out" /\ RX_TOG # outTog /\ left = UDISK_Transfer_DataLen + 1
          \/ hs = "out" /\ RX_TOG = outTog /\ left = UDISK_Transfer_DataLen

Recovering == hs \in {"clearIn", "clearOut"} => Udisk_Transfer_Status = {}

UDiskInv == TransportInv /\ HostTypes /\ HostControl /\ InTheWrite /\ Recovering

(* The packets of the host are payloads.                                   *)
LEMMA OutPayloads ==
  ASSUME HostTypes, HostControl
  PROVE  CbwAsData \in PayloadSet /\ Payload(tag, Position) \in PayloadSet
<1>1. /\ tag \in 0 .. 1 /\ left \in 0 .. PPS * Capacity /\ Packets(cmd) \in 0 .. PPS * Capacity
      /\ left <= Packets(cmd)
  BY PacketsFit DEF HostTypes, HostControl
<1>2. Position \in 0 .. PPS * Capacity BY <1>1, Numbers, SMT DEF Position
<1> QED BY <1>1, <1>2, Numbers, SMT DEF CbwAsData, Payload, PayloadSet

LEMMA OutDealKeeps ==
  ASSUME TransportInv, HostTypes, HostControl, OutDeal
  PROVE  TransportInv'
BY OutPayloads, CommandKeeps, DownKeeps, BadCommandKeeps, IgnoredKeeps DEF OutDeal, IgnoredPacket

(* Endpoint 2 offers something, hence no write is under way.               *)
LEMMA NoWriteAtIn ==
  ASSUME UDiskInv, hs \in {"in", "csw"}, TX_RES = "ACK"
  PROVE  "DOWN" \notin Udisk_Transfer_Status
BY DEF UDiskInv, InTheWrite

LEMMA TransportKept ==
  ASSUME UDiskInv, Next
  PROVE  TransportInv'
<1>1. TransportInv /\ HostTypes /\ HostControl BY DEF UDiskInv
<1>2. ASSUME UNCHANGED devVars, damage' = damage \/ damage' = {} PROVE TransportInv'
  <2>1. UNCHANGED <<xferVars, statVars, posVars, storeVars, ep2Vars>> BY <1>2 DEF devVars
  <2>2. damage' \subseteq {"stale", "refused"} BY <1>1, <1>2 DEF TransportInv, TransportOK
  <2> QED BY <1>1, <2>1, <2>2 DEF TransportInv, TransportOK, InsideDisk, Moving, Ahead, xferVars,
          statVars, posVars, storeVars, ep2Vars
<1>3. CASE \E c \in Commands : Issue(c) BY <1>2, <1>3 DEF Issue
<1>4. ASSUME OutIsr PROVE TransportInv'
  BY <1>1, <1>4, OutDealKeeps, IgnoredKeeps DEF OutIsr
<1>5. CASE HostOut \/ HostOutLost BY <1>4, <1>5 DEF HostOut, HostOutLost
<1>6. CASE HostIn BY <1>1, <1>6, NoWriteAtIn, InKeeps DEF HostIn
<1>7. CASE HostInLost \/ HostAborts \/ HostStalled \/ HostTimeout
  BY <1>2, <1>7 DEF HostInLost, HostAborts, HostStalled, HostTimeout
<1>8. CASE ClearHaltIn BY <1>1, <1>8, ClearHaltKeeps DEF ClearHaltIn
<1>9. CASE ClearHaltOut BY <1>1, <1>9, IgnoredKeeps DEF ClearHaltOut
<1>10. CASE ClassReset BY <1>1, <1>10, ClassResetKeeps
<1>11. CASE HostBusReset \/ BusResetAnyway
  BY <1>1, <1>11, BusResetKeeps DEF HostBusReset, BusResetAnyway
<1> QED
  BY <1>3, <1>5, <1>6, <1>7, <1>8, <1>9, <1>10, <1>11 DEF Next, Recovery

-----------------------------------------------------------------------------
(* Writes.                                                                 *)

Offering == damage = {} \/ TX_RES = "ACK"

(* What a packet on endpoint 3 leaves of a write: the transport has one    *)
(* packet less to come than the host, which has not seen its handshake.    *)
GoesOn ==
  "DOWN" \in Udisk_Transfer_Status' /\ Offering' =>
    /\ cmd.op = "WRITE"
    /\ \E s \in 1 .. Capacity : /\ Ahead(s)' /\ UDISK_Cur_Sec_Lba' + s = cmd.lba + cmd.n
                              /\ s <= cmd.n
    /\ hs = "cbw" => left = UDISK_Transfer_DataLen'
    /\ hs # "cbw" => left = UDISK_Transfer_DataLen' + 1

LEMMA CommandStarts ==
  ASSUME UDiskInv, hs = "cbw", UDISK_SCSI_CMD_Deal
  PROVE  GoesOn
<1> SUFFICES ASSUME "DOWN" \in Udisk_Transfer_Status' PROVE GoesOn BY DEF GoesOn
<1>1. cmd \in Commands /\ "DOWN" \notin Udisk_Transfer_Status /\ left = Packets(cmd)
  BY DEF UDiskInv, HostTypes, HostControl, UDISK_SCSI_CMD_Deal
<1>2. /\ cmd.op = "READ" => cmd.dir = "in"
      /\ cmd.op = "WRITE" => cmd.dir = "out" /\ cmd.lba + cmd.n <= Capacity
      /\ cmd.op = "TEST_READY" => cmd.dir = "none"
      /\ cmd.op \in Replies => cmd.dir = "in"
      /\ cmd.dir = "none" <=> cmd.n = 0
      /\ cmd.n \in 0 .. Capacity /\ cmd.lba \in 0 .. Capacity - 1
  BY <1>1, CommandFields
<1>3. cmd.dir # "out" => "DOWN" \notin Flags(cmd) BY <1>1 DEF Flags
<1>4. WriteCommand(cmd)
  <2>1. ~ReadCommand(cmd) BY <1>2, <1>3, SMT DEF ReadCommand, UDISK_Up_OnePack
  <2>2. ~ReplyCommand(cmd) BY <1>2, <1>3, SMT DEF ReplyCommand, UDISK_Bulk_UpData
  <2>3. ~PlainCommand(cmd) BY <1>2, <1>3, SMT DEF PlainCommand, UDISK_Bulk_UpData, UDISK_Up_CSW
  <2>4. ~FailedCommand(cmd) BY DEF FailedCommand, UDISK_CMD_Deal_Fail
  <2> QED BY <2>1, <2>2, <2>3, <2>4 DEF UDISK_SCSI_CMD_Deal
<1>5. /\ cmd.op = "WRITE" /\ UDISK_Cur_Sec_Lba' = cmd.lba /\ UDISK_Sec_Pack_Count' = 0
      /\ UDISK_Transfer_DataLen' = cmd.n * PPS
  BY <1>4 DEF WriteCommand, StartSector
<1>6. PICK k \in 1 .. Capacity : k = cmd.n BY <1>2, <1>5, Numbers, SMT
<1>7. k * PPS \in Nat BY <1>6, ProductGrows, Numbers, SMT
<1>8. Ahead(k)' BY <1>2, <1>5, <1>6, <1>7, Numbers, SMT DEF Ahead
<1>9. UDISK_Cur_Sec_Lba' + k = cmd.lba + cmd.n /\ k <= cmd.n BY <1>2, <1>5, <1>6, SMT
<1>10. left = UDISK_Transfer_DataLen'
  BY <1>1, <1>5, <1>6, <1>7, SMT DEF Packets
<1> QED BY <1>5, <1>8, <1>9, <1>10 DEF GoesOn

LEMMA DownGoesOn ==
  ASSUME UDiskInv, hs \in {"cbw", "out"}, RX_TOG = outTog, NEW p, UDISK_Down_OnePack(p)
  PROVE  GoesOn
<1> DEFINE count == UDISK_Sec_Pack_Count
           len   == UDISK_Transfer_DataLen
<1> SUFFICES ASSUME "DOWN" \in Udisk_Transfer_Status', Offering' PROVE GoesOn BY DEF GoesOn
<1>1. /\ UNCHANGED <<Udisk_Transfer_Status, ep2Vars, damage>>
      /\ ~(count + 1 = PPS /\ len = 1)
  BY DEF UDISK_Down_OnePack, UDISK_Up_CSW
<1>2. "DOWN" \in Udisk_Transfer_Status /\ Offering
  BY <1>1 DEF UDISK_Down_OnePack, Offering, ep2Vars
<1>3. /\ cmd.op = "WRITE" /\ ItsSectors /\ hs = "out" /\ left = len
  BY <1>2 DEF UDiskInv, InTheWrite, Offering
<1>4. PICK s \in 1 .. Capacity : Ahead(s) /\ UDISK_Cur_Sec_Lba + s = cmd.lba + cmd.n /\ s <= cmd.n
  BY <1>3 DEF ItsSectors
<1>5. /\ UDISK_Sec_Pack_Count' = IF count + 1 = PPS THEN 0 ELSE count + 1
      /\ UDISK_Cur_Sec_Lba' = IF count + 1 = PPS THEN UDISK_Cur_Sec_Lba + 1 ELSE UDISK_Cur_Sec_Lba
      /\ UDISK_Transfer_DataLen' = len - 1
  BY DEF UDISK_Down_OnePack, NextPack
<1>6. /\ count \in 0 .. PPS - 1 /\ len = s * PPS - count
      /\ UDISK_Cur_Sec_Lba \in 0 .. Capacity /\ UDISK_Cur_Sec_Lba + s <= Capacity
  BY <1>4 DEF UDiskInv, TransportInv, TransportOK, Ahead
<1>7. /\ len \in 1 .. PPS * Capacity
      /\ count + 1 # PPS => len - 1 = s * PPS - (count + 1)
      /\ count + 1 = PPS /\ len # 1 => s - 1 \in 1 .. Capacity /\ len - 1 = (s - 1) * PPS
  BY <1>6, OnePacket
<1>8. left = UDISK_Transfer_DataLen' + 1 BY <1>3, <1>5, <1>7, SMT
<1>9. cmd.n \in Nat /\ cmd.lba \in Nat BY CommandFields, Numbers, SMT DEF UDiskInv, HostTypes
<1>10. CASE count + 1 = PPS
  <2>1. Ahead(s - 1)' BY <1>1, <1>5, <1>6, <1>7, <1>10, Numbers, SMT DEF Ahead
  <2>2. UDISK_Cur_Sec_Lba' + (s - 1) = cmd.lba + cmd.n /\ s - 1 <= cmd.n
    BY <1>4, <1>5, <1>6, <1>9, <1>10, SMT
  <2> QED BY <1>1, <1>3, <1>7, <1>8, <1>10, <2>1, <2>2 DEF GoesOn
<1>11. CASE count + 1 # PPS
  <2>1. Ahead(s)' BY <1>5, <1>6, <1>7, <1>11, Numbers, SMT DEF Ahead
  <2>2. UDISK_Cur_Sec_Lba' + s = cmd.lba + cmd.n BY <1>4, <1>5, <1>11
  <2> QED BY <1>3, <1>4, <1>8, <2>1, <2>2 DEF GoesOn
<1> QED BY <1>10, <1>11

LEMMA OutGoesOn ==
  ASSUME UDiskInv, hs \in {"cbw", "out"}, OutIsr
  PROVE  GoesOn /\ RX_TOG' \in 0 .. 1 /\ RX_TOG' # outTog
<1>1. RX_TOG \in 0 .. 1 /\ outTog \in 0 .. 1 BY DEF UDiskInv, HostTypes
<1>2. CASE RX_TOG = outTog
  <2>1. RX_TOG' = 1 - RX_TOG /\ OutDeal BY <1>2 DEF OutIsr
  <2>2. ASSUME hs = "cbw", UDISK_SCSI_CMD_Deal PROVE GoesOn BY <2>2, CommandStarts
  <2>3. ASSUME NEW p, UDISK_Down_OnePack(p) PROVE GoesOn BY <1>2, <2>3, DownGoesOn
  <2>4. ASSUME IgnoredPacket PROVE GoesOn BY <2>4 DEF IgnoredPacket, GoesOn, xferVars
  <2>5. ASSUME BadCommand PROVE GoesOn BY <2>5 DEF BadCommand, UDISK_CMD_Deal_Fail, GoesOn
  <2>6. RX_TOG' \in 0 .. 1 /\ RX_TOG' # outTog BY <1>1, <1>2, <2>1, SMT
  <2> QED BY <2>1, <2>2, <2>3, <2>4, <2>5, <2>6 DEF OutDeal
<1>3. CASE RX_TOG # outTog
  <2>1. UNCHANGED <<RX_TOG, xferVars, posVars, ep2Vars, damage>> BY <1>3 DEF OutIsr
  <2>2. GoesOn
    <3> SUFFICES ASSUME "DOWN" \in Udisk_Transfer_Status', Offering' PROVE GoesOn BY DEF GoesOn
    <3>1. "DOWN" \in Udisk_Transfer_Status /\ (damage = {} \/ TX_RES = "ACK")
      BY <2>1 DEF Offering, xferVars, ep2Vars
    <3>2. /\ cmd.op = "WRITE" /\ ItsSectors
          /\ hs = "cbw" => left = UDISK_Transfer_DataLen
          /\ hs # "cbw" => left = UDISK_Transfer_DataLen + 1
      BY <1>3, <3>1 DEF UDiskInv, InTheWrite
    <3> QED BY <2>1, <3>2 DEF GoesOn, ItsSectors, Ahead, posVars
  <2> QED BY <1>1, <1>3, <2>1, <2>2
<1> QED BY <1>2, <1>3

-----------------------------------------------------------------------------
(* The rest of the invariant, action by action.                            *)

HostInv == HostTypes /\ HostControl /\ InTheWrite /\ Recovering

LEMMA IssueKeeps ==
  ASSUME UDiskInv, NEW c \in Commands, Issue(c)
  PROVE  HostInv'
<1>1. /\ hs = "idle" /\ UNCHANGED <<devVars, inTog, outTog, senseDue, resets, faults>>
      /\ hs' = "cbw" /\ cmd' = c /\ tag' = 1 - tag /\ left' = Packets(c)
      /\ retried' = FALSE /\ answered' = FALSE
      /\ damage' = IF InStep THEN {} ELSE damage
  BY DEF Issue
<1>2. HostTypes /\ InTheWrite BY DEF UDiskInv
<1>3. Packets(c) \in 0 .. PPS * Capacity BY PacketsFit
<1>4. HostTypes'
  <2>1. tag' \in 0 .. 1 BY <1>1, <1>2, SMT DEF HostTypes
  <2> QED BY <1>1, <1>2, <1>3, <2>1 DEF HostTypes, devVars
<1>5. HostControl'
  <2>1. Packets(cmd)' = Packets(c) BY <1>1 DEF Packets
  <2> QED BY <1>1, <1>3, <2>1, Numbers, SMT DEF HostControl
<1>6. InTheWrite'
  <2> SUFFICES ASSUME "DOWN" \in Udisk_Transfer_Status', damage' = {} \/ TX_RES' = "ACK"
               PROVE  FALSE
    BY DEF InTheWrite
  <2>1. "DOWN" \in Udisk_Transfer_Status /\ TX_RES' = TX_RES BY <1>1 DEF devVars, xferVars, ep2Vars
  <2>2. damage' = damage BY <1>1, <2>1 DEF InStep
  <2> QED BY <1>1, <1>2, <2>1, <2>2 DEF InTheWrite
<1> QED BY <1>1, <1>4, <1>5, <1>6 DEF HostInv, Recovering

(* A packet out, whose handshake arrives or is lost.                       *)
LEMMA HostOutKeeps ==
  ASSUME UDiskInv, HostOut \/ HostOutLost
  PROVE  HostInv'
<1>1. /\ hs \in {"cbw", "out"} /\ OutIsr /\ RX_RES = "ACK" /\ UNCHANGED <<reqVars, TX_TOG>>
      /\ RX_RES' = "ACK"
  BY DEF HostOut, HostOutLost, OutIsr, hostVars
<1>2. HostTypes /\ HostControl BY DEF UDiskInv
<1>3. GoesOn /\ RX_TOG' \in 0 .. 1 /\ RX_TOG' # outTog BY <1>1, OutGoesOn
<1>4. cmd' = cmd /\ Packets(cmd)' = Packets(cmd) BY <1>1 DEF reqVars, Packets
<1>5. /\ left \in 0 .. PPS * Capacity /\ left <= Packets(cmd) /\ Packets(cmd) \in 0 .. PPS * Capacity
      /\ hs = "cbw" => left = Packets(cmd)
      /\ hs = "out" => left > 0
  BY <1>2, PacketsFit DEF HostControl, HostTypes
<1>6. TransportInv' BY TransportKept DEF Next
<1>7. UDISK_Transfer_DataLen' \in Nat BY <1>6, Numbers, SMT DEF TransportInv, TransportOK
<1>8. ASSUME "DOWN" \in Udisk_Transfer_Status', Offering'
      PROVE  /\ cmd'.op = "WRITE" /\ ItsSectors' /\ UDISK_Transfer_DataLen' > 0
             /\ hs = "cbw" => left = UDISK_Transfer_DataLen'
             /\ hs # "cbw" => left = UDISK_Transfer_DataLen' + 1
  <2>1. PICK s \in 1 .. Capacity : Ahead(s)' BY <1>3, <1>8 DEF GoesOn
  <2>2. UDISK_Transfer_DataLen' > 0
    <3>1. UDISK_Transfer_DataLen' = s * PPS - UDISK_Sec_Pack_Count' BY <2>1 DEF Ahead
    <3>2. UDISK_Sec_Pack_Count' \in 0 .. PPS - 1 BY <1>6 DEF TransportInv, TransportOK
    <3> QED BY <3>1, <3>2, OnePacket, SMT
  <2> QED BY <1>3, <1>4, <1>8, <2>2 DEF GoesOn, ItsSectors
<1>9. CASE HostOut
  <2>1. /\ outTog' = 1 - outTog
        /\ left' = IF hs = "out" THEN left - 1 ELSE left
        /\ hs' = IF left' = 0 THEN "csw" ELSE IF cmd.dir = "in" THEN "in" ELSE "out"
        /\ UNCHANGED <<reqVars, inTog, senseDue, retried, resets, answered, faults>>
    BY <1>9 DEF HostOut, AfterOut
  <2>2. left' \in 0 .. PPS * Capacity /\ left' <= Packets(cmd) BY <1>1, <1>5, <2>1, Numbers, SMT
  <2>3. HostTypes'
    <3>1. outTog' \in 0 .. 1 BY <1>2, <2>1, SMT DEF HostTypes
    <3>2. hs' \in {"csw", "in", "out"} BY <2>1
    <3> QED BY <1>1, <1>2, <1>3, <2>1, <2>2, <3>1, <3>2 DEF HostTypes, reqVars
  <2>4. HostControl'
    <3>1. hs' # "cbw" /\ (hs' \in {"in", "out"} => left' # 0) BY <2>1
    <3>2. left' > 0 \/ left' = 0 BY <2>2, Numbers, SMT
    <3> QED BY <1>4, <2>2, <3>1, <3>2 DEF HostControl
  <2>5. InTheWrite'
    <3> SUFFICES ASSUME "DOWN" \in Udisk_Transfer_Status', Offering'
                 PROVE  /\ cmd'.op = "WRITE" /\ ItsSectors' /\ hs' = "out" /\ RX_TOG' = outTog'
                        /\ left' = UDISK_Transfer_DataLen'
      BY DEF InTheWrite, Offering
    <3>0. /\ cmd'.op = "WRITE" /\ ItsSectors' /\ UDISK_Transfer_DataLen' > 0
          /\ hs = "cbw" => left = UDISK_Transfer_DataLen'
          /\ hs # "cbw" => left = UDISK_Transfer_DataLen' + 1
      BY <1>8
    <3>1. left' = UDISK_Transfer_DataLen'
      <4>1. CASE hs = "cbw" BY <2>1, <3>0, <4>1
      <4>2. CASE hs = "out"
        <5>1. left = UDISK_Transfer_DataLen' + 1 /\ left' = left - 1 BY <2>1, <3>0, <4>2
        <5> QED BY <1>7, <5>1, OneLess
      <4> QED BY <1>1, <4>1, <4>2
    <3>2. cmd.dir # "in"
      BY <1>2, <1>4, <1>8, CommandFields, SMT DEF HostTypes
    <3>3. hs' = "out"
      <4>1. left' # 0 BY <1>7, <3>0, <3>1, SMT
      <4> QED BY <2>1, <3>2, <4>1
    <3>4. RX_TOG' = outTog' BY <1>2, <1>3, <2>1, SMT DEF HostTypes
    <3> QED BY <3>0, <3>1, <3>3, <3>4
  <2>6. Recovering' BY <2>1 DEF Recovering
  <2> QED BY <2>3, <2>4, <2>5, <2>6 DEF HostInv
<1>10. CASE HostOutLost
  <2>1. UNCHANGED hostVars /\ faults < MaxFaults /\ faults' = faults + 1
    BY <1>10 DEF HostOutLost, Fault
  <2>2. HostTypes'
    <3>1. faults' \in 0 .. MaxFaults BY <1>2, <2>1, Numbers, SMT DEF HostTypes
    <3> QED BY <1>1, <1>2, <1>3, <2>1, <3>1 DEF HostTypes, hostVars, reqVars
  <2>3. HostControl' BY <1>2, <1>4, <2>1 DEF HostControl, hostVars
  <2>4. InTheWrite'
    <3> SUFFICES ASSUME "DOWN" \in Udisk_Transfer_Status', Offering'
                 PROVE  /\ cmd'.op = "WRITE" /\ ItsSectors' /\ RX_TOG' # outTog'
                        /\ \/ hs' = "cbw" /\ left' = UDISK_Transfer_DataLen'
                           \/ hs' = "out" /\ left' = UDISK_Transfer_DataLen' + 1
      BY DEF InTheWrite, Offering
    <3>1. hs' = hs /\ left' = left /\ outTog' = outTog BY <2>1 DEF hostVars
    <3>0. /\ cmd'.op = "WRITE" /\ ItsSectors'
          /\ hs = "cbw" => left = UDISK_Transfer_DataLen'
          /\ hs # "cbw" => left = UDISK_Transfer_DataLen' + 1
      BY <1>8
    <3>2. CASE hs = "cbw"
      BY <1>3, <3>0, <3>1, <3>2
    <3>3. CASE hs = "out"
      BY <1>3, <3>0, <3>1, <3>3
    <3> QED BY <1>1, <3>2, <3>3
  <2>5. Recovering' BY <1>1, <2>1 DEF Recovering, hostVars
  <2> QED BY <2>2, <2>3, <2>4, <2>5 DEF HostInv
<1> QED BY <1>9, <1>10

(* A packet in: no write is under way before, nor after.                   *)
LEMMA NoWriteAfterIn ==
  ASSUME TransportInv, "DOWN" \notin Udisk_Transfer_Status, InDeal
  PROVE  "DOWN" \notin Udisk_Transfer_Status'
BY DEF InDeal, UDISK_Up_OnePack, UDISK_Bulk_UpData, UDISK_Up_CSW

LEMMA HostTakesKeeps ==
  ASSUME HostTypes, HostControl, NEW p, HostTakes(p), hs \in {"in", "csw"}, UNCHANGED reqVars
  PROVE  /\ hs' \in {"in", "csw", "idle", "reset"} /\ left' \in 0 .. PPS * Capacity
         /\ senseDue' \in BOOLEAN /\ resets' \in 0 .. 1 /\ answered' \in BOOLEAN
         /\ HostControl'
<1>1. /\ left \in 0 .. PPS * Capacity /\ left <= Packets(cmd) /\ Packets(cmd) \in 0 .. PPS * Capacity
      /\ hs = "in" => left > 0
      /\ senseDue \in BOOLEAN /\ resets \in 0 .. 1 /\ answered \in BOOLEAN
  BY PacketsFit DEF HostTypes, HostControl
<1>2. Packets(cmd)' = Packets(cmd) BY DEF reqVars, Packets
<1>3. CASE /\ hs = "in" /\ left' = left - 1
           /\ hs' = IF p.kind = "data" /\ left' > 0 THEN "in" ELSE "csw"
           /\ UNCHANGED <<senseDue, resets, answered>>
  <2>1. left' \in 0 .. PPS * Capacity /\ left' <= Packets(cmd) BY <1>1, <1>3, Numbers, SMT
  <2>2. hs' = "csw" \/ (hs' = "in" /\ left' > 0) BY <1>3
  <2> QED BY <1>1, <1>2, <1>3, <2>1, <2>2 DEF HostControl
<1>4. CASE /\ hs = "csw" /\ Good(p)
           /\ hs' = "idle" /\ answered' = TRUE /\ resets' = 0 /\ left' = 0
           /\ senseDue' = (p.val = 1)
  <2>1. left' \in 0 .. PPS * Capacity /\ left' <= Packets(cmd) /\ resets' \in 0 .. 1
    BY <1>1, <1>4, Numbers, SMT
  <2> QED BY <1>2, <1>4, <2>1 DEF HostControl
<1>5. CASE /\ hs = "csw" /\ ~Good(p)
           /\ hs' = "reset" /\ UNCHANGED <<senseDue, resets, answered, left>>
  BY <1>1, <1>2, <1>5 DEF HostControl
<1> QED BY <1>3, <1>4, <1>5 DEF HostTakes

LEMMA HostInKeeps ==
  ASSUME UDiskInv, HostIn \/ HostInLost
  PROVE  HostInv'
<1>1. /\ hs \in {"in", "csw"} /\ TX_RES = "ACK" /\ UNCHANGED <<reqVars, outTog, retried>>
      /\ UNCHANGED <<RX_RES, RX_TOG>> /\ (TX_TOG' = TX_TOG \/ TX_TOG' = 1 - TX_TOG)
  BY DEF HostIn, HostInLost, InIsr, devVars
<1>2. HostTypes /\ HostControl /\ TransportInv BY DEF UDiskInv
<1>3. "DOWN" \notin Udisk_Transfer_Status BY <1>1, NoWriteAtIn
<1>4. "DOWN" \notin Udisk_Transfer_Status'
  BY <1>2, <1>3, NoWriteAfterIn DEF HostIn, HostInLost, InIsr, devVars, xferVars
<1>5. \/ HostTakes(TX_Buf) /\ inTog' = 1 - inTog
      \/ UNCHANGED <<hs, left, senseDue, resets, answered, inTog>>
  BY DEF HostIn, HostInLost
<1>6. /\ hs' \in {"in", "csw", "idle", "reset"} /\ left' \in 0 .. PPS * Capacity
      /\ senseDue' \in BOOLEAN /\ resets' \in 0 .. 1 /\ answered' \in BOOLEAN
      /\ HostControl'
  <2>1. CASE HostTakes(TX_Buf) BY <1>1, <1>2, <2>1, HostTakesKeeps
  <2>2. CASE UNCHANGED <<hs, left, senseDue, resets, answered, inTog>>
    BY <1>1, <1>2, <2>2 DEF HostTypes, HostControl, Packets, reqVars
  <2> QED BY <1>5, <2>1, <2>2
<1>7. faults' \in 0 .. MaxFaults
  <2>1. faults' = faults \/ (faults < MaxFaults /\ faults' = faults + 1)
    BY DEF HostIn, HostInLost, Fault
  <2> QED BY <1>2, <2>1, Numbers, SMT DEF HostTypes
<1>8. HostTypes'
  <2>1. TX_TOG' \in 0 .. 1 /\ inTog' \in 0 .. 1 BY <1>1, <1>2, <1>5, SMT DEF HostTypes
  <2> QED BY <1>1, <1>2, <1>6, <1>7, <2>1 DEF HostTypes, reqVars
<1> QED BY <1>4, <1>6, <1>8 DEF HostInv, InTheWrite, Recovering

(* Steps of the host alone, and its recovery.                              *)
LEMMA GivesUpKeeps ==
  ASSUME UDiskInv, HostStalled \/ HostTimeout \/ HostAborts
  PROVE  HostInv'
<1>1. /\ UNCHANGED <<devVars, reqVars, left, inTog, outTog, senseDue, retried, resets, answered, damage>>
      /\ hs' \in {"reset", "stalled"}
      /\ hs' = "reset" \/ (hs \in {"in", "csw"} /\ TX_RES = "STALL")
  BY DEF HostStalled, HostTimeout, HostAborts
<1>2. HostTypes /\ HostControl /\ InTheWrite BY DEF UDiskInv
<1>3. faults' \in 0 .. MaxFaults
  <2>1. faults' = faults \/ (faults < MaxFaults /\ faults' = faults + 1)
    BY DEF HostStalled, HostTimeout, HostAborts, Fault
  <2> QED BY <1>2, <2>1, Numbers, SMT DEF HostTypes
<1>4. HostTypes' BY <1>1, <1>2, <1>3 DEF HostTypes, devVars, reqVars
<1>5. HostControl' BY <1>1, <1>2 DEF HostControl, Packets, reqVars
<1>6. InTheWrite'
  <2>1. CASE hs' = "reset" BY <2>1 DEF InTheWrite
  <2>2. CASE hs \in {"in", "csw"} /\ TX_RES = "STALL"
    BY <1>1, <1>2, <2>2 DEF InTheWrite, devVars, xferVars, ep2Vars
  <2> QED BY <1>1, <2>1, <2>2
<1> QED BY <1>1, <1>4, <1>5, <1>6 DEF HostInv, Recovering

LEMMA ClearHaltHostKeeps ==
  ASSUME UDiskInv, ClearHaltIn \/ ClearHaltOut
  PROVE  HostInv'
<1>1. HostTypes /\ HostControl /\ InTheWrite /\ Recovering BY DEF UDiskInv
<1>2. 0 \in 0 .. 1 BY SMT
<1>3. CASE ClearHaltIn
  <2>1. /\ hs \in {"stalled", "clearIn"} /\ ClearHaltUpload
        /\ TX_TOG' = 0 /\ inTog' = 0
        /\ hs' = IF hs = "stalled" THEN "csw" ELSE "clearOut"
        /\ retried' = TRUE
        /\ UNCHANGED <<RX_RES, RX_TOG, reqVars, left, outTog, senseDue, resets, answered, faults>>
    BY <1>3 DEF ClearHaltIn
  <2>2. HostTypes' BY <1>1, <1>2, <2>1 DEF HostTypes, reqVars
  <2>3. HostControl' BY <1>1, <2>1 DEF HostControl, Packets, reqVars
  <2>4. InTheWrite'
    <3>1. \/ Udisk_Transfer_Status' = {}
          \/ TX_RES' = "NAK" /\ UNCHANGED <<Udisk_Transfer_Status, damage>>
      BY <2>1 DEF ClearHaltUpload, UDISK_Up_CSW
    <3> QED BY <1>1, <2>1, <3>1 DEF InTheWrite, Recovering
  <2>5. Recovering'
    BY <1>1, <2>1 DEF Recovering, ClearHaltUpload, UDISK_Up_CSW
  <2> QED BY <2>2, <2>3, <2>4, <2>5 DEF HostInv
<1>4. CASE ClearHaltOut
  BY <1>1, <1>2, <1>4 DEF ClearHaltOut, HostInv, HostTypes, HostControl, InTheWrite, Recovering,
     Packets, reqVars, xferVars, ep2Vars
<1> QED BY <1>3, <1>4

LEMMA ResetHostKeeps ==
  ASSUME UDiskInv, ClassReset \/ HostBusReset \/ BusResetAnyway
  PROVE  HostInv'
<1>1. HostTypes /\ HostControl BY DEF UDiskInv
<1>2. 0 \in 0 .. 1 /\ 1 \in 0 .. 1 BY SMT
<1>3. CASE ClassReset
  BY <1>1, <1>2, <1>3 DEF ClassReset, HostInv, HostTypes, HostControl, InTheWrite, Recovering,
     Packets, reqVars
<1>4. CASE HostBusReset \/ BusResetAnyway
  <2>1. /\ BusResetIsr /\ hs' \in {"reset", "idle"}
        /\ faults' = faults \/ (faults < MaxFaults /\ faults' = faults + 1)
    BY <1>4 DEF HostBusReset, BusResetAnyway, Fault
  <2>2. faults' \in 0 .. MaxFaults BY <1>1, <2>1, Numbers, SMT DEF HostTypes
  <2>3. HostTypes' BY <1>1, <1>2, <2>1, <2>2 DEF BusResetIsr, HostTypes, reqVars
  <2>4. HostControl' BY <1>1, <2>1 DEF BusResetIsr, HostControl, Packets, reqVars
  <2>5. InTheWrite'
    BY <2>1 DEF BusResetIsr, InTheWrite, xferVars
  <2> QED BY <2>1, <2>3, <2>4, <2>5 DEF HostInv, Recovering
<1> QED BY <1>3, <1>4

LEMMA UDiskKeepsInv ==
  ASSUME UDiskInv, [Next]_vars
  PROVE  UDiskInv'
<1>1. CASE UNCHANGED vars
  BY <1>1 DEF vars, devVars, hostVars, xferVars, statVars, posVars, storeVars, ep2Vars, reqVars,
     UDiskInv, TransportInv, TransportOK, InsideDisk, Moving, Ahead, HostTypes, HostControl,
     InTheWrite, ItsSectors, Recovering, Packets
<1>2. CASE Next
  <2>1. TransportInv' BY <1>2, TransportKept
  <2>2. HostInv'
    BY <1>2, IssueKeeps, HostOutKeeps, HostInKeeps, GivesUpKeeps, ClearHaltHostKeeps,
       ResetHostKeeps DEF Next, Recovery
  <2> QED BY <2>1, <2>2 DEF UDiskInv, HostInv
<1> QED BY <1>1, <1>2

LEMMA UDiskStarts == Init => UDiskInv
<1> SUFFICES ASSUME Init PROVE UDiskInv OBVIOUS
<1>1. \A a \in 0 .. Capacity - 1, k \in 0 .. PPS - 1 : Blank(a, k) \in PayloadSet
  <2> TAKE a \in 0 .. Capacity - 1, k \in 0 .. PPS - 1
  <2>1. (a + 1) * PPS <= Capacity * PPS BY Numbers, ProductGrows, SMT
  <2>2. a * PPS \in Nat /\ (a + 1) * PPS = a * PPS + PPS BY Numbers, ProductGrows, SMT
  <2>3. a * PPS + k \in 0 .. PPS * Capacity BY <2>1, <2>2, Numbers, SMT
  <2> QED BY <2>3, SMT DEF Blank, Payload, PayloadSet
<1>2. 0 \in 0 .. Capacity - 1 /\ 0 \in 0 .. PPS - 1 BY Numbers, SMT
<1>3. UDisk_Down_Buffer \in Sector BY <1>1, <1>2 DEF Init, Sector
<1>4. flash \in [0 .. Capacity - 1 -> Sector] BY <1>1 DEF Init, Sector
<1>5. /\ 0 \in 0 .. 2 /\ 0 \in {0, 5} /\ 0 \in 0 .. 1 /\ 0 \in 0 .. PPS * Capacity
      /\ 0 \in 0 .. Capacity /\ 0 \in 0 .. MaxFaults
  BY Numbers, SMT
<1>6. TransportOK BY <1>2, <1>3, <1>4, <1>5, PacketTypes DEF Init, TransportOK, Ops
<1>7. InsideDisk /\ InTheWrite /\ Recovering BY DEF Init, InsideDisk, Moving, InTheWrite, Recovering
<1>8. Ready \in Commands BY UDiskAssumption
<1>9. HostTypes BY <1>5, <1>8 DEF Init, HostTypes
<1>10. HostControl
  <2>1. 0 <= Packets(Ready) BY <1>8, PacketsFit, Numbers, SMT
  <2> QED BY <2>1 DEF Init, HostControl
<1> QED BY <1>6, <1>7, <1>9, <1>10 DEF UDiskInv, TransportInv

-----------------------------------------------------------------------------
(* Theorems.                                                               *)

(* UDISK_Up_OnePack and UDISK_Down_OnePack (SW_UDISK.c) stay inside the    *)
(* disk, and every variable keeps its type, for every size of disk and     *)
(* sector and every set of commands the host may send, through repeated    *)
(* packets, aborts and resets at any point.                                *)
THEOREM UDiskTypeCorrect == Spec => []UDiskTypeOK
<1>1. UDiskInv => UDiskTypeOK BY TypesSplit DEF UDiskInv, TransportInv
<1> QED BY <1>1, UDiskStarts, UDiskKeepsInv, PTL DEF Spec

(* UDISK_Down_OnePack programs a sector only as part of the write the host *)
(* is in, and only one of the sectors that write names, unless a bus reset *)
(* left flags behind or an upload was refused.                             *)
THEOREM FlashIsTheHosts == Spec => OnlyWritesChangeFlash
<1> DEFINE Ours == \A a \in 0 .. Capacity - 1 :
                     flash'[a] # flash[a] =>
                       \/ damage # {}
                       \/ hs = "out" /\ cmd.op = "WRITE" /\ a \in cmd.lba .. cmd.lba + cmd.n - 1
<1>1. ASSUME UDiskInv, [Next]_vars PROVE [Ours]_vars
  <2> SUFFICES ASSUME Next, NEW a \in 0 .. Capacity - 1, flash'[a] # flash[a], damage = {}
               PROVE  hs = "out" /\ cmd.op = "WRITE" /\ a \in cmd.lba .. cmd.lba + cmd.n - 1
    BY <1>1
  <2>1. OutIsr /\ hs \in {"cbw", "out"}
    BY DEF Next, Recovery, Issue, HostOut, HostOutLost, HostIn, HostInLost, HostAborts, BusResetAnyway,
       HostBusReset, BusResetIsr, ClearHaltIn, ClearHaltOut, HostStalled, HostTimeout, ClassReset,
       InIsr, devVars, storeVars
  <2>2. RX_TOG = outTog /\ \E p : UDISK_Down_OnePack(p)
    BY <2>1 DEF OutIsr, OutDeal, UDISK_SCSI_CMD_Deal, IgnoredPacket, BadCommand, storeVars
  <2>3. "DOWN" \in Udisk_Transfer_Status
        /\ (flash' = flash \/ \E b : flash' = [flash EXCEPT ![UDISK_Cur_Sec_Lba] = b])
    BY <2>2 DEF UDISK_Down_OnePack
  <2>4. a = UDISK_Cur_Sec_Lba
    <3>1. flash \in [0 .. Capacity - 1 -> Sector] BY <1>1 DEF UDiskInv, TransportInv, TransportOK
    <3> QED BY <2>3, <3>1
  <2>5. hs = "out" /\ cmd.op = "WRITE" /\ ItsSectors
    BY <1>1, <2>1, <2>2, <2>3 DEF UDiskInv, InTheWrite
  <2>6. PICK s \in 1 .. Capacity : UDISK_Cur_Sec_Lba + s = cmd.lba + cmd.n /\ s <= cmd.n
    BY <2>5 DEF ItsSectors
  <2>7. cmd.lba \in 0 .. Capacity - 1 /\ cmd.n \in 0 .. Capacity
    BY <1>1, CommandFields DEF UDiskInv, HostTypes
  <2>8. a \in cmd.lba .. cmd.lba + cmd.n - 1 BY <2>4, <2>6, <2>7, Numbers, SMT
  <2> QED BY <2>5, <2>8
<1> HIDE DEF Ours
<1>2. Spec => [][Ours]_vars BY <1>1, UDiskStarts, UDiskKeepsInv, PTL DEF Spec
<1> QED BY <1>2 DEF OnlyWritesChangeFlash, Ours

=============================================================================
