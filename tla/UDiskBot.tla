------------------------------- MODULE UDiskBot -------------------------------
(***************************************************************************)
(* MSC_U-Disk: the bulk-only transport over the internal flash.  A host    *)
(* sends a command block (CBW) through endpoint 3, data follow through     *)
(* endpoint 3 or 2, and a status block (CSW) ends the command through      *)
(* endpoint 2.  Everything runs in USBFS_IRQHandler, so a token on an      *)
(* endpoint and its handler are one action.                                *)
(*                                                                         *)
(* The host is the standard's: it reads sense data after a failure, clears *)
(* a stalled endpoint, and escalates from the class reset to the bus reset *)
(* when a command is not answered.  Lengths are counted in packets.        *)
(***************************************************************************)
EXTENDS Integers

CONSTANTS
  PPS,        \* DEF_UDISK_SECTOR_SIZE / UDISK_Pack_Size
  Capacity,   \* Udisk_Capability, the sectors of the disk
  Commands,   \* what the host may ask for, see CommandSet
  MaxFaults   \* bound on lost handshakes, aborts and spontaneous bus resets

Ops == {"READ", "WRITE", "INQUIRY", "REQUEST_SENSE", "MODE_SENSE", "MODE_SENSE2",
        "TEST_READY", "UNSUPPORTED"}
Replies == {"INQUIRY", "REQUEST_SENSE", "MODE_SENSE"}

(* `n' counts sectors for READ and WRITE, else packets.  INQUIRY stands    *)
(* for the two capacity commands too, TEST_READY for the others without    *)
(* data, MODE_SENSE2 for its use with another page than 0x3F and           *)
(* MODE_SENSE for its use with that page.                                  *)
CommandSet ==
  [op : Ops, dir : {"in", "out", "none"}, lba : 0 .. Capacity - 1, n : 0 .. Capacity]

Ready == [op |-> "TEST_READY", dir |-> "none", lba |-> 0, n |-> 0]
Sense == [op |-> "REQUEST_SENSE", dir |-> "in", lba |-> 0, n |-> 1]

ASSUME UDiskAssumption ==
  /\ PPS \in Nat \ {0} /\ Capacity \in Nat \ {0} /\ MaxFaults \in Nat
  /\ Commands \subseteq CommandSet /\ {Ready, Sense} \subseteq Commands
  /\ \A c \in Commands :
       /\ c.dir = "none" <=> c.n = 0
       /\ c.op \in {"READ", "WRITE"} => c.lba + c.n <= Capacity
       /\ c.op = "READ" => c.dir = "in"
       /\ c.op = "WRITE" => c.dir = "out"
       /\ c.op = "TEST_READY" => c.dir = "none"
       /\ c.op \in Replies => c.dir = "in" /\ c.n = 1
       /\ c.op = "MODE_SENSE2" => c.dir # "out"

VARIABLES
  \* the transport's variables in SW_UDISK.c
  Udisk_Transfer_Status,  \* its flags, a subset of {"UP", "DOWN", "CSW"}
  Udisk_CSW_Status, Udisk_Sense_Key, Udisk_CBW_Tag_Save,
  mCBW_Op,                \* the opcode mBOC holds
  UDISK_Transfer_DataLen, UDISK_Cur_Sec_Lba, UDISK_Sec_Pack_Count,
  UDisk_Down_Buffer, flash,
  \* endpoints: busy mark, response, data toggle; the packet endpoint 2 offers
  Endp_Busy, TX_RES, TX_TOG, TX_Buf, RX_RES, RX_TOG,
  \* the host: phase, command, its tag, packets still to move, its toggles
  hs, cmd, tag, left, inTog, outTog,
  senseDue,  \* the last status was a failure: ask for sense data
  retried,   \* the status stage was stalled once already
  resets,    \* recoveries since the last answer, modulo 2
  answered,  \* the last command issued has got its status
  \* bookkeeping
  faults, damage

xferVars  == <<Udisk_Transfer_Status, mCBW_Op, Udisk_CBW_Tag_Save>>
statVars  == <<Udisk_CSW_Status, Udisk_Sense_Key>>
posVars   == <<UDISK_Transfer_DataLen, UDISK_Cur_Sec_Lba, UDISK_Sec_Pack_Count>>
storeVars == <<UDisk_Down_Buffer, flash>>
ep2Vars   == <<Endp_Busy, TX_RES, TX_Buf>>
devVars   == <<xferVars, statVars, posVars, storeVars, ep2Vars, TX_TOG, RX_RES, RX_TOG>>
reqVars   == <<cmd, tag>>
hostVars  == <<hs, reqVars, left, inTog, outTog, senseDue, retried, resets, answered>>
vars == <<devVars, hostVars, faults, damage>>

(* Packets on endpoint 2, and payloads as the disk holds them: `val' is a  *)
(* status, a sense key, or the position of a payload in its command.       *)
NoPacket     == [kind |-> "zlp", tag |-> 0, val |-> 0]
Data(p)      == [kind |-> "data", tag |-> p.tag, val |-> p.val]
Csw(t, s)    == [kind |-> "csw", tag |-> t, val |-> s]
Payload(t, k) == [tag |-> t, val |-> k]
Blank(a, k)   == Payload(2, a * PPS + k)   \* the disk's first contents
CbwAsData     == Payload(3, 0)             \* a command block taken for data

Packets(c) == IF c.op \in {"READ", "WRITE"} THEN c.n * PPS ELSE c.n

Init ==
  /\ Udisk_Transfer_Status = {} /\ mCBW_Op = "TEST_READY" /\ Udisk_CBW_Tag_Save = 0
  /\ Udisk_CSW_Status = 0 /\ Udisk_Sense_Key = 0
  /\ UDISK_Transfer_DataLen = 0 /\ UDISK_Cur_Sec_Lba = 0 /\ UDISK_Sec_Pack_Count = 0
  /\ UDisk_Down_Buffer = [k \in 0 .. PPS - 1 |-> Blank(0, 0)]
  /\ flash = [a \in 0 .. Capacity - 1 |-> [k \in 0 .. PPS - 1 |-> Blank(a, k)]]
  /\ Endp_Busy = 0 /\ TX_RES = "NAK" /\ TX_TOG = 0 /\ TX_Buf = NoPacket
  /\ RX_RES = "ACK" /\ RX_TOG = 0
  /\ hs = "idle" /\ cmd = Ready /\ tag = 0 /\ left = 0
  /\ inTog = 0 /\ outTog = 0
  /\ senseDue = FALSE /\ retried = FALSE /\ resets = 0 /\ answered = TRUE
  /\ faults = 0 /\ damage = {}

-----------------------------------------------------------------------------
(* Endpoint 2.                                                             *)

(* Refused while the endpoint is busy; no caller looks at the result.      *)
USBFS_Endp_DataUp(busy, res, p) ==
  IF busy = 0
  THEN /\ Endp_Busy' = 1 /\ TX_RES' = "ACK" /\ TX_Buf' = p
       /\ UNCHANGED damage
  ELSE /\ Endp_Busy' = busy /\ TX_RES' = res
       /\ TX_Buf' = IF res = "ACK" THEN TX_Buf ELSE NoPacket
       /\ damage' = damage \cup {"refused"}

UDISK_Up_CSW(busy, res, t, status) ==
  /\ Udisk_Transfer_Status' = {}
  /\ USBFS_Endp_DataUp(busy, res, Csw(t, status))

(* The replies that fit one packet: REQUEST_SENSE carries the sense key.   *)
UDISK_Bulk_UpData(busy, res, S, len) ==
  /\ UDISK_Transfer_DataLen' = 0
  /\ Udisk_Transfer_Status' = S \ {"UP"}
  /\ USBFS_Endp_DataUp(busy, res,
       IF len = 0 THEN NoPacket
       ELSE [kind |-> "reply", tag |-> 0, val |-> Udisk_Sense_Key])

(* One packet of the sector under way, read from the flash itself.         *)
NextPackNoWrap(lba, count) ==                                     \* mutant
  UDISK_Sec_Pack_Count' = count + 1 /\ UDISK_Cur_Sec_Lba' = lba
NextPackSameSector(lba, count) ==                                 \* mutant
  /\ UDISK_Sec_Pack_Count' = IF count + 1 = PPS THEN 0 ELSE count + 1
  /\ UDISK_Cur_Sec_Lba' = lba
NextPack(lba, count) ==
  /\ UDISK_Sec_Pack_Count' = IF count + 1 = PPS THEN 0 ELSE count + 1
  /\ UDISK_Cur_Sec_Lba' = IF count + 1 = PPS THEN lba + 1 ELSE lba

UDISK_Up_OnePack(busy, res, S, lba, count, len) ==
  /\ USBFS_Endp_DataUp(busy, res, Data(flash[lba][count]))
  /\ NextPack(lba, count)
  /\ UDISK_Transfer_DataLen' = len - 1
  /\ Udisk_Transfer_Status' = IF len = 1 THEN S \ {"UP"} ELSE S

-----------------------------------------------------------------------------
(* Endpoint 3: UDISK_Out_EP_Deal.                                          *)

(* Flags of a well-formed command block.                                   *)
Flags(c) == Udisk_Transfer_Status \cup {"CSW"}
              \cup (IF c.dir = "in" THEN {"UP"} ELSE {})
              \cup (IF c.dir = "out" THEN {"DOWN"} ELSE {})

(* UDISK_CMD_Deal_Fail for the flags S: stalls endpoint 2 when S has UP.   *)
(* It also stalls endpoint 3 when S has DOWN, but OutIsr overwrites that.  *)
UDISK_CMD_Deal_Fail(S) ==
  /\ Udisk_Transfer_Status' = S \ {"UP", "DOWN"}
  /\ IF "UP" \in S THEN TX_RES' = "STALL" /\ TX_Buf' = NoPacket
                   ELSE UNCHANGED <<TX_RES, TX_Buf>>
  /\ UNCHANGED <<Endp_Busy, damage>>

(* READ(10) and WRITE(10) replace the block's data length by their own.    *)
ReadCommand(c) ==
  /\ c.op = "READ"
  /\ UDISK_Up_OnePack(Endp_Busy, TX_RES, Flags(c), c.lba, 0, c.n * PPS)
  /\ Udisk_CSW_Status' = 0 /\ Udisk_Sense_Key' = 0

StartSameSector(c) ==                                             \* mutant
  UNCHANGED UDISK_Cur_Sec_Lba /\ UDISK_Sec_Pack_Count' = 0
StartSector(c) == UDISK_Cur_Sec_Lba' = c.lba /\ UDISK_Sec_Pack_Count' = 0

WriteCommand(c) ==
  /\ c.op = "WRITE"
  /\ Udisk_Transfer_Status' = Flags(c)
  /\ StartSector(c)
  /\ UDISK_Transfer_DataLen' = c.n * PPS
  /\ Udisk_CSW_Status' = 0 /\ Udisk_Sense_Key' = 0
  /\ UNCHANGED <<ep2Vars, damage>>

(* REQUEST_SENSE clears the status but not the key it reports; MODE_SENSE  *)
(* leaves both as the command before left them.                            *)
ReplyStatusKept(c) == UNCHANGED statVars                          \* mutant
ReplyStatus(c) ==
  /\ Udisk_CSW_Status' = IF c.op = "MODE_SENSE" THEN Udisk_CSW_Status ELSE 0
  /\ Udisk_Sense_Key' = IF c.op = "INQUIRY" THEN 0 ELSE Udisk_Sense_Key

ReplyCommand(c) ==
  /\ c.op \in Replies
  /\ UDISK_Bulk_UpData(Endp_Busy, TX_RES, Flags(c), c.n)
  /\ ReplyStatus(c)
  /\ UNCHANGED <<UDISK_Cur_Sec_Lba, UDISK_Sec_Pack_Count>>

(* TEST_READY: an UP left over from a command before makes the answer an   *)
(* upload of no bytes.                                                     *)
PlainCommand(c) ==
  /\ c.op = "TEST_READY"
  /\ IF "UP" \in Flags(c)
     THEN UDISK_Bulk_UpData(Endp_Busy, TX_RES, Flags(c), 0)
     ELSE /\ UDISK_Up_CSW(Endp_Busy, TX_RES, tag, 0)
          /\ UDISK_Transfer_DataLen' = 0
  /\ Udisk_CSW_Status' = 0 /\ Udisk_Sense_Key' = 0
  /\ UNCHANGED <<UDISK_Cur_Sec_Lba, UDISK_Sec_Pack_Count>>

(* An unknown opcode raises UP to have endpoint 2 stalled, MODE_SENSE2     *)
(* with another page does not.  The status waits for CLEAR_FEATURE.        *)
FailedCommand(c) ==
  /\ c.op \in {"UNSUPPORTED", "MODE_SENSE2"}
  /\ UDISK_CMD_Deal_Fail(Flags(c) \cup (IF c.op = "UNSUPPORTED" THEN {"UP"} ELSE {}))
  /\ Udisk_CSW_Status' = 1 /\ Udisk_Sense_Key' = 5
  /\ UDISK_Transfer_DataLen' = c.n
  /\ UNCHANGED <<UDISK_Cur_Sec_Lba, UDISK_Sec_Pack_Count>>

UDISK_SCSI_CMD_Deal ==
  /\ "DOWN" \notin Udisk_Transfer_Status
  /\ Udisk_CBW_Tag_Save' = tag /\ mCBW_Op' = cmd.op
  /\ \/ ReadCommand(cmd) \/ WriteCommand(cmd) \/ ReplyCommand(cmd)
     \/ PlainCommand(cmd) \/ FailedCommand(cmd)
  /\ UNCHANGED storeVars

(* A packet of 31 bytes that is no command block: phase error.             *)
BadCommand ==
  /\ "DOWN" \notin Udisk_Transfer_Status
  /\ UDISK_CMD_Deal_Fail(Udisk_Transfer_Status \cup {"UP", "DOWN"})
  /\ Udisk_CSW_Status' = 2 /\ Udisk_Sense_Key' = 5
  /\ mCBW_Op' = "UNSUPPORTED"
  /\ UNCHANGED <<Udisk_CBW_Tag_Save, posVars, storeVars>>

IgnoredPacket ==
  /\ "DOWN" \notin Udisk_Transfer_Status
  /\ UNCHANGED <<xferVars, statVars, posVars, storeVars, ep2Vars, damage>>

(* A data packet; a full sector is programmed, the last one answers.       *)
UDISK_Down_OnePack(p) ==
  LET buffer == [UDisk_Down_Buffer EXCEPT ![UDISK_Sec_Pack_Count] = p]
      full   == UDISK_Sec_Pack_Count + 1 = PPS
  IN
  /\ "DOWN" \in Udisk_Transfer_Status
  /\ UDisk_Down_Buffer' = buffer
  /\ flash' = IF full THEN [flash EXCEPT ![UDISK_Cur_Sec_Lba] = buffer] ELSE flash
  /\ NextPack(UDISK_Cur_Sec_Lba, UDISK_Sec_Pack_Count)
  /\ UDISK_Transfer_DataLen' = UDISK_Transfer_DataLen - 1
  /\ IF full /\ UDISK_Transfer_DataLen = 1
     THEN UDISK_Up_CSW(Endp_Busy, TX_RES, Udisk_CBW_Tag_Save, Udisk_CSW_Status)
     ELSE UNCHANGED <<Udisk_Transfer_Status, ep2Vars, damage>>
  /\ UNCHANGED <<Udisk_CBW_Tag_Save, mCBW_Op, statVars>>

-----------------------------------------------------------------------------
(* The host, and the interrupt that each of its tokens raises.             *)

Fault == faults < MaxFaults /\ faults' = faults + 1

(* Nothing is left of the command before.                                  *)
InStep == Udisk_Transfer_Status = {} /\ Endp_Busy = 0

Issue(c) ==
  /\ hs = "idle" /\ c \in Commands
  /\ senseDue => c = Sense
  /\ hs' = "cbw" /\ cmd' = c /\ tag' = 1 - tag /\ left' = Packets(c)
  /\ retried' = FALSE /\ answered' = FALSE
  /\ damage' = IF InStep THEN {} ELSE damage
  /\ UNCHANGED <<devVars, inTog, outTog, senseDue, resets, faults>>

Position == Packets(cmd) - left

(* What the packet on the wire does to the device.  The last data packet   *)
(* of an unknown command may have the length of a command block.           *)
OutDeal ==
  \/ hs = "cbw" /\ (UDISK_SCSI_CMD_Deal \/ UDISK_Down_OnePack(CbwAsData))
  \/ /\ hs = "out"
     /\ \/ UDISK_Down_OnePack(Payload(tag, Position))
        \/ IgnoredPacket
        \/ left = 1 /\ cmd.op = "UNSUPPORTED" /\ BadCommand

(* Endpoint 3 OUT.  The toggle tells a repetition; the response is ACK     *)
(* afterwards whatever the handler made of it.                             *)
OutIsr ==
  /\ IF RX_TOG = outTog
     THEN RX_TOG' = 1 - RX_TOG /\ RX_RES' = "ACK" /\ OutDeal
     ELSE UNCHANGED <<RX_TOG, RX_RES, xferVars, statVars, posVars, storeVars, ep2Vars,
                      damage>>
  /\ UNCHANGED TX_TOG

AfterOut == /\ left' = IF hs = "out" THEN left - 1 ELSE left
            /\ hs' = IF left' = 0 THEN "csw" ELSE IF cmd.dir = "in" THEN "in" ELSE "out"

HostOut ==
  /\ hs \in {"cbw", "out"} /\ RX_RES = "ACK"
  /\ OutIsr /\ AfterOut /\ outTog' = 1 - outTog
  /\ UNCHANGED <<reqVars, inTog, senseDue, retried, resets, answered, faults>>

(* The handshake is lost: the host will send the same packet again.        *)
HostOutLost ==
  /\ hs \in {"cbw", "out"} /\ RX_RES = "ACK" /\ Fault
  /\ OutIsr
  /\ UNCHANGED hostVars

(* Endpoint 2 IN: free the endpoint, then UDISK_In_EP_Deal.                *)
InDeal ==
  \/ /\ "UP" \in Udisk_Transfer_Status
     /\ IF mCBW_Op = "READ"
        THEN UDISK_Up_OnePack(0, "NAK", Udisk_Transfer_Status, UDISK_Cur_Sec_Lba,
                              UDISK_Sec_Pack_Count, UDISK_Transfer_DataLen)
        ELSE /\ UDISK_Bulk_UpData(0, "NAK", Udisk_Transfer_Status, UDISK_Transfer_DataLen)
             /\ UNCHANGED <<UDISK_Cur_Sec_Lba, UDISK_Sec_Pack_Count>>
  \/ /\ "UP" \notin Udisk_Transfer_Status /\ "CSW" \in Udisk_Transfer_Status
     /\ UDISK_Up_CSW(0, "NAK", Udisk_CBW_Tag_Save, Udisk_CSW_Status)
     /\ UNCHANGED posVars
  \/ /\ Udisk_Transfer_Status \cap {"UP", "CSW"} = {}
     /\ Endp_Busy' = 0 /\ TX_RES' = "NAK" /\ TX_Buf' = NoPacket
     /\ UNCHANGED <<Udisk_Transfer_Status, posVars, damage>>

InIsr ==
  /\ TX_TOG' = 1 - TX_TOG
  /\ InDeal
  /\ UNCHANGED <<Udisk_CBW_Tag_Save, mCBW_Op, statVars, storeVars, RX_RES, RX_TOG>>

(* The host takes the packet.  Any short packet ends the data stage.       *)
Good(p) == p.kind = "csw" /\ p.tag = tag /\ p.val \in {0, 1}

HostTakes(p) ==
  \/ /\ hs = "in" /\ left' = left - 1
     /\ hs' = IF p.kind = "data" /\ left' > 0 THEN "in" ELSE "csw"
     /\ UNCHANGED <<senseDue, resets, answered>>
  \/ /\ hs = "csw" /\ Good(p)
     /\ hs' = "idle" /\ answered' = TRUE /\ resets' = 0 /\ left' = 0
     /\ senseDue' = (p.val = 1)
  \/ /\ hs = "csw" /\ ~Good(p)
     /\ hs' = "reset" /\ UNCHANGED <<senseDue, resets, answered, left>>

HostIn ==
  /\ hs \in {"in", "csw"} /\ TX_RES = "ACK"
  /\ IF TX_TOG = inTog
     THEN HostTakes(TX_Buf) /\ inTog' = 1 - inTog
     ELSE UNCHANGED <<hs, left, senseDue, resets, answered, inTog>>
  /\ InIsr
  /\ UNCHANGED <<reqVars, outTog, retried, faults>>

(* The handshake is lost: the host has the packet, the device offers it    *)
(* again with the same toggle.                                             *)
HostInLost ==
  /\ hs \in {"in", "csw"} /\ TX_RES = "ACK" /\ TX_TOG = inTog /\ Fault
  /\ HostTakes(TX_Buf) /\ inTog' = 1 - inTog
  /\ UNCHANGED <<devVars, reqVars, outTog, retried, damage>>

-----------------------------------------------------------------------------
(* Stalls, timeouts and recovery.                                          *)

(* CLEAR_FEATURE(ENDPOINT_HALT) on endpoint 2 uploads a status that waits. *)
ClearHaltSilent ==                                                \* mutant
  /\ TX_RES' = "NAK" /\ TX_Buf' = NoPacket
  /\ UNCHANGED <<Udisk_Transfer_Status, Endp_Busy, damage>>
ClearHaltUpload ==
  IF "CSW" \in Udisk_Transfer_Status
  THEN UDISK_Up_CSW(Endp_Busy, "NAK", Udisk_CBW_Tag_Save, Udisk_CSW_Status)
  ELSE /\ TX_RES' = "NAK" /\ TX_Buf' = NoPacket
       /\ UNCHANGED <<Udisk_Transfer_Status, Endp_Busy, damage>>

ClearHaltIn ==
  /\ hs \in {"stalled", "clearIn"}
  /\ ClearHaltUpload
  /\ TX_TOG' = 0 /\ inTog' = 0
  /\ hs' = IF hs = "stalled" THEN "csw" ELSE "clearOut"
  /\ retried' = TRUE
  /\ UNCHANGED <<mCBW_Op, Udisk_CBW_Tag_Save, statVars, posVars, storeVars, RX_RES,
                 RX_TOG, reqVars, left, outTog, senseDue, resets, answered, faults>>

(* The host sends this one in its recovery only, when no status waits.     *)
ClearHaltOut ==
  /\ hs = "clearOut" /\ "CSW" \notin Udisk_Transfer_Status
  /\ RX_RES' = "ACK" /\ RX_TOG' = 0 /\ outTog' = 0
  /\ hs' = "idle"
  /\ UNCHANGED <<xferVars, statVars, posVars, storeVars, ep2Vars, TX_TOG, reqVars, left,
                 inTog, senseDue, retried, resets, answered, faults, damage>>

HostStalled ==
  /\ hs \in {"in", "csw"} /\ TX_RES = "STALL"
  /\ hs' = IF retried THEN "reset" ELSE "stalled"
  /\ UNCHANGED <<devVars, reqVars, left, inTog, outTog, senseDue, retried, resets,
                 answered, faults, damage>>

(* Nothing will ever come: the device moves only when the host does.       *)
Silent == hs \in {"in", "csw"} /\ TX_RES = "NAK"

HostTimeout ==
  /\ Silent /\ hs' = "reset"
  /\ UNCHANGED <<devVars, reqVars, left, inTog, outTog, senseDue, retried, resets,
                 answered, faults, damage>>

(* The host gives a command up although the device is at work.             *)
HostAborts ==
  /\ hs \in {"out", "in", "csw"} /\ ~Silent /\ Fault
  /\ hs' = "reset"
  /\ UNCHANGED <<devVars, reqVars, left, inTog, outTog, senseDue, retried, resets,
                 answered, damage>>

(* CMD_UDISK_RESET: flags, status and length, but not the endpoints.       *)
ClassReset ==
  /\ hs = "reset" /\ resets = 0
  /\ Udisk_Transfer_Status' = {} /\ Udisk_CSW_Status' = 0 /\ Udisk_Sense_Key' = 0
  /\ UDISK_Transfer_DataLen' = 0
  /\ hs' = "clearIn" /\ senseDue' = FALSE /\ resets' = 1
  /\ damage' = {}
  /\ UNCHANGED <<mCBW_Op, Udisk_CBW_Tag_Save, UDISK_Cur_Sec_Lba, UDISK_Sec_Pack_Count,
                 storeVars, ep2Vars, TX_TOG, RX_RES, RX_TOG, reqVars, left, inTog,
                 outTog, retried, answered, faults>>

(* USBFS_Device_Endp_Init; the transport's variables keep their values.    *)
EndpInitKeepsBusy == UNCHANGED Endp_Busy                          \* mutant
EndpInitBusy      == Endp_Busy' = 0

BusResetIsr ==
  /\ EndpInitBusy /\ TX_RES' = "NAK" /\ TX_TOG' = 0 /\ TX_Buf' = NoPacket
  /\ RX_RES' = "ACK" /\ RX_TOG' = 0
  /\ inTog' = 0 /\ outTog' = 0 /\ senseDue' = FALSE /\ resets' = 0
  /\ damage' = IF Udisk_Transfer_Status = {} THEN {} ELSE {"stale"}
  /\ UNCHANGED <<xferVars, statVars, posVars, storeVars, reqVars, left, retried,
                 answered>>

(* A bus reset alone leaves flags, a class reset alone a busy mark: the    *)
(* host's last resort is both.  Other bus resets come from the cable.      *)
HostBusReset   == hs = "reset" /\ resets = 1 /\ hs' = "reset" /\ BusResetIsr /\ UNCHANGED faults
BusResetAnyway == Fault /\ hs' = "idle" /\ BusResetIsr

Recovery == ClearHaltIn \/ ClearHaltOut \/ HostStalled \/ HostTimeout \/ ClassReset
              \/ HostBusReset

Next ==
  \/ \E c \in Commands : Issue(c)
  \/ HostOut \/ HostOutLost \/ HostIn \/ HostInLost
  \/ HostAborts \/ BusResetAnyway \/ Recovery

Spec == Init /\ [][Next]_vars

(* The host goes on with a command and with a recovery it has begun, asks  *)
(* for sense data when they are due, and TEST_READY now and then.          *)
Fairness == /\ WF_vars(HostOut) /\ WF_vars(HostIn) /\ WF_vars(Recovery)
            /\ WF_vars(Issue(Sense)) /\ SF_vars(Issue(Ready))
FairSpec == Spec /\ Fairness

-----------------------------------------------------------------------------
(* Properties.                                                             *)

PayloadSet == [tag : 0 .. 3, val : 0 .. PPS * Capacity]
Sector     == [0 .. PPS - 1 -> PayloadSet]

(* Types.  A sector is under way while DataLen counts packets: both ends   *)
(* of UDISK_Down_OnePack and UDISK_Up_OnePack stay inside the disk.        *)
UDiskTypeOK ==
  /\ Udisk_Transfer_Status \subseteq {"UP", "DOWN", "CSW"}
  /\ Udisk_CSW_Status \in 0 .. 2 /\ Udisk_Sense_Key \in {0, 5}
  /\ Udisk_CBW_Tag_Save \in 0 .. 1 /\ mCBW_Op \in Ops
  /\ UDISK_Transfer_DataLen \in 0 .. PPS * Capacity
  /\ UDISK_Cur_Sec_Lba \in 0 .. Capacity
  /\ UDISK_Sec_Pack_Count \in 0 .. PPS - 1
  /\ UDisk_Down_Buffer \in Sector /\ flash \in [0 .. Capacity - 1 -> Sector]
  /\ Endp_Busy \in 0 .. 1 /\ TX_RES \in {"NAK", "ACK", "STALL"} /\ TX_TOG \in 0 .. 1
  /\ TX_Buf \in [kind : {"zlp", "reply", "data", "csw"}, tag : 0 .. 3,
                 val : 0 .. PPS * Capacity + 5]
  /\ RX_RES = "ACK" /\ RX_TOG \in 0 .. 1
  /\ hs \in {"idle", "cbw", "out", "in", "csw", "stalled", "reset", "clearIn", "clearOut"}
  /\ cmd \in Commands /\ tag \in 0 .. 1 /\ left \in 0 .. PPS * Capacity
  /\ inTog \in 0 .. 1 /\ outTog \in 0 .. 1 /\ resets \in 0 .. 1
  /\ senseDue \in BOOLEAN /\ retried \in BOOLEAN /\ answered \in BOOLEAN
  /\ faults \in 0 .. MaxFaults /\ damage \subseteq {"stale", "refused"}

(* A packet the host is about to take as new.                              *)
Offered == TX_RES = "ACK" /\ TX_TOG = inTog /\ damage = {}

Failing(c) == c.op \in {"UNSUPPORTED", "MODE_SENSE2"}
Stored(c)  == \A k \in 0 .. Packets(c) - 1 :
                flash[c.lba + k \div PPS][k % PPS] = Payload(tag, k)

(* UDISK_Up_CSW ends the command it answers: in the status stage the host  *)
(* is offered a status with its tag; it reports success if and only if the *)
(* command is one the disk executes, and a write is in the flash by then.  *)
(* MODE_SENSE is excepted: it repeats the status that a bus reset kept the *)
(* host from asking about.                                                 *)
StatusIsTrue ==
  Offered /\ hs = "csw" =>
    /\ TX_Buf.kind = "csw" /\ TX_Buf.tag = tag
    /\ cmd.op # "MODE_SENSE" => (TX_Buf.val = 0 <=> ~Failing(cmd))
    /\ cmd.op = "WRITE" => Stored(cmd)

(* UDISK_Up_OnePack offers the packets of a READ(10) in the order of the   *)
(* disk, none twice, none missing, through every repetition on the wire;   *)
(* sense data tell of the failure that made the host ask.                  *)
ReadsWhatIsStored ==
  Offered /\ hs = "in" =>
    /\ cmd.op = "READ" =>
         TX_Buf = Data(flash[cmd.lba + Position \div PPS][Position % PPS])
    /\ cmd.op = "REQUEST_SENSE" /\ senseDue => TX_Buf.kind = "reply" /\ TX_Buf.val = 5

(* UDISK_Down_OnePack programs a sector only when the host is in the data  *)
(* stage of a write that covers it, also with packets repeated, commands   *)
(* given up and resets in the middle.  The exception is damage: after a    *)
(* refused upload the two ends may be in different commands, and after a   *)
(* bus reset that left the flag of a write, a command block is programmed  *)
(* as data.                                                                *)
OnlyWritesChangeFlash ==
  [][\A a \in 0 .. Capacity - 1 :
       flash'[a] # flash[a] =>
         \/ damage # {}
         \/ hs = "out" /\ cmd.op = "WRITE" /\ a \in cmd.lba .. cmd.lba + cmd.n - 1]_vars

(* A command goes without an answer only after a refused upload or a bus   *)
(* reset that left flags behind, or if it is a MODE_SENSE(10) without data *)
(* for another page, which neither stalls nor answers (SW_UDISK.c:412).    *)
SilentOnlyAfterDamage ==
  Silent => damage # {} \/ (cmd.op = "MODE_SENSE2" /\ cmd.dir = "none")

(* Whatever happened, a class reset, or a bus reset and a class reset,     *)
(* brings the disk back: commands are answered again and again.            *)
Recovers == []<>answered

=============================================================================
