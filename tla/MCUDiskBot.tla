----------------------------- MODULE MCUDiskBot -----------------------------
(***************************************************************************)
(* Instances of UDiskBot for TLC.                                          *)
(***************************************************************************)
EXTENDS UDiskBot

Command(op, dir, lba, n) == [op |-> op, dir |-> dir, lba |-> lba, n |-> n]

(* Every handler.  The read and the write overlap in one sector.    *)
MCCommands ==
  {Ready, Sense,
   Command("READ", "in", 1, 2),
   Command("WRITE", "out", 0, 2),
   Command("INQUIRY", "in", 0, 1), Command("MODE_SENSE", "in", 0, 1),
   Command("MODE_SENSE2", "none", 0, 0),
   Command("UNSUPPORTED", "in", 0, 1), Command("UNSUPPORTED", "out", 0, 2)}

=============================================================================
