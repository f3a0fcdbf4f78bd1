CONSTANTS
  PPS = 2
  Capacity = 3
  MaxFaults = 2
  Commands <- MCCommands
SPECIFICATION FairSpec
INVARIANTS UDiskTypeOK StatusIsTrue ReadsWhatIsStored SilentOnlyAfterDamage
PROPERTIES OnlyWritesChangeFlash Recovers
