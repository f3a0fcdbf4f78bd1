CONSTANTS
  NKeys = 2
  Slots = 3
  ResetSlot = 1
  Bytes = {0, 1}
SPECIFICATION FairSpec
CONSTRAINT Followed
INVARIANTS KMTypeOK ReportIsKeys
PROPERTIES KeysReachHost NoKeySticks
