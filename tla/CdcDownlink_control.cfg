CONSTANTS
  NumMax = 4
  PackMax = 1
  U16 = 6
  Byte = {0}
  Payloads <- ZeroAndEmpty
  Requests = {"lineCoding", "busReset", "setHalt", "clearHalt"}
SPECIFICATION FairSpec
CONSTRAINT TornBound
INVARIANTS DownlinkInv StuckOnlyOnEmptyPacket
PROPERTIES BooksFreshOnly HeadIsSent StopIsLifted
