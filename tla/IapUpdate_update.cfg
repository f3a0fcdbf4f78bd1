CONSTANTS
  Bytes = {0, 1, 2}
  FF = 0
  Images <- MCImages
  PageSize = 2
  AppPages = 2
  ChunkMax = 2
  MaxLosses = 2
  MaxAborts = 2
  MaxSessions = 3
SPECIFICATION FairSpec
INVARIANTS IapTypeOK BootsWhole IapInv
PROPERTIES UpdateCompletes RequestReachesIap
CHECK_DEADLOCK FALSE
