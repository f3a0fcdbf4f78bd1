CONSTANTS
  Tries = 2
  DetMax = 2
  SnkConnectMax = 4
  ReplyMax = 1
  SrcConnectMax = 1
  CapMax = 1
  RequestMax = 0
  AcceptMax = 0
  ReadyMax = 0
  MaxPulls = 1
SPECIFICATION Spec
INVARIANT ResetCompletes
