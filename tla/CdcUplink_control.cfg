CONSTANTS
  RxLen = 3
  PackSize = 2
  RxTimeOutMax = 1
  Pack0Time = 1
  UpTimeOut = 2
  U8 = 2
  U16 = 4
  Byte = {0}
  Requests = {"lineCoding", "busReset", "setHalt", "clearHalt"}
  Timely = FALSE
SPECIFICATION Spec
CONSTRAINT DamageBound
INVARIANTS CountsAgree CountNeverWraps
