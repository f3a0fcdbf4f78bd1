CONSTANTS
  NumMax = 4
  PackMax = 2
  U16 = 9
  Byte = {0, 1}
  Payloads <- TwoPayloads
  Requests = {"lineCoding", "busReset", "ackLost"}
SPECIFICATION SpecH
CONSTRAINT FaultBound
INVARIANT TypeOK
PROPERTY BridgesBytes
