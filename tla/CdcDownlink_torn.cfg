CONSTANTS
  NumMax = 4
  PackMax = 2
  U16 = 16
  Byte = {0, 1}
  Payloads <- OnePayload
  Requests = {"lineCoding"}
SPECIFICATION Spec
INVARIANTS RemainNumIsBacklog
