CONSTANTS
  RxLen = 3
  PackSize = 2
  RxTimeOutMax = 1
  Pack0Time = 1
  UpTimeOut = 2
  U8 = 2
  U16 = 4
  Byte = {0, 1}
  Requests = {}
  Timely = TRUE
SPECIFICATION FairSpecH
CONSTRAINT UntilDamage
INVARIANT UplinkTypeOK
PROPERTIES UploadsBytes BytesAreUploaded FullPacketIsTerminated UploadExpires
