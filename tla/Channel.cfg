\* The whole life of a channel of each kind.
CONSTANTS
  Kinds = {"session", "mux", "tcpip"}
  Window = 2
  MaxPacket = 1
  MaxRead <- Read
  MaxData <- Data
  MaxExt <- Ext
  MaxReq <- Req
SPECIFICATION Spec
INVARIANTS
  TypeOK
  ProtocolKept
  WindowRespected
  DataComplete
CHECK_DEADLOCK FALSE
