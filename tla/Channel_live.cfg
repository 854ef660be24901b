\* A session and a forwarded connection under fairness.
CONSTANTS
  Kinds = {"session", "tcpip"}
  Window = 2
  MaxPacket = 1
  MaxRead <- LiveRead
  MaxData <- Data
  MaxExt <- Ext
  MaxReq <- NoRequests
SPECIFICATION FairSpec
PROPERTIES
  ChannelLive
CHECK_DEADLOCK FALSE
