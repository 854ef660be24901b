\* A download of three blocks, the last one short, and an upload of five, one more than can be under way.
SPECIFICATION FairSpec
CONSTANTS
  Directions = {"download", "upload"}
  Reordering = {"download"}
  DownloadSize = 5
  UploadSize = 9
  transfer_buflen = 2
  num_requests = 2
  MIN_READ_SIZE = 1
  MaxCommands = 2
  MaxReadFails = 1
  MaxWriteFails = 2
INVARIANTS
  TransfersSound
PROPERTIES
  TransferEnds
CHECK_DEADLOCK FALSE
