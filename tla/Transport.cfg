\* The smallest rekey limit, so that every packet may bring on a rekey; a rekey interval and a rekey by the user.
CONSTANTS
  BlockSize = 1
  MaxBlocks = 1
  MaxSend = 2
  MaxDue = 1
  MaxManual = 1
SPECIFICATION FairSpec
INVARIANT TransportSound
PROPERTY RekeysSound
CHECK_DEADLOCK FALSE
