SPECIFICATION FairSpec
CONSTANTS
  SECTOR_VEC_SIZE = 2
  Conn = {driver, peer}
  Driver = driver
  Peer = peer
  max_sector = 2
  hmac_client_key = 11
  hmac_system_key = 12
  Requests <- SomeRequests
  PeerMessages <- SomeMessages
  QueueDepth = 2
  RingSize = 4
  Cuts = {20}
  Window = 80
CHECK_DEADLOCK FALSE
INVARIANTS DeviceIsDisc NoBugOn ExecutedAsSent
PROPERTY RequestsComplete
