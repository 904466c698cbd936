CONSTANTS
  u1 = u1
  u2 = u2
  p1 = p1
  p2 = p2
  NoDoc = NoDoc
  NoEvent = NoEvent
  Users <- MCUsers
  Partitions <- MCPartitions
  KeyPartition <- MCKeyPartition
  MaxMutations = 3
  PeerCanDrop = FALSE
  QueueCap = 2
  DecodeCanFail = FALSE
  StreamCanFail = FALSE
SPECIFICATION Spec
CHECK_DEADLOCK FALSE
INVARIANTS
  PerKeyOrder
