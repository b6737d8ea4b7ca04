SPECIFICATION OneAtATimeSpec
CONSTANTS
  n = n
  s = s
  a = a
  p = p
  Node = {n, s}
  Addr = {n, s, a}
  Sink = {s}
  Packet = {p}
  MAX_PACKET_QUEUE_SIZE = 2
  MAX_ROUTING_TABLE_SIZE = 2
  MAX_HOPS = 1
  MAX_ATTEMPTS = 0
  MAX_RADIO = 2
  SyncMac = FALSE
  Closes = TRUE
INVARIANTS
  TypeOK
  OneRecordPerNeighbour
PROPERTIES
  ClosedSendsNoData
  BusyEnds
