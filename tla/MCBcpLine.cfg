SPECIFICATION NetSpec
CONSTANTS
  a = a
  r = r
  s = s
  p1 = p1
  p2 = p2
  Node = {a, r, s}
  Addr = {a, r, s}
  Sink = {s}
  Packet = {p1}
  MAX_PACKET_QUEUE_SIZE = 2
  MAX_ROUTING_TABLE_SIZE = 2
  MAX_HOPS = 3
  MAX_ATTEMPTS = 0
  MAX_RADIO = 1
  SyncMac = TRUE
  Closes = FALSE
  Link <- LineLink
  Origin <- AllFromA
  INBOX = 1
  Settles = FALSE
  Prompt = TRUE
  MAX_ACKS = 1
INVARIANTS
  NetTypeOK
  HopsCoverDistance
  BusyIffOutstanding
  NeverSilent
  DataIsPending
PROPERTIES
  FarNodesNeverDrain
