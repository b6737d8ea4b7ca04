SPECIFICATION NetSpec
CONSTANTS
  a = a
  r = r
  s = s
  p1 = p1
  p2 = p2
  Node = {a, s}
  Addr = {a, s}
  Sink = {s}
  Packet = {p1, p2}
  MAX_PACKET_QUEUE_SIZE = 2
  MAX_ROUTING_TABLE_SIZE = 2
  MAX_HOPS = 2
  MAX_ATTEMPTS = 1
  MAX_RADIO = 2
  SyncMac = FALSE
  Closes = FALSE
  Link <- StarLink
  Origin <- AllFromA
  INBOX = 1
  Settles = FALSE
  Prompt = FALSE
  MAX_ACKS = 2
INVARIANTS
  BusyHasReason
PROPERTIES
  KeepsService
CHECK_DEADLOCK FALSE
