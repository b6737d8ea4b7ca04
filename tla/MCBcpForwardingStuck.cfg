SPECIFICATION FwdSpec
CONSTANTS
  a = a
  b = b
  p1 = p1
  p2 = p2
  null = null
  Addr = {a, b}
  Packet = {p1, p2}
  NULL = null
  SEND_STACK_SIZE = 3
  Q_ENTRY_POOL_SIZE = 4
  MESSAGE_POOL_SIZE = 5
  MAX_RETX_ATTEMPTS = 2
  ROUTING_TABLE_SIZE = 2
INVARIANTS
  SendingHasReason
CHECK_DEADLOCK FALSE
