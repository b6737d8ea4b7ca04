SPECIFICATION RoutingSpec
CONSTANTS
  a = a
  b = b
  self = self
  null = null
  Addr = {a, b}
  Self = self
  NULL = null
  ROUTING_TABLE_SIZE = 3
  MAX_BACKLOG = 4
  MAX_RETX_ATTEMPTS = 2
  PACKETS_PER_MINUTE = 20
  MAX_TX_TIME = 250
  TxTime <- Measured
  WORD = 512
  MAX_SAMPLES = 2
SYMMETRY Interchangeable
INVARIANTS
  RoutingTypeOK
  WeightsAreSigned
  ChoosesBest
PROPERTIES
  ShutOutUntilBeacon
  CopiesAreFrozen
