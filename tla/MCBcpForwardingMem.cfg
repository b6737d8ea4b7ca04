SPECIFICATION PoolSpec
CONSTANTS
  p1 = p1
  p2 = p2
  blank = blank
  Packet = {p1, p2}
  Blank = blank
  SEND_STACK_SIZE = 3
  Q_ENTRY_POOL_SIZE = 4
  MESSAGE_POOL_SIZE = 4
INVARIANTS
  PoolTypeOK
  EntryListsSound
  MessagesOwned
  BlocksLeft
PROPERTIES
  KeepsStack
  CountsListed
CHECK_DEADLOCK FALSE
