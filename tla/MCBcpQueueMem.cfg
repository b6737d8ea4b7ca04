SPECIFICATION MemSpec
CONSTANTS
  blank = blank
  x = x
  y = y
  Blank = blank
  Content = {x, y}
  MAX_PACKET_QUEUE_SIZE = 4
INVARIANTS
  MemTypeOK
  StackLayout
PROPERTIES
  IsStack
