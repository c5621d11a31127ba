CONSTANTS
  a = a
  b = b
  c = c
  Clients = {a, b, c}
  Cells = 1
  MaxCalls <- CallsOf
  None = None
  Longs = {4, 8}
  Values = {1, 2, 65535}
SPECIFICATION PcsSpec
INVARIANT SlotCanBeTaken
 
PROPERTY ImplementsRemoteCall
PROPERTY CallsReturn
CHECK_DEADLOCK FALSE
