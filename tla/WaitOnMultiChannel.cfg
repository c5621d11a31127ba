CONSTANTS
  u = u
  w = w
  s = s
  t = t
  x = x
  y = y
  z = z
  Waiters = {u, w}
  Senders = {s, t}
  Vc = {x, y, z}
  Calls <- ApartAndShared
  Receivers <- ReceiversOf
  TriggerModulus = 8
  MaxMessages = 2
SPECIFICATION FairSpec
INVARIANT WaitersWake
PROPERTY WaiterReturns
CHECK_DEADLOCK FALSE
