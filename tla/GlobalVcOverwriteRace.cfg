CONSTANTS
  s1 = s1
  s2 = s2
  r1 = r1
  r2 = r2
  r3 = r3
  NumberOfBuffers = 2
  NumberOfVcs = 2
  QueueSize <- Sizes
  Refusing = {1}
  Lifo = {}
  Senders = {s1, s2}
  Receivers = {r1, r2}
  VcOf <- OneReaderEach
  Copying = {}
  Impatient = {}
  MaxMessages = 3
SPECIFICATION Spec
INVARIANT ReadBufferNotFree
CHECK_DEADLOCK FALSE
SYMMETRY Symmetry
