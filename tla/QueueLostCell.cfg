CONSTANTS
  NoValue = NoValue
  Size = 2
  Policies = {"EXCEPTION"}
  Producers = {p1, p2}
  Consumers = {c1, c2}
  Workers = {w1, w2}
  MaxPushes = 4
  MaxPops = 5
SPECIFICATION Spec
INVARIANT RestCountsAgree
CHECK_DEADLOCK FALSE
