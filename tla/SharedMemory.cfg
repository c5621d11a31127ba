SPECIFICATION Spec
CONSTANTS
    Processes = {p1, p2, p3}
    First = p1
    Names = {n1}
    MaxSegments = 3
    MaxSessions = 2
    MapUsers = {1, 2}
    MapIds = {1, 2, 3, 4}
    Capacity = 3
    Users = {1, 2}
    Ids = {1, 2}
    Sizes = {1, 2}
    Slots = {1, 2}
    Unused = Unused
    MaxSegment = 3
    Producers = {q1, q2}
    Consumers = {c1, c2}
    Workers = {w1, w2}
    RingSize = 2
    MaxPushes = 4
    MaxPops = 5
    NoValue = NoValue
    s1 = s1
    s2 = s2
    r1 = r1
    r2 = r2
    r3 = r3
    MaxMessages = 3
 
INVARIANT SortedUnlessOvertaken
 
INVARIANT RingIsSafe
 
CHECK_DEADLOCK FALSE
