SPECIFICATION Spec
CONSTANTS
    TcIds = {i1, i2, i3}
    Streaming = {i3}
    Calling = {i1}
    Ports = {p1}
    Buffers = {0, 1}
    MaxConnections = 2
    MaxCallbacks = 2
    MaxPending = 1
    None = None
    Tcs = {t1, t2}
    Queues = {0, 1}
    QueueSize = 2
    MaxLimited = 3
    GlobalVcs = {g1, g2, g3}
    Connections = {s1, s2, r1}
    Senders = {s1, s2}
    MaxVcs = 2
    MaxTcs = 3
    v1 = v1
    v2 = v2
    v3 = v3
    l1 = l1
    l2 = l2
    Vcs = {v1, v2, v3, v4}
    Raw = {v3}
    Marked = {v1}
    Typed = {v2}
    Lines = {l1, l2}
    MappedTo <- Mapping
    MaxMessages = 2
    MaxBuffers = 1
    PmSize = 2
    MaxWire = 2
    SuperCalls = {"Load_Configuration"}
    SubCalls = {"Request_Key", "Fault_Report"}
    MaxCalls = 2
    TimesOut = {"Configuration_Loaded"}
    Clients = {c1, c2}
    Contents = {4}
    Size = 2
    ReplyBuffers = 2
    MaxRequests = 3
 
 
INVARIANT AttachedIsServed
INVARIANT ForwardsAll
INVARIANT KeysAgree
 
CHECK_DEADLOCK FALSE
