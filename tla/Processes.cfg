SPECIFICATION Spec
CONSTANTS
    None = None
    Main = Main
    N = 2
    CallSets = {{"scope", "suspendSelf"}, {"scope", "lock"}, {"exit", "start"}, {"stop"}, {"unlock"}}
    MaxCalls = 1
    MaxLevel = 99
    Entity = Entity
    Unused = Unused
    Applications = {a1}
    Services = {s1}
    MaxProcesses = 3
    MaxRequests = 4
    Cpus = {c1, c2, c3}
    MasterCpus = {c1}
    MaxCpus = 3
    MaxSessions = 3
    t1 = t1
    t2 = t2
    Callers = {t1, t2}
    Names = {n1, n2}
    NamedSlots = {1, 2}
    MaxCount = 1
    MaxIds = 3
    MaxCallsById = 3
    NoName = NoName
    PerSecond = 3
    Infinite = 3
    f1 = f1
    f2 = f2
    f3 = f3
    Leader = t1
    Files = {f1, f2, f3}
    FilesOf <- Opened
    Regular = {f1}
    Closed = Closed
    MaxFiles = 2
    MaxDescriptors = 3
    MaxHandles = 5
    Raisers = {r1}
    Loggers = {g1}
    QueueSize = 1
    MaxErrors = 2
    MaxLogs = 1
    Capacity = 3
    Chars = {x1, x2}
    Nul = Nul
    Unlimited = 9
INVARIANT DestroyedIsGone
 
 
INVARIANT StatusIsOwn
INVARIANT TextsAreExact
PROPERTY TimesAreKept
PROPERTY ThreadsObey
PROPERTY ApplicationsFirst
PROPERTY EntitiesAreReached
CHECK_DEADLOCK FALSE
