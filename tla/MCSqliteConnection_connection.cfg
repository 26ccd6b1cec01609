SPECIFICATION SceneSpec
CONSTANTS
    Threads = {t1, t2}
    Partitions = {p1, p2}
    Snaps = {s1, s2}
    Nodes = {n1, n2}
    None = None
    p1 = p1
    p2 = p2
    s1 = s1
    s2 = s2
    n1 = n1
    n2 = n2
    Items <- AllItems
    Requests <- AllRequests
    MaxRequests = 3
    MaxCrashes = 1
INVARIANT SettledWritesDurable
INVARIANT UnitsWhole
INVARIANT CrashTearsOne
PROPERTY FailuresLeaveNoTrace
PROPERTY RequestsReturn
CHECK_DEADLOCK FALSE
