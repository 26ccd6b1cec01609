SPECIFICATION SceneSpec
CONSTANTS
    a1 = a1
    a2 = a2
    c1 = c1
    c2 = c2
    r1 = r1
    Keep = Keep
    Agents = {a1, a2}
    Features = {a1, a2}
    Regions = {r1}
    Lines = {0, 1, 2}
    Paths = {"f"}
    InitPath = "f"
    InitText <- ZeroText
    Rank <- NameOrder
    FeatureOf <- OwnFeature
    Clients = {c1, c2}
    Requests <- OfAnyKind
    MaxRequests = 5
SYMMETRY ClientSymmetry
INVARIANT TablesConsistent
INVARIANT AloneIsAtomic
INVARIANT AgentsIsolated
INVARIANT ApprovalRepeatable
CHECK_DEADLOCK FALSE
