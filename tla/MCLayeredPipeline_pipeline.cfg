SPECIFICATION SceneSpec

CONSTANTS
    a1 = a1
    a2 = a2
    r1 = r1
    r2 = r2
    Keep = Keep
    Agents = {a1, a2}
    Features = {a1, a2}
    Regions = {r1, r2}
    Lines = {0, 1, 2}
    Paths = {"f"}
    InitPath = "f"
    InitText <- ZeroText
    Rank <- NameOrder
    FeatureOf <- OwnFeature
    MaxSnaps = 9
    MaxHistory = 3

SYMMETRY RegionSymmetry

INVARIANT TypeOK
INVARIANT StoreConsistent
INVARIANT NoCrossLayerFlow
INVARIANT SubmissionsStayPending
INVARIANT RoundsRepeatable
PROPERTY BaselinesPinned
PROPERTY SubmissionsAnswered
PROPERTY StagedMergeIsThreeWay
PROPERTY FreshEditsReadBack

CHECK_DEADLOCK FALSE
