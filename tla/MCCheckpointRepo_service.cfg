SPECIFICATION ServiceSpec
CONSTANTS
    s1 = s1
    s2 = s2
    Names = {"a", "main"}
    Main = "main"
    NameRank <- ByName
    Snaps = {s1, s2}
    MaxMade = 5
SYMMETRY SnapSymmetry
INVARIANT AutoPersisted
PROPERTY LedgerKept
