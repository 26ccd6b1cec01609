SPECIFICATION CleanSpec
CONSTANTS
    s1 = s1
    s2 = s2
    Names = {"a", "main"}
    Main = "main"
    NameRank <- ByName
    Snaps = {s1, s2}
    MaxMade = 3
SYMMETRY SnapSymmetry
INVARIANT ReferencedSnapshotsStored
