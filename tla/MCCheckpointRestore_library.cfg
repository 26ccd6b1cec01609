SPECIFICATION SceneSpec
CONSTANTS
    Names = {"main", "b"}
    Main = "main"
    Contents <- One
    Removable = {"b"}
    MaxMade = 3
    Readings = {1, 3}
    MaxOpen = 1
    MaxRemoved = 1
    MaxFailures = 1
INVARIANT BranchesStored
INVARIANT CheckpointsStored
INVARIANT LogsWholeHistory
INVARIANT NearestInTime
PROPERTY RestorableStays
CHECK_DEADLOCK FALSE
