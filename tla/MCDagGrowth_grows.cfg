SPECIFICATION GrowthSpec
CONSTANTS
    Checkpoints = {c1, c2, c3, c4}
SYMMETRY CheckpointSymmetry
INVARIANT GenerationsGrow
INVARIANT AncestryExact
