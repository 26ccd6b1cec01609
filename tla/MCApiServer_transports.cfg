SPECIFICATION SceneSpec
CONSTANTS
    c1 = c1
    c2 = c2
    NoClient = NoClient
    Clients = {c1, c2}
    Workers = 2
    Ops <- AllOps
SYMMETRY ClientSymmetry
INVARIANT CommitUnseen
INVARIANT PoisonedOnlyBranchless
INVARIANT RefusalsChangeNothing
INVARIANT SomeoneSteps
