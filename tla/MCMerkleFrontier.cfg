CONSTANTS
    Depth = 3
    Leaves = {l1, l2, l3}
    Zero = Zero
SPECIFICATION Spec
INVARIANTS
    FrontierMatchesReference
    PathsExact
    RootNamesCount
CHECK_DEADLOCK FALSE
