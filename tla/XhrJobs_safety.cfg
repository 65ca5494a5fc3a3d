SPECIFICATION Spec
CONSTANTS
    p1 = p1
    p2 = p2
    Pages = {p1, p2}
    MaxFetches = 3
    MaxSyncs = 1
    None = None
SYMMETRY Symmetry
INVARIANTS
    ReferencesCountHolders
    WalkStaysOnList
    OnloadRunsOnce
    ExitLeavesNoJob
