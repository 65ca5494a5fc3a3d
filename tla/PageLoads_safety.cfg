SPECIFICATION Spec
CONSTANTS
    l1 = l1
    l2 = l2
    Loads = {l1, l2}
    MaxResources = 2
    None = None
SYMMETRY Symmetry
INVARIANTS
    NoNestedScripts
    LoadsOwnTheirRequests
    DocumentOrder
