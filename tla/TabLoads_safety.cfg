SPECIFICATION Spec
CONSTANTS
    w1 = w1
    w2 = w2
    Windows = {w1, w2}
    MaxTabs = 2
    MaxTabIds = 3
    MaxTasks = 3
    None = None
SYMMETRY Symmetry
INVARIANTS
    ActiveTaskIsLive
    UnwantedLoadsAreCancelled
    PagesHaveOneOwner
    NothingOutlivesTheApp
PROPERTIES
    KeepsPromise
