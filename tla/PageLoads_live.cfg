SPECIFICATION FairSpec
CONSTANTS
    l1 = l1
    l2 = l2
    Loads = {l1, l2}
    MaxResources = 1
    None = None
PROPERTIES
    LoadsEnd
    CancelledLoadsEnd
