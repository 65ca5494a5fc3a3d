SPECIFICATION FairSpec
CONSTANTS
    w1 = w1
    w2 = w2
    Windows = {w1, w2}
    MaxTabs = 1
    MaxTabIds = 2
    MaxTasks = 2
    None = None
PROPERTIES
    LoadsSettle
    CancelledTasksAreFreed
    ShutdownFinishes
