SPECIFICATION FairSpec
CONSTANTS
    p1 = p1
    p2 = p2
    Pages = {p1, p2}
    MaxFetches = 1
    MaxSyncs = 1
    None = None
PROPERTIES
    SyncIsAnswered
    SentRequestsAreAnswered
    AbandonedJobsStop
    ShutdownFinishes
