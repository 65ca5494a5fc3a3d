SPECIFICATION Spec
CONSTANTS
    root = root
    box = box
    field = field
    item = item
    None = None
    Nodes = {root, box, field, item}
    Root = root
    FirstTags <- MCFirstTags
    FirstChildren <- MCFirstChildren
    Scrollers = {item}
    Ids = {1}
    Other = Other
    MaxDepth = 2
    NewTags = {"button"}
    Delays = {0, 2}
    Blockings = {1, 2}
    ScriptLimit = 1
    BlockLimit = 1
    Budget = 2
    MaxClock = 3
    MaxHandles = 2
CONSTRAINT Bound
INVARIANTS
    FocusIsInDocument
    IdleFrameIsCurrent
    IdGlobalsAreCurrent
    TimersMatchCallbacks
    ScriptsAreBounded
PROPERTIES
    TimersRunInOrder
