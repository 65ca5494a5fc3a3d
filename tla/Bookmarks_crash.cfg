SPECIFICATION Spec
CONSTANTS
    p1 = p1
    p2 = p2
    u1 = u1
    u2 = u2
    Processes = {p1, p2}
    Urls = {u1, u2}
    None = None
SYMMETRY Symmetry
INVARIANTS
    StoreStaysReadable
    MemoryMatchesFile
PROPERTIES
    BadFileIsKept
