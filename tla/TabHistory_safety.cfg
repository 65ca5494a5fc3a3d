SPECIFICATION Spec
CONSTANTS
    a = a
    b = b
    f = f
    typed = typed
    Docs = {a, b}
    Frags = {f}
    NoFrag = NoFrag
    Spellings = {typed}
    None = None
    MaxHistory = 4
SYMMETRY Symmetry
INVARIANTS
    CurrentEntryIsPage
PROPERTIES
    CommitMatchesAnnouncement
    BackEntriesAreKept
