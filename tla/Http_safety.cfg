SPECIFICATION Spec
CONSTANTS
    home = home
    port = port
    other = other
    local = local
    h1 = h1
    h2 = h2
    o1 = o1
    o2 = o2
    o3 = o3
    r1 = r1
    r2 = r2
    HttpUrls = {home, port, other}
    LocalUrls = {local}
    HostOf <- MCHostOf
    OriginOf <- MCOriginOf
    Requests <- MCRequests
    SetCookies <- MCSetCookies
    MaxAges = {1}
    Slots = {r1, r2}
    CacheLimit = 1
    RedirectLimit = 2
    MaxNow = 1
    Forever = Forever
    None = None
SYMMETRY Symmetry
INVARIANTS
    HeadersFitTheHop
    CacheIsSound
PROPERTIES
    HttpOnlyIsKept
