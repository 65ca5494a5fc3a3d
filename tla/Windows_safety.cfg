SPECIFICATION Spec
CONSTANTS
    w1 = w1
    w2 = w2
    home = home
    about = about
    small = small
    large = large
    Windows = {w1, w2}
    MaxWindows = 2
    TabLimit = 3
    MaxTabs = 3
    Urls = {home, about}
    Unbookmarkable = {about}
    Home = home
    Sizes = {small, large}
    FirstSize = large
    Fits <- MCFits
    Roomy = {large}
    None = None
CONSTRAINT Bound
SYMMETRY Symmetry
INVARIANTS
    PresentedIsCurrent
    DraftFollowsUrl
    TypingIsNeverLost
    ViewportFitsChrome
