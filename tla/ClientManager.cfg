SPECIFICATION FairSpec
CONSTANTS
    p1 = p1
    p2 = p2
    c1 = c1
    c2 = c2
    None = None
    Callers = {p1, p2}
    Configs = {c1, c2}
    MaxVersion = 2
INVARIANTS
    NoMapRace
    OneBuildPerConfig
    FreshAfterInvalidation
PROPERTY CallsReturn
