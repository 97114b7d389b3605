SPECIFICATION Spec
CONSTANTS
    Recalls = {r1, r2}
    Ids = {p, c}
    Cores = {x, y}
    Keys = {k1, k2}
    None = None
    Unreadable = Unreadable
    MaxVersions = 2
    MaxSpoils = 1
SYMMETRY Symmetry
INVARIANTS
    CacheDecidesNothing SidecarOfItsVersion
