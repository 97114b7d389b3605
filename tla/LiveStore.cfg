SPECIFICATION Spec
CONSTANTS
    Procs = {p, q}
    Ids = {f, h}
    Curated = {h}
    Modes = {"merge", "replace"}
    MaxStarts = 4
    None = None
CHECK_DEADLOCK FALSE
SYMMETRY Symmetry
INVARIANTS
    RevokedHidden
PROPERTIES
    DecisionsKept PurgedStaysAway NothingLost
