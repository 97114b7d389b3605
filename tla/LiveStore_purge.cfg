SPECIFICATION Spec
CONSTANTS
    Procs = {p, q}
    Ids = {f, g}
    Curated = {}
    Modes = {"merge"}
    MaxStarts = 3
    None = None
CHECK_DEADLOCK FALSE
SYMMETRY Symmetry
PROPERTIES
    RemovedStaysAway
