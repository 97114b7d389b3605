SPECIFICATION Spec
CONSTANTS
    Editors = {e1, e2}
    Ids = {f, g}
    Cores = {x, y, z}
    Start = x
    Keys = {k}
    None = None
    MaxRows = 3
    MaxExternal = 1
    MaxTorn = 1
SYMMETRY Symmetry
INVARIANTS
    UndoKnown RevertedOnce EditSparesChildren
PROPERTIES
    NothingLost
