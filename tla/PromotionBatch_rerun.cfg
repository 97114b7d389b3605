SPECIFICATION Spec
CONSTANTS
    Procs = {p, q}
    MaxBatch = 2
    Locals = {0}
    MaxStarts = 3
    None = None
CHECK_DEADLOCK FALSE
SYMMETRY Symmetry
INVARIANTS
    RerunsIdempotent
