SPECIFICATION Spec
CONSTANTS
    Procs = {p1, p2}
    Ids = {a, b, c}
    None = None
    Current = Current
    MaxProposals = 2
    MaxTemps = 2
    MaxFaults = 2
SYMMETRY Symmetry
INVARIANTS
    TypeOK
    AlwaysReadable
    SessionSeesDisk
    EventAppendedOnce
    NothingSavedBeforeErasure
    QueueWithinLimit
PROPERTIES
    OnlyReviewedChanges
    StaleStaysStale
    ImplementsMemory
