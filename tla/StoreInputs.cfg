SPECIFICATION InputsSpec
CONSTANTS
    Procs = {p, q}
    MaxBatch = 3
    Locals = {0, 2}
    MaxStarts = 3
    None = None
    Entries = {1, 2, 3}
    Fixed = {}
    MaxJobs = 4
    MaxEdits = 1
    Tools = {"r", "s"}
    Proposals = {1, 2}
    MaxCommands = 3
    Sessions = {"s", "t"}
    Media = {"v"}
    Frames <- SomeFrames
    Calls = {1, 2}
    Texts = {"directive", "bug"}
    Authority = {"directive"}
    KeyOf <- Verbatim
    NoCall = 0
    MaxLines = 5
SYMMETRY Symmetry
CHECK_DEADLOCK FALSE
INVARIANTS InputsTypeOK RecordedInStore RecordedChain MigrationFaithful OneStays HiddenForShown NoProposalLost OnlyApproved SpokenOnce UserDecides
