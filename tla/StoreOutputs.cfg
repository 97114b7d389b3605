SPECIFICATION OutputsSpec
CONSTANTS
    Facts = {"f", "g", "h"}
    Insights = {"i"}
    Inputs <- Families
    Header = 1
    MaxPerDate = 1
    MaxCurated = 1
    LeadCap = 1
    DenseTop = 2
    ReservedSlots = 1
    MaxNeighbors = 1
    RrfK = 1
    Writers = {p, q}
    FactIds = {a, b}
    Nobody = Nobody
    MaxRuns = 3
    MaxSideBySide = 2
    MaxWrites = 1
    Sources <- Readings
    MaxInputs = 2
    MinEvents = 2
    EnrichedTop = 1
    Threads = {"t", "u"}
    NoThread = "none"
    CaptureOrder <- Order
    MaxChanges = 2
    MaxRequests = 2
SYMMETRY Symmetry
CHECK_DEADLOCK FALSE
INVARIANTS BudgetKept ReservedGuaranteed NothingLostToSummary HiddenStaysHidden OwnLineageValid SampleIsFair PurgeLeavesNothing SnapshotCoherent
PROPERTIES NewerSynthesisKept
