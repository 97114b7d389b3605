SPECIFICATION SelectSpec
CONSTANTS
    Facts = {"f", "g", "h"}
    Insights = {"i"}
    Inputs <- Families
    Header = 1
    MaxPerDate = 1
    MaxCurated = 1
    LeadCap = 1
    DenseTop = 2
    ReservedSlots = 1
    MaxNeighbors = 1
    RrfK = 1
CHECK_DEADLOCK FALSE
INVARIANT RevokedRevisionHidden
