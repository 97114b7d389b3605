SPECIFICATION FairSpec
CONSTANTS
    Procs = {p1, p2}
    Ids = {a, b}
    None = None
    Current = Current
    MaxProposals = 2
    MaxTemps = 2
    MaxFaults = 2
PROPERTIES
    RecoveryCompletes
