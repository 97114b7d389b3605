SPECIFICATION RSpec
CONSTANTS
    Procs = {p1}
    Ids = {a, b}
    None = None
    Current = Current
    MaxProposals = 2
    MaxTemps = 1
    MaxFaults = 1
SYMMETRY Symmetry
INVARIANTS
    RecallIsLinearizable
