CONSTANTS
    Clients = {c1, c2}
    Members = {m1, m2}
    None = None
    MaxErrors = 1
SPECIFICATION SessionSpec
SYMMETRY Symmetry
CHECK_DEADLOCK FALSE
INVARIANTS
    SynchronizerIsFree
