CONSTANTS
    Clients = {c1, c2}
    Members = {m1, m2}
    None = None
    MaxErrors = 2
SPECIFICATION SessionFairSpec
CHECK_DEADLOCK FALSE
INVARIANTS
    SessionIsSound
PROPERTIES
    NoUpdatesOnceStopped
    
    
