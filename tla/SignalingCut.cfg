CONSTANTS
    Users = {alice, bob}
    None = None
    MaxConnects = 2
    MaxDrops = 2
    MaxChanges = 1
    MaxIce = 0
    Asserts = FALSE
SPECIFICATION Spec
VIEW WithoutOutput
CHECK_DEADLOCK FALSE
INVARIANTS
    PairHeals
