CONSTANTS
    Users = {alice, bob}
    None = None
    MaxConnects = 1
    MaxDrops = 0
    MaxChanges = 2
    MaxIce = 1
    Asserts = TRUE
SPECIFICATION FairSpec
CHECK_DEADLOCK FALSE
INVARIANTS
    PairIsSound
PROPERTIES
    ExchangesAlternate
    
    ExchangesEnd
