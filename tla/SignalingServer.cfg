CONSTANTS
    Keys = {k1}
    Tokens = {alice, bob}
    Conns = {c1, c2, c3, c4}
    None = None
    MaxCandidates = 1
    Asserts = FALSE
SPECIFICATION ServerSpec
SYMMETRY Symmetry
CHECK_DEADLOCK FALSE
INVARIANTS
    ServerTypeOK
    RegistryHoldsTheLive
    PairsAreSound
    OneNegotiator
    NothingLiesIdle
PROPERTIES
    NegotiationSurvives
    CachedIsDelivered
