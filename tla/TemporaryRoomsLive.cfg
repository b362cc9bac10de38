CONSTANTS
    Names = {n1}
    Users = {u1, u2}
    Rooms = {r1, r2}
    None = None
    MaxFailures = 1
    Asserts = FALSE
SPECIFICATION TempFairSpec
CHECK_DEADLOCK FALSE
PROPERTIES
    RequestsAreAnswered
    EmptyIsForgotten
    
