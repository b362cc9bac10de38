CONSTANTS
    Names = {n1}
    Users = {u1, u2, u3}
    Rooms = {r1, r2, r3}
    None = None
    MaxFailures = 1
    Asserts = FALSE
SPECIFICATION TempSpec
SYMMETRY Symmetry
CHECK_DEADLOCK FALSE
INVARIANTS
    RoomsAreSound
