CONSTANTS
    Users = {u1, u2}
    Admin = admin
    Limit = 2
    Switches = {"muted"}
    MaxLog = 6
    MaxPuts = 2
    Others = {p1, p2}
    Volumes = {1, 2}
    FullVolume = 2
    MaxHandlers = 2
    Own = me
    Guests = {g1, g2}
    Bot = bot
    Camera = camera
    Screen = screen
    Nobody = Nobody
    Slots = {s1, s2, s3}
    Tracked = {s3}
    Blockable = {s3}
    Gids = {1, 2}
    Threads = {t1}
SPECIFICATION MCSpec
SYMMETRY Symmetry
CHECK_DEADLOCK FALSE
INVARIANTS
    
    AudioObeys
    WallIsSound
    SignalsHold
