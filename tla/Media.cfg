CONSTANTS
    Devices = {d1, d2}
    Windows = {w1, w2}
    Peers = {p1}
    None = None
    Wins = {w1, w2}
    MaxPosts = 2
    Microphones = {a1, a2}
    Speakers = {b1}
    NoDevice = NoDevice
    Surfaces = {f1, f2}
    NoSurface = NoSurface
    Sizes = {1, 2}
    Period = 2
    MaxQueue = 3
    MaxCalculators = 2
SPECIFICATION MCSpec
CHECK_DEADLOCK FALSE
INVARIANTS
    SentIsShown
    CameraIsOffUnlessUsed
    WishIsKept
    ListedIsCapturing
    DevicesAreSound
    FramesAreSound
PROPERTIES
    WindowsAreFollowed
    SoundGoesOn
