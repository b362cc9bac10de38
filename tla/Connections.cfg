CONSTANTS
    MaxSends = 2
    Requests = {r1, r2, y1}
    Syncs = {y1}
    Encoders = {e1, e2, e3}
    Readers = {v1, v2}
    NoReader = NoReader
    Ops = {o1, o2}
    OwnTracks = {k1}
    RemoteTracks = {q1, q2}
    VideoTracks = {q1}
    Channels = {h1}
    MaxPosted = 1
    Programs = {"gui", "cli", "audio"}
    MaxSessions = 2
SPECIFICATION MCSpec
CHECK_DEADLOCK FALSE
INVARIANTS
    
    ConnectionIsSound
    LifetimesAreSound

    
    
