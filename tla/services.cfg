SPECIFICATION ServicesSpec
CONSTANTS
    Starts = {1, 2}
    MaxHistory = 2
    MaxAttempts = 2
    SyncDies = TRUE
    MaxReviews = 2
    MaxChunks = 2
    MaxRequests = 3
    MaxMishaps = 1
    MediaFiles = {"m1", "m2"}
    Takers = {"t1", "t2"}
    MemoryRoom = 1
    MaxStops = 1
    Admins = {"a1", "a2"}
    Readers = {"r"}
    MaxReadFails = 1
    Routers = {"r1", "r2"}
    Calls = {"c1", "c2"}
    MaxBegun = 3
    MaxUnread = 1
    Editors = {"e1", "e2"}
    MaxVersions = 3
    Uploads = {"u1", "u2", "u3"}
    Names = {"n1", "n2"}
    Pieces = {1, 2}
INVARIANTS  JudgedOnce WholeMedia SettingsTakeEffect RoutersKept ActiveIsPublished SearchFindsLastUpload
PROPERTIES SyncEnds ReviewSettles
CHECK_DEADLOCK FALSE
