\* Two viewers for two entries; a stream whose encoder logs in as either type.
SPECIFICATION FairSpec
CONSTANTS
    u1 = u1
    u2 = u2
    j = j
    Users = {u1, u2}
    UserId <- MCUserId
    Streams = {j}
    Types <- MCTypes
    Asks <- MCAsks
    SameQuality = {u1}
    MaxUser = 2
    QueCap = 2
    MaxCross = 1
    None = None
INVARIANTS
    SendsToOwner
    Kept
    Owned
    CacheValid
PROPERTIES
    StopEnds
    QuitEnds
CHECK_DEADLOCK FALSE
