\* Two requests of one platform, one stream, room for one report.
SPECIFICATION FairSpec
CONSTANTS
    Platforms = {p1}
    Streams = {s1}
    MaxReq = 2
    MaxReport = 1
INVARIANTS
    LockBounded
    NoLockLeft
PROPERTIES
    LowDiskStops
