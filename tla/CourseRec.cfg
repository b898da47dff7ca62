\* Two streams, files of one frame, one split, a report queue that fills up.
SPECIFICATION CourseFairSpec
CONSTANTS
    N = 2
    Limit = 1
    MaxFile = 2
    DataCap = 1
    QueCap = 1
    MaxOps = 1
INVARIANTS
    CourseTypeOK
    NoFreedUse
    NoOrphan
PROPERTIES
    SplitOnCurrent
    CloseEnds
CHECK_DEADLOCK FALSE
