\* One platform, two streams, a code of every class.
SPECIFICATION Spec
CONSTANTS
    Platforms = {1}
    Codes = {"iframe", "remote_ctrl", "quality", "title", "director", "synthesis", "volume", "room_info"}
    s1 = s1
    s2 = s2
    Streams = {s1, s2}
    Spare = spare
    MaxReq = 2
CHECK_DEADLOCK FALSE
SYMMETRY Symmetry
INVARIANTS
    TypeOK
    NodeOrAnswered
    DirectAnsweredOnce
