\* Clocks of five values, frames of up to three packets.
SPECIFICATION RecvSpec
CONSTANTS
    Tracks = {"video"}
    M = 5
    Gap = 1
    MaxLen = 3
    MaxPart = 2
    MaxFrame = 3
INVARIANTS
    WholeFrames
    Decodable
PROPERTIES
    NeverBack
CHECK_DEADLOCK FALSE
