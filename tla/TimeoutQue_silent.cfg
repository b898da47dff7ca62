SPECIFICATION Spec
CONSTANTS
    MaxUser = 2
    QueLen = 2
    MaxPoll = 1
    MaxInRoom = 2
    Rooms = {r1}
    LiveNode = LiveNode
    IpadUser = IpadUser
    MediaCenter = MediaCenter
    InvalidPlatform = InvalidPlatform
    Platforms = {IpadUser}
    RecordControl = RecordControl
    MsgCodes = {SetRoomInfo}
INVARIANTS
    MissingMeansAnswered
