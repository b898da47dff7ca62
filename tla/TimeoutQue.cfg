\* Two clients, one slot: insertions fail and wipe the queue.
SPECIFICATION FairSpec
CONSTANTS
    MaxUser = 2
    QueLen = 1
    MaxPoll = 2
    MaxInRoom = 2
    Rooms = {r1}
    LiveNode = LiveNode
    IpadUser = IpadUser
    MediaCenter = MediaCenter
    InvalidPlatform = InvalidPlatform
    Platforms = {IpadUser}
    RecordControl = RecordControl
    MsgCodes = {RecordControl, SetRoomInfo}
INVARIANTS
    SlotOwned
PROPERTIES
    HandlerReturns
