\* Two slots; requests with three limits, a clock set back once and forward once.
SPECIFICATION FairSpec
CONSTANTS
    QueNum = 2
    ConnectReq = ConnectReq
    EncLogin = EncLogin
    VolumeReq = VolumeReq
    Codes = {ConnectReq, EncLogin, VolumeReq}
    LiveNode = LiveNode
    Keys = {LiveNode, MediaCenter}
    UserIds = {u1, u2}
    TimeOutVal = 1
    LoginTimeOutVal = 2
    VolumeTimeOutVal = 0
    MaxSetBack = 1
    MaxSetForward = 1
INVARIANTS
    NoDuplicateNode
    NeverEarly
PROPERTIES
    KeepsPending
    EveryNodeLeaves
