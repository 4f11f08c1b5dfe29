SPECIFICATION Spec
CONSTANTS
    SessionID = {s1, s2, s3}
    NoSession = NoSession
    Configs <- AllConfigs
    MaxRooms = 1
    MaxRoomVersion = 4
    MaxGameVersion = 3
    MaxReadyTicks = 1
SYMMETRY SessionSymmetry
INVARIANTS RoomsFollowGames VerdictsAreSound
PROPERTIES ResultIsFinal ChangesAreBroadcast UpdatesReachTheInformed ImplementsLobby
