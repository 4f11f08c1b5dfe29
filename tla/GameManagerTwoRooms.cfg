SPECIFICATION FairSpec
CONSTANTS
    SessionID = {s1, s2}
    NoSession = NoSession
    Configs <- TwoConfigs
    MaxRooms = 2
    MaxRoomVersion = 2
    MaxGameVersion = 2
    MaxReadyTicks = 2
INVARIANTS BindingMatchesMembership NothingToClear NextTickIsOnItsWay
PROPERTY TimeoutsAreEnforced
