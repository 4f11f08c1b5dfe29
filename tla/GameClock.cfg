SPECIFICATION Spec
CONSTANTS
    TicksPerMs = 2
    ClockConfigs <- MCConfigs
    MaxNow = 12
    MaxMoves = 4
INVARIANTS
    TimeIsAccountedFor
    TimeoutsAreFair
PROPERTY ImplementsRoomGame
