SPECIFICATION Spec
CONSTANTS
    TicksPerMs = 2
    ClockConfigs <- MCConfigs
    MaxNow = 8
    MaxMoves = 3
    MaxPauses = 2
INVARIANTS
    PausesAreAccountedFor
    ResultIsOfThisGame
PROPERTIES
    EndsAreRecorded
