SPECIFICATION FairSpec
CONSTANTS
    ThreadsPerStart = 2
    MaxStarts = 3
    MaxSessions = 2
INVARIANT RunningServersServe
PROPERTY StoppedServersDrain
CHECK_DEADLOCK FALSE
