SPECIFICATION FairSpec
CONSTANTS
    MaxWriteQueueLength = 2
    ClientSends <- EveryMessage
    MaxSessions = 1
    MaxStarts = 1
    MaxQueuedSends = 1
INVARIANTS
    OneWriteAtATime
    FewLateRequests
PROPERTY RemovedSessionsAreReleased
\* The server may stay stopped after MaxStarts starts.
CHECK_DEADLOCK FALSE
