SPECIFICATION Spec
CONSTANTS
    MaxWriteQueueLength = 1
    ClientSends <- Chats
    MaxSessions = 2
    MaxStarts = 2
    MaxQueuedSends = 0
INVARIANTS
    ListMatchesSessions
    MutexLostOnFullQueueOnly
    IndexesAgree
    AcceptChainSurvives
    StopLeavesOnlyAdmissions
\* The server may stay stopped after MaxStarts starts.
CHECK_DEADLOCK FALSE
