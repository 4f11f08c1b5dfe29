SPECIFICATION Spec
CONSTANTS
    MaxWriteQueueLength = 1
    ClientSends <- Chats
    MaxSessions = 1
    MaxStarts = 1
    MaxQueuedSends = 1
PROPERTY ActiveWhenDispatching
CHECK_DEADLOCK FALSE
