SPECIFICATION Spec
CONSTANTS
    MaxWriteQueueLength = 2
    RoomID = {r1}
    NoRoom = NoRoom
    MaxAttempts = 4
    MaxPosted = 2
    MaxAnswers = 1
    MaxEvents = 1
INVARIANTS ScreensMatchTheConnection WritesPopTheirOwn ServerIsNotBlamed
PROPERTY AttemptsEnd
CHECK_DEADLOCK FALSE
