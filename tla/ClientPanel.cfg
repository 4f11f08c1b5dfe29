SPECIFICATION Spec
CONSTANTS
    MaxTasks = 3
    MaxEvents = 2
INVARIANTS ScreenFollowsState ResultsWithoutGameAreLeftovers PromotionsAreRefused
PROPERTIES EndsAreShown ExitsWhileTicking
CHECK_DEADLOCK FALSE
