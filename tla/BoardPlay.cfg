SPECIFICATION BoardSpec
CONSTANT Positions <- MCPositions
\* A game ends, and the moves followed from a position are bounded.
CHECK_DEADLOCK FALSE
INVARIANTS
    AcceptedMovesAreLegal
    LegalMovesAreAccepted
    VerdictErrsInTwoWays
    BoardIsCoherent
PROPERTY ResumeKeepsMoves
