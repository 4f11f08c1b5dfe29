----------------------------- MODULE MCBoardPlay -----------------------------
(***************************************************************************)
(* Positions for BoardPlay, few pieces each, from which checks, pins,      *)
(* double checks, promotions, captures, full lists and lost kings are a    *)
(* few moves away.                                                         *)
(***************************************************************************)
EXTENDS BoardPlay, TLC

at(r, c) == 8 * r + c
kings(white, black) == 8 :> white @@ 24 :> black
from(pieces, side, follow) ==
    [pieces |-> pieces, turn |-> side, follow |-> follow]

\* Two rooks chase a bare king: checks, and mate against W_ROOK1's own list.
Rooks ==
    from(kings(at(0, 4), at(7, 3)) @@ 1 :> at(0, 0) @@ 2 :> at(6, 7),
         "WHITE", 2)

\* Both sides are about to promote.
Pawns ==
    from(kings(at(0, 4), at(4, 3)) @@ 16 :> at(6, 7) @@ 25 :> at(1, 0),
         "WHITE", 2)

\* A bishop pinned on a file, and a bishop that can pin a pawn.
Pins ==
    from(kings(at(0, 4), at(7, 6)) @@ 5 :> at(1, 4) @@ 9 :> at(1, 3)
           @@ 17 :> at(7, 4) @@ 21 :> at(4, 0), "WHITE", 2)

\* A king with eight squares to go to, next in the array to a pawn.
OpenKing ==
    from(kings(at(3, 4), at(7, 7)) @@ 9 :> at(1, 0) @@ 17 :> at(7, 5)
           @@ 19 :> at(5, 2), "BLACK", 2)

\* Knights with eight moves, next in the array to a bishop.
Knights ==
    from(kings(at(0, 6), at(7, 4)) @@ 3 :> at(3, 3) @@ 4 :> at(3, 4)
           @@ 5 :> at(2, 5) @@ 18 :> at(7, 6) @@ 23 :> at(4, 2), "BLACK", 2)

Crowd ==
    from(kings(at(0, 6), at(7, 4)) @@ 2 :> at(3, 3) @@ 3 :> at(2, 1)
           @@ 6 :> at(4, 4) @@ 7 :> at(5, 0) @@ 18 :> at(7, 7)
           @@ 19 :> at(3, 2), "BLACK", 2)

Queens ==
    from(kings(at(0, 6), at(7, 4)) @@ 5 :> at(2, 1) @@ 7 :> at(4, 3)
           @@ 23 :> at(3, 2) @@ 25 :> at(6, 0) @@ 26 :> at(4, 1), "WHITE", 2)

\* A promoted piece moves on along the last row.
Promoted ==
    from(kings(at(0, 6), at(7, 4)) @@ 15 :> at(6, 3) @@ 17 :> at(3, 2)
           @@ 32 :> at(1, 0), "WHITE", 3)

\* A rook with a move in all its 14 slots stands before another one: Black is
\* mated, and goes on.
Spill ==
    from(kings(at(7, 7), at(0, 0)) @@ 7 :> at(1, 1) @@ 5 :> at(3, 3)
           @@ 17 :> at(4, 4) @@ 18 :> at(5, 6), "BLACK", 1)

\* A king with a move in all its 8 slots stands before W_PAWN1: the pawn is given
\* the king's capture on the first row, where it is promoted.
Backwards ==
    from(kings(at(1, 4), at(7, 7)) @@ 9 :> at(4, 0) @@ 21 :> at(0, 3),
         "WHITE", 1)

MCPositions ==
    {Rooks, Pawns, Pins, OpenKing, Knights, Crowd, Queens, Promoted, Spill,
     Backwards}

\* White's queen can shut the black king in while W_PAWN8 may still move.
Stalemate ==
    from(kings(at(0, 4), at(7, 0)) @@ 7 :> at(5, 3) @@ 16 :> at(2, 7),
         "WHITE", 1)

StalematePositions == {Stalemate}
=============================================================================
