------------------------------ MODULE BoardPlay ------------------------------
(***************************************************************************)
(* A game played on the board: the part of ChessGame::submitMove and of    *)
(* its helpers that deals with pieces (ChessGame.cpp), without the clocks, *)
(* which module ChessGame has. One board serves a series of games, as it   *)
(* does in the client: it is paused and resumed through a snapshot, and    *)
(* the next game is started on it.                                         *)
(*                                                                         *)
(* The reference against which the generated moves are judged, the rules   *)
(* of chess without castling and en passant (which the code does not       *)
(* have), is stated by geometry and quantifiers, not by walking lines.     *)
(***************************************************************************)
EXTENDS Board, FiniteSets

CONSTANTS
    Positions   \* where games are taken up: [pieces, turn, follow], with
                \* follow a bound on the moves and restarts from there

\* Two kings that are not next to each other.
apart(s, t) == row(s) - row(t) \notin -1 .. 1 \/ col(s) - col(t) \notin -1 .. 1

\* Pieces stand on squares of their own, and the kings apart.
ASSUME PositionsAssumption ==
    \A p \in Positions :
       /\ DOMAIN p.pieces \subseteq ID
       /\ \A i \in DOMAIN p.pieces :
             /\ p.pieces[i] \in Square
             /\ \A j \in DOMAIN p.pieces : p.pieces[i] = p.pieces[j] => i = j
       /\ {8, 24} \subseteq DOMAIN p.pieces => apart(p.pieces[8], p.pieces[24])
       /\ p.turn \in {"WHITE", "BLACK"}
       /\ p.follow \in Nat

VARIABLES
    board,      \* m_board: squares, pieces, offsets
    gen,        \* what the last genMoves left in m_board
    turn,       \* m_currentTurn
    verdict,    \* m_endReason, as far as the board decides it
    survived,   \* FALSE once an index outside the move array was fatal
    left        \* how many more moves and restarts are followed

boardVars == <<board, gen, turn, verdict, survived, left>>

\* refreshTerminalStateFromBoard, on the board as it is after a move.
terminalState(b, g, side) ==
    CASE isCheckmate(b, g, side) -> "Checkmate"
      [] isStalemate(b, g, side) -> "Draw"
      [] OTHER -> "None"

\* refreshBoardDerivedState; a program that uses an index outside the move array
\* may not get through it.
refreshBoardDerivedState(b, side) ==
    /\ gen' = genMoves(b, side)
    /\ survived' \in (IF gen'.overrun THEN BOOLEAN ELSE {TRUE})

refresh(b, side) ==
    /\ refreshBoardDerivedState(b, side)
    /\ verdict' = terminalState(b, gen', side)

BoardInit ==
    \E p \in Positions :
        /\ board = newBoard(p.pieces)
        /\ turn = p.turn
        /\ gen = genMoves(board, turn)
        /\ verdict = terminalState(board, gen, turn)
        /\ survived = TRUE
        /\ left = p.follow

isColor(piece, side) == piece # EMPTY /\ getColor(piece) = side

isPromotionRank(side, target) ==
    row(target) = IF side = "WHITE" THEN 7 ELSE 0

\* By the id alone: a pawn that was promoted still counts as one.
requiresPromotion(piece, side, target) ==
    isPawnId(piece) /\ isPromotionRank(side, target)

promotions == {"QUEEN", "ROOK", "BISHOP", "KNIGHT"}

\* A pawn that no promotion was asked for becomes a queen.
toBoardConvention(promotion) ==
    IF promotion = "None" THEN "QUEEN" ELSE promotion

promoteIfDue(b, id, promotion) ==
    IF isPawnPromotable(b, id)
    THEN promotePawn(b, id, toBoardConvention(promotion))
    ELSE b

\* The two looks that submitMove takes at the piece: at its color, and at its list.
isAccepted(piece, to) ==
    /\ isColor(piece, turn)
    /\ isValidMove(board, gen, turn, piece, to)

\* A move that is accepted; a rejected one changes nothing. promotion is the type
\* asked for, or "None".
MovePiece(from, to, promotion) ==
    LET piece == board.at[from]
        moved == promoteIfDue(move(board, piece, to), piece, promotion)
    IN  /\ survived
        /\ verdict = "None"
        /\ left > 0
        /\ to \in Square
        /\ isAccepted(piece, to)
        /\ requiresPromotion(piece, turn, to) => promotion # "None"
        /\ board' = moved
        /\ turn' = otherColor(turn)
        /\ left' = left - 1
        /\ refresh(moved, otherColor(turn))

\* Mutant: a piece comes back from a snapshot as what it was at first.
rebuildUntyped(b) ==
    newBoard([id \in inPlay(b) |-> b.piece[id].position])

\* rebuildBoardFromRaw: the squares and types of a snapshot, on a new board.
rebuildBoardFromRaw(b) ==
    LET position == [id \in inPlay(b) |-> b.piece[id].position]
        typed == [id \in ID |->
                    IF id \in inPlay(b)
                    THEN [position |-> position[id], type |-> b.piece[id].type,
                          reserved |-> reservedForType[b.piece[id].type]]
                    ELSE genPieces(position)[id]]
    IN  [newBoard(position) EXCEPT !.piece = typed]

\* SingleplayerClient::pause and resume: the snapshot's board is assigned to
\* the one it was taken from.
ResumeBoard ==
    /\ survived
    /\ verdict = "None"
    /\ board' = assign(board, rebuildBoardFromRaw(board))
    /\ refreshBoardDerivedState(board', turn)
    /\ UNCHANGED <<turn, verdict, left>>

initialPosition ==
    [id \in ID |->
       CASE id < 9 -> <<0, 7, 1, 6, 2, 5, 3, 4>>[id]
         [] id \in 9 .. 16 -> id - 1
         [] id \in 17 .. 24 -> 56 + <<0, 7, 1, 6, 2, 5, 3, 4>>[id - 16]
         [] OTHER -> 48 + (id - 25)]

\* ChessGame::start on a board that has been played on.
StartAgain ==
    /\ survived
    /\ board.at # genBoardLiteral(initialPosition)
    /\ board' = assign(board, newBoard(initialPosition))
    /\ turn' = "WHITE"
    /\ left > 0
    /\ left' = left - 1
    /\ refresh(board', "WHITE")

BoardNext ==
    \/ \E id \in inPlay(board) : \E to \in offered(board, gen, id) :
          \E promotion \in IF isPawnId(id) /\ row(to) \in {0, 7}
                           THEN promotions \cup {"None"} ELSE {"None"} :
             MovePiece(board.piece[id].position, to, promotion)
    \/ ResumeBoard
    \/ StartAgain

BoardSpec == BoardInit /\ [][BoardNext]_boardVars

-----------------------------------------------------------------------------
(* The rules *)

distance(a, b) == IF a > b THEN a - b ELSE b - a

\* The squares strictly between two squares of a line.
between ==
    [s \in Square |-> [t \in Square |->
       {u \in Square \ {s, t} :
          LET dr == row(t) - row(s)
              dc == col(t) - col(s)
          IN  /\ dr = 0 \/ dc = 0 \/ distance(dr, 0) = distance(dc, 0)
              /\ (row(u) - row(s)) * dc = (col(u) - col(s)) * dr
              /\ distance(row(u), row(s)) <= distance(dr, 0)
              /\ distance(row(u), row(t)) <= distance(dr, 0)
              /\ distance(col(u), col(s)) <= distance(dc, 0)
              /\ distance(col(u), col(t)) <= distance(dc, 0)}]]

shape(type, color, s, t) ==
    LET dr == distance(row(s), row(t))
        dc == distance(col(s), col(t))
        straight == dr = 0 \/ dc = 0
        diagonal == dr = dc
        ahead == IF color = "WHITE" THEN row(s) + 1 ELSE row(s) - 1
    IN  CASE type = "ROOK" -> straight
          [] type = "BISHOP" -> diagonal
          [] type = "QUEEN" -> straight \/ diagonal
          [] type = "KNIGHT" -> {dr, dc} = {1, 2}
          [] type = "KING" -> dr <= 1 /\ dc <= 1
          [] type = "PAWN" -> dc = 1 /\ row(t) = ahead

bears(b, id, t) ==
    LET s == b.piece[id].position
    IN  /\ s # t
        /\ shape(b.piece[id].type, getColor(id), s, t)
        /\ b.piece[id].type \in {"ROOK", "BISHOP", "QUEEN"} =>
             \A u \in between[s][t] : b.at[u] = EMPTY

checkers(b, color) ==
    {id \in inPlay(b) : getColor(id) # color /\
                        bears(b, id, b.piece[kingOf(color)].position)}

steps(b, id, t) ==
    LET s == b.piece[id].position
        forward == IF getColor(id) = "WHITE" THEN 8 ELSE -8
    IN  b.at[t] = EMPTY /\
        \/ t = s + forward
        \/ /\ row(s) = pawnRow(getColor(id))
           /\ t = s + 2 * forward
           /\ b.at[s + forward] = EMPTY

\* What a piece may do, leaving its king aside.
mayMove(b, id, t) ==
    IF b.piece[id].type = "PAWN"
    THEN \/ steps(b, id, t)
         \/ bears(b, id, t) /\ b.at[t] # EMPTY
                            /\ getColor(b.at[t]) # getColor(id)
    ELSE bears(b, id, t) /\ getColor(b.at[t]) # getColor(id)

legal(b, id, t) ==
    mayMove(b, id, t) /\ checkers(move(b, id, t), getColor(id)) = {}

\* What the game accepts in this position.
accepted == {m \in inPlay(board) \X Square : isAccepted(m[1], m[2])}

-----------------------------------------------------------------------------
(* What the board gets right, and exactly where it does not *)

kingsStand ==
    survived /\ \A c \in {"WHITE", "BLACK"} : kingOf(c) \in inPlay(board)

\* The exceptions below are the four ways in which the code lets a move through
\* that the rules forbid.
\* A pawn's double step over a piece.
jumps(id, t) ==
    LET s == board.piece[id].position
    IN  /\ board.piece[id].type = "PAWN"
        /\ distance(s, t) = 16
        /\ board.at[(s + t) \div 2] # EMPTY

\* A king that steps back along the line on which it is checked: the square
\* behind it was not attacked as long as it stood there.
backsOff(id, t) ==
    /\ id = kingOf(turn)
    /\ \E c \in checkers(board, turn) :
          board.piece[id].position \in between[board.piece[c].position][t]

listFull(id) ==
    id \in inPlay(board) /\ Len(addMoves(board, id)) = board.piece[id].reserved

\* A piece whose predecessor in m_pieceArr has a move in every slot: with no
\* move of its own on the line of a check, it is given its predecessor's.
borrows(id) == id > 1 /\ isInCheck(gen) /\ listFull(id - 1)

unseenChecker(id) == id # kingOf(turn) /\ Cardinality(checkers(board, turn)) > 1

\* A move that the game accepts is of a piece of the side to move, leaves that
\* side's king safe and is one its piece can make, except for the four cases named
\* above: nothing else gets past genMoves and its three filters. The board alone
\* keeps the other side's pieces from moving, all but B_ROOK1, whose id is on the
\* bound: that one only the game's own look at the color stops.
AcceptedMovesAreLegal ==
    kingsStand =>
      /\ \A m \in accepted :
           /\ getColor(m[1]) = turn
           /\ \/ legal(board, m[1], m[2])
              \/ jumps(m[1], m[2])
              \/ backsOff(m[1], m[2])
              \/ borrows(m[1])
              \/ unseenChecker(m[1])
      /\ \A id \in inPlay(board) \ {B_ROOK1}, t \in Square :
           isValidMove(board, gen, turn, id, t) => getColor(id) = turn

shields == {id \in ID : isPinned(board, turn, id)}

\* A legal move is accepted, unless its piece counts as pinned (a pinned piece
\* is not allowed the squares on its king's side, nor a pawn's steps, and a pin
\* is seen through enemy pieces) or, in check, its list or its predecessor's
\* was full when filterChecked wrote past the end.
LegalMovesAreAccepted ==
    kingsStand =>
      \A id \in {i \in inPlay(board) : getColor(i) = turn}, t \in Square :
         legal(board, id, t) =>
           \/ <<id, t>> \in accepted
           \/ id \in shields
           \/ borrows(id)
           \/ isInCheck(gen) /\ listFull(id)

\* The game goes on exactly while the side to move has a move to make; where
\* that fails, it is because W_PAWN8's slots are counted with Black's, or
\* because the list before a piece's own was full in a check: filterChecked has
\* then cleared that piece's first slot, and leaves the others as they are.
VerdictErrsInTwoWays ==
    survived /\ (verdict = "None" <=> accepted = {}) =>
        \/ W_PAWN8 \in inPlay(board) /\ offered(board, gen, W_PAWN8) # {}
        \/ \E id \in ID : borrows(id) /\ (getColor(id) = turn \/ id = W_PAWN8)

\* genMoves uses an index outside of its array in two ways only, both in a
\* check: a list was full, or W_ROOK1, with nothing before it in the array, had
\* moves and none of them answers the check.
overrunExplained ==
    gen.overrun =>
      /\ isInCheck(gen)
      /\ \/ \E id \in ID : listFull(id)
         \/ /\ W_ROOK1 # gen.checkedId
            /\ addMoves(board, W_ROOK1) # <<>>
            /\ offered(board, gen, W_ROOK1) = {}

\* The two views of the board, what stands on a square and where a piece
\* stands, agree after moves, captures, promotions, snapshots and restarts; and
\* no piece has more moves than slots, nor slots that reach into the next one's
\* or past the array (a board keeps its offsets and its array when another is
\* assigned to it). Where genMoves leaves the array all the same, it is known why.
BoardIsCoherent ==
    /\ \A id \in ID :
          /\ \A s \in Square :
                board.at[s] = id <=> board.piece[id].position = s
          /\ gen.movesIdx[id] <= board.piece[id].reserved
          /\ board.moveOffset[id] + board.piece[id].reserved <=
               IF id = 32 THEN board.size ELSE board.moveOffset[id + 1]
    /\ overrunExplained

\* A game that was paused and resumed offers the moves it offered before: the
\* snapshot loses nothing of what decides them.
ResumeKeepsMoves == [][left' = left => accepted' = accepted]_boardVars

\* Board.cpp:1458 calls the sixteenth offset "the offset for black pieces": so a
\* side without a move that is not in check is stalemated.
StalemateIsDrawn ==
    survived /\ ~isInCheck(gen) /\ accepted = {} => verdict = "Draw"
=============================================================================
