------------------------------- MODULE Board -------------------------------
(***************************************************************************)
(* The chess board of the core library (Board.cpp): where the pieces       *)
(* stand, which moves they are given, and whether the side to move is in   *)
(* check, mated or stalemated. Everything is an operator on a board        *)
(*                                                                         *)
(*     [at, piece, moveOffset, size]                                       *)
(*                                                                         *)
(* with at the piece on every square, piece the 32 pieces (m_pieceArr),    *)
(* moveOffset the first slot of every piece in the one array of moves      *)
(* (m_moveOffset) and size the length of that array. A piece's type is     *)
(* kept without its colour, which is the one of its id; a square is        *)
(* 8 * row + column (posTranslate), and a captured piece stands on {8, 8}. *)
(*                                                                         *)
(* genMoves yields what it leaves in the board's other members:            *)
(*                                                                         *)
(*     [moves, movesIdx, checkedId, line, attacked, defended, overrun]     *)
(*                                                                         *)
(* The move array is kept slot by slot, because the filters that shrink    *)
(* the lists write past them. An index outside the array is undefined      *)
(* behaviour: overrun says that one was used. The value then read is taken *)
(* to be {8, 8}, the one that ends the loop; BoardPlay adds the outcome in *)
(* which the program does not survive.                                     *)
(***************************************************************************)
EXTENDS Integers, Sequences, Functions, FiniteSetsExt

ID == 1 .. 32
EMPTY == 0
W_ROOK1 == 1
W_PAWN8 == 16
B_ROOK1 == 17

Square == 0 .. 63
NoSquare == 72    \* posTranslate({8, 8})

row(s) == IF s = NoSquare THEN 8 ELSE s \div 8
col(s) == IF s = NoSquare THEN 8 ELSE s % 8
square(r, c) == 8 * r + c
isInBoard(r, c) == r \in 0 .. 7 /\ c \in 0 .. 7

getColor(id) ==
    IF id = EMPTY THEN "EMPTY" ELSE IF id < 17 THEN "WHITE" ELSE "BLACK"

otherColor(color) == IF color = "WHITE" THEN "BLACK" ELSE "WHITE"

kingOf(color) == IF color = "WHITE" THEN 8 ELSE 24

\* The type every id has at first.
homeType ==
    LET rank == <<"ROOK", "ROOK", "KNIGHT", "KNIGHT", "BISHOP", "BISHOP",
                  "QUEEN", "KING">>
    IN  [id \in ID |-> IF (id - 1) % 16 < 8 THEN rank[((id - 1) % 16) + 1]
                       ELSE "PAWN"]

reservedForType ==
    [PAWN |-> 5, KNIGHT |-> 8, BISHOP |-> 13, ROOK |-> 14, QUEEN |-> 27,
     KING |-> 8]

genMoveOffsets(piece) ==
    LET offset[id \in ID] ==
          IF id = 1 THEN 0 ELSE offset[id - 1] + piece[id - 1].reserved
    IN  [id \in ID |-> offset[id]]

\* genPieces: the pieces of a position given as a function from ids to squares.
genPieces(position) ==
    [id \in ID |->
       [position |-> IF id \in DOMAIN position THEN position[id] ELSE NoSquare,
        type |-> homeType[id], reserved |-> reservedForType[homeType[id]]]]

genBoardLiteral(position) ==
    [s \in Square |->
       IF \E id \in DOMAIN position : position[id] = s
       THEN CHOOSE id \in DOMAIN position : position[id] = s ELSE EMPTY]

MAX_MOVES == 290

newBoard(position) ==
    [at |-> genBoardLiteral(position), piece |-> genPieces(position),
     moveOffset |-> genMoveOffsets(genPieces(position)), size |-> MAX_MOVES]

inPlay(b) == {id \in ID : b.piece[id].position # NoSquare}

-----------------------------------------------------------------------------
(* Lines and steps *)

North == <<-1, 0>>
South == <<1, 0>>
East == <<0, 1>>
West == <<0, -1>>
NorthEast == <<-1, 1>>
SouthEast == <<1, 1>>
SouthWest == <<1, -1>>
NorthWest == <<-1, -1>>

cardinals == {North, South, East, West}
diagonals == {NorthEast, SouthWest, NorthWest, SouthEast}

\* The order in which genChecked and genPinned look along the lines.
directions == <<North, South, East, West, NorthEast, SouthWest, SouthEast,
                NorthWest>>

kingSteps == <<South, East, North, West, SouthEast, SouthWest, NorthEast,
               NorthWest>>

knightSteps == << <<2, 1>>, <<1, 2>>, <<2, -1>>, <<-1, 2>>, <<-2, 1>>,
                  <<1, -2>>, <<-2, -1>>, <<-1, -2>> >>

pawnSteps(color) ==
    IF color = "WHITE" THEN <<SouthEast, SouthWest>>
    ELSE <<NorthEast, NorthWest>>

pawnRow(color) == IF color = "WHITE" THEN 1 ELSE 6

getMatchingSet(d) ==
    IF d \in cardinals THEN {"ROOK", "QUEEN"} ELSE {"BISHOP", "QUEEN"}

\* The squares from s towards d, up to the edge. A king that was captured is
\* still looked for, at {8, 8}: the long diagonal leads back from there.
ray ==
    [s \in Square \cup {NoSquare} |-> [d \in cardinals \cup diagonals |->
       [n \in {k \in 1 .. 8 : isInBoard(row(s) + k * d[1], col(s) + k * d[2])} |->
          square(row(s) + n * d[1], col(s) + n * d[2])]]]

cardinalLines(s) ==
    ray[s][North] \o ray[s][South] \o ray[s][East] \o ray[s][West]

diagonalLines(s) ==
    ray[s][NorthEast] \o ray[s][SouthWest] \o ray[s][NorthWest] \o ray[s][SouthEast]

stepped(s, m) ==
    IF isInBoard(row(s) + m[1], col(s) + m[2])
    THEN square(row(s) + m[1], col(s) + m[2]) ELSE NoSquare

stepsFrom(s, mods) == [n \in DOMAIN mods |-> stepped(s, mods[n])]

\* How far one sees from s towards d: up to the first piece.
sight(at, s, d) ==
    {n \in DOMAIN ray[s][d] : \A k \in 1 .. n - 1 : at[ray[s][d][k]] = EMPTY}

visible(at, s, d) == {ray[s][d][n] : n \in sight(at, s, d)}

\* The square of that piece.
firstMet(at, s, d) ==
    IF \E t \in visible(at, s, d) : at[t] # EMPTY
    THEN CHOOSE t \in visible(at, s, d) : at[t] # EMPTY ELSE NoSquare

-----------------------------------------------------------------------------
(* The moves of one piece *)

\* The double step looks at the square it ends on, not at the one between.
pawnAdvances(s, color) ==
    LET forward == 8 * pawnSteps(color)[1][1]
    IN  <<IF row(s) = pawnRow(color) THEN s + 2 * forward ELSE NoSquare,
          s + forward>>

\* The squares looked at for a piece's moves, in the order of the code, were it
\* alone on the board.
walk(type, color, s) ==
    CASE type = "ROOK" -> cardinalLines(s)
      [] type = "BISHOP" -> diagonalLines(s)
      [] type = "QUEEN" -> cardinalLines(s) \o diagonalLines(s)
      [] type = "KNIGHT" -> stepsFrom(s, knightSteps)
      [] type = "KING" -> stepsFrom(s, kingSteps)
      [] type = "PAWN" -> pawnAdvances(s, color) \o stepsFrom(s, pawnSteps(color))

seen(at, s, ds) == UNION {visible(at, s, d) : d \in ds}

\* The squares a piece bears on: those it attacks and, where one of its own
\* side stands, those it defends.
bearing(b, id) ==
    LET s == b.piece[id].position
        type == b.piece[id].type
        near(mods) == Range(stepsFrom(s, mods)) \ {NoSquare}
    IN  CASE type = "ROOK" -> seen(b.at, s, cardinals)
          [] type = "BISHOP" -> seen(b.at, s, diagonals)
          [] type = "QUEEN" -> seen(b.at, s, cardinals \cup diagonals)
          [] type = "KNIGHT" -> near(knightSteps)
          [] type = "KING" -> near(kingSteps)
          [] type = "PAWN" -> near(pawnSteps(getColor(id)))

attackedBy(b, color) ==
    UNION {{s \in bearing(b, id) : getColor(b.at[s]) # color} :
             id \in {i \in inPlay(b) : getColor(i) = color}}

defendedSquares(b) ==
    UNION {{s \in bearing(b, id) : getColor(b.at[s]) = getColor(id)} :
             id \in inPlay(b)}

\* Where a piece may go, as far as the filters below do not take it back.
targets(b, id) ==
    IF b.piece[id].type = "PAWN"
    THEN {t \in Square \cap Range(pawnAdvances(b.piece[id].position, getColor(id))) :
            b.at[t] = EMPTY}
           \cup {t \in bearing(b, id) : getColor(b.at[t]) = otherColor(getColor(id))}
    ELSE {t \in bearing(b, id) : getColor(b.at[t]) # getColor(id)}

\* The members of a list that are in S, in their order.
only(list, S) ==
    LET kept[n \in 0 .. Len(list)] ==
          IF n = 0 THEN <<>>
          ELSE IF list[n] \in S THEN Append(kept[n - 1], list[n]) ELSE kept[n - 1]
    IN  kept[Len(list)]

\* The moves addMoves gives a piece that is in play.
addMoves(b, id) ==
    only(walk(b.piece[id].type, getColor(id), b.piece[id].position), targets(b, id))

-----------------------------------------------------------------------------
(* Checks and pins *)

\* The ways in which the king of color may be checked, in the order they are
\* looked at: where the checking piece would stand, the squares up to it and
\* its type. The other king is not looked for.
checkLines(b, color) ==
    LET k == b.piece[kingOf(color)].position
        single(m, type) ==
            [target |-> stepped(k, m), squares |-> {stepped(k, m)}, types |-> {type}]
        along(d) ==
            [target |-> firstMet(b.at, k, d), squares |-> visible(b.at, k, d),
             types |-> getMatchingSet(d)]
    IN  [n \in 1 .. 18 |->
           IF n <= 8 THEN single(knightSteps[n], "KNIGHT")
           ELSE IF n <= 10 THEN single(pawnSteps(color)[n - 8], "PAWN")
           ELSE along(directions[n - 10])]

givesCheck(b, color, l) ==
    /\ l.target \in Square
    /\ LET id == b.at[l.target]
       IN  id # EMPTY /\ getColor(id) # color /\ b.piece[id].type \in l.types

\* The numbers of the lines on which color is checked.
checksOn(b, color) ==
    {n \in 1 .. 18 : givesCheck(b, color, checkLines(b, color)[n])}

\* Mutant: the checking piece may not be taken.
checkWithoutTaking(b, color) ==
    IF checksOn(b, color) = {} THEN [checkedId |-> EMPTY, line |-> {}]
    ELSE LET l == checkLines(b, color)[Min(checksOn(b, color))]
         IN  [checkedId |-> b.at[l.target], line |-> l.squares \ {l.target}]

\* The first check found, and the squares from the king up to the checking
\* piece (m_checkedId and m_checkedArr); a second checking piece is not seen.
genChecked(b, color) ==
    IF checksOn(b, color) = {} THEN [checkedId |-> EMPTY, line |-> {}]
    ELSE LET l == checkLines(b, color)[Min(checksOn(b, color))]
         IN  [checkedId |-> b.at[l.target], line |-> l.squares]

\* The piece of color next to its king towards d, or EMPTY.
shieldOn(b, color, d) ==
    LET t == firstMet(b.at, b.piece[kingOf(color)].position, d)
    IN  IF t \in Square THEN IF getColor(b.at[t]) = color THEN b.at[t] ELSE EMPTY
        ELSE EMPTY

\* Beyond it, the places on the line of the pieces that are its own side's or
\* move along d. Other enemy pieces in between are looked through.
beyondShield(b, color, d) ==
    LET k == b.piece[kingOf(color)].position
    IN  {n \in DOMAIN ray[k][d] \ sight(b.at, k, d) :
           LET id == b.at[ray[k][d][n]]
           IN  /\ id # EMPTY
               /\ \/ getColor(id) = color
                  \/ b.piece[id].type \in getMatchingSet(d)}

\* The first of them, if it is an enemy's, pins the shield.
pinnerPlace(b, color, d) ==
    Min(beyondShield(b, color, d))

pinnedOn(b, color, d) ==
    /\ shieldOn(b, color, d) # EMPTY
    /\ beyondShield(b, color, d) # {}
    /\ getColor(b.at[ray[b.piece[kingOf(color)].position][d]
                        [pinnerPlace(b, color, d)]]) # color

\* Mutant: pins are looked for along rows and columns only.
cardinalPins(b, color) == {d \in cardinals : pinnedOn(b, color, d)}

pinnedDirections(b, color) ==
    {d \in cardinals \cup diagonals : pinnedOn(b, color, d)}

\* The squares a pinned piece may go to (m_pinnedArr): those beyond it up to
\* the pinning piece, when it moves along that line itself. A piece has room for
\* six, from the pinning piece on. Only the line of a king that was taken, which
\* is looked for from {8, 8}, has seven; the last is written to the next piece's
\* place (behind the array for the last piece) and not read there.
pinnedMoves(b, color, d) ==
    LET k == b.piece[kingOf(color)].position
    IN  IF b.piece[shieldOn(b, color, d)].type \notin getMatchingSet(d) THEN {}
        ELSE {ray[k][d][n] : n \in {m \in DOMAIN ray[k][d] \ sight(b.at, k, d) :
                                      /\ m <= pinnerPlace(b, color, d)
                                      /\ pinnerPlace(b, color, d) - m < 6}}

-----------------------------------------------------------------------------
(* The move array *)

\* Piece id's moves fill the slots from moveOffset[id] on.
writers(b, given, k) ==
    {id \in DOMAIN given : k - b.moveOffset[id] \in 0 .. Len(given[id]) - 1}

\* The array after addMoves has run for every piece. Where the slots of two
\* pieces overlap, the piece with the greater id has written last.
filledSlots(b, given) ==
    [k \in 0 .. b.size - 1 |->
       IF writers(b, given, k) = {} THEN NoSquare
       ELSE LET id == Max(writers(b, given, k))
            IN  given[id][k - b.moveOffset[id] + 1]]

\* The loop over one list that filterPinned and filterKingMoves share, from the
\* first slot on: a move that is not kept is overwritten by the last one, whose
\* slot is cleared. idx is the loop's own count of the moves.
sifted(l, S) ==
    IF l.j >= l.idx \/ l.moves[l.off + l.j] = NoSquare THEN l
    ELSE IF l.moves[l.off + l.j] \in S THEN [l EXCEPT !.j = @ + 1]
    ELSE LET last == l.off + l.idx - 1
         IN  [l EXCEPT !.moves = [[@ EXCEPT ![l.off + l.j] = l.moves[last]]
                                     EXCEPT ![last] = NoSquare],
                       !.idx = @ - 1]

\* Every step takes a move away or goes past one.
sift(list, S) ==
    LET after[n \in 0 .. list.idx] ==
          IF n = 0 THEN list ELSE sifted(after[n - 1], S)
    IN  after[list.idx]

\* The list of one piece, as a loop takes it up.
listOf(b, g, id) ==
    [moves |-> g.moves, off |-> b.moveOffset[id], idx |-> g.movesIdx[id], j |-> 0,
     overrun |-> g.overrun]

\* The squares on which a pinned piece keeps its moves.
allowed(b, color, id) ==
    UNION {pinnedMoves(b, color, d) :
             d \in {e \in pinnedDirections(b, color) : shieldOn(b, color, e) = id}}

isPinned(b, color, id) ==
    \E d \in pinnedDirections(b, color) : shieldOn(b, color, d) = id

restrained(b, color, g, id) ==
    IF ~isPinned(b, color, id) THEN g
    ELSE LET l == sift(listOf(b, g, id), allowed(b, color, id))
         IN  [g EXCEPT !.moves = l.moves, !.movesIdx[id] = l.j]

filterPinned(b, color, g) ==
    LET after[n \in 0 .. 32] ==
          IF n = 0 THEN g ELSE restrained(b, color, after[n - 1], n)
    IN  after[32]

\* filterChecked's loop over one list. The slot it clears is the one after the
\* last move, so the last move stays where it is until the next removal, and
\* the first slot of the next piece is cleared when this list was full. When no
\* move is on the line the list ends with what stands before its first slot:
\* the end of the list of the piece before it.
narrowed(l, line, reserved) ==
    IF l.j >= reserved \/ l.moves[l.off + l.j] = NoSquare THEN l
    ELSE IF l.moves[l.off + l.j] \in line THEN [l EXCEPT !.j = @ + 1]
    ELSE LET last == l.off + l.idx - 1
         IN  [l EXCEPT
                !.moves = [k \in DOMAIN l.moves |->
                             IF k = l.off + l.j
                             THEN IF last >= 0 THEN l.moves[last] ELSE NoSquare
                             ELSE IF k = last + 1 THEN NoSquare ELSE l.moves[k]],
                !.idx = @ - 1,
                !.overrun = @ \/ last < 0 \/ last + 1 \notin DOMAIN l.moves]

\* The first of the occupied slots right before slot k, or k.
runBefore(moves, k) ==
    Min({i \in 0 .. k : \A m \in i .. k - 1 : moves[m] # NoSquare})

\* Every step goes past a move or down, and no further down than the list or
\* the occupied slots right before it reach.
narrow(list, line, reserved) ==
    LET length == list.off - runBefore(list.moves, list.off) + list.idx + reserved + 1
        after[n \in 0 .. length] ==
          IF n = 0 THEN list ELSE narrowed(after[n - 1], line, reserved)
    IN  after[length]

\* The loop for one piece, and what follows it.
answered(b, g, id) ==
    LET reserved == b.piece[id].reserved
        l == narrow(listOf(b, g, id), g.line, reserved)
        end == l.off + l.idx + 1
    IN  [g EXCEPT !.moves = [k \in DOMAIN l.moves |->
                               IF l.j > 1 /\ k = end THEN NoSquare ELSE l.moves[k]],
                  !.movesIdx[id] = l.j,
                  !.overrun = \/ l.overrun
                              \/ l.j >= reserved
                              \/ l.j > 1 /\ end \notin DOMAIN l.moves]

\* Every piece but the kings and the checking one, those of the side that
\* gives check included, keeps the moves that end on the line of the check.
answering(b, g, id) ==
    IF id \in {8, 24, g.checkedId} THEN g ELSE answered(b, g, id)

filterChecked(b, g) ==
    LET after[n \in 0 .. 32] ==
          IF n = 0 THEN g ELSE answering(b, after[n - 1], n)
    IN  after[32]

\* The king leaves the squares that the other side attacks, or any piece
\* defends. A slot that another list's filter has cleared is looked up outside
\* the two maps.
filterKingMoves(b, color, g) ==
    LET k == kingOf(color)
        l == sift(listOf(b, g, k), Square \ (g.attacked \cup g.defended))
    IN  [g EXCEPT !.moves = l.moves, !.movesIdx[k] = l.j,
                  !.overrun = @ \/ (g.moves[l.off] # NoSquare /\ l.j < l.idx)]

\* resetGen and genMoves, for the side to move: addMoves for every piece, then
\* the filters.
generated(b, color) ==
    LET given == [id \in inPlay(b) |-> addMoves(b, id)]
        check == genChecked(b, color)
    IN  [moves |-> filledSlots(b, given),
         movesIdx |-> [id \in ID |-> IF id \in inPlay(b) THEN Len(given[id]) ELSE 0],
         checkedId |-> check.checkedId, line |-> check.line,
         attacked |-> attackedBy(b, otherColor(color)),
         defended |-> defendedSquares(b), overrun |-> FALSE]

genMoves(b, color) ==
    LET pinned == filterPinned(b, color, generated(b, color))
    IN  filterKingMoves(b, color, IF pinned.checkedId = EMPTY THEN pinned
                                  ELSE filterChecked(b, pinned))

-----------------------------------------------------------------------------
(* Questions about a board whose moves have been generated *)

\* The moves on offer to a piece: the slots up to its movesIdx.
offered(b, g, id) ==
    {g.moves[b.moveOffset[id] + i] : i \in 0 .. g.movesIdx[id] - 1}

\* castedId is the id less one, so a B_ROOK1 (castedId 16) is neither below nor
\* above WHITE_BOUND and is let through on either side's turn.
isValidMove(b, g, color, id, target) ==
    /\ ~(id < 17 /\ color = "BLACK")
    /\ ~(id > 17 /\ color = "WHITE")
    /\ target \in offered(b, g, id)

isInCheck(g) == g.checkedId # EMPTY

\* Mutant: the sides are divided one piece further on.
dividedAtRook1(b, g, color) ==
    LET offset == b.moveOffset[B_ROOK1 + 1]
        slots == IF color = "WHITE" THEN 0 .. offset - 1
                 ELSE offset .. b.size - 1
    IN  \E k \in slots : g.moves[k] # NoSquare

\* Every slot counts, whether or not it is below its piece's movesIdx. The
\* sixteenth offset, where W_PAWN8's slots begin, divides the two sides.
colorHasMoves(b, g, color) ==
    LET offset == b.moveOffset[W_PAWN8]
        slots == IF color = "WHITE" THEN 0 .. offset - 1
                 ELSE offset .. b.size - 1
    IN  \E k \in slots : g.moves[k] # NoSquare

isStalemate(b, g, color) == ~isInCheck(g) /\ ~colorHasMoves(b, g, color)
isCheckmate(b, g, color) == isInCheck(g) /\ ~colorHasMoves(b, g, color)

-----------------------------------------------------------------------------
(* Changing a board *)

\* move: a piece that stood on the target is taken off the board.
move(b, id, target) ==
    LET taken == b.at[target]
        lifted == IF taken = EMPTY THEN b.piece
                  ELSE [b.piece EXCEPT ![taken].position = NoSquare]
    IN  [b EXCEPT !.piece = [lifted EXCEPT ![id].position = target],
                  !.at = [[@ EXCEPT ![target] = id]
                             EXCEPT ![b.piece[id].position] = EMPTY]]

isPawnId(id) == homeType[id] = "PAWN"

\* The piece that moved last is a pawn that has not been promoted and stands on
\* an end row.
isPawnPromotable(b, id) ==
    /\ isPawnId(id)
    /\ b.piece[id].type = "PAWN"
    /\ row(b.piece[id].position) \in {0, 7}

\* Mutant: the offsets are not computed again.
promoteInPlace(b, id, type) ==
    [b EXCEPT !.piece[id].type = type,
              !.piece[id].reserved = reservedForType[type],
              !.size = @ - reservedForType["PAWN"] + reservedForType[type]]

promotePawn(b, id, type) ==
    LET piece == [b.piece EXCEPT ![id].type = type,
                                 ![id].reserved = reservedForType[type]]
    IN  [b EXCEPT !.piece = piece, !.moveOffset = genMoveOffsets(piece),
                  !.size = @ - reservedForType["PAWN"] + reservedForType[type]]

\* operator= takes over the squares and the pieces, and nothing else: the
\* offsets and the size of the move array stay those of the board assigned to.
assign(b, other) == [b EXCEPT !.at = other.at, !.piece = other.piece]
=============================================================================
