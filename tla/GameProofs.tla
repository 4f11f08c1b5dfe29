----------------------------- MODULE GameProofs -----------------------------
(***************************************************************************)
(* The theorems about games, from what ChessGameProofs shows.              *)
(*                                                                         *)
(* The game with its clocks, from what its operations do to its books: the *)
(* inductive invariant, the theorems, and the proof that it implements the *)
(* game of a match room (RoomGame).                                        *)
(*                                                                         *)
(* The game on the board, from what genMoves leaves in the lists: what the *)
(* game accepts is compared with the rules of chess. Squares and lines     *)
(* first, then which pieces check a king before and after a move, then     *)
(* pins. All of that needs the kings apart, since genChecked does not look *)
(* for the other king: that is the second half of the invariant.           *)
(***************************************************************************)
EXTENDS GameClock, ChessGameProofs

\* The game of a room is never paused.
IInv == Booked(game, now, used, 0) /\ Alive(game)

-----------------------------------------------------------------------------
(* The invariant *)

LEMMA InitBooked == Init => IInv
<1> SUFFICES ASSUME Init PROVE IInv
  OBVIOUS
<1>1. PICK config \in ClockConfigs : game = newGame(config)
  BY DEF Init
<1>2. config \in ChessClockConfig
  BY ConfigsAssumption
<1>3. now = 0 /\ used = [side \in Side |-> 0]
  BY DEF Init
<1>4. Booked(game, now, used, 0) /\ game.state = "NotStarted"
  BY <1>1, <1>2, <1>3, NewBooked
<1> QED
  BY <1>4 DEF IInv, Alive

LEMMA NextBooked == IInv /\ [Next]_vars => IInv'
<1> SUFFICES ASSUME IInv, [Next]_vars PROVE IInv'
  OBVIOUS
<1>1. Booked(game, now, used, 0) /\ Alive(game)
  BY DEF IInv
<1> SUFFICES Booked(game', now', used', 0) /\ Alive(game')
  BY DEF IInv
<1>2. CASE Start
  BY <1>1, <1>2, StartKept DEF Start
<1>3. CASE Tick
  <2>1. Alive(tick(game, now))
    BY <1>1, TickKept DEF Alive
  <2> QED
    BY <1>1, <1>3, <2>1, TickKept DEF Tick
<1>4. CASE \E side \in Side, outcome \in MoveOutcome : SubmitMove(side, outcome)
  BY <1>1, <1>4, MoveKept DEF SubmitMove
<1>5. CASE \E side \in Side : Resign(side)
  BY <1>1, <1>5, ResignKept DEF Resign
<1>6. CASE TimePasses
  BY <1>1, <1>6, TimeKept DEF TimePasses
<1>7. CASE UNCHANGED vars
  BY <1>1, <1>7 DEF vars
<1> QED
  BY <1>2, <1>3, <1>4, <1>5, <1>6, <1>7 DEF Next

\* What the clocks of a game have taken is booked to the side that used it, for
\* every configuration of the clocks and every resolution of the steady clock.
THEOREM InductiveInvariant == Spec => []IInv
BY InitBooked, NextBooked, PTL DEF Spec

\* The state of the game and of the books has its type.
THEOREM TypeCorrect == Spec => []TypeOK
<1>1. IInv => TypeOK
  BY DEF IInv, Booked, TypeOK
<1> QED
  BY <1>1, InductiveInvariant, PTL

-----------------------------------------------------------------------------
(* What follows for the players *)

LEMMA BookedAsShown ==
  ASSUME IInv, NEW side \in Side, timeRemaining(game, side, now) > 0
  PROVE  used[side] - spent(side) * TicksPerMs \in
            0 .. (movesBy(side) + 1) * (TicksPerMs - 1)
<1> DEFINE m == made(game, side)
<1> DEFINE remains == timeRemaining(game, side, now)
<1>1. /\ m \in Int /\ remains \in Nat
      /\ game.clockConfig.initialTime \in Nat /\ game.clockConfig.increment \in Nat
      /\ used[side] - (allotted(game, side) - remains) * TicksPerMs
           \in 0 .. (m + 1 + 0) * (TicksPerMs - 1)
  BY ClockShown DEF IInv
<1>2. movesBy(side) = m
  <2>1. game.version \in Nat
    BY DEF IInv, Booked, ChessGame
  <2> QED
    BY <2>1 DEF movesBy, made, moves, played
<1>3. spent(side) = allotted(game, side) - remains
  <2> DEFINE init == game.clockConfig.initialTime
  <2> DEFINE inc == game.clockConfig.increment
  <2>1. spent(side) = init + movesBy(side) * inc - remains
    BY DEF spent
  <2>2. allotted(game, side) = init + m * inc
    BY DEF allotted
  <2> HIDE DEF init, inc, remains, m
  <2>3. init \in Nat /\ inc \in Nat
    BY <1>1 DEF init, inc
  <2> QED
    BY <1>1, <1>2, <2>1, <2>2, <2>3
<1>4. m + 1 + 0 = m + 1
  BY <1>1
<1> HIDE DEF m, remains
<1> QED
  BY <1>1, <1>2, <1>3, <1>4

\* A clock takes from its side the time that side was to move, and at every turn
\* lets less than a millisecond go: commitElapsedToActiveSide charges each turn
\* once, the one that the game ends in too, and nothing else is charged.
THEOREM TimeAccounted == Spec => []TimeIsAccountedFor
<1>1. IInv => TimeIsAccountedFor
  BY BookedAsShown DEF TimeIsAccountedFor
<1> QED
  BY <1>1, InductiveInvariant, PTL

\* Whoever loses on time has really used up all the time he was due, increments
\* included, whatever the clocks and however late the tick that noticed it.
THEOREM TimeoutsFair == Spec => []TimeoutsAreFair
<1>1. IInv => TimeoutsAreFair
  <2> SUFFICES ASSUME IInv, game.endReason = "Timeout" PROVE TimeoutsAreFair
    BY DEF TimeoutsAreFair
  <2>1. LostOnTime(game, used) /\ game.state = "Finished"
        /\ game.version \in Nat
    BY DEF IInv, Booked, ChessGame
  <2>2. movesBy(game.currentTurn) =
          IF game.currentTurn = "WHITE" THEN (game.version - 1) \div 2
          ELSE (game.version - 2) \div 2
    BY <2>1 DEF movesBy
  <2> QED
    BY <2>1, <2>2 DEF LostOnTime, dueAtEnd, played, TimeoutsAreFair
<1> QED
  BY <1>1, InductiveInvariant, PTL

-----------------------------------------------------------------------------
(* The room's game *)

\* roomGame, for any game at any time.
view(g, n) ==
    [state |-> g.state, currentTurn |-> g.currentTurn,
     winner |-> g.winner, endReason |-> g.endReason, version |-> g.version,
     flagged |-> g.state = "InProgress" /\ timeIsUp(g, n)]

\* What the room sees of a game that is over.
LEMMA ViewOver ==
  ASSUME NEW g \in ChessGame, NEW n, NEW c \in ChessGame, NEW m,
         g.state = "InProgress", c.state = "InProgress",
         c.currentTurn = g.currentTurn, c.version = g.version,
         NEW winner, NEW reason
  PROVE  view(finish(c, winner, reason), m) =
           Room!finish(view(g, n), winner, reason)
<1>1. finish(c, winner, reason) =
        [c EXCEPT !.state = "Finished", !.winner = winner,
                  !.endReason = reason, !.version = c.version + 1]
  BY DEF finish
<1> DEFINE r == finish(c, winner, reason)
<1>2. /\ r.state = "Finished" /\ r.winner = winner /\ r.endReason = reason
      /\ r.currentTurn = g.currentTurn /\ r.version = g.version + 1
  BY <1>1 DEF ChessGame
<1> HIDE DEF r
<1>3. view(r, m) = [state |-> "Finished", currentTurn |-> g.currentTurn,
                    winner |-> winner, endReason |-> reason,
                    version |-> g.version + 1, flagged |-> FALSE]
  BY <1>2 DEF view
<1>4. Room!finish(view(g, n), winner, reason) =
        [state |-> "Finished", currentTurn |-> g.currentTurn,
         winner |-> winner, endReason |-> reason,
         version |-> g.version + 1, flagged |-> FALSE]
  BY DEF view, Room!finish
<1> QED
  BY <1>3, <1>4 DEF r

LEMMA ViewTick ==
  ASSUME NEW g, NEW n, NEW u, Booked(g, n, u, 0)
  PROVE  view(tick(g, n), n) = Room!gameTick(view(g, n))
<1>0. g \in ChessGame /\ n \in Nat /\ g.turnStart <= n
  BY DEF Booked
<1>1. CASE ~(g.state = "InProgress" /\ timeIsUp(g, n))
  <2>1. tick(g, n) = g
    BY <1>1 DEF tick, refreshTerminalStateFromBoard
  <2>2. ~view(g, n).flagged
    BY <1>1 DEF view
  <2> QED
    BY <2>1, <2>2, Zenon DEF Room!gameTick
<1>2. CASE g.state = "InProgress" /\ timeIsUp(g, n)
  <2> DEFINE c == commitElapsedToActiveSide(g, n)
  <2>1. c \in ChessGame /\ c = [g EXCEPT !.time = c.time, !.turnStart = n]
    BY <1>0, Commit
  <2> HIDE DEF c
  <2>2. /\ c.state = "InProgress" /\ c.currentTurn = g.currentTurn
        /\ c.version = g.version
    BY <1>0, <1>2, <2>1 DEF ChessGame
  <2>3. tick(g, n) = finish(c, oppositeColor(g.currentTurn), "Timeout")
    BY <1>2 DEF tick, refreshTerminalStateFromBoard, c
  <2>4. Room!gameTick(view(g, n)) =
          Room!finish(view(g, n), oppositeColor(g.currentTurn), "Timeout")
    BY <1>2 DEF view, Room!gameTick, oppositeColor, Room!oppositeColor
  <2> QED
    BY <1>0, <1>2, <2>1, <2>2, <2>3, <2>4, ViewOver
<1> QED
  BY <1>1, <1>2

\* The room's game once it is started.
LEMMA RoomStarted ==
  ASSUME NEW flag \in BOOLEAN
  PROVE  [Room!newGame EXCEPT !.state = "InProgress", !.version = 1,
                              !.flagged = flag]
           = [state |-> "InProgress", currentTurn |-> "WHITE",
              winner |-> "EMPTY", endReason |-> "None", version |-> 1,
              flagged |-> flag]
<1> DEFINE untouched == [state : {"NotStarted", "InProgress"},
                         currentTurn : {"WHITE"}, winner : {"EMPTY"},
                         endReason : {"None"}, version : Nat,
                         flagged : BOOLEAN]
<1> DEFINE r == Room!newGame
<1> DEFINE q == [r EXCEPT !.state = "InProgress", !.version = 1,
                          !.flagged = flag]
<1>1. r \in untouched
  BY DEF Room!newGame
<1> HIDE DEF r
<1>2. /\ q \in untouched
      /\ q.state = "InProgress" /\ q.version = 1 /\ q.flagged = flag
  BY <1>1
<1> HIDE DEF q
<1>3. q = [state |-> "InProgress", currentTurn |-> "WHITE",
           winner |-> "EMPTY", endReason |-> "None", version |-> 1,
           flagged |-> flag]
  BY <1>2
<1> QED
  BY <1>3 DEF q, r

\* A game that has just started: the room knows its clock by its kind.
LEMMA ViewStart ==
  ASSUME NEW g, NEW n, NEW u, Booked(g, n, u, 0), g.state = "NotStarted"
  PROVE  \E clock \in Room!ClockKind :
            view(start(g, n), n) = Room!gameStart(clock)
<1> DEFINE config == g.clockConfig
<1> DEFINE b == opened(g, n)
<1> DEFINE clock == IF ~config.enabled THEN "disabled"
                    ELSE IF config.initialTime = 0 THEN "zero" ELSE "enabled"
<1>1. /\ n \in Nat /\ config \in ChessClockConfig
      /\ config.initialTime \in Nat
  BY DEF Booked, ChessGame, ChessClockConfig
<1>2. /\ start(g, n) = tick(b, n) /\ Booked(b, n, u, 0)
      /\ b.state = "InProgress" /\ b.currentTurn = "WHITE"
      /\ b.winner = "EMPTY" /\ b.endReason = "None"
      /\ b.clockConfig = config /\ b.turnStart = n /\ b.version = 1
      /\ b.time = fullClocks(g)
  BY Opened
<1> HIDE DEF b
<1>3. view(start(g, n), n) = Room!gameTick(view(b, n))
  BY <1>2, ViewTick
<1>4. timeIsUp(b, n) <=> clock = "zero"
  <2>1. elapsed(b, n) = 0
    <3>1. n - b.turnStart = 0 /\ 0 \div TicksPerMs = 0
      BY <1>1, <1>2, TicksAssumption
    <3> QED
      BY <3>1 DEF elapsed
  <2>2. CASE ~config.enabled
    BY <1>2, <2>2 DEF timeIsUp
  <2>3. CASE config.enabled
    <3>1. b \in ChessGame /\ b.turnStart <= n /\ "WHITE" \in Side
      BY <1>1, <1>2 DEF Booked, Side
    <3>2. b.time["WHITE"] = config.initialTime
      BY <1>2, <2>3, <3>1 DEF initially, fullClocks
    <3>3. timeRemaining(b, "WHITE", n) =
            IF b.time["WHITE"] <= elapsed(b, n) THEN 0
            ELSE b.time["WHITE"] - elapsed(b, n)
      BY <1>1, <1>2, <2>3, <3>1, Remaining
    <3>4. timeRemaining(b, "WHITE", n) = 0 <=> config.initialTime = 0
      BY <1>1, <2>1, <3>2, <3>3
    <3> QED
      BY <1>2, <2>3, <3>4 DEF timeIsUp
  <2> QED
    BY <2>2, <2>3
<1> HIDE DEF clock
<1>5. view(b, n) = [Room!newGame EXCEPT
                      !.state = "InProgress", !.version = 1,
                      !.flagged = (clock = "zero")]
  <2>1. view(b, n) = [state |-> "InProgress", currentTurn |-> "WHITE",
                      winner |-> "EMPTY", endReason |-> "None",
                      version |-> 1, flagged |-> clock = "zero"]
    <3>1. (b.state = "InProgress" /\ timeIsUp(b, n)) = (clock = "zero")
      BY <1>2, <1>4
    <3> QED
      BY <1>2, <3>1, Zenon DEF view
  <2> QED
    BY <2>1, RoomStarted
<1>6. clock \in Room!ClockKind
  BY DEF Room!ClockKind, clock
<1>7. view(start(g, n), n) = Room!gameStart(clock)
  BY <1>3, <1>5, Zenon DEF Room!gameStart
<1> QED
  BY <1>6, <1>7

LEMMA ViewResign ==
  ASSUME NEW g, NEW n, NEW u, Booked(g, n, u, 0), NEW side \in Side
  PROVE  view(resign(g, side, n), n) = Room!gameResign(view(g, n), side)
<1> DEFINE k == commitElapsedToActiveSide(g, n)
<1> DEFINE c == IF g.clockConfig.enabled THEN k ELSE g
<1>0. g \in ChessGame /\ n \in Nat /\ g.turnStart <= n
  BY DEF Booked
<1>1. CASE g.state # "InProgress"
  BY <1>1 DEF resign, view, Room!gameResign
<1>2. CASE g.state = "InProgress"
  <2>1. k \in ChessGame /\ k = [g EXCEPT !.time = k.time, !.turnStart = n]
    BY <1>0, Commit
  <2> HIDE DEF k
  <2>2. k.state = g.state /\ k.currentTurn = g.currentTurn
        /\ k.version = g.version
    BY <1>0, <2>1 DEF ChessGame
  <2>3. c \in ChessGame /\ c.state = "InProgress"
        /\ c.currentTurn = g.currentTurn /\ c.version = g.version
    BY <1>0, <1>2, <2>1, <2>2
  <2>4. resign(g, side, n) = finish(c, oppositeColor(side), "Resign")
    BY <1>2, Zenon DEF resign, c, k
  <2> HIDE DEF c
  <2>5. Room!gameResign(view(g, n), side) =
          Room!finish(view(g, n), oppositeColor(side), "Resign")
    BY <1>2 DEF view, Room!gameResign, oppositeColor, Room!oppositeColor
  <2> QED
    BY <1>0, <1>2, <2>3, <2>4, <2>5, ViewOver
<1> QED
  BY <1>1, <1>2

\* The room's game after a move that does not end it.
LEMMA RoomMoved ==
  ASSUME NEW v \in Room!ChessGame, v.flagged = FALSE
  PROVE  [v EXCEPT !.version = @ + 1,
                   !.currentTurn = Room!oppositeColor(@)]
           = [state |-> v.state,
              currentTurn |-> Room!oppositeColor(v.currentTurn),
              winner |-> v.winner, endReason |-> v.endReason,
              version |-> v.version + 1, flagged |-> FALSE]
<1> DEFINE m == v.version + 1
<1> DEFINE o == Room!oppositeColor(v.currentTurn)
<1> DEFINE q == [v EXCEPT !.version = m, !.currentTurn = o]
<1>1. m \in Nat /\ o \in {"WHITE", "BLACK"}
  BY DEF Room!ChessGame, Room!oppositeColor
<1> HIDE DEF m, o
<1>2. q \in Room!ChessGame /\ q.version = m /\ q.currentTurn = o
  BY <1>1 DEF Room!ChessGame
<1>3. /\ q.state = v.state /\ q.winner = v.winner
      /\ q.endReason = v.endReason /\ q.flagged = FALSE
  BY <1>1 DEF Room!ChessGame
<1> HIDE DEF q
<1>4. q = [state |-> q.state, currentTurn |-> q.currentTurn,
           winner |-> q.winner, endReason |-> q.endReason,
           version |-> q.version, flagged |-> FALSE]
  BY <1>2, <1>3 DEF Room!ChessGame
<1> QED
  BY <1>2, <1>3, <1>4, Zenon DEF q, m, o

\* What the room sees of a game is a game of the room's.
LEMMA ViewTyped ==
  ASSUME NEW g \in ChessGame, NEW n
  PROVE  view(g, n) \in Room!ChessGame
<1>1. (g.state = "InProgress" /\ timeIsUp(g, n)) \in BOOLEAN
  BY DEF timeIsUp
<1>2. /\ g.state \in Room!ChessGameState /\ g.currentTurn \in {"WHITE", "BLACK"}
      /\ g.winner \in Room!COLOR /\ g.endReason \in Room!EndReason
      /\ g.version \in Nat
  BY DEF ChessGame, Side, ChessGameState, ChessGameEndReason,
         Room!ChessGameState, Room!COLOR, Room!EndReason
<1> QED
  BY <1>1, <1>2, Zenon DEF view, Room!ChessGame

\* A move that is refused leaves the ticked game, one that is taken the game
\* after it; the room decides both as the game does.
LEMMA ViewMove ==
  ASSUME NEW g, NEW n, NEW u, Booked(g, n, u, 0), Alive(g),
         NEW side \in Side, NEW outcome \in MoveOutcome
  PROVE  LET ticked == Room!gameTick(view(g, n))
         IN  view(submitMove(g, side, outcome, n), n) =
               IF Room!moveRejected(ticked, side, outcome) THEN ticked
               ELSE Room!afterMove(ticked, outcome)
<1> DEFINE t == tick(g, n)
<1> DEFINE ticked == Room!gameTick(view(g, n))
<1>0. g \in ChessGame
  BY DEF Booked
<1>1. /\ ticked = view(t, n)
      /\ t.state = "InProgress" => t = g /\ ~timeIsUp(g, n)
  BY ViewTick, TickKept
<1>2. ticked.state = t.state /\ ticked.currentTurn = t.currentTurn
  BY <1>1 DEF view
<1> HIDE DEF ticked
<1>3. CASE ~moveAccepted(g, side, outcome, n)
  <2>1. submitMove(g, side, outcome, n) = t
    BY <1>3 DEF submitMove
  <2>2. Room!moveRejected(ticked, side, outcome)
    BY <1>1, <1>2, <1>3 DEF moveAccepted, Room!moveRejected
  <2> QED
    BY <1>1, <2>1, <2>2 DEF ticked
<1>4. CASE moveAccepted(g, side, outcome, n)
  <2> DEFINE v == view(g, n)
  <2> DEFINE a == advanceTurn([g EXCEPT !.version = @ + 1], n)
  <2> DEFINE r == refreshTerminalStateFromBoard(a, outcome, n)
  <2> DEFINE moved == [v EXCEPT !.version = @ + 1,
                                !.currentTurn = Room!oppositeColor(@)]
  <2>1. /\ t.state = "InProgress" /\ t = g /\ ~timeIsUp(g, n)
        /\ side = g.currentTurn /\ outcome # "illegal"
    BY <1>1, <1>4 DEF moveAccepted
  <2>2. ticked = v /\ ~Room!moveRejected(ticked, side, outcome)
    BY <1>1, <1>2, <2>1 DEF Room!moveRejected
  <2>3. /\ Booked(a, n, u, 0) /\ a.state = "InProgress" /\ ~timeIsUp(a, n)
        /\ a.currentTurn = oppositeColor(g.currentTurn)
        /\ a.version = g.version + 1
        /\ a.winner = g.winner /\ a.endReason = g.endReason
    BY <2>1, AdvanceKept
  <2>4. submitMove(g, side, outcome, n) = r
    BY <1>4 DEF submitMove
  <2> HIDE DEF a
  <2>5. a \in ChessGame
    BY <2>3 DEF Booked
  <2>6. moved = view(a, n)
    <3>1. /\ v \in Room!ChessGame /\ v.flagged = FALSE
          /\ v.state = "InProgress" /\ v.currentTurn = g.currentTurn
          /\ v.winner = g.winner /\ v.endReason = g.endReason
          /\ v.version = g.version
      BY <1>0, <2>1, ViewTyped DEF view
    <3> HIDE DEF v
    <3>2. moved = [state |-> v.state,
                   currentTurn |-> Room!oppositeColor(v.currentTurn),
                   winner |-> v.winner, endReason |-> v.endReason,
                   version |-> v.version + 1, flagged |-> FALSE]
      BY <3>1, RoomMoved
    <3> HIDE DEF moved
    <3>3. view(a, n) = [state |-> "InProgress",
                        currentTurn |-> oppositeColor(g.currentTurn),
                        winner |-> g.winner, endReason |-> g.endReason,
                        version |-> g.version + 1, flagged |-> FALSE]
      BY <2>3 DEF view
    <3> QED
      BY <3>1, <3>2, <3>3 DEF oppositeColor, Room!oppositeColor
  <2> HIDE DEF moved, v
  <2>7. Room!afterMove(v, outcome) =
          CASE outcome = "checkmate" ->
                 Room!finish(moved, Room!oppositeColor(moved.currentTurn),
                             "Checkmate")
            [] outcome = "stalemate" -> Room!finish(moved, "EMPTY", "Draw")
            [] OTHER -> moved
    BY DEF Room!afterMove, moved
  <2>8. CASE outcome = "checkmate"
    <3>1. r = finish(a, oppositeColor(a.currentTurn), "Checkmate")
      BY <2>3, <2>8 DEF refreshTerminalStateFromBoard
    <3>2. Room!afterMove(v, outcome) =
            Room!finish(view(a, n), oppositeColor(a.currentTurn), "Checkmate")
      BY <2>6, <2>7, <2>8 DEF view, oppositeColor, Room!oppositeColor
    <3>3. view(r, n) = Room!afterMove(v, outcome)
      BY <2>3, <2>5, <3>1, <3>2, ViewOver
    <3> QED
      BY <2>2, <2>4, <3>3 DEF ticked
  <2>9. CASE outcome = "stalemate"
    <3>1. r = finish(a, "EMPTY", "Draw")
      BY <2>3, <2>9 DEF refreshTerminalStateFromBoard
    <3>2. Room!afterMove(v, outcome) = Room!finish(view(a, n), "EMPTY", "Draw")
      BY <2>6, <2>7, <2>9
    <3>3. view(r, n) = Room!afterMove(v, outcome)
      BY <2>3, <2>5, <3>1, <3>2, ViewOver
    <3> QED
      BY <2>2, <2>4, <3>3 DEF ticked
  <2>10. CASE outcome \notin {"checkmate", "stalemate"}
    <3>1. r = a
      BY <2>3, <2>10 DEF refreshTerminalStateFromBoard
    <3>2. Room!afterMove(v, outcome) = view(a, n)
      BY <2>6, <2>7, <2>10
    <3> QED
      BY <2>2, <2>4, <3>1, <3>2 DEF ticked
  <2> QED
    BY <2>8, <2>9, <2>10
<1> QED
  BY <1>3, <1>4

\* Time never gives a side back what it has used up.
LEMMA UpForGood ==
  ASSUME NEW g \in ChessGame, NEW n \in Nat, g.turnStart <= n,
         g.state = "InProgress", timeIsUp(g, n)
  PROVE  timeIsUp(g, n + 1)
<1> DEFINE s == g.currentTurn
<1>1. /\ s \in Side /\ g.time[s] \in Nat /\ g.clockConfig.enabled
      /\ n - g.turnStart \in Nat /\ n + 1 \in Nat /\ g.turnStart <= n + 1
  BY DEF ChessGame, timeIsUp
<1>2. elapsed(g, n) \in Nat /\ elapsed(g, n + 1) \in Nat
  BY <1>1, Remaining
<1>3. g.time[s] <= elapsed(g, n)
  BY <1>1, <1>2, Remaining DEF timeIsUp
<1>4. elapsed(g, n) <= elapsed(g, n + 1)
  <2> DEFINE x == n - g.turnStart
  <2>1. x \div TicksPerMs <= (x + 1) \div TicksPerMs
    BY <1>1, TicksAssumption
  <2> DEFINE y == (n + 1) - g.turnStart
  <2>2. y = x + 1
    BY <1>1 DEF ChessGame
  <2>3. elapsed(g, n) = x \div TicksPerMs
    BY DEF elapsed
  <2>4. elapsed(g, n + 1) = y \div TicksPerMs
    BY DEF elapsed
  <2> HIDE DEF x, y
  <2> QED
    BY <2>1, <2>2, <2>3, <2>4
<1>5. g.time[s] <= elapsed(g, n + 1)
  BY <1>1, <1>2, <1>3, <1>4
<1> QED
  BY <1>1, <1>5, Remaining DEF timeIsUp

\* While time passes the room sees nothing, or a clock that runs out.
LEMMA ViewTime ==
  ASSUME NEW g, NEW n, NEW u, Booked(g, n, u, 0)
  PROVE  \/ view(g, n + 1) = view(g, n)
         \/ /\ view(g, n).state = "InProgress"
            /\ view(g, n + 1) = [view(g, n) EXCEPT !.flagged = TRUE]
<1>1. g \in ChessGame /\ n \in Nat /\ g.turnStart <= n
  BY DEF Booked
<1>2. CASE g.state = "InProgress" /\ ~timeIsUp(g, n) /\ timeIsUp(g, n + 1)
  <2> DEFINE v == view(g, n)
  <2>1. v \in Room!ChessGame
    BY <1>1, ViewTyped
  <2>2. /\ v.state = "InProgress" /\ v.currentTurn = g.currentTurn
        /\ v.winner = g.winner /\ v.endReason = g.endReason
        /\ v.version = g.version
    BY <1>2 DEF view
  <2> HIDE DEF v
  <2> DEFINE q == [v EXCEPT !.flagged = TRUE]
  <2>3. q = [state |-> v.state, currentTurn |-> v.currentTurn,
             winner |-> v.winner, endReason |-> v.endReason,
             version |-> v.version, flagged |-> TRUE]
    <3>1. /\ q \in Room!ChessGame /\ q.flagged = TRUE /\ q.state = v.state
          /\ q.currentTurn = v.currentTurn /\ q.winner = v.winner
          /\ q.endReason = v.endReason /\ q.version = v.version
      BY <2>1 DEF Room!ChessGame
    <3> HIDE DEF q
    <3> QED
      BY <3>1 DEF Room!ChessGame
  <2>4. view(g, n + 1) = [state |-> "InProgress", currentTurn |-> g.currentTurn,
                          winner |-> g.winner, endReason |-> g.endReason,
                          version |-> g.version, flagged |-> TRUE]
    BY <1>2 DEF view
  <2> QED
    BY <2>2, <2>3, <2>4 DEF v
<1>3. CASE ~(g.state = "InProgress" /\ ~timeIsUp(g, n) /\ timeIsUp(g, n + 1))
  <2>1. (g.state = "InProgress" /\ timeIsUp(g, n + 1)) =
          (g.state = "InProgress" /\ timeIsUp(g, n))
    BY <1>1, <1>3, UpForGood DEF timeIsUp
  <2> QED
    BY <2>1, Zenon DEF view
<1> QED
  BY <1>2, <1>3

-----------------------------------------------------------------------------
(* The refinement *)

LEMMA InitRefines == Init => Room!RoomGameInit
<1> SUFFICES ASSUME Init PROVE roomGame = Room!newGame
  BY DEF Room!RoomGameInit
<1>1. PICK config \in ClockConfigs : game = newGame(config)
  BY DEF Init
<1>2. /\ game.state = "NotStarted" /\ game.currentTurn = "WHITE"
      /\ game.winner = "EMPTY" /\ game.endReason = "None"
      /\ game.version = 0
  BY <1>1 DEF newGame
<1> QED
  BY <1>2 DEF roomGame, Room!newGame

LEMMA NextRefines == IInv /\ [Next]_vars => [Room!RoomGameNext]_roomGame
<1> SUFFICES ASSUME IInv, [Next]_vars
             PROVE  Room!RoomGameNext \/ roomGame' = roomGame
  OBVIOUS
<1>1. Booked(game, now, used, 0) /\ Alive(game)
  BY DEF IInv
<1>2. roomGame = view(game, now) /\ roomGame' = view(game', now')
  BY DEF roomGame, view
<1>3. CASE Start
  <2>1. /\ game.state = "NotStarted"
        /\ roomGame' = view(start(game, now), now)
    BY <1>2, <1>3 DEF Start
  <2>2. PICK clock \in Room!ClockKind : roomGame' = Room!gameStart(clock)
    BY <1>1, <2>1, ViewStart
  <2>3. Room!Start(clock)
    BY <2>1, <2>2 DEF Room!Start, roomGame
  <2> QED
    BY <2>3 DEF Room!RoomGameNext
<1>4. CASE Tick
  <2>1. roomGame' = Room!gameTick(roomGame)
    BY <1>1, <1>2, <1>4, ViewTick DEF Tick
  <2> QED
    BY <2>1 DEF Room!RoomGameNext, Room!Tick
<1>5. ASSUME NEW side \in Side, NEW outcome \in MoveOutcome,
             SubmitMove(side, outcome)
      PROVE  Room!RoomGameNext
  <2>1. roomGame' = view(submitMove(game, side, outcome, now), now)
    BY <1>2, <1>5 DEF SubmitMove
  <2>2. Room!SubmitMove(side, outcome)
    BY <1>1, <1>2, <2>1, ViewMove DEF Room!SubmitMove
  <2>3. side \in {"WHITE", "BLACK"} /\ outcome \in Room!MoveOutcome
    BY DEF Side, MoveOutcome, Room!MoveOutcome
  <2> QED
    BY <2>2, <2>3 DEF Room!RoomGameNext
<1>6. ASSUME NEW side \in Side, Resign(side) PROVE Room!RoomGameNext
  <2>1. Room!Resign(side)
    BY <1>1, <1>2, <1>6, ViewResign DEF Resign, Room!Resign
  <2> QED
    BY <2>1 DEF Side, Room!RoomGameNext
<1>7. CASE TimePasses
  <2>1. roomGame' = view(game, now + 1)
    BY <1>2, <1>7 DEF TimePasses
  <2>2. roomGame' = roomGame \/ Room!Flag
    BY <1>1, <1>2, <2>1, ViewTime DEF Room!Flag
  <2> QED
    BY <2>2 DEF Room!RoomGameNext
<1>8. CASE UNCHANGED vars
  BY <1>2, <1>8 DEF vars
<1> QED
  BY <1>3, <1>4, <1>5, <1>6, <1>7, <1>8 DEF Next

\* The game with its clocks implements the game that the rooms and the game
\* manager are modelled with.
THEOREM RefinesRoomGame == Spec => ImplementsRoomGame
<1>1. IInv /\ [Next]_vars => [Room!RoomGameNext]_roomGame
  BY NextRefines
<1> QED
  BY <1>1, InitRefines, InductiveInvariant, PTL
     DEF Spec, ImplementsRoomGame, Room!RoomGameSpec

-----------------------------------------------------------------------------
(* Lines between squares                                                   *)

\* The row or column that n steps of e lead to.
along(x, e, n) == IF e = 0 THEN x ELSE IF e = 1 THEN x + n ELSE x - n

\* t is n steps of d from s.
On(s, t, d, n) ==
    row(t) = along(row(s), d[1], n) /\ col(t) = along(col(s), d[2], n)

\* n steps of e, without the product.
LEMMA AlongIs ==
  ASSUME NEW x \in Int, NEW e \in {-1, 0, 1}, NEW n \in Int
  PROVE  x + n * e = along(x, e, n)
<1>1. CASE e = 0
  BY <1>1 DEF along
<1>2. CASE e = 1
  BY <1>2 DEF along
<1>3. CASE e = -1
  <2>1. n * (-1) = -n
    OBVIOUS
  <2> QED
    BY <2>1, <1>3 DEF along
<1> QED
  BY <1>1, <1>2, <1>3

\* The squares of a ray, by their place on its line.
LEMMA OnRay ==
  ASSUME NEW s \in Square, NEW t \in Square, NEW d \in Direction, NEW n \in 1 .. 8
  PROVE  On(s, t, d, n) <=> n <= reachOf(s, d) /\ ray[s][d][n] = t
<1>1. /\ row(s) \in 0 .. 7 /\ col(s) \in 0 .. 7 /\ row(t) \in 0 .. 7 /\ col(t) \in 0 .. 7
      /\ d[1] \in {-1, 0, 1} /\ d[2] \in {-1, 0, 1} /\ s \in Place
  BY Coordinates, DirectionSteps DEF Place
<1>2. /\ row(s) + n * d[1] = along(row(s), d[1], n)
      /\ col(s) + n * d[2] = along(col(s), d[2], n)
  <2> DEFINE r == row(s)
             c == col(s)
             e == d[1]
             f == d[2]
  <2>1. r \in Int /\ c \in Int /\ e \in {-1, 0, 1} /\ f \in {-1, 0, 1} /\ n \in Int
    BY <1>1
  <2> HIDE DEF r, c, e, f
  <2>2. r + n * e = along(r, e, n)
    BY <2>1, AlongIs
  <2>3. c + n * f = along(c, f, n)
    BY <2>1, AlongIs
  <2> QED
    BY <2>2, <2>3 DEF r, c, e, f
<1>3. /\ reachOf(s, d) \in 0 .. 8
      /\ isInBoard(row(s) + n * d[1], col(s) + n * d[2]) <=> n <= reachOf(s, d)
  <2>1. \A i \in 1 .. 8 : isInBoard(row(s) + i * d[1], col(s) + i * d[2])
                            <=> i <= reachOf(s, d)
    BY <1>1, Reaches
  <2>2. reachOf(s, d) \in 0 .. 8
    BY <1>1, Reaches
  <2> QED
    BY <2>1, <2>2
<1>4. ASSUME n <= reachOf(s, d)
      PROVE  /\ ray[s][d][n] \in Square
             /\ row(ray[s][d][n]) = along(row(s), d[1], n)
             /\ col(ray[s][d][n]) = along(col(s), d[2], n)
  <2>1. n \in 1 .. reachOf(s, d)
    BY <1>3, <1>4
  <2> QED
    BY <1>1, <1>2, <2>1, RayIs
<1>5. ASSUME On(s, t, d, n) PROVE n <= reachOf(s, d) /\ ray[s][d][n] = t
  <2>1. isInBoard(row(s) + n * d[1], col(s) + n * d[2])
    BY <1>1, <1>2, <1>5 DEF On, isInBoard
  <2>2. n <= reachOf(s, d)
    BY <2>1, <1>3
  <2> QED
    BY <2>2, <1>4, <1>5, SamePlace DEF On
<1>6. ASSUME n <= reachOf(s, d), ray[s][d][n] = t PROVE On(s, t, d, n)
  BY <1>4, <1>6 DEF On
<1> QED
  BY <1>5, <1>6

\* The line through two points, without its products.
LEMMA Slopes ==
  ASSUME NEW n \in 1 .. 7, NEW a \in Int, NEW b \in Int
  PROVE  /\ a * n = b * 0 <=> a = 0
         /\ a * (-n) = b * 0 <=> a = 0
         /\ a * 0 = b * n <=> b = 0
         /\ a * 0 = b * (-n) <=> b = 0
         /\ a * n = b * n <=> a = b
         /\ a * (-n) = b * (-n) <=> a = b
         /\ a * n = b * (-n) <=> a = -b
         /\ a * (-n) = b * n <=> a = -b
<1>1. CASE n = 1
  BY <1>1
<1>2. CASE n = 2
  BY <1>2
<1>3. CASE n = 3
  BY <1>3
<1>4. CASE n = 4
  BY <1>4
<1>5. CASE n = 5
  BY <1>5
<1>6. CASE n = 6
  BY <1>6
<1>7. CASE n = 7
  BY <1>7
<1> QED
  BY <1>1, <1>2, <1>3, <1>4, <1>5, <1>6, <1>7

\* The squares between, by row and column.
Inside(r, c, r2, c2, x, y) ==
    /\ x # r \/ y # c
    /\ x # r2 \/ y # c2
    /\ (x - r) * (c2 - c) = (y - c) * (r2 - r)
    /\ distance(x, r) <= distance(r2 - r, 0) /\ distance(x, r2) <= distance(r2 - r, 0)
    /\ distance(y, c) <= distance(c2 - c, 0) /\ distance(y, c2) <= distance(c2 - c, 0)

\* The squares before one of a ray's.
LEMMA Segment ==
  ASSUME NEW r \in Int, NEW c \in Int, NEW x \in Int, NEW y \in Int, NEW n \in 1 .. 7,
         NEW e \in {-1, 0, 1}, NEW f \in {-1, 0, 1}, e # 0 \/ f # 0
  PROVE  Inside(r, c, along(r, e, n), along(c, f, n), x, y) <=>
            \E k \in 1 .. n - 1 : x = along(r, e, k) /\ y = along(c, f, k)
<1> DEFINE a == x - r
           b == y - c
           dr == along(r, e, n) - r
           dc == along(c, f, n) - c
           P == (x - r) * (along(c, f, n) - c) = (y - c) * (along(r, e, n) - r)
           Q == /\ x # r \/ y # c
                /\ x # along(r, e, n) \/ y # along(c, f, n)
                /\ distance(x, r) <= distance(along(r, e, n) - r, 0)
                /\ distance(x, along(r, e, n)) <= distance(along(r, e, n) - r, 0)
                /\ distance(y, c) <= distance(along(c, f, n) - c, 0)
                /\ distance(y, along(c, f, n)) <= distance(along(c, f, n) - c, 0)
           E == \E k \in 1 .. n - 1 : x = along(r, e, k) /\ y = along(c, f, k)
           L == IF e = 0 THEN a = 0 ELSE IF f = 0 THEN b = 0
                ELSE IF e = f THEN a = b ELSE a = -b
<1>1. P <=> L
  <2>1. P <=> a * dc = b * dr
    OBVIOUS
  <2>2. dr = (IF e = 0 THEN 0 ELSE IF e = 1 THEN n ELSE -n)
        /\ dc = (IF f = 0 THEN 0 ELSE IF f = 1 THEN n ELSE -n)
    BY DEF along
  <2>3. a \in Int /\ b \in Int
    OBVIOUS
  <2> HIDE DEF a, b, dr, dc, P
  <2>4. a * dc = b * dr <=> L
    <3>1. CASE e = 0 /\ f = 1
      BY <3>1, <2>2, <2>3, Slopes
    <3>2. CASE e = 0 /\ f = -1
      BY <3>2, <2>2, <2>3, Slopes
    <3>3. CASE e = 1 /\ f = 0
      BY <3>3, <2>2, <2>3, Slopes
    <3>4. CASE e = -1 /\ f = 0
      BY <3>4, <2>2, <2>3, Slopes
    <3>5. CASE e = 1 /\ f = 1
      BY <3>5, <2>2, <2>3, Slopes
    <3>6. CASE e = -1 /\ f = -1
      BY <3>6, <2>2, <2>3, Slopes
    <3>7. CASE e = 1 /\ f = -1
      BY <3>7, <2>2, <2>3, Slopes
    <3>8. CASE e = -1 /\ f = 1
      BY <3>8, <2>2, <2>3, Slopes
    <3> QED
      BY <3>1, <3>2, <3>3, <3>4, <3>5, <3>6, <3>7, <3>8
  <2> QED
    BY <2>1, <2>4
<1>2. ASSUME L, Q PROVE E
  <2> DEFINE k == IF e = 1 THEN a ELSE IF e = -1 THEN -a ELSE IF f = 1 THEN b ELSE -b
  <2>1. k \in 1 .. n - 1 /\ x = along(r, e, k) /\ y = along(c, f, k)
    <3>1. CASE e = 0 /\ f = 1
      BY <3>1, <1>2 DEF along, distance
    <3>2. CASE e = 0 /\ f = -1
      BY <3>2, <1>2 DEF along, distance
    <3>3. CASE e = 1 /\ f = 0
      BY <3>3, <1>2 DEF along, distance
    <3>4. CASE e = -1 /\ f = 0
      BY <3>4, <1>2 DEF along, distance
    <3>5. CASE e = 1 /\ f = 1
      BY <3>5, <1>2 DEF along, distance
    <3>6. CASE e = -1 /\ f = -1
      BY <3>6, <1>2 DEF along, distance
    <3>7. CASE e = 1 /\ f = -1
      BY <3>7, <1>2 DEF along, distance
    <3>8. CASE e = -1 /\ f = 1
      BY <3>8, <1>2 DEF along, distance
    <3> QED
      BY <3>1, <3>2, <3>3, <3>4, <3>5, <3>6, <3>7, <3>8
  <2> QED
    BY <2>1
<1>3. ASSUME NEW k \in 1 .. n - 1, x = along(r, e, k), y = along(c, f, k) PROVE L /\ Q
  <2>1. CASE e = 0 /\ f = 1
    BY <2>1, <1>3 DEF along, distance
  <2>2. CASE e = 0 /\ f = -1
    BY <2>2, <1>3 DEF along, distance
  <2>3. CASE e = 1 /\ f = 0
    BY <2>3, <1>3 DEF along, distance
  <2>4. CASE e = -1 /\ f = 0
    BY <2>4, <1>3 DEF along, distance
  <2>5. CASE e = 1 /\ f = 1
    BY <2>5, <1>3 DEF along, distance
  <2>6. CASE e = -1 /\ f = -1
    BY <2>6, <1>3 DEF along, distance
  <2>7. CASE e = 1 /\ f = -1
    BY <2>7, <1>3 DEF along, distance
  <2>8. CASE e = -1 /\ f = 1
    BY <2>8, <1>3 DEF along, distance
  <2> QED
    BY <2>1, <2>2, <2>3, <2>4, <2>5, <2>6, <2>7, <2>8
<1>4. Inside(r, c, along(r, e, n), along(c, f, n), x, y) <=> P /\ Q
  BY DEF Inside
<1> HIDE DEF P, Q, L, E
<1>5. E <=> L /\ Q
  <2>1. E => L /\ Q
    BY <1>3 DEF E
  <2> QED
    BY <2>1, <1>2
<1> QED
  BY <1>1, <1>4, <1>5 DEF E

\* A rook's lines.
Straight(s, t) == distance(row(s), row(t)) = 0 \/ distance(col(s), col(t)) = 0
\* A bishop's lines.
Diagonal(s, t) == distance(row(s), row(t)) = distance(col(s), col(t))

\* There are eight directions.
LEMMA EightDirections ==
  ASSUME NEW d \in Direction
  PROVE  \/ d \in cardinals /\ d[1] = 0 /\ d[2] = 1
         \/ d \in cardinals /\ d[1] = 0 /\ d[2] = -1
         \/ d \in cardinals /\ d[1] = 1 /\ d[2] = 0
         \/ d \in cardinals /\ d[1] = -1 /\ d[2] = 0
         \/ d \in diagonals /\ d[1] = 1 /\ d[2] = 1
         \/ d \in diagonals /\ d[1] = 1 /\ d[2] = -1
         \/ d \in diagonals /\ d[1] = -1 /\ d[2] = 1
         \/ d \in diagonals /\ d[1] = -1 /\ d[2] = -1
BY DEF Direction, cardinals, diagonals, North, South, East, West, NorthEast, SouthWest,
       NorthWest, SouthEast

\* The shape of a line is that of its direction.
LEMMA OnShape ==
  ASSUME NEW s \in Square, NEW t \in Square, NEW d \in Direction, NEW n \in 1 .. 8,
         On(s, t, d, n)
  PROVE  /\ s # t /\ n \in 1 .. 7
         /\ d \in cardinals <=> Straight(s, t)
         /\ d \in diagonals <=> Diagonal(s, t)
<1> DEFINE r == row(s)
           c == col(s)
           x == row(t)
           y == col(t)
           e == d[1]
           f == d[2]
<1>1. r \in 0 .. 7 /\ c \in 0 .. 7 /\ x \in 0 .. 7 /\ y \in 0 .. 7
  BY Coordinates
<1>2. x = along(r, e, n) /\ y = along(c, f, n)
  BY DEF On
<1>3. s = t => r = x /\ c = y
  OBVIOUS
<1>4. Straight(s, t) <=> distance(r, x) = 0 \/ distance(c, y) = 0
  BY DEF Straight
<1>5. Diagonal(s, t) <=> distance(r, x) = distance(c, y)
  BY DEF Diagonal
<1>6. /\ e \in {-1, 0, 1} /\ f \in {-1, 0, 1} /\ (e # 0 \/ f # 0)
      /\ d \in cardinals <=> e = 0 \/ f = 0
      /\ d \in diagonals <=> e # 0 /\ f # 0
  BY DirectionSteps
<1> HIDE DEF r, c, x, y, e, f
<1>7. distance(r, x) = (IF e = 0 THEN 0 ELSE n) /\ distance(c, y) = (IF f = 0 THEN 0 ELSE n)
  BY <1>1, <1>2, <1>6 DEF along, distance
<1>8. n \in 1 .. 7
  BY <1>1, <1>2, <1>6 DEF along
<1>9. ~(r = x /\ c = y)
  BY <1>1, <1>2, <1>6 DEF along
<1> QED
  BY <1>3, <1>4, <1>5, <1>6, <1>7, <1>8, <1>9

\* Two squares of a row, a column or a diagonal are on a line.
LEMMA LineThrough ==
  ASSUME NEW s \in Square, NEW t \in Square, s # t
  PROVE  /\ Straight(s, t) => \E d \in cardinals : \E n \in 1 .. 7 : On(s, t, d, n)
         /\ Diagonal(s, t) => \E d \in diagonals : \E n \in 1 .. 7 : On(s, t, d, n)
<1> DEFINE r == row(s)
           c == col(s)
           x == row(t)
           y == col(t)
<1>1. r \in 0 .. 7 /\ c \in 0 .. 7 /\ x \in 0 .. 7 /\ y \in 0 .. 7
  BY Coordinates
<1>2. r # x \/ c # y
  BY SamePlace
<1>3. \A d \in Direction : \A n \in 1 .. 7 :
         x = along(r, d[1], n) /\ y = along(c, d[2], n) => On(s, t, d, n)
  BY DEF On
<1>4. Straight(s, t) <=> distance(r, x) = 0 \/ distance(c, y) = 0
  BY DEF Straight
<1>5. Diagonal(s, t) <=> distance(r, x) = distance(c, y)
  BY DEF Diagonal
<1> HIDE DEF r, c, x, y
<1>6. ASSUME Straight(s, t) PROVE \E d \in cardinals : \E n \in 1 .. 7 : On(s, t, d, n)
  <2>1. \/ r = x /\ c < y
        \/ r = x /\ c > y
        \/ r < x /\ c = y
        \/ r > x /\ c = y
    BY <1>1, <1>2, <1>4, <1>6 DEF distance
  <2>2. CASE r = x /\ c < y
    <3>1. x = along(r, East[1], y - c) /\ y = along(c, East[2], y - c) /\ y - c \in 1 .. 7
      BY <1>1, <2>2 DEF along, East
    <3> QED
      BY <3>1, <1>3, Compass
  <2>3. CASE r = x /\ c > y
    <3>1. x = along(r, West[1], c - y) /\ y = along(c, West[2], c - y) /\ c - y \in 1 .. 7
      BY <1>1, <2>3 DEF along, West
    <3> QED
      BY <3>1, <1>3, Compass
  <2>4. CASE r < x /\ c = y
    <3>1. x = along(r, South[1], x - r) /\ y = along(c, South[2], x - r) /\ x - r \in 1 .. 7
      BY <1>1, <2>4 DEF along, South
    <3> QED
      BY <3>1, <1>3, Compass
  <2>5. CASE r > x /\ c = y
    <3>1. x = along(r, North[1], r - x) /\ y = along(c, North[2], r - x) /\ r - x \in 1 .. 7
      BY <1>1, <2>5 DEF along, North
    <3> QED
      BY <3>1, <1>3, Compass
  <2> QED
    BY <2>1, <2>2, <2>3, <2>4, <2>5
<1>7. ASSUME Diagonal(s, t) PROVE \E d \in diagonals : \E n \in 1 .. 7 : On(s, t, d, n)
  <2>1. \/ r < x /\ c < y /\ x - r = y - c
        \/ r < x /\ c > y /\ x - r = c - y
        \/ r > x /\ c < y /\ r - x = y - c
        \/ r > x /\ c > y /\ r - x = c - y
    BY <1>1, <1>2, <1>5, <1>7 DEF distance
  <2>2. CASE r < x /\ c < y /\ x - r = y - c
    <3>1. /\ x = along(r, SouthEast[1], x - r) /\ y = along(c, SouthEast[2], x - r)
          /\ x - r \in 1 .. 7
      BY <1>1, <2>2 DEF along, SouthEast
    <3> QED
      BY <3>1, <1>3, Compass
  <2>3. CASE r < x /\ c > y /\ x - r = c - y
    <3>1. /\ x = along(r, SouthWest[1], x - r) /\ y = along(c, SouthWest[2], x - r)
          /\ x - r \in 1 .. 7
      BY <1>1, <2>3 DEF along, SouthWest
    <3> QED
      BY <3>1, <1>3, Compass
  <2>4. CASE r > x /\ c < y /\ r - x = y - c
    <3>1. /\ x = along(r, NorthEast[1], r - x) /\ y = along(c, NorthEast[2], r - x)
          /\ r - x \in 1 .. 7
      BY <1>1, <2>4 DEF along, NorthEast
    <3> QED
      BY <3>1, <1>3, Compass
  <2>5. CASE r > x /\ c > y /\ r - x = c - y
    <3>1. /\ x = along(r, NorthWest[1], r - x) /\ y = along(c, NorthWest[2], r - x)
          /\ r - x \in 1 .. 7
      BY <1>1, <2>5 DEF along, NorthWest
    <3> QED
      BY <3>1, <1>3, Compass
  <2> QED
    BY <2>1, <2>2, <2>3, <2>4, <2>5
<1> QED
  BY <1>6, <1>7

\* The way back.
opposite(d) == <<-d[1], -d[2]>>

\* The line back.
LEMMA Backwards ==
  ASSUME NEW s \in Square, NEW t \in Square, NEW d \in Direction, NEW n \in 1 .. 8
  PROVE  /\ opposite(d) \in Direction
         /\ opposite(d) \in cardinals <=> d \in cardinals
         /\ On(s, t, d, n) <=> On(t, s, opposite(d), n)
<1>1. /\ opposite(d) \in Direction
      /\ opposite(d) \in cardinals <=> d \in cardinals
  BY DEF opposite, Direction, cardinals, diagonals, North, South, East, West, NorthEast,
         SouthWest, NorthWest, SouthEast
<1> DEFINE r == row(s)
           c == col(s)
           x == row(t)
           y == col(t)
           e == d[1]
           f == d[2]
<1>2. r \in 0 .. 7 /\ c \in 0 .. 7 /\ x \in 0 .. 7 /\ y \in 0 .. 7
  BY Coordinates
<1>3. e \in {-1, 0, 1} /\ f \in {-1, 0, 1}
  BY DirectionSteps
<1>4. On(s, t, d, n) <=> x = along(r, e, n) /\ y = along(c, f, n)
  BY DEF On
<1>5. On(t, s, opposite(d), n) <=> r = along(x, -e, n) /\ c = along(y, -f, n)
  BY DEF On, opposite
<1> HIDE DEF r, c, x, y, e, f
<1>6. x = along(r, e, n) <=> r = along(x, -e, n)
  BY <1>2, <1>3 DEF along
<1>7. y = along(c, f, n) <=> c = along(y, -f, n)
  BY <1>2, <1>3 DEF along
<1> QED
  BY <1>1, <1>4, <1>5, <1>6, <1>7

\* A square on the way, and the rest of the way.
LEMMA OnTheWay ==
  ASSUME NEW s \in Square, NEW t \in Square, NEW d \in Direction, NEW n \in 1 .. 8,
         On(s, t, d, n), NEW u \in Square, NEW k \in 1 .. 8, On(s, u, d, k)
  PROVE  /\ k < n => On(u, t, d, n - k)
         /\ k = n <=> u = t
<1> DEFINE r == row(s)
           c == col(s)
           x == row(t)
           y == col(t)
           v == row(u)
           w == col(u)
           e == d[1]
           f == d[2]
<1>2. /\ r \in 0 .. 7 /\ c \in 0 .. 7 /\ x \in 0 .. 7 /\ y \in 0 .. 7 /\ v \in 0 .. 7
      /\ w \in 0 .. 7
  BY Coordinates
<1>3. e \in {-1, 0, 1} /\ f \in {-1, 0, 1} /\ (e # 0 \/ f # 0)
  BY DirectionSteps
<1>4. x = along(r, e, n) /\ y = along(c, f, n) /\ v = along(r, e, k) /\ w = along(c, f, k)
  BY DEF On
<1>5. On(u, t, d, n - k) <=> x = along(v, e, n - k) /\ y = along(w, f, n - k)
  BY DEF On
<1>6. u = t <=> v = x /\ w = y
  BY SamePlace
<1> HIDE DEF r, c, x, y, v, w, e, f
<1>7. k < n => x = along(v, e, n - k) /\ y = along(w, f, n - k)
  BY <1>2, <1>3, <1>4 DEF along
<1>8. k = n <=> v = x /\ w = y
  BY <1>2, <1>3, <1>4 DEF along
<1> QED
  BY <1>5, <1>6, <1>7, <1>8

\* There is a square at every step of the way.
LEMMA EachStep ==
  ASSUME NEW s \in Square, NEW t \in Square, NEW d \in Direction, NEW n \in 1 .. 8,
         On(s, t, d, n), NEW k \in 1 .. n
  PROVE  /\ n <= reachOf(s, d) /\ ray[s][d][k] \in Square
         /\ On(s, ray[s][d][k], d, k)
<1>1. s \in Place /\ n <= reachOf(s, d) /\ reachOf(s, d) \in 0 .. 8
  BY OnRay, Reaches DEF Place
<1>2. k \in 1 .. reachOf(s, d) /\ k \in 1 .. 8 /\ k <= reachOf(s, d)
  BY <1>1
<1>3. ray[s][d][k] \in Square
  BY <1>1, <1>2, RayIs
<1> QED
  BY <1>1, <1>2, <1>3, OnRay

\* The squares between two squares of a line.
LEMMA BetweenIs ==
  ASSUME NEW s \in Square, NEW t \in Square, NEW d \in Direction, NEW n \in 1 .. 8,
         On(s, t, d, n)
  PROVE  between[s][t] = {u \in Square : \E k \in 1 .. n - 1 : On(s, u, d, k)}
<1>1. n \in 1 .. 7
  BY OnShape
<1>2. \A u \in Square : u \in between[s][t] <=>
         Inside(row(s), col(s), row(t), col(t), row(u), col(u))
  <2> SUFFICES ASSUME NEW u \in Square
               PROVE  u \in between[s][t] <=>
                         Inside(row(s), col(s), row(t), col(t), row(u), col(u))
    OBVIOUS
  <2> DEFINE dr == row(t) - row(s)
             dc == col(t) - col(s)
  <2>1. /\ u # s <=> row(u) # row(s) \/ col(u) # col(s)
        /\ u # t <=> row(u) # row(t) \/ col(u) # col(t)
    BY SamePlace
  <2>2. dr = 0 \/ dc = 0 \/ distance(dr, 0) = distance(dc, 0)
    <3> DEFINE r == row(s)
               c == col(s)
               x == row(t)
               y == col(t)
    <3>1. r \in 0 .. 7 /\ c \in 0 .. 7 /\ x \in 0 .. 7 /\ y \in 0 .. 7
      BY Coordinates
    <3>2. Straight(s, t) \/ Diagonal(s, t)
      BY OnShape DEF Direction
    <3>3. Straight(s, t) <=> distance(r, x) = 0 \/ distance(c, y) = 0
      BY DEF Straight
    <3>4. Diagonal(s, t) <=> distance(r, x) = distance(c, y)
      BY DEF Diagonal
    <3> HIDE DEF r, c, x, y
    <3>5. x - r = 0 \/ y - c = 0 \/ distance(x - r, 0) = distance(y - c, 0)
      BY <3>1, <3>2, <3>3, <3>4 DEF distance
    <3> QED
      BY <3>5 DEF r, c, x, y
  <2>3. u \in between[s][t] <=>
          /\ u # s /\ u # t
          /\ dr = 0 \/ dc = 0 \/ distance(dr, 0) = distance(dc, 0)
          /\ (row(u) - row(s)) * dc = (col(u) - col(s)) * dr
          /\ distance(row(u), row(s)) <= distance(dr, 0)
          /\ distance(row(u), row(t)) <= distance(dr, 0)
          /\ distance(col(u), col(s)) <= distance(dc, 0)
          /\ distance(col(u), col(t)) <= distance(dc, 0)
    BY DEF between
  <2> QED
    BY <2>1, <2>2, <2>3 DEF Inside
<1>3. ASSUME NEW u \in Square
      PROVE  u \in between[s][t] <=> \E k \in 1 .. n - 1 : On(s, u, d, k)
  <2> DEFINE r == row(s)
             c == col(s)
             x == row(u)
             y == col(u)
             e == d[1]
             f == d[2]
  <2>1. r \in Int /\ c \in Int /\ x \in Int /\ y \in Int
    BY Coordinates
  <2>2. e \in {-1, 0, 1} /\ f \in {-1, 0, 1} /\ (e # 0 \/ f # 0)
    BY DirectionSteps
  <2>3. u \in between[s][t] <=> Inside(r, c, along(r, e, n), along(c, f, n), x, y)
    BY <1>2 DEF On
  <2>4. \A k : On(s, u, d, k) <=> x = along(r, e, k) /\ y = along(c, f, k)
    BY DEF On
  <2> HIDE DEF r, c, x, y, e, f
  <2> QED
    BY <1>1, <2>1, <2>2, <2>3, <2>4, Segment
<1>4. between[s][t] \subseteq Square
  BY DEF between
<1> QED
  BY <1>3, <1>4

\* Nothing stands between two squares.
Clear(at, s, t) == \A u \in between[s][t] : at[u] = EMPTY

\* What is seen along a line: a square with nothing in between.
LEMMA SeenIs ==
  ASSUME NEW at, NEW s \in Square, NEW d \in Direction, NEW t \in Square
  PROVE  t \in visible(at, s, d) <=>
            Clear(at, s, t) /\ \E n \in 1 .. 8 : On(s, t, d, n)
<1>1. s \in Place /\ reachOf(s, d) \in 0 .. 8 /\ DOMAIN ray[s][d] = 1 .. reachOf(s, d)
  BY Reaches, RayIs DEF Place
<1>2. ASSUME NEW n \in 1 .. 8, On(s, t, d, n)
      PROVE  Clear(at, s, t) <=> \A k \in 1 .. n - 1 : at[ray[s][d][k]] = EMPTY
  <2>1. between[s][t] = {u \in Square : \E k \in 1 .. n - 1 : On(s, u, d, k)}
    BY <1>2, BetweenIs
  <2>2. \A k \in 1 .. n - 1 : ray[s][d][k] \in Square /\ On(s, ray[s][d][k], d, k)
    <3>1. \A k \in 1 .. n - 1 : k \in 1 .. n
      OBVIOUS
    <3> QED
      BY <3>1, <1>2, EachStep
  <2>3. \A k \in 1 .. n - 1 : \A u \in Square : On(s, u, d, k) => u = ray[s][d][k]
    <3>1. \A k \in 1 .. n - 1 : k \in 1 .. 8
      OBVIOUS
    <3> QED
      BY <3>1, OnRay
  <2>4. ASSUME Clear(at, s, t), NEW k \in 1 .. n - 1 PROVE at[ray[s][d][k]] = EMPTY
    <3>1. ray[s][d][k] \in between[s][t]
      BY <2>1, <2>2
    <3> QED
      BY <3>1, <2>4 DEF Clear
  <2>5. ASSUME \A k \in 1 .. n - 1 : at[ray[s][d][k]] = EMPTY PROVE Clear(at, s, t)
    <3> SUFFICES ASSUME NEW u \in between[s][t] PROVE at[u] = EMPTY
      BY DEF Clear
    <3>1. PICK k \in 1 .. n - 1 : On(s, u, d, k) /\ u \in Square
      BY <2>1
    <3> QED
      BY <3>1, <2>3, <2>5
  <2> QED
    BY <2>4, <2>5
<1>3. ASSUME t \in visible(at, s, d)
      PROVE  Clear(at, s, t) /\ \E n \in 1 .. 8 : On(s, t, d, n)
  <2>1. PICK n \in 1 .. reachOf(s, d) : /\ t = ray[s][d][n]
                                        /\ \A k \in 1 .. n - 1 : at[ray[s][d][k]] = EMPTY
    BY <1>1, <1>3 DEF visible, sight
  <2>2. n \in 1 .. 8 /\ n <= reachOf(s, d)
    BY <1>1
  <2>3. On(s, t, d, n)
    BY <2>1, <2>2, OnRay
  <2> QED
    BY <2>1, <2>2, <2>3, <1>2
<1>4. ASSUME Clear(at, s, t), NEW n \in 1 .. 8, On(s, t, d, n) PROVE t \in visible(at, s, d)
  <2>1. n <= reachOf(s, d) /\ ray[s][d][n] = t
    BY <1>4, OnRay
  <2>2. n \in DOMAIN ray[s][d]
    BY <1>1, <2>1
  <2>3. \A k \in 1 .. n - 1 : at[ray[s][d][k]] = EMPTY
    BY <1>4, <1>2
  <2> QED
    BY <2>1, <2>2, <2>3 DEF visible, sight
<1> QED
  BY <1>3, <1>4

\* Which square a step leads to, by row and column.
LEMMA SteppedOn ==
  ASSUME NEW s \in Square, NEW t \in Square, NEW m, m[1] \in -2 .. 2, m[2] \in -2 .. 2
  PROVE  stepped(s, m) = t <=> row(t) = row(s) + m[1] /\ col(t) = col(s) + m[2]
<1>1. row(t) \in 0 .. 7 /\ col(t) \in 0 .. 7
  BY Coordinates
<1>2. stepped(s, m) \in Square <=> isInBoard(row(s) + m[1], col(s) + m[2])
  BY SteppedIs
<1>3. stepped(s, m) \in Square =>
         row(stepped(s, m)) = row(s) + m[1] /\ col(stepped(s, m)) = col(s) + m[2]
  BY SteppedIs
<1>4. stepped(s, m) = t => row(t) = row(s) + m[1] /\ col(t) = col(s) + m[2]
  BY <1>3
<1>5. ASSUME row(t) = row(s) + m[1], col(t) = col(s) + m[2] PROVE stepped(s, m) = t
  <2>1. stepped(s, m) \in Square
    BY <1>1, <1>2, <1>5 DEF isInBoard
  <2> QED
    BY <2>1, <1>3, <1>5, SamePlace
<1> QED
  BY <1>4, <1>5

\* The rules' knight jumps as the code's does.
LEMMA KnightShape ==
  ASSUME NEW s \in Square, NEW t \in Square
  PROVE  (\E m \in KnightStep : stepped(s, m) = t) <=>
            {distance(row(s), row(t)), distance(col(s), col(t))} = {1, 2}
<1> DEFINE r == row(s)
           c == col(s)
           x == row(t)
           y == col(t)
<1>1. r \in 0 .. 7 /\ c \in 0 .. 7 /\ x \in 0 .. 7 /\ y \in 0 .. 7
  BY Coordinates
<1>2. (\E m \in KnightStep : stepped(s, m) = t) <=>
         \E m \in KnightStep : x = r + m[1] /\ y = c + m[2]
  <2>1. \A m \in KnightStep : m[1] \in -2 .. 2 /\ m[2] \in -2 .. 2
    BY DEF KnightStep
  <2>2. \A m \in KnightStep : stepped(s, m) = t <=> x = r + m[1] /\ y = c + m[2]
    BY <2>1, SteppedOn
  <2> HIDE DEF r, c, x, y, KnightStep
  <2> QED
    BY <2>2
<1> HIDE DEF r, c, x, y
<1>3. (\E m \in KnightStep : x = r + m[1] /\ y = c + m[2]) <=>
         \/ x = r + 2 /\ y = c + 1
         \/ x = r + 1 /\ y = c + 2
         \/ x = r + 2 /\ y = c - 1
         \/ x = r - 1 /\ y = c + 2
         \/ x = r - 2 /\ y = c + 1
         \/ x = r + 1 /\ y = c - 2
         \/ x = r - 2 /\ y = c - 1
         \/ x = r - 1 /\ y = c - 2
  BY <1>1 DEF KnightStep
<1>4. {distance(r, x), distance(c, y)} = {1, 2} <=>
         \/ distance(r, x) = 1 /\ distance(c, y) = 2
         \/ distance(r, x) = 2 /\ distance(c, y) = 1
  <2> DEFINE p == distance(r, x)
             q == distance(c, y)
  <2>1. p \in Int /\ q \in Int
    BY <1>1 DEF distance
  <2> HIDE DEF p, q
  <2>2. {p, q} = {1, 2} <=> (p = 1 /\ q = 2) \/ (p = 2 /\ q = 1)
    BY <2>1
  <2> QED
    BY <2>2 DEF p, q
<1>5. (\/ distance(r, x) = 1 /\ distance(c, y) = 2
       \/ distance(r, x) = 2 /\ distance(c, y) = 1) <=>
         \/ x = r + 2 /\ y = c + 1
         \/ x = r + 1 /\ y = c + 2
         \/ x = r + 2 /\ y = c - 1
         \/ x = r - 1 /\ y = c + 2
         \/ x = r - 2 /\ y = c + 1
         \/ x = r + 1 /\ y = c - 2
         \/ x = r - 2 /\ y = c - 1
         \/ x = r - 1 /\ y = c - 2
  BY <1>1 DEF distance
<1>6. (\E m \in KnightStep : x = r + m[1] /\ y = c + m[2]) <=>
         {distance(r, x), distance(c, y)} = {1, 2}
  BY <1>3, <1>4, <1>5
<1> QED
  BY <1>2, <1>6 DEF r, c, x, y

\* The rules' king goes as the code's does.
LEMMA KingShape ==
  ASSUME NEW s \in Square, NEW t \in Square
  PROVE  (\E m \in Direction : stepped(s, m) = t) <=>
            s # t /\ distance(row(s), row(t)) <= 1 /\ distance(col(s), col(t)) <= 1
<1> DEFINE r == row(s)
           c == col(s)
           x == row(t)
           y == col(t)
<1>1. r \in 0 .. 7 /\ c \in 0 .. 7 /\ x \in 0 .. 7 /\ y \in 0 .. 7
  BY Coordinates
<1>2. \A m \in Direction : stepped(s, m) = t <=> x = r + m[1] /\ y = c + m[2]
  <2>1. \A m \in Direction : m[1] \in -2 .. 2 /\ m[2] \in -2 .. 2
    <3>1. \A m \in Direction : m[1] \in {-1, 0, 1} /\ m[2] \in {-1, 0, 1}
      BY DirectionSteps
    <3> HIDE DEF Direction
    <3> QED
      BY <3>1
  <2> QED
    BY <2>1, SteppedOn
<1>3. s = t <=> r = x /\ c = y
  BY SamePlace
<1>4. \A m \in Direction : m[1] \in {-1, 0, 1} /\ m[2] \in {-1, 0, 1} /\ (m[1] # 0 \/ m[2] # 0)
  BY DirectionSteps
<1>5. \A e, f \in {-1, 0, 1} : (e # 0 \/ f # 0) => <<e, f>> \in Direction
  BY DEF Direction, cardinals, diagonals, North, South, East, West, NorthEast,
         SouthWest, NorthWest, SouthEast
<1> HIDE DEF r, c, x, y
<1>6. ASSUME NEW m \in Direction, stepped(s, m) = t
      PROVE  s # t /\ distance(r, x) <= 1 /\ distance(c, y) <= 1
  <2> DEFINE e == m[1]
             f == m[2]
  <2>1. x = r + e /\ y = c + f /\ e \in {-1, 0, 1} /\ f \in {-1, 0, 1} /\ (e # 0 \/ f # 0)
    BY <1>2, <1>4, <1>6
  <2> HIDE DEF e, f
  <2> QED
    BY <1>1, <1>3, <2>1 DEF distance
<1>7. ASSUME s # t, distance(r, x) <= 1, distance(c, y) <= 1
      PROVE  \E m \in Direction : stepped(s, m) = t
  <2> DEFINE e == x - r
             f == y - c
  <2>1. e \in {-1, 0, 1} /\ f \in {-1, 0, 1} /\ (e # 0 \/ f # 0) /\ x = r + e /\ y = c + f
    BY <1>1, <1>3, <1>7 DEF distance
  <2> HIDE DEF e, f
  <2>2. <<e, f>> \in Direction
    BY <2>1, <1>5
  <2>3. x = r + <<e, f>>[1] /\ y = c + <<e, f>>[2]
    BY <2>1
  <2> QED
    BY <2>2, <2>3, <1>2
<1> QED
  BY <1>6, <1>7 DEF r, c, x, y

\* The rules' pawn captures as the code's does.
LEMMA PawnShape ==
  ASSUME NEW s \in Square, NEW t \in Square, NEW color \in Color
  PROVE  (\E m \in pawnStep(color) : stepped(s, m) = t) <=>
            /\ distance(col(s), col(t)) = 1
            /\ row(t) = IF color = "WHITE" THEN row(s) + 1 ELSE row(s) - 1
<1> DEFINE r == row(s)
           c == col(s)
           x == row(t)
           y == col(t)
<1>1. r \in 0 .. 7 /\ c \in 0 .. 7 /\ x \in 0 .. 7 /\ y \in 0 .. 7
  BY Coordinates
<1>2. \A m \in pawnStep(color) : stepped(s, m) = t <=> x = r + m[1] /\ y = c + m[2]
  <2>1. \A m \in pawnStep(color) : m[1] \in -2 .. 2 /\ m[2] \in -2 .. 2
    BY DEF pawnStep
  <2> QED
    BY <2>1, SteppedOn
<1> HIDE DEF r, c, x, y
<1>3. (\E m \in pawnStep(color) : stepped(s, m) = t) <=>
         \E m \in pawnStep(color) : x = r + m[1] /\ y = c + m[2]
  <2> HIDE DEF pawnStep
  <2> QED
    BY <1>2
<1>4. (\E m \in pawnStep(color) : x = r + m[1] /\ y = c + m[2]) <=>
         IF color = "WHITE" THEN x = r + 1 /\ (y = c + 1 \/ y = c - 1)
         ELSE x = r - 1 /\ (y = c + 1 \/ y = c - 1)
  <2>1. CASE color = "WHITE"
    <3>1. pawnStep(color) = {<<1, 1>>, <<1, -1>>}
      BY <2>1 DEF pawnStep
    <3>2. (\E m \in {<<1, 1>>, <<1, -1>>} : x = r + m[1] /\ y = c + m[2]) <=>
             (x = r + 1 /\ y = c + 1) \/ (x = r + 1 /\ y = c + (-1))
      OBVIOUS
    <3>3. c + (-1) = c - 1
      BY <1>1
    <3> QED
      BY <2>1, <3>1, <3>2, <3>3
  <2>2. CASE color # "WHITE"
    <3>1. pawnStep(color) = {<<-1, 1>>, <<-1, -1>>}
      BY <2>2 DEF pawnStep
    <3>2. (\E m \in {<<-1, 1>>, <<-1, -1>>} : x = r + m[1] /\ y = c + m[2]) <=>
             (x = r + (-1) /\ y = c + 1) \/ (x = r + (-1) /\ y = c + (-1))
      OBVIOUS
    <3>3. r + (-1) = r - 1 /\ c + (-1) = c - 1
      BY <1>1
    <3> QED
      BY <2>2, <3>1, <3>2, <3>3
  <2> QED
    BY <2>1, <2>2
<1>5. distance(c, y) = 1 <=> y = c + 1 \/ y = c - 1
  BY <1>1 DEF distance
<1> QED
  BY <1>3, <1>4, <1>5 DEF r, c, x, y

-----------------------------------------------------------------------------
(* What pieces bear on and where they may go: the code and the rules       *)

\* What is seen along straight lines, diagonals, or both.
LEMMA SeenShapes ==
  ASSUME NEW at, NEW s \in Square, NEW t \in Square
  PROVE  /\ t \in seen(at, s, cardinals) <=> s # t /\ Straight(s, t) /\ Clear(at, s, t)
         /\ t \in seen(at, s, diagonals) <=> s # t /\ Diagonal(s, t) /\ Clear(at, s, t)
         /\ t \in seen(at, s, cardinals \cup diagonals) <=>
               s # t /\ (Straight(s, t) \/ Diagonal(s, t)) /\ Clear(at, s, t)
<1>1. \A ds \in SUBSET Direction :
         t \in seen(at, s, ds) <=>
            Clear(at, s, t) /\ \E d \in ds : \E n \in 1 .. 8 : On(s, t, d, n)
  <2> SUFFICES ASSUME NEW ds \in SUBSET Direction
               PROVE  t \in seen(at, s, ds) <=>
                        Clear(at, s, t) /\ \E d \in ds : \E n \in 1 .. 8 : On(s, t, d, n)
    OBVIOUS
  <2>1. \A d \in ds : t \in visible(at, s, d) <=>
                        Clear(at, s, t) /\ \E n \in 1 .. 8 : On(s, t, d, n)
    <3> SUFFICES ASSUME NEW d \in ds
                 PROVE  t \in visible(at, s, d) <=>
                          Clear(at, s, t) /\ \E n \in 1 .. 8 : On(s, t, d, n)
      OBVIOUS
    <3>1. d \in Direction
      OBVIOUS
    <3> QED
      BY <3>1, SeenIs
  <2>2. t \in seen(at, s, ds) <=> \E d \in ds : t \in visible(at, s, d)
    BY DEF seen
  <2> HIDE DEF Clear, On, visible, seen
  <2> QED
    BY <2>1, <2>2
<1>2. cardinals \subseteq Direction /\ diagonals \subseteq Direction
      /\ cardinals \cup diagonals \subseteq Direction
  BY DEF Direction
<1>3. (\E d \in cardinals : \E n \in 1 .. 8 : On(s, t, d, n)) <=> s # t /\ Straight(s, t)
  <2>1. ASSUME NEW d \in cardinals, NEW n \in 1 .. 8, On(s, t, d, n)
        PROVE  s # t /\ Straight(s, t)
    BY <1>2, <2>1, OnShape
  <2>2. ASSUME s # t, Straight(s, t) PROVE \E d \in cardinals : \E n \in 1 .. 8 : On(s, t, d, n)
    <3>1. PICK d \in cardinals : \E n \in 1 .. 7 : On(s, t, d, n)
      BY <2>2, LineThrough
    <3>2. PICK n \in 1 .. 7 : On(s, t, d, n)
      BY <3>1
    <3>3. n \in 1 .. 8
      OBVIOUS
    <3> QED
      BY <3>2, <3>3
  <2> QED
    BY <2>1, <2>2
<1>4. (\E d \in diagonals : \E n \in 1 .. 8 : On(s, t, d, n)) <=> s # t /\ Diagonal(s, t)
  <2>1. ASSUME NEW d \in diagonals, NEW n \in 1 .. 8, On(s, t, d, n)
        PROVE  s # t /\ Diagonal(s, t)
    BY <1>2, <2>1, OnShape
  <2>2. ASSUME s # t, Diagonal(s, t) PROVE \E d \in diagonals : \E n \in 1 .. 8 : On(s, t, d, n)
    <3>1. PICK d \in diagonals : \E n \in 1 .. 7 : On(s, t, d, n)
      BY <2>2, LineThrough
    <3>2. PICK n \in 1 .. 7 : On(s, t, d, n)
      BY <3>1
    <3>3. n \in 1 .. 8
      OBVIOUS
    <3> QED
      BY <3>2, <3>3
  <2> QED
    BY <2>1, <2>2
<1> HIDE DEF Straight, Diagonal, Clear, On, seen, cardinals, diagonals, Direction
<1>5. t \in seen(at, s, cardinals) <=> s # t /\ Straight(s, t) /\ Clear(at, s, t)
  BY <1>1, <1>2, <1>3
<1>6. t \in seen(at, s, diagonals) <=> s # t /\ Diagonal(s, t) /\ Clear(at, s, t)
  BY <1>1, <1>2, <1>4
<1>7. t \in seen(at, s, cardinals \cup diagonals) <=>
         s # t /\ (Straight(s, t) \/ Diagonal(s, t)) /\ Clear(at, s, t)
  <2>1. t \in seen(at, s, cardinals \cup diagonals) <=>
          Clear(at, s, t) /\ \E d \in cardinals \cup diagonals : \E n \in 1 .. 8 : On(s, t, d, n)
    BY <1>1, <1>2
  <2> QED
    BY <2>1, <1>3, <1>4
<1> QED
  BY <1>5, <1>6, <1>7

\* What is stepped on.
LEMMA SteppedShapes ==
  ASSUME NEW s \in Square, NEW t \in Square, NEW color \in Color
  PROVE  /\ t \in Range(stepsFrom(s, knightSteps)) \ {NoSquare} <=>
               {distance(row(s), row(t)), distance(col(s), col(t))} = {1, 2}
         /\ t \in Range(stepsFrom(s, kingSteps)) \ {NoSquare} <=>
               s # t /\ distance(row(s), row(t)) <= 1 /\ distance(col(s), col(t)) <= 1
         /\ t \in Range(stepsFrom(s, pawnSteps(color))) \ {NoSquare} <=>
               /\ distance(col(s), col(t)) = 1
               /\ row(t) = IF color = "WHITE" THEN row(s) + 1 ELSE row(s) - 1
<1>1. Range(stepsFrom(s, knightSteps)) \ {NoSquare} = {stepped(s, m) : m \in KnightStep} \cap Square
  <2>1. Steps(knightSteps, 8, KnightStep)
    BY StepLists
  <2> QED
    BY <2>1, StepsProper
<1>2. Range(stepsFrom(s, kingSteps)) \ {NoSquare} = {stepped(s, m) : m \in Direction} \cap Square
  <2>1. Steps(kingSteps, 8, Direction)
    BY StepLists
  <2> QED
    BY <2>1, StepsProper
<1>3. Range(stepsFrom(s, pawnSteps(color))) \ {NoSquare} =
         {stepped(s, m) : m \in pawnStep(color)} \cap Square
  <2>1. Steps(pawnSteps(color), 2, pawnStep(color))
    BY StepLists
  <2> QED
    BY <2>1, StepsProper
<1>4. t \in {stepped(s, m) : m \in KnightStep} \cap Square <=>
         {distance(row(s), row(t)), distance(col(s), col(t))} = {1, 2}
  <2>1. t \in {stepped(s, m) : m \in KnightStep} \cap Square <=>
          \E m \in KnightStep : stepped(s, m) = t
    OBVIOUS
  <2> QED
    BY <2>1, KnightShape
<1>5. t \in {stepped(s, m) : m \in Direction} \cap Square <=>
         s # t /\ distance(row(s), row(t)) <= 1 /\ distance(col(s), col(t)) <= 1
  <2>1. t \in {stepped(s, m) : m \in Direction} \cap Square <=>
          \E m \in Direction : stepped(s, m) = t
    OBVIOUS
  <2> QED
    BY <2>1, KingShape
<1>6. t \in {stepped(s, m) : m \in pawnStep(color)} \cap Square <=>
         /\ distance(col(s), col(t)) = 1
         /\ row(t) = IF color = "WHITE" THEN row(s) + 1 ELSE row(s) - 1
  <2>1. t \in {stepped(s, m) : m \in pawnStep(color)} \cap Square <=>
          \E m \in pawnStep(color) : stepped(s, m) = t
    OBVIOUS
  <2> QED
    BY <2>1, PawnShape
<1>7. t \in Range(stepsFrom(s, knightSteps)) \ {NoSquare} <=>
         {distance(row(s), row(t)), distance(col(s), col(t))} = {1, 2}
  BY <1>1, <1>4
<1>8. t \in Range(stepsFrom(s, kingSteps)) \ {NoSquare} <=>
         s # t /\ distance(row(s), row(t)) <= 1 /\ distance(col(s), col(t)) <= 1
  BY <1>2, <1>5
<1>9. t \in Range(stepsFrom(s, pawnSteps(color))) \ {NoSquare} <=>
         /\ distance(col(s), col(t)) = 1
         /\ row(t) = IF color = "WHITE" THEN row(s) + 1 ELSE row(s) - 1
  BY <1>3, <1>6
<1> QED
  BY <1>7, <1>8, <1>9

\* The squares a piece bears on are those the rules say.
LEMMA BearingIsBears ==
  ASSUME NEW b, NEW id, Standing(b, id), NEW t \in Square
  PROVE  t \in bearing(b, id) <=> bears(b, id, t)
<1> DEFINE s == b.piece[id].position
           y == b.piece[id].type
           color == getColor(id)
           at == b.at
<1>1. s \in Square /\ y \in Type /\ color \in Color
  BY IdColor DEF Standing
<1>2. /\ y = "ROOK" => bearing(b, id) = seen(at, s, cardinals)
      /\ y = "BISHOP" => bearing(b, id) = seen(at, s, diagonals)
      /\ y = "QUEEN" => bearing(b, id) = seen(at, s, cardinals \cup diagonals)
      /\ y = "KNIGHT" => bearing(b, id) = Range(stepsFrom(s, knightSteps)) \ {NoSquare}
      /\ y = "KING" => bearing(b, id) = Range(stepsFrom(s, kingSteps)) \ {NoSquare}
      /\ y = "PAWN" => bearing(b, id) = Range(stepsFrom(s, pawnSteps(color))) \ {NoSquare}
  BY DEF bearing
<1>3. bears(b, id, t) <=>
        /\ s # t
        /\ shape(y, color, s, t)
        /\ y \in {"ROOK", "BISHOP", "QUEEN"} => Clear(at, s, t)
  BY DEF bears, Clear
<1>4. /\ y = "ROOK" => (shape(y, color, s, t) <=> Straight(s, t))
      /\ y = "BISHOP" => (shape(y, color, s, t) <=> Diagonal(s, t))
      /\ y = "QUEEN" => (shape(y, color, s, t) <=> Straight(s, t) \/ Diagonal(s, t))
      /\ y = "KNIGHT" => (shape(y, color, s, t) <=>
            {distance(row(s), row(t)), distance(col(s), col(t))} = {1, 2})
      /\ y = "KING" => (shape(y, color, s, t) <=>
            distance(row(s), row(t)) <= 1 /\ distance(col(s), col(t)) <= 1)
      /\ y = "PAWN" => (shape(y, color, s, t) <=>
            /\ distance(col(s), col(t)) = 1
            /\ row(t) = IF color = "WHITE" THEN row(s) + 1 ELSE row(s) - 1)
  BY DEF shape, Straight, Diagonal
<1>5. ({distance(row(s), row(t)), distance(col(s), col(t))} = {1, 2} => s # t)
      /\ (distance(col(s), col(t)) = 1 => s # t)
  <2>1. SUFFICES ASSUME s = t PROVE distance(row(s), row(t)) = 0 /\ distance(col(s), col(t)) = 0
    OBVIOUS
  <2>2. row(s) \in Int /\ col(s) \in Int
    BY <1>1, Coordinates
  <2> QED
    BY <2>1, <2>2 DEF distance
<1>6. /\ t \in seen(at, s, cardinals) <=> s # t /\ Straight(s, t) /\ Clear(at, s, t)
      /\ t \in seen(at, s, diagonals) <=> s # t /\ Diagonal(s, t) /\ Clear(at, s, t)
      /\ t \in seen(at, s, cardinals \cup diagonals) <=>
            s # t /\ (Straight(s, t) \/ Diagonal(s, t)) /\ Clear(at, s, t)
  BY <1>1, SeenShapes
<1>7. /\ t \in Range(stepsFrom(s, knightSteps)) \ {NoSquare} <=>
            {distance(row(s), row(t)), distance(col(s), col(t))} = {1, 2}
      /\ t \in Range(stepsFrom(s, kingSteps)) \ {NoSquare} <=>
            s # t /\ distance(row(s), row(t)) <= 1 /\ distance(col(s), col(t)) <= 1
      /\ t \in Range(stepsFrom(s, pawnSteps(color))) \ {NoSquare} <=>
            /\ distance(col(s), col(t)) = 1
            /\ row(t) = IF color = "WHITE" THEN row(s) + 1 ELSE row(s) - 1
  BY <1>1, SteppedShapes
<1> HIDE DEF s, y, color, at, Straight, Diagonal, Clear, shape, bearing, bears, seen, Range
<1>8. y \in {"PAWN", "KNIGHT", "BISHOP", "ROOK", "QUEEN", "KING"}
  BY <1>1 DEF Type
<1>9. CASE y = "ROOK"
  BY <1>9, <1>2, <1>3, <1>4, <1>6
<1>10. CASE y = "BISHOP"
  BY <1>10, <1>2, <1>3, <1>4, <1>6
<1>11. CASE y = "QUEEN"
  BY <1>11, <1>2, <1>3, <1>4, <1>6
<1>12. CASE y = "KNIGHT"
  BY <1>12, <1>2, <1>3, <1>4, <1>5, <1>7
<1>13. CASE y = "KING"
  BY <1>13, <1>2, <1>3, <1>4, <1>7
<1>14. CASE y = "PAWN"
  BY <1>14, <1>2, <1>3, <1>4, <1>5, <1>7
<1> QED
  BY <1>8, <1>9, <1>10, <1>11, <1>12, <1>13, <1>14

\* The color of a type.
LEMMA ColorsOf ==
  ASSUME NEW p \in ID \cup {EMPTY}, NEW color \in Color
  PROVE  /\ getColor(p) = otherColor(color) <=> p # EMPTY /\ getColor(p) # color
         /\ p = EMPTY <=> getColor(p) = "EMPTY"
         /\ getColor(p) = "EMPTY" => getColor(p) # color
<1>1. p = EMPTY => getColor(p) = "EMPTY"
  BY DEF getColor
<1>2. p # EMPTY => getColor(p) \in Color
  BY IdColor
<1>3. color = "WHITE" \/ color = "BLACK"
  BY DEF Color
<1> QED
  BY <1>1, <1>2, <1>3 DEF Color, otherColor

\* A pawn's double step over a piece.
leaps(b, id, t) ==
    /\ b.piece[id].type = "PAWN"
    /\ distance(b.piece[id].position, t) = 16
    /\ b.at[(b.piece[id].position + t) \div 2] # EMPTY

\* A pawn's steps ahead, with the numbers of the code.
LEMMA AdvancesAre ==
  ASSUME NEW s \in Square, NEW t \in Square, NEW color \in Color,
         NEW f, f = IF color = "WHITE" THEN 8 ELSE -8
  PROVE  t \in Range(pawnAdvances(s, color)) <=>
            t = s + f \/ (row(s) = pawnRow(color) /\ t = s + 2 * f)
<1>1. 8 * pawnSteps(color)[1][1] = f
  <2>1. CASE color = "WHITE"
    BY <2>1 DEF pawnSteps, SouthEast
  <2>2. CASE color = "BLACK"
    BY <2>2 DEF pawnSteps, NorthEast
  <2> QED
    BY <2>1, <2>2 DEF Color
<1> DEFINE p == IF row(s) = pawnRow(color) THEN s + 2 * f ELSE NoSquare
           q == s + f
<1>2. pawnAdvances(s, color) = <<p, q>>
  BY <1>1 DEF pawnAdvances
<1>3. t # NoSquare
  BY Coordinates
<1> HIDE DEF p, q
<1>4. t \in Range(<<p, q>>) <=> t = p \/ t = q
  <2>1. DOMAIN <<p, q>> = {1, 2} /\ <<p, q>>[1] = p /\ <<p, q>>[2] = q
    BY Z3
  <2> DEFINE w == <<p, q>>
  <2>2. Range(w) = {w[i] : i \in DOMAIN w}
    BY DEF Range
  <2> HIDE DEF w
  <2>3. DOMAIN w = {1, 2} /\ w[1] = p /\ w[2] = q
    BY <2>1 DEF w
  <2>4. t \in Range(w) <=> t = p \/ t = q
    BY <2>2, <2>3
  <2> QED
    BY <2>4 DEF w
<1> QED
  BY <1>2, <1>3, <1>4 DEF p, q

\* What a piece may go to, its king aside, is a move of the rules.
LEMMA TargetsAreMoves ==
  ASSUME NEW b, BoardOK(b), NEW id \in inPlay(b), NEW t \in Square
  PROVE  /\ t \in targets(b, id) => mayMove(b, id, t) \/ leaps(b, id, t)
         /\ mayMove(b, id, t) => t \in targets(b, id)
<1> DEFINE s == b.piece[id].position
           color == getColor(id)
           p == b.at[t]
           f == IF color = "WHITE" THEN 8 ELSE -8
<1>1. Standing(b, id) /\ id \in ID
  BY InPlayStanding
<1>2. s \in Square /\ color \in Color
  BY <1>1, IdColor DEF Standing
<1>3. p \in ID \cup {EMPTY}
  BY DEF BoardOK, Boards
<1>4. t \in bearing(b, id) <=> bears(b, id, t)
  BY <1>1, BearingIsBears
<1>5. getColor(p) = otherColor(color) <=> p # EMPTY /\ getColor(p) # color
  BY <1>2, <1>3, ColorsOf
<1>6. CASE b.piece[id].type # "PAWN"
  <2>1. t \in targets(b, id) <=> t \in bearing(b, id) /\ getColor(p) # color
    BY <1>6 DEF targets
  <2>2. mayMove(b, id, t) <=> bears(b, id, t) /\ getColor(p) # color
    BY <1>6 DEF mayMove
  <2> QED
    BY <2>1, <2>2, <1>4
<1>7. CASE b.piece[id].type = "PAWN"
  <2>1. t \in targets(b, id) <=>
          \/ t \in Range(pawnAdvances(s, color)) /\ p = EMPTY
          \/ t \in bearing(b, id) /\ getColor(p) = otherColor(color)
    BY <1>7 DEF targets
  <2>2. mayMove(b, id, t) <=>
          \/ steps(b, id, t)
          \/ bears(b, id, t) /\ p # EMPTY /\ getColor(p) # color
    BY <1>7 DEF mayMove
  <2>3. t \in Range(pawnAdvances(s, color)) <=>
          t = s + f \/ (row(s) = pawnRow(color) /\ t = s + 2 * f)
    BY <1>2, AdvancesAre
  <2>4. steps(b, id, t) <=>
          /\ p = EMPTY
          /\ \/ t = s + f
             \/ row(s) = pawnRow(color) /\ t = s + 2 * f /\ b.at[s + f] = EMPTY
    BY DEF steps
  <2>5. ASSUME t = s + 2 * f, b.at[s + f] # EMPTY PROVE leaps(b, id, t)
    <3>1. distance(s, t) = 16 /\ (s + t) \div 2 = s + f
      <4>1. CASE color = "WHITE"
        BY <4>1, <2>5, <1>2 DEF distance, Square
      <4>2. CASE color # "WHITE"
        BY <4>2, <2>5, <1>2 DEF distance, Square
      <4> QED
        BY <4>1, <4>2
    <3> QED
      BY <3>1, <2>5, <1>7 DEF leaps
  <2> HIDE DEF s, color, p, f
  <2>6. t \in targets(b, id) => mayMove(b, id, t) \/ leaps(b, id, t)
    BY <2>1, <2>2, <2>3, <2>4, <2>5, <1>4, <1>5
  <2>7. mayMove(b, id, t) => t \in targets(b, id)
    BY <2>1, <2>2, <2>3, <2>4, <1>4, <1>5
  <2> QED
    BY <2>6, <2>7
<1> QED
  BY <1>6, <1>7

\* What no move can do: take a piece of its own side, or stay where it is.
LEMMA MovesElsewhere ==
  ASSUME NEW b, BoardOK(b), NEW id \in inPlay(b), NEW t \in Square, mayMove(b, id, t)
  PROVE  getColor(b.at[t]) # getColor(id) /\ b.at[t] # id
<1>1. id \in ID
  BY DEF inPlay
<1>2. b.at[t] \in ID \cup {EMPTY}
  BY DEF BoardOK, Boards
<1>3. getColor(id) \in Color
  BY <1>1, IdColor
<1>4. b.at[t] = EMPTY => getColor(b.at[t]) # getColor(id)
  BY <1>2, <1>3, ColorsOf
<1>5. getColor(b.at[t]) # getColor(id)
  BY <1>4 DEF mayMove, steps
<1> QED
  BY <1>5

-----------------------------------------------------------------------------
(* Checks: genChecked against the rules, when the kings stand apart        *)

\* Squares are as far from each other both ways.
LEMMA DistanceBack ==
  ASSUME NEW s \in Square, NEW t \in Square
  PROVE  /\ distance(row(s), row(t)) = distance(row(t), row(s))
         /\ distance(col(s), col(t)) = distance(col(t), col(s))
<1> DEFINE r == row(s)
           c == col(s)
           x == row(t)
           y == col(t)
<1>1. r \in Int /\ c \in Int /\ x \in Int /\ y \in Int
  BY Coordinates
<1> HIDE DEF r, c, x, y
<1>2. distance(r, x) = distance(x, r) /\ distance(c, y) = distance(y, c)
  BY <1>1 DEF distance
<1> QED
  BY <1>2 DEF r, c, x, y

\* The squares between are the same from either end.
LEMMA BetweenBack ==
  ASSUME NEW s \in Square, NEW t \in Square, NEW d \in Direction, NEW n \in 1 .. 8,
         On(s, t, d, n)
  PROVE  between[s][t] = between[t][s]
<1>1. \A a, z \in Square : \A e \in Direction : On(a, z, e, n) =>
         between[a][z] \subseteq between[z][a]
  <2> SUFFICES ASSUME NEW a \in Square, NEW z \in Square, NEW e \in Direction, On(a, z, e, n),
                      NEW u \in between[a][z]
               PROVE  u \in between[z][a]
    OBVIOUS
  <2>1. PICK i \in 1 .. n - 1 : On(a, u, e, i) /\ u \in Square
    BY BetweenIs
  <2>2. i \in 1 .. 8 /\ i < n /\ n - i \in 1 .. n - 1 /\ n - i \in 1 .. 8
    BY <2>1
  <2>3. On(u, z, e, n - i)
    BY <2>1, <2>2, OnTheWay
  <2>4. opposite(e) \in Direction /\ On(z, u, opposite(e), n - i) /\ On(z, a, opposite(e), n)
    BY <2>1, <2>2, <2>3, Backwards
  <2>5. between[z][a] = {w \in Square : \E k \in 1 .. n - 1 : On(z, w, opposite(e), k)}
    BY <2>4, BetweenIs
  <2> QED
    BY <2>1, <2>2, <2>4, <2>5
<1>2. opposite(d) \in Direction /\ On(t, s, opposite(d), n)
  BY Backwards
<1> QED
  BY <1>1, <1>2

\* A piece stands on one square.
LEMMA StandsOn ==
  ASSUME NEW b, BoardOK(b), NEW id \in ID, NEW s \in Square
  PROVE  /\ b.at[s] = id <=> b.piece[id].position = s
         /\ b.piece[id].position = s => id \in inPlay(b)
<1>1. b.at[s] = id <=> b.piece[id].position = s
  BY DEF BoardOK, Agreed
<1>2. s # NoSquare
  BY Coordinates
<1> QED
  BY <1>1, <1>2 DEF inPlay

\* The nth line on which the king of color on k is looked for.
LineIs(b, color, k, n, l) ==
    /\ n <= 8 => /\ l.target = stepped(k, knightSteps[n])
                 /\ l.squares = {l.target} /\ l.types = {"KNIGHT"}
    /\ 8 < n /\ n <= 10 => /\ l.target = stepped(k, pawnSteps(color)[n - 8])
                           /\ l.squares = {l.target} /\ l.types = {"PAWN"}
    /\ 10 < n => /\ l.target = firstMet(b.at, k, directions[n - 10])
                 /\ l.squares = visible(b.at, k, directions[n - 10])
                 /\ l.types = getMatchingSet(directions[n - 10])

\* The squares of the line of a check.
LEMMA CheckLineIs ==
  ASSUME NEW b, NEW color \in Color, NEW n \in 1 .. 18
  PROVE  LineIs(b, color, kingPlace(b, color), n, checkLines(b, color)[n])
<1> DEFINE l == checkLines(b, color)[n]
           k == kingPlace(b, color)
<1>1. l = IF n <= 8 THEN [target |-> stepped(k, knightSteps[n]),
                          squares |-> {stepped(k, knightSteps[n])}, types |-> {"KNIGHT"}]
          ELSE IF n <= 10 THEN [target |-> stepped(k, pawnSteps(color)[n - 8]),
                                squares |-> {stepped(k, pawnSteps(color)[n - 8])},
                                types |-> {"PAWN"}]
          ELSE [target |-> firstMet(b.at, k, directions[n - 10]),
                squares |-> visible(b.at, k, directions[n - 10]),
                types |-> getMatchingSet(directions[n - 10])]
  BY DEF checkLines, kingPlace
<1> DEFINE a == stepped(k, knightSteps[n])
           c == stepped(k, pawnSteps(color)[n - 8])
           e == firstMet(b.at, k, directions[n - 10])
           f == visible(b.at, k, directions[n - 10])
           h == getMatchingSet(directions[n - 10])
<1>2. l = IF n <= 8 THEN [target |-> a, squares |-> {a}, types |-> {"KNIGHT"}]
          ELSE IF n <= 10 THEN [target |-> c, squares |-> {c}, types |-> {"PAWN"}]
          ELSE [target |-> e, squares |-> f, types |-> h]
  BY <1>1
<1> HIDE DEF a, c, e, f, h
<1>3. /\ n <= 8 => l.target = a /\ l.squares = {l.target} /\ l.types = {"KNIGHT"}
      /\ 8 < n /\ n <= 10 => l.target = c /\ l.squares = {l.target} /\ l.types = {"PAWN"}
      /\ 10 < n => l.target = e /\ l.squares = f /\ l.types = h
  <2> HIDE DEF l
  <2> QED
    BY <1>2
<1> QED
  BY <1>3 DEF a, c, e, f, h, LineIs

\* Every line from a square goes in a direction of the list.
LEMMA EveryDirection ==
  \A d \in Direction : \E n \in 1 .. 8 : directions[n] = d
<1>1. /\ directions[1] = North /\ directions[2] = South /\ directions[3] = East
      /\ directions[4] = West /\ directions[5] = NorthEast /\ directions[6] = SouthWest
      /\ directions[7] = SouthEast /\ directions[8] = NorthWest
  BY DEF directions
<1>2. \A d \in Direction : d \in {North, South, East, West, NorthEast, SouthWest, NorthWest,
                                  SouthEast}
  BY Compass DEF Direction
<1> HIDE DEF directions, Direction
<1> QED
  BY <1>1, <1>2

\* The pieces that move along lines.
Slider == {"ROOK", "BISHOP", "QUEEN"}

\* Which types each direction is looked along for (getMatchingSet).
LEMMA MatchingSets ==
  ASSUME NEW d \in Direction
  PROVE  /\ "ROOK" \in getMatchingSet(d) <=> d \in cardinals
         /\ "BISHOP" \in getMatchingSet(d) <=> d \in diagonals
         /\ "QUEEN" \in getMatchingSet(d)
         /\ getMatchingSet(d) \subseteq Slider
<1>1. d \in cardinals <=> d \notin diagonals
  BY Compass DEF Direction
<1> QED
  BY <1>1 DEF getMatchingSet, Slider

\* A slider bears on what it can be seen from, looking back along a line of its own.
LEMMA SlidesBack ==
  ASSUME NEW b, NEW id, Standing(b, id), NEW k \in Square, b.piece[id].type \in Slider
  PROVE  bears(b, id, k) <=>
            \E d \in Direction : /\ b.piece[id].type \in getMatchingSet(d)
                                 /\ Clear(b.at, k, b.piece[id].position)
                                 /\ \E n \in 1 .. 8 : On(k, b.piece[id].position, d, n)
<1> DEFINE s == b.piece[id].position
           y == b.piece[id].type
<1>1. s \in Square
  BY DEF Standing
<1>2. bears(b, id, k) <=> s # k /\ shape(y, getColor(id), s, k) /\ Clear(b.at, s, k)
  BY DEF bears, Clear, Slider
<1>3. /\ y = "ROOK" => (shape(y, getColor(id), s, k) <=> Straight(s, k))
      /\ y = "BISHOP" => (shape(y, getColor(id), s, k) <=> Diagonal(s, k))
      /\ y = "QUEEN" => (shape(y, getColor(id), s, k) <=> Straight(s, k) \/ Diagonal(s, k))
  BY DEF shape, Straight, Diagonal
<1>4. (Straight(s, k) <=> Straight(k, s)) /\ (Diagonal(s, k) <=> Diagonal(k, s))
  BY <1>1, DistanceBack DEF Straight, Diagonal
<1>5. \A d \in Direction, n \in 1 .. 8 : On(k, s, d, n) =>
         /\ s # k
         /\ d \in cardinals <=> Straight(k, s)
         /\ d \in diagonals <=> Diagonal(k, s)
         /\ Clear(b.at, s, k) <=> Clear(b.at, k, s)
  <2> SUFFICES ASSUME NEW d \in Direction, NEW n \in 1 .. 8, On(k, s, d, n)
               PROVE  /\ s # k
                      /\ d \in cardinals <=> Straight(k, s)
                      /\ d \in diagonals <=> Diagonal(k, s)
                      /\ Clear(b.at, s, k) <=> Clear(b.at, k, s)
    OBVIOUS
  <2> HIDE DEF s
  <2>1. /\ k # s /\ (d \in cardinals <=> Straight(k, s)) /\ (d \in diagonals <=> Diagonal(k, s))
    BY <1>1, OnShape
  <2>2. between[k][s] = between[s][k]
    BY <1>1, BetweenBack
  <2> QED
    BY <2>1, <2>2 DEF Clear
<1>6. /\ s # k /\ Straight(k, s) => \E d \in cardinals : \E n \in 1 .. 8 : On(k, s, d, n)
      /\ s # k /\ Diagonal(k, s) => \E d \in diagonals : \E n \in 1 .. 8 : On(k, s, d, n)
  <2> HIDE DEF s
  <2>1. \A n \in 1 .. 7 : n \in 1 .. 8
    OBVIOUS
  <2>2. /\ s # k /\ Straight(k, s) => \E d \in cardinals : \E n \in 1 .. 7 : On(k, s, d, n)
        /\ s # k /\ Diagonal(k, s) => \E d \in diagonals : \E n \in 1 .. 7 : On(k, s, d, n)
    BY <1>1, LineThrough
  <2> QED
    BY <2>1, <2>2
<1>7. cardinals \subseteq Direction /\ diagonals \subseteq Direction
  BY Compass
<1>8. y = "ROOK" \/ y = "BISHOP" \/ y = "QUEEN"
  BY DEF Slider
<1> HIDE DEF s, y, Straight, Diagonal, Clear, On, shape, bears, Direction, cardinals, diagonals
<1>9. \A d \in Direction : /\ y = "ROOK" => (y \in getMatchingSet(d) <=> d \in cardinals)
                           /\ y = "BISHOP" => (y \in getMatchingSet(d) <=> d \in diagonals)
                           /\ y = "QUEEN" => y \in getMatchingSet(d)
                           /\ d \in cardinals \/ d \in diagonals
  BY MatchingSets DEF Direction
<1>10. CASE y = "ROOK"
  <2>1. ASSUME bears(b, id, k)
        PROVE  \E d \in Direction : /\ y \in getMatchingSet(d) /\ Clear(b.at, k, s)
                                    /\ \E n \in 1 .. 8 : On(k, s, d, n)
    <3>1. s # k /\ Straight(k, s) /\ Clear(b.at, s, k)
      BY <2>1, <1>10, <1>2, <1>3, <1>4
    <3>2. PICK d \in cardinals : \E n \in 1 .. 8 : On(k, s, d, n)
      BY <3>1, <1>6
    <3>3. d \in Direction
      BY <1>7
    <3> QED
      BY <3>1, <3>2, <3>3, <1>5, <1>9, <1>10
  <2>2. ASSUME NEW d \in Direction, y \in getMatchingSet(d), Clear(b.at, k, s),
               NEW n \in 1 .. 8, On(k, s, d, n)
        PROVE  bears(b, id, k)
    <3>1. d \in cardinals
      BY <2>2, <1>10, <1>9
    <3> QED
      BY <2>2, <3>1, <1>10, <1>2, <1>3, <1>4, <1>5
  <2> QED
    BY <2>1, <2>2 DEF s, y
<1>11. CASE y = "BISHOP"
  <2>1. ASSUME bears(b, id, k)
        PROVE  \E d \in Direction : /\ y \in getMatchingSet(d) /\ Clear(b.at, k, s)
                                    /\ \E n \in 1 .. 8 : On(k, s, d, n)
    <3>1. s # k /\ Diagonal(k, s) /\ Clear(b.at, s, k)
      BY <2>1, <1>11, <1>2, <1>3, <1>4
    <3>2. PICK d \in diagonals : \E n \in 1 .. 8 : On(k, s, d, n)
      BY <3>1, <1>6
    <3>3. d \in Direction
      BY <1>7
    <3> QED
      BY <3>1, <3>2, <3>3, <1>5, <1>9, <1>11
  <2>2. ASSUME NEW d \in Direction, y \in getMatchingSet(d), Clear(b.at, k, s),
               NEW n \in 1 .. 8, On(k, s, d, n)
        PROVE  bears(b, id, k)
    <3>1. d \in diagonals
      BY <2>2, <1>11, <1>9
    <3> QED
      BY <2>2, <3>1, <1>11, <1>2, <1>3, <1>4, <1>5
  <2> QED
    BY <2>1, <2>2 DEF s, y
<1>12. CASE y = "QUEEN"
  <2>1. ASSUME bears(b, id, k)
        PROVE  \E d \in Direction : /\ y \in getMatchingSet(d) /\ Clear(b.at, k, s)
                                    /\ \E n \in 1 .. 8 : On(k, s, d, n)
    <3>1. s # k /\ (Straight(k, s) \/ Diagonal(k, s)) /\ Clear(b.at, s, k)
      BY <2>1, <1>12, <1>2, <1>3, <1>4
    <3>2. \E d \in Direction : \E n \in 1 .. 8 : On(k, s, d, n)
      BY <3>1, <1>6, <1>7
    <3> QED
      BY <3>1, <3>2, <1>5, <1>9, <1>12
  <2>2. ASSUME NEW d \in Direction, Clear(b.at, k, s), NEW n \in 1 .. 8, On(k, s, d, n)
        PROVE  bears(b, id, k)
    BY <2>2, <1>12, <1>2, <1>3, <1>4, <1>5, <1>9
  <2> QED
    BY <2>1, <2>2 DEF s, y
<1> QED
  BY <1>8, <1>10, <1>11, <1>12 DEF s, y

\* The same for knights and pawns.
LEMMA StepsBack ==
  ASSUME NEW b, NEW id, Standing(b, id), NEW k \in Square
  PROVE  /\ b.piece[id].type = "KNIGHT" =>
               (bears(b, id, k) <=>
                  \E m \in KnightStep : stepped(k, m) = b.piece[id].position)
         /\ b.piece[id].type = "PAWN" =>
               (bears(b, id, k) <=>
                  \E m \in pawnStep(otherColor(getColor(id))) :
                     stepped(k, m) = b.piece[id].position)
<1> DEFINE s == b.piece[id].position
           color == getColor(id)
<1>1. s \in Square /\ color \in Color /\ otherColor(color) \in Color
  BY IdColor, OtherColor DEF Standing
<1>2. /\ distance(row(s), row(k)) = distance(row(k), row(s))
      /\ distance(col(s), col(k)) = distance(col(k), col(s))
  BY <1>1, DistanceBack
<1>3. CASE b.piece[id].type = "KNIGHT"
  <2>1. bears(b, id, k) <=>
          s # k /\ {distance(row(s), row(k)), distance(col(s), col(k))} = {1, 2}
    BY <1>3 DEF bears, shape
  <2>2. (\E m \in KnightStep : stepped(k, m) = s) <=>
          {distance(row(k), row(s)), distance(col(k), col(s))} = {1, 2}
    BY <1>1, KnightShape
  <2>3. s = k => distance(row(s), row(k)) = 0 /\ distance(col(s), col(k)) = 0
    BY <1>1, Coordinates DEF distance
  <2> HIDE DEF s, distance, row, col
  <2> QED
    BY <1>2, <1>3, <2>1, <2>2, <2>3 DEF s
<1>4. CASE b.piece[id].type = "PAWN"
  <2>1. bears(b, id, k) <=>
          /\ s # k
          /\ distance(col(s), col(k)) = 1
          /\ row(k) = IF color = "WHITE" THEN row(s) + 1 ELSE row(s) - 1
    BY <1>4 DEF bears, shape
  <2>2. (\E m \in pawnStep(otherColor(color)) : stepped(k, m) = s) <=>
          /\ distance(col(k), col(s)) = 1
          /\ row(s) = IF otherColor(color) = "WHITE" THEN row(k) + 1 ELSE row(k) - 1
    BY <1>1, PawnShape
  <2>3. s = k => distance(col(s), col(k)) = 0
    BY <1>1, Coordinates DEF distance
  <2>4. (row(k) = IF color = "WHITE" THEN row(s) + 1 ELSE row(s) - 1) <=>
          (row(s) = IF otherColor(color) = "WHITE" THEN row(k) + 1 ELSE row(k) - 1)
    <3>1. row(k) \in Int /\ row(s) \in Int
      BY <1>1, Coordinates
    <3>2. otherColor(color) = "WHITE" <=> color # "WHITE"
      BY DEF otherColor
    <3> HIDE DEF row, color, s
    <3> QED
      BY <3>1, <3>2
  <2> HIDE DEF s, distance, row, col, color
  <2>5. bears(b, id, k) <=> \E m \in pawnStep(otherColor(color)) : stepped(k, m) = s
    BY <1>2, <2>1, <2>2, <2>3, <2>4
  <2> QED
    BY <2>5, <1>4 DEF s, color
<1> QED
  BY <1>3, <1>4

\* Both kings are in play, and not next to each other.
KingsStand(b) ==
    /\ 8 \in inPlay(b) /\ 24 \in inPlay(b)
    /\ apart(b.piece[8].position, b.piece[24].position)

\* The types of the kings.
LEMMA KingTypes ==
  ASSUME NEW b, BoardOK(b)
  PROVE  \A id \in ID : b.piece[id].type = "KING" <=> id \in {8, 24}
<1>1. \A id \in ID : id \notin {8, 24} => b.piece[id].type # "KING"
  BY NotAKing
<1>2. 8 \in ID /\ 24 \in ID
  BY DEF ID
<1>3. homeType[8] = "KING" /\ homeType[24] = "KING"
  BY <1>2, HomeTypes
<1>4. b.piece[8].type = "KING" /\ b.piece[24].type = "KING"
  BY <1>2, <1>3 DEF BoardOK, Suited
<1> QED
  BY <1>1, <1>4

\* Both kings stand on a square.
LEMMA KingsStanding ==
  ASSUME NEW b, BoardOK(b), KingsStand(b), NEW color \in Color
  PROVE  /\ kingOf(color) \in inPlay(b) /\ Standing(b, kingOf(color))
         /\ kingPlace(b, color) \in Square
         /\ kingPlace(b, color) = b.piece[kingOf(color)].position
         /\ b.at[kingPlace(b, color)] = kingOf(color)
         /\ getColor(kingOf(color)) = color
<1>1. kingOf(color) \in inPlay(b)
  BY DEF KingsStand, kingOf
<1>2. Standing(b, kingOf(color)) /\ kingOf(color) \in ID
  BY <1>1, InPlayStanding
<1>3. kingPlace(b, color) \in Square /\ kingPlace(b, color) = b.piece[kingOf(color)].position
  BY <1>2 DEF Standing, kingPlace
<1>4. b.at[kingPlace(b, color)] = kingOf(color)
  BY <1>2, <1>3, StandsOn
<1> QED
  BY <1>1, <1>2, <1>3, <1>4, KingPlace

\* Kings that stand apart give no check.
LEMMA KingsDoNotCheck ==
  ASSUME NEW b, BoardOK(b), KingsStand(b), NEW color \in Color, NEW id \in ID,
         getColor(id) # color, bears(b, id, kingPlace(b, color))
  PROVE  b.piece[id].type # "KING"
<1> SUFFICES ASSUME id \in {8, 24} PROVE FALSE
  BY KingTypes
<1> DEFINE s == b.piece[8].position
           t == b.piece[24].position
<1>1. s \in Square /\ t \in Square /\ apart(s, t)
  BY InPlayStanding DEF KingsStand, Standing
<1>2. getColor(8) = "WHITE" /\ getColor(24) = "BLACK"
  BY DEF getColor, EMPTY
<1>3. b.piece[id].type = "KING"
  BY KingTypes
<1>4. \/ id = 8 /\ kingPlace(b, color) = t
      \/ id = 24 /\ kingPlace(b, color) = s
  BY <1>2 DEF kingPlace, kingOf, Color
<1>5. \/ distance(row(s), row(t)) <= 1 /\ distance(col(s), col(t)) <= 1
      \/ distance(row(t), row(s)) <= 1 /\ distance(col(t), col(s)) <= 1
  BY <1>3, <1>4 DEF bears, shape
<1> DEFINE r == row(s)
           c == col(s)
           x == row(t)
           y == col(t)
<1>6. r \in Int /\ c \in Int /\ x \in Int /\ y \in Int
  BY <1>1, Coordinates
<1>7. /\ r - x \notin -1 .. 1 \/ c - y \notin -1 .. 1
      /\ \/ distance(r, x) <= 1 /\ distance(c, y) <= 1
         \/ distance(x, r) <= 1 /\ distance(y, c) <= 1
  BY <1>1, <1>5 DEF apart
<1> HIDE DEF r, c, x, y
<1> QED
  BY <1>6, <1>7 DEF distance

\* The first piece along a line.
LEMMA FirstMetIs ==
  ASSUME NEW at, NEW k \in Square, NEW d \in Direction, NEW s \in Square, at[s] # EMPTY
  PROVE  firstMet(at, k, d) = s <=> Clear(at, k, s) /\ \E n \in 1 .. 8 : On(k, s, d, n)
<1>1. k \in Place
  BY DEF Place
<1>2. s \in visible(at, k, d) <=> firstMet(at, k, d) = s
  BY <1>1, SeenOnLine, OffBoard
<1> QED
  BY <1>2, SeenIs

\* The checks that genChecked looks for are those of the rules.
LEMMA ChecksAre ==
  ASSUME NEW b, BoardOK(b), KingsStand(b), NEW color \in Color, NEW id \in inPlay(b),
         getColor(id) # color
  PROVE  bears(b, id, kingPlace(b, color)) <=>
            \E n \in 1 .. 18 : /\ givesCheck(b, color, checkLines(b, color)[n])
                               /\ b.at[checkLines(b, color)[n].target] = id
<1> DEFINE k == kingPlace(b, color)
           s == b.piece[id].position
           y == b.piece[id].type
<1>1. k \in Square /\ Standing(b, id) /\ s \in Square /\ id \in ID /\ y \in Type
  BY KingsStanding, InPlayStanding DEF Standing
<1>2. id # EMPTY /\ b.at[s] = id
  <2>1. b.at[s] = id
    BY <1>1, StandsOn
  <2> QED
    BY <2>1, <1>1 DEF ID, EMPTY
<1>3. \A n \in 1 .. 18 : \A l : l = checkLines(b, color)[n] =>
         (givesCheck(b, color, l) /\ b.at[l.target] = id <=> l.target = s /\ y \in l.types)
  <2> SUFFICES ASSUME NEW l
               PROVE  givesCheck(b, color, l) /\ b.at[l.target] = id <=>
                        l.target = s /\ y \in l.types
    OBVIOUS
  <2>1. l.target \in Square => (b.at[l.target] = id <=> l.target = s)
    BY <1>1, StandsOn
  <2> QED
    BY <1>1, <1>2, <2>1 DEF givesCheck
<1>4. color = otherColor(getColor(id))
  <2>1. getColor(id) \in Color
    BY <1>1, IdColor
  <2> QED
    BY <2>1 DEF Color, otherColor
<1> DEFINE found == \E n \in 1 .. 18 : /\ givesCheck(b, color, checkLines(b, color)[n])
                                       /\ b.at[checkLines(b, color)[n].target] = id
<1>5. found <=> \E n \in 1 .. 18 : /\ checkLines(b, color)[n].target = s
                                   /\ y \in checkLines(b, color)[n].types
  <2>1. \A n \in 1 .. 18 : (/\ givesCheck(b, color, checkLines(b, color)[n])
                            /\ b.at[checkLines(b, color)[n].target] = id)
                           <=> (/\ checkLines(b, color)[n].target = s
                                /\ y \in checkLines(b, color)[n].types)
    BY <1>3
  <2> QED
    BY <2>1
<1>6. ASSUME NEW n \in 1 .. 8
      PROVE  /\ checkLines(b, color)[n].target = stepped(k, knightSteps[n])
             /\ checkLines(b, color)[n].types = {"KNIGHT"}
  <2> DEFINE i == n
             l == checkLines(b, color)[i]
  <2>1. i \in 1 .. 18 /\ i <= 8
    OBVIOUS
  <2> HIDE DEF i
  <2>2. i <= 8 => l.target = stepped(k, knightSteps[i]) /\ l.types = {"KNIGHT"}
    <3>1. LineIs(b, color, k, i, l)
      BY <2>1, CheckLineIs
    <3> HIDE DEF l, k
    <3> QED
      BY <3>1 DEF LineIs
  <2> HIDE DEF l
  <2> QED
    BY <2>1, <2>2 DEF i, l
<1>7. ASSUME NEW n \in 1 .. 2
      PROVE  /\ checkLines(b, color)[n + 8].target = stepped(k, pawnSteps(color)[n])
             /\ checkLines(b, color)[n + 8].types = {"PAWN"}
  <2> DEFINE i == n + 8
             l == checkLines(b, color)[i]
  <2>1. i \in 1 .. 18 /\ 8 < i /\ i <= 10 /\ i - 8 = n
    OBVIOUS
  <2> HIDE DEF i
  <2>2. 8 < i /\ i <= 10 => l.target = stepped(k, pawnSteps(color)[i - 8]) /\ l.types = {"PAWN"}
    <3>1. LineIs(b, color, k, i, l)
      BY <2>1, CheckLineIs
    <3> HIDE DEF l, k
    <3> QED
      BY <3>1 DEF LineIs
  <2> HIDE DEF l
  <2> QED
    BY <2>1, <2>2 DEF i, l
<1>8. ASSUME NEW n \in 1 .. 8
      PROVE  /\ checkLines(b, color)[n + 10].target = firstMet(b.at, k, directions[n])
             /\ checkLines(b, color)[n + 10].types = getMatchingSet(directions[n])
  <2> DEFINE i == n + 10
             l == checkLines(b, color)[i]
  <2>1. i \in 1 .. 18 /\ 10 < i /\ i - 10 = n
    OBVIOUS
  <2> HIDE DEF i
  <2>2. 10 < i => /\ l.target = firstMet(b.at, k, directions[i - 10])
                  /\ l.types = getMatchingSet(directions[i - 10])
    <3>1. LineIs(b, color, k, i, l)
      BY <2>1, CheckLineIs
    <3> HIDE DEF l, k
    <3> QED
      BY <3>1 DEF LineIs
  <2> HIDE DEF l
  <2> QED
    BY <2>1, <2>2 DEF i, l
<1>9. found <=>
        \/ \E n \in 1 .. 8 : stepped(k, knightSteps[n]) = s /\ y = "KNIGHT"
        \/ \E n \in 1 .. 2 : stepped(k, pawnSteps(color)[n]) = s /\ y = "PAWN"
        \/ \E n \in 1 .. 8 : /\ firstMet(b.at, k, directions[n]) = s
                             /\ y \in getMatchingSet(directions[n])
  <2> DEFINE P(n) == /\ checkLines(b, color)[n].target = s
                     /\ y \in checkLines(b, color)[n].types
  <2>1. \A n \in 1 .. 8 : P(n) <=> stepped(k, knightSteps[n]) = s /\ y = "KNIGHT"
    BY <1>6
  <2>2. \A n \in 1 .. 2 : P(n + 8) <=> stepped(k, pawnSteps(color)[n]) = s /\ y = "PAWN"
    BY <1>7
  <2>3. \A n \in 1 .. 8 : P(n + 10) <=> /\ firstMet(b.at, k, directions[n]) = s
                                        /\ y \in getMatchingSet(directions[n])
    BY <1>8
  <2>4. found <=> \E n \in 1 .. 18 : P(n)
    BY <1>5
  <2> HIDE DEF P
  <2>5. (\E n \in 1 .. 18 : P(n)) <=>
          (\E n \in 1 .. 8 : P(n)) \/ (\E n \in 1 .. 2 : P(n + 8)) \/ (\E n \in 1 .. 8 : P(n + 10))
    <3>1. ASSUME NEW n \in 1 .. 18, P(n)
          PROVE  (\E i \in 1 .. 8 : P(i)) \/ (\E i \in 1 .. 2 : P(i + 8))
                 \/ (\E i \in 1 .. 8 : P(i + 10))
      <4>1. CASE n <= 8
        BY <4>1, <3>1
      <4>2. CASE 8 < n /\ n <= 10
        <5>1. n - 8 \in 1 .. 2 /\ (n - 8) + 8 = n
          BY <4>2
        <5>2. P((n - 8) + 8)
          BY <5>1, <3>1
        <5> QED
          BY <5>1, <5>2
      <4>3. CASE 10 < n
        <5>1. n - 10 \in 1 .. 8 /\ (n - 10) + 10 = n
          BY <4>3
        <5>2. P((n - 10) + 10)
          BY <5>1, <3>1
        <5> QED
          BY <5>1, <5>2
      <4> QED
        BY <4>1, <4>2, <4>3
    <3>2. \A n \in 1 .. 8 : n \in 1 .. 18 /\ n + 10 \in 1 .. 18
      OBVIOUS
    <3>3. \A n \in 1 .. 2 : n + 8 \in 1 .. 18
      OBVIOUS
    <3> QED
      BY <3>1, <3>2, <3>3
  <2> HIDE DEF found
  <2> QED
    BY <2>1, <2>2, <2>3, <2>4, <2>5
<1>10. (\E n \in 1 .. 8 : stepped(k, knightSteps[n]) = s) <=>
         \E m \in KnightStep : stepped(k, m) = s
  <2>1. /\ \A n \in 1 .. 8 : knightSteps[n] \in KnightStep
        /\ \A m \in KnightStep : \E n \in 1 .. 8 : knightSteps[n] = m
    BY EightSteps
  <2> HIDE DEF s, k
  <2> QED
    BY <2>1
<1>11. (\E n \in 1 .. 2 : stepped(k, pawnSteps(color)[n]) = s) <=>
         \E m \in pawnStep(color) : stepped(k, m) = s
  <2>1. /\ \A n \in 1 .. 2 : pawnSteps(color)[n] \in pawnStep(color)
        /\ \A m \in pawnStep(color) : \E n \in 1 .. 2 : pawnSteps(color)[n] = m
    BY StepLists DEF Steps
  <2> HIDE DEF s, k
  <2> QED
    BY <2>1
<1>12. (\E n \in 1 .. 8 : firstMet(b.at, k, directions[n]) = s
                         /\ y \in getMatchingSet(directions[n])) <=>
         \E d \in Direction : firstMet(b.at, k, d) = s /\ y \in getMatchingSet(d)
  <2>1. /\ \A n \in 1 .. 8 : directions[n] \in Direction
        /\ \A d \in Direction : \E n \in 1 .. 8 : directions[n] = d
    BY DirectionList, EveryDirection
  <2> HIDE DEF s, k, y
  <2> QED
    BY <2>1
<1>13. \A d \in Direction : firstMet(b.at, k, d) = s <=>
          Clear(b.at, k, s) /\ \E n \in 1 .. 8 : On(k, s, d, n)
  <2>1. b.at[s] # EMPTY
    BY <1>2
  <2> QED
    BY <2>1, <1>1, FirstMetIs
<1>14. \A d \in Direction : y \in getMatchingSet(d) => y \in Slider
  BY MatchingSets
<1>15. y = "KNIGHT" => (bears(b, id, k) <=> \E m \in KnightStep : stepped(k, m) = s)
  BY <1>1, StepsBack
<1>16. y = "PAWN" => (bears(b, id, k) <=> \E m \in pawnStep(color) : stepped(k, m) = s)
  BY <1>1, <1>4, StepsBack
<1>17. y \in Slider => (bears(b, id, k) <=>
         \E d \in Direction : firstMet(b.at, k, d) = s /\ y \in getMatchingSet(d))
  <2>1. y \in Slider => (bears(b, id, k) <=>
          \E d \in Direction : /\ y \in getMatchingSet(d) /\ Clear(b.at, k, s)
                               /\ \E n \in 1 .. 8 : On(k, s, d, n))
    BY <1>1, SlidesBack
  <2> HIDE DEF s, k, y, bears, Clear, On, Slider
  <2> QED
    BY <2>1, <1>13
<1>18. bears(b, id, k) => y # "KING"
  BY <1>1, KingsDoNotCheck
<1>19. y \in {"KNIGHT", "PAWN", "KING"} \/ y \in Slider
  BY <1>1 DEF Type, Slider
<1>20. y \in Slider => y # "KNIGHT" /\ y # "PAWN" /\ y # "KING"
  BY DEF Slider
<1> HIDE DEF found, k, s, y, bears, Slider, KnightStep, pawnStep, Direction
<1>21. found <=>
         \/ y = "KNIGHT" /\ \E m \in KnightStep : stepped(k, m) = s
         \/ y = "PAWN" /\ \E m \in pawnStep(color) : stepped(k, m) = s
         \/ \E d \in Direction : firstMet(b.at, k, d) = s /\ y \in getMatchingSet(d)
  BY <1>9, <1>10, <1>11, <1>12
<1>22. bears(b, id, k) <=> found
  BY <1>14, <1>15, <1>16, <1>17, <1>18, <1>19, <1>20, <1>21
<1> QED
  BY <1>22 DEF found, k

\* Where a check from id on the king on k can be met: on the checking piece's square,
\* or between.
wayOf(b, id, k) ==
    {b.piece[id].position} \cup
       (IF b.piece[id].type \in Slider THEN between[k][b.piece[id].position] ELSE {})

\* What is seen up to the first piece: the squares before it and its own.
LEMMA SeenUpTo ==
  ASSUME NEW at, NEW k \in Square, NEW d \in Direction, NEW s \in Square, at[s] # EMPTY,
         Clear(at, k, s), NEW n \in 1 .. 8, On(k, s, d, n)
  PROVE  visible(at, k, d) = {s} \cup between[k][s]
<1>1. between[k][s] = {u \in Square : \E i \in 1 .. n - 1 : On(k, u, d, i)}
  BY BetweenIs
<1>2. visible(at, k, d) \subseteq Square
  BY SeenOnLine DEF Place
<1>3. \A u \in Square, i \in 1 .. 8 : On(k, u, d, i) =>
         between[k][u] = {w \in Square : \E j \in 1 .. i - 1 : On(k, w, d, j)}
  BY BetweenIs
<1>4. ASSUME NEW u \in visible(at, k, d) PROVE u = s \/ u \in between[k][s]
  <2>1. u \in Square /\ Clear(at, k, u) /\ \E i \in 1 .. 8 : On(k, u, d, i)
    BY <1>2, <1>4, SeenIs
  <2>2. PICK i \in 1 .. 8 : On(k, u, d, i)
    BY <2>1
  <2>3. CASE i < n
    <3>1. i \in 1 .. n - 1
      BY <2>3
    <3> QED
      BY <3>1, <2>1, <2>2, <1>1
  <2>4. CASE i = n
    BY <2>1, <2>2, <2>4, OnTheWay
  <2>5. CASE i > n
    <3>1. n \in 1 .. i - 1
      BY <2>5
    <3>2. s \in between[k][u]
      BY <3>1, <2>1, <2>2, <1>3
    <3> QED
      BY <3>2, <2>1 DEF Clear
  <2> QED
    BY <2>3, <2>4, <2>5
<1>5. s \in visible(at, k, d)
  BY SeenIs
<1>6. ASSUME NEW u \in between[k][s] PROVE u \in visible(at, k, d)
  <2>1. PICK i \in 1 .. n - 1 : On(k, u, d, i) /\ u \in Square
    BY <1>1, <1>6
  <2>2. i \in 1 .. 8 /\ \A j \in 1 .. i - 1 : j \in 1 .. n - 1
    BY <2>1
  <2>3. between[k][u] \subseteq between[k][s]
    BY <2>1, <2>2, <1>1, <1>3
  <2>4. Clear(at, k, u)
    BY <2>3 DEF Clear
  <2> QED
    BY <2>1, <2>2, <2>4, SeenIs
<1> QED
  BY <1>4, <1>5, <1>6

\* The squares that genChecked records for a check.
LEMMA CheckWay ==
  ASSUME NEW b, BoardOK(b), KingsStand(b), NEW color \in Color, NEW id, NEW line,
         FoundCheck(b, color, id, line)
  PROVE  /\ id \in checkers(b, color)
         /\ line = wayOf(b, id, kingPlace(b, color))
<1> DEFINE k == kingPlace(b, color)
           s == b.piece[id].position
<1>1. PICK n \in 1 .. 18 : /\ givesCheck(b, color, checkLines(b, color)[n])
                           /\ id = b.at[checkLines(b, color)[n].target]
                           /\ line = checkLines(b, color)[n].squares
  BY DEF FoundCheck
<1> DEFINE l == checkLines(b, color)[n]
<1>2. givesCheck(b, color, l) /\ id = b.at[l.target] /\ line = l.squares
  BY <1>1
<1>3. LineIs(b, color, k, n, l)
  BY CheckLineIs
<1>4. \E i \in 1 .. 18 : /\ givesCheck(b, color, checkLines(b, color)[i])
                         /\ b.at[checkLines(b, color)[i].target] = id
  BY <1>1
<1>5. k \in Square /\ k = b.piece[kingOf(color)].position
  BY KingsStanding
<1> HIDE DEF l
<1>6. l.target \in Square /\ id # EMPTY /\ getColor(id) # color /\ b.piece[id].type \in l.types
  BY <1>2 DEF givesCheck
<1>7. id \in ID
  BY <1>2, <1>6 DEF BoardOK, Boards
<1>8. s = l.target /\ id \in inPlay(b) /\ b.at[s] = id
  BY <1>2, <1>6, <1>7, StandsOn
<1>9. bears(b, id, k)
  BY <1>4, <1>6, <1>8, ChecksAre
<1>10. id \in checkers(b, color)
  BY <1>5, <1>6, <1>8, <1>9 DEF checkers
<1>11. line = wayOf(b, id, k)
  <2>1. CASE n <= 10
    <3>1. line = {s} /\ (b.piece[id].type = "KNIGHT" \/ b.piece[id].type = "PAWN")
      <4>1. CASE n <= 8
        BY <4>1, <1>2, <1>3, <1>6, <1>8 DEF LineIs
      <4>2. CASE n > 8
        BY <4>2, <2>1, <1>2, <1>3, <1>6, <1>8 DEF LineIs
      <4> QED
        BY <4>1, <4>2
    <3> QED
      BY <3>1 DEF wayOf, Slider
  <2>2. CASE n > 10
    <3> DEFINE d == directions[n - 10]
    <3>1. d \in Direction
      <4>1. n - 10 \in 1 .. 8
        BY <2>2
      <4> QED
        BY <4>1, DirectionList
    <3>2. l.target = firstMet(b.at, k, d) /\ line = visible(b.at, k, d)
          /\ b.piece[id].type \in getMatchingSet(d)
      BY <2>2, <1>2, <1>3, <1>6 DEF LineIs
    <3> HIDE DEF d, k, s
    <3>3. b.piece[id].type \in Slider
      BY <3>1, <3>2, MatchingSets
    <3>4. s \in Square /\ b.at[s] # EMPTY
      BY <1>6, <1>8
    <3>5. Clear(b.at, k, s) /\ \E i \in 1 .. 8 : On(k, s, d, i)
      BY <1>5, <1>8, <3>1, <3>2, <3>4, FirstMetIs
    <3>6. visible(b.at, k, d) = {s} \cup between[k][s]
      BY <1>5, <3>1, <3>4, <3>5, SeenUpTo
    <3> QED
      BY <3>2, <3>3, <3>6 DEF wayOf, s
  <2> QED
    BY <2>1, <2>2
<1> QED
  BY <1>10, <1>11

\* genChecked finds a check when the rules do, and its line.
LEMMA CheckedBy ==
  ASSUME NEW b, BoardOK(b), KingsStand(b), NEW color \in Color,
         NEW check, check = genChecked(b, color)
  PROVE  /\ check.checkedId = EMPTY => checkers(b, color) = {}
         /\ check.checkedId # EMPTY =>
              /\ check.checkedId \in checkers(b, color)
              /\ check.line = wayOf(b, check.checkedId, kingPlace(b, color))
<1>1. CASE checksOn(b, color) = {}
  <2>1. check.checkedId = EMPTY
    BY <1>1, CheckFound
  <2>2. ASSUME NEW id \in checkers(b, color) PROVE FALSE
    <3>1. id \in inPlay(b) /\ getColor(id) # color /\ bears(b, id, kingPlace(b, color))
      BY <2>2, KingsStanding DEF checkers
    <3>2. PICK n \in 1 .. 18 : givesCheck(b, color, checkLines(b, color)[n])
      BY <3>1, ChecksAre
    <3> QED
      BY <3>2, <1>1 DEF checksOn
  <2> QED
    BY <2>1, <2>2
<1>2. CASE checksOn(b, color) # {}
  <2>1. FoundCheck(b, color, check.checkedId, check.line)
    BY <1>2, CheckFound
  <2>2. /\ check.checkedId \in checkers(b, color)
        /\ check.line = wayOf(b, check.checkedId, kingPlace(b, color))
    BY <2>1, CheckWay
  <2>3. check.checkedId # EMPTY
    BY <2>1 DEF FoundCheck, givesCheck
  <2> QED
    BY <2>2, <2>3
<1> QED
  BY <1>1, <1>2

-----------------------------------------------------------------------------
(* After a move: who checks, and where the king is safe                    *)

\* What a piece bears on, once id has left its square for t.
bearsPast(b, id, t, e, k) ==
    LET s == b.piece[e].position
    IN  /\ s # k
        /\ shape(b.piece[e].type, getColor(e), s, k)
        /\ b.piece[e].type \in Slider =>
             \A u \in between[s][k] :
                u # t /\ (u = b.piece[id].position \/ b.at[u] = EMPTY)

\* After a move, pieces bear on what they bore on before, but for the square that
\* was left and the one that was taken.
LEMMA BearsAfter ==
  ASSUME NEW b, BoardOK(b), NEW id \in inPlay(b), NEW t \in Square, b.at[t] # id,
         NEW c, c = move(b, id, t), NEW e \in ID, e # id
  PROVE  /\ e \in inPlay(c) <=> e \in inPlay(b) /\ b.piece[e].position # t
         /\ e \in inPlay(c) => \A k \in Square : bears(c, e, k) <=> bearsPast(b, id, t, e, k)
<1>1. /\ c.piece[e].type = b.piece[e].type
      /\ c.piece[e].position = IF e = b.at[t] THEN NoSquare ELSE b.piece[e].position
      /\ \A s \in Square : c.at[s] =
            IF s = b.piece[id].position THEN EMPTY ELSE IF s = t THEN id ELSE b.at[s]
      /\ b.piece[id].position # t
  BY MovedPieces
<1>2. b.at[t] = e <=> b.piece[e].position = t
  BY StandsOn
<1>3. t # NoSquare
  BY Coordinates
<1>4. e \in inPlay(c) <=> e \in inPlay(b) /\ b.piece[e].position # t
  BY <1>1, <1>2 DEF inPlay
<1>5. ASSUME e \in inPlay(c), NEW k \in Square PROVE bears(c, e, k) <=> bearsPast(b, id, t, e, k)
  <2> DEFINE s == b.piece[e].position
             y == b.piece[e].type
  <2>1. c.piece[e].position = s /\ c.piece[e].type = y
    BY <1>1, <1>2, <1>4, <1>5
  <2>2. bears(c, e, k) <=> /\ s # k
                           /\ shape(y, getColor(e), s, k)
                           /\ y \in Slider => \A u \in between[s][k] : c.at[u] = EMPTY
    BY <2>1 DEF bears, Slider
  <2>3. s \in Square
    BY <1>4, <1>5, InPlayStanding DEF Standing
  <2>4. between[s][k] \subseteq Square
    BY <2>3 DEF between
  <2>5. id # EMPTY
    BY DEF inPlay, ID, EMPTY
  <2>6. \A u \in between[s][k] : c.at[u] = EMPTY <=>
           u # t /\ (u = b.piece[id].position \/ b.at[u] = EMPTY)
    BY <1>1, <2>4, <2>5
  <2>7. bearsPast(b, id, t, e, k) <=>
          /\ s # k
          /\ shape(y, getColor(e), s, k)
          /\ y \in Slider => \A u \in between[s][k] :
                u # t /\ (u = b.piece[id].position \/ b.at[u] = EMPTY)
    BY DEF bearsPast
  <2> HIDE DEF s, y
  <2> QED
    BY <2>2, <2>6, <2>7
<1> QED
  BY <1>4, <1>5

\* Bearing on k before and after.
LEMMA BearsBefore ==
  ASSUME NEW b, BoardOK(b), NEW id \in inPlay(b), NEW t \in Square, NEW e \in inPlay(b),
         NEW k \in Square
  PROVE  /\ bearsPast(b, id, t, e, k) =>
              \/ bears(b, e, k)
              \/ b.piece[e].type \in Slider
                  /\ b.piece[id].position \in between[b.piece[e].position][k]
         /\ bears(b, e, k) =>
              \/ bearsPast(b, id, t, e, k)
              \/ b.piece[e].type \in Slider /\ t \in between[b.piece[e].position][k]
  BY DEF bears, bearsPast, Slider

\* On a slider's line to k the squares between are the same from either end.
LEMMA SliderLine ==
  ASSUME NEW b, BoardOK(b), NEW e \in inPlay(b), NEW k \in Square,
         b.piece[e].type \in Slider, b.piece[e].position # k,
         shape(b.piece[e].type, getColor(e), b.piece[e].position, k)
  PROVE  /\ between[b.piece[e].position][k] = between[k][b.piece[e].position]
         /\ \E d \in Direction : /\ b.piece[e].type \in getMatchingSet(d)
                                 /\ \E n \in 1 .. 8 : On(k, b.piece[e].position, d, n)
<1> DEFINE s == b.piece[e].position
           y == b.piece[e].type
<1>1. s \in Square
  BY InPlayStanding DEF Standing
<1>2. /\ y = "ROOK" => Straight(s, k)
      /\ y = "BISHOP" => Diagonal(s, k)
      /\ y = "QUEEN" => Straight(s, k) \/ Diagonal(s, k)
      /\ y = "ROOK" \/ y = "BISHOP" \/ y = "QUEEN"
  BY DEF shape, Straight, Diagonal, Slider
<1>3. (Straight(s, k) <=> Straight(k, s)) /\ (Diagonal(s, k) <=> Diagonal(k, s))
  BY <1>1, DistanceBack DEF Straight, Diagonal
<1>4. s # k
  OBVIOUS
<1> HIDE DEF s, y
<1>5. /\ Straight(k, s) => \E d \in cardinals : \E n \in 1 .. 7 : On(k, s, d, n)
      /\ Diagonal(k, s) => \E d \in diagonals : \E n \in 1 .. 7 : On(k, s, d, n)
  BY <1>1, <1>4, LineThrough
<1>6. cardinals \subseteq Direction /\ diagonals \subseteq Direction
  BY Compass
<1>7. \A d \in cardinals : y = "ROOK" \/ y = "QUEEN" => y \in getMatchingSet(d)
  BY <1>6, MatchingSets
<1>8. \A d \in diagonals : y = "BISHOP" \/ y = "QUEEN" => y \in getMatchingSet(d)
  BY <1>6, MatchingSets
<1> HIDE DEF Straight, Diagonal, On, Direction, cardinals, diagonals
<1>9. \/ (y = "ROOK" \/ y = "QUEEN") /\ Straight(k, s)
      \/ (y = "BISHOP" \/ y = "QUEEN") /\ Diagonal(k, s)
  BY <1>2, <1>3
<1>10. \E d \in Direction : y \in getMatchingSet(d) /\ \E n \in 1 .. 7 : On(k, s, d, n)
  BY <1>5, <1>6, <1>7, <1>8, <1>9
<1>11. PICK d \in Direction : y \in getMatchingSet(d) /\ \E n \in 1 .. 7 : On(k, s, d, n)
  BY <1>10
<1>12. PICK n \in 1 .. 7 : On(k, s, d, n)
  BY <1>11
<1>13. n \in 1 .. 8
  OBVIOUS
<1>14. between[k][s] = between[s][k]
  BY <1>1, <1>12, <1>13, BetweenBack
<1> QED
  BY <1>11, <1>12, <1>13, <1>14 DEF s, y

\* A move of color that the rules might allow, and the king's place after it.
Moving(b, color, id, t) ==
    /\ id \in inPlay(b) /\ t \in Square
    /\ getColor(id) = color /\ getColor(b.at[t]) # color

\* Where a side's king stands after a move.
kingThen(b, color, id, t) == IF id = kingOf(color) THEN t ELSE kingPlace(b, color)

\* Who checks after a move.
LEMMA CheckersAfter ==
  ASSUME NEW b, BoardOK(b), KingsStand(b), NEW color \in Color, NEW id, NEW t,
         Moving(b, color, id, t)
  PROVE  /\ kingThen(b, color, id, t) \in Square
         /\ checkers(move(b, id, t), color) =
              {e \in inPlay(b) : /\ getColor(e) # color
                                 /\ b.piece[e].position # t
                                 /\ bearsPast(b, id, t, e, kingThen(b, color, id, t))}
<1> DEFINE c == move(b, id, t)
           k == kingThen(b, color, id, t)
<1>1. id \in inPlay(b) /\ id \in ID /\ t \in Square /\ b.at[t] # id /\ getColor(id) = color
  BY DEF Moving, inPlay
<1>2. kingOf(color) \in ID /\ kingPlace(b, color) \in Square /\ getColor(kingOf(color)) = color
  BY KingsStanding, KingPlace
<1>3. k \in Square
  BY <1>1, <1>2 DEF kingThen
<1>4. c.piece[kingOf(color)].position =
         IF kingOf(color) = id THEN t ELSE IF kingOf(color) = b.at[t] THEN NoSquare
         ELSE b.piece[kingOf(color)].position
  BY <1>1, <1>2, MovedPieces
<1>5. b.at[t] # kingOf(color)
  BY <1>2 DEF Moving
<1>6. c.piece[kingOf(color)].position = k
  BY <1>4, <1>5 DEF kingThen, kingPlace
<1>7. checkers(c, color) = {e \in inPlay(c) : getColor(e) # color /\ bears(c, e, k)}
  BY <1>6 DEF checkers
<1> HIDE DEF c, k
<1>8. \A e \in ID : getColor(e) # color =>
         (e \in inPlay(c) /\ bears(c, e, k) <=>
            e \in inPlay(b) /\ b.piece[e].position # t /\ bearsPast(b, id, t, e, k))
  <2> SUFFICES ASSUME NEW e \in ID, getColor(e) # color
               PROVE  e \in inPlay(c) /\ bears(c, e, k) <=>
                        e \in inPlay(b) /\ b.piece[e].position # t /\ bearsPast(b, id, t, e, k)
    OBVIOUS
  <2>1. e # id
    BY <1>1
  <2>2. /\ e \in inPlay(c) <=> e \in inPlay(b) /\ b.piece[e].position # t
        /\ e \in inPlay(c) => \A x \in Square : bears(c, e, x) <=> bearsPast(b, id, t, e, x)
    BY <1>1, <2>1, BearsAfter DEF c
  <2> QED
    BY <1>3, <2>2
<1>9. inPlay(b) \subseteq ID /\ inPlay(c) \subseteq ID
  BY DEF inPlay
<1>10. checkers(c, color) = {e \in inPlay(b) : /\ getColor(e) # color
                                               /\ b.piece[e].position # t
                                               /\ bearsPast(b, id, t, e, k)}
  BY <1>7, <1>8, <1>9
<1> QED
  BY <1>3, <1>10 DEF c, k

\* The squares that the king's filter takes away: those an enemy bears on.
LEMMA SafeIs ==
  ASSUME NEW b, BoardOK(b), NEW color \in Color, NEW t \in Square, getColor(b.at[t]) # color,
         NEW g, g.attacked = attackedBy(b, otherColor(color)), g.defended = defendedSquares(b)
  PROVE  t \in safe(g) <=>
           \A e \in inPlay(b) : getColor(e) # color => ~bears(b, e, t)
<1>1. otherColor(color) \in Color /\ otherColor(color) # color
  BY OtherColor
<1>2. \A e \in inPlay(b) : getColor(e) # color <=> getColor(e) = otherColor(color)
  <2>1. \A e \in inPlay(b) : getColor(e) \in Color
    BY IdColor DEF inPlay
  <2> QED
    BY <2>1, <1>1 DEF Color
<1>3. \A e \in inPlay(b) : t \in bearing(b, e) <=> bears(b, e, t)
  BY InPlayStanding, BearingIsBears
<1>4. t \in g.attacked <=> \E e \in inPlay(b) : /\ getColor(e) = otherColor(color)
                                                /\ t \in bearing(b, e)
                                                /\ getColor(b.at[t]) # otherColor(color)
  BY DEF attackedBy
<1>5. t \in g.defended <=> \E e \in inPlay(b) :
         t \in bearing(b, e) /\ getColor(b.at[t]) = getColor(e)
  BY DEF defendedSquares
<1> QED
  BY <1>2, <1>3, <1>4, <1>5 DEF safe

\* What stands in a piece's list is offered to it.
LEMMA TidyOffered ==
  ASSUME NEW b, NEW g, NEW id \in ID, NEW S, TidyAt(b, g, id, S), NEW t \in S
  PROVE  t \in offered(b, g, id)
  BY DEF TidyAt, Tidy, offered

\* What genMoves leaves, beside the lists.
LEMMA GenMeans ==
  ASSUME NEW b, BoardOK(b), KingsStand(b), NEW color \in Color, NEW g, g = genMoves(b, color)
  PROVE  /\ \A id \in ID : Listed(b, color, g, id, unpinned(b, color)[id])
                           /\ g.movesIdx[id] <= b.piece[id].reserved
                           /\ g.movesIdx[id] \in Nat
         /\ g.attacked = attackedBy(b, otherColor(color)) /\ g.defended = defendedSquares(b)
         /\ g.checkedId = EMPTY => checkers(b, color) = {}
         /\ g.checkedId # EMPTY =>
              /\ g.checkedId \in checkers(b, color)
              /\ g.line = wayOf(b, g.checkedId, kingPlace(b, color))
<1>1. Outcome(b, color, g)
  BY GenOutcome
<1>2. SameCall(generated(b, color), g) /\ Holding(b, g)
      /\ \A id \in ID : Listed(b, color, g, id, unpinned(b, color)[id])
  BY <1>1 DEF Outcome
<1>3. \A id \in ID : g.movesIdx[id] <= b.piece[id].reserved /\ g.movesIdx[id] \in Nat
  BY <1>2 DEF Holding
<1>4. /\ generated(b, color).checkedId = genChecked(b, color).checkedId
      /\ generated(b, color).line = genChecked(b, color).line
      /\ generated(b, color).attacked = attackedBy(b, otherColor(color))
      /\ generated(b, color).defended = defendedSquares(b)
  BY DEF generated
<1>5. /\ g.checkedId = genChecked(b, color).checkedId /\ g.line = genChecked(b, color).line
      /\ g.attacked = attackedBy(b, otherColor(color)) /\ g.defended = defendedSquares(b)
  BY <1>2, <1>4 DEF SameCall
<1>6. /\ genChecked(b, color).checkedId = EMPTY => checkers(b, color) = {}
      /\ genChecked(b, color).checkedId # EMPTY =>
           /\ genChecked(b, color).checkedId \in checkers(b, color)
           /\ genChecked(b, color).line =
                 wayOf(b, genChecked(b, color).checkedId, kingPlace(b, color))
  BY CheckedBy
<1> QED
  BY <1>2, <1>3, <1>5, <1>6

\* A move that leaves the king safe meets the check that was found.
LEMMA MeetsCheck ==
  ASSUME NEW b, BoardOK(b), KingsStand(b), NEW color \in Color, NEW id, NEW t,
         Moving(b, color, id, t), id # kingOf(color), checkers(move(b, id, t), color) = {},
         NEW e \in checkers(b, color)
  PROVE  t \in wayOf(b, e, kingPlace(b, color))
<1> SUFFICES ASSUME t \notin wayOf(b, e, kingPlace(b, color)) PROVE FALSE
  OBVIOUS
<1> DEFINE k == kingPlace(b, color)
           s == b.piece[e].position
<1>1. k \in Square /\ k = b.piece[kingOf(color)].position
  BY KingsStanding
<1>2. e \in inPlay(b) /\ getColor(e) # color /\ bears(b, e, k)
  BY <1>1 DEF checkers
<1>3. t # s /\ (b.piece[e].type \in Slider => t \notin between[k][s])
  BY DEF wayOf
<1>4. kingThen(b, color, id, t) = k
  BY DEF kingThen
<1>5. id \in inPlay(b) /\ t \in Square
  BY DEF Moving
<1>6. b.piece[e].type \in Slider => between[s][k] = between[k][s]
  <2>1. s # k /\ shape(b.piece[e].type, getColor(e), s, k)
    BY <1>2 DEF bears
  <2> QED
    BY <1>1, <1>2, <2>1, SliderLine
<1>7. bearsPast(b, id, t, e, k)
  BY <1>1, <1>2, <1>3, <1>5, <1>6, BearsBefore
<1>8. e \in checkers(move(b, id, t), color)
  BY <1>2, <1>3, <1>4, <1>7, CheckersAfter
<1> QED
  BY <1>8

\* A king that is safe after its move goes to a square no enemy bears on.
LEMMA KingGoesSafe ==
  ASSUME NEW b, BoardOK(b), KingsStand(b), NEW color \in Color, NEW t,
         Moving(b, color, kingOf(color), t), checkers(move(b, kingOf(color), t), color) = {}
  PROVE  \A e \in inPlay(b) : getColor(e) # color => ~bears(b, e, t)
<1> SUFFICES ASSUME NEW e \in inPlay(b), getColor(e) # color, bears(b, e, t) PROVE FALSE
  OBVIOUS
<1>1. kingThen(b, color, kingOf(color), t) = t
  BY DEF kingThen
<1>2. kingOf(color) \in inPlay(b) /\ t \in Square
  BY DEF Moving
<1>3. b.piece[e].position # t
  BY DEF bears
<1>4. t \notin between[b.piece[e].position][t]
  <2>1. b.piece[e].position \in Square
    BY InPlayStanding DEF Standing
  <2> QED
    BY <2>1, <1>2 DEF between
<1>5. bearsPast(b, kingOf(color), t, e, t)
  BY <1>2, <1>4, BearsBefore
<1>6. e \in checkers(move(b, kingOf(color), t), color)
  BY <1>1, <1>3, <1>5, CheckersAfter
<1> QED
  BY <1>6

\* A legal move is offered, unless its piece is pinned or the lists overflow.
LEMMA LegalOffered ==
  ASSUME NEW b, BoardOK(b), KingsStand(b), NEW color \in Color, NEW g, g = genMoves(b, color),
         NEW id \in inPlay(b), getColor(id) = color, NEW t \in Square, legal(b, id, t),
         ~isPinned(b, color, id), g.checkedId # EMPTY => ~behindFull(b, id) /\ ~Full(b, id)
  PROVE  t \in offered(b, g, id)
<1> DEFINE S == unpinned(b, color)[id]
<1>1. id \in ID /\ id # EMPTY
  BY DEF inPlay, ID, EMPTY
<1>2. mayMove(b, id, t) /\ checkers(move(b, id, t), color) = {}
  BY DEF legal
<1>3. t \in S
  BY <1>1, <1>2, TargetsAreMoves DEF unpinned, own
<1>4. Moving(b, color, id, t)
  BY <1>2, MovesElsewhere DEF Moving
<1>5. /\ Listed(b, color, g, id, S)
      /\ g.attacked = attackedBy(b, otherColor(color)) /\ g.defended = defendedSquares(b)
      /\ g.checkedId = EMPTY => checkers(b, color) = {}
      /\ g.checkedId # EMPTY =>
           /\ g.checkedId \in checkers(b, color)
           /\ g.line = wayOf(b, g.checkedId, kingPlace(b, color))
  BY <1>1, GenMeans
<1> HIDE DEF S
<1>6. CASE id = kingOf(color)
  <2>1. t \in safe(g)
    <3>1. \A e \in inPlay(b) : getColor(e) # color => ~bears(b, e, t)
      BY <1>2, <1>4, <1>6, KingGoesSafe
    <3>2. getColor(b.at[t]) # color
      BY <1>4 DEF Moving
    <3> QED
      BY <3>1, <3>2, <1>5, SafeIs
  <2>2. TidyAt(b, g, id, S \cap safe(g))
    BY <1>5, <1>6 DEF Listed
  <2> QED
    BY <2>1, <2>2, <1>1, <1>3, TidyOffered
<1>7. CASE id # kingOf(color) /\ g.checkedId = EMPTY
  <2>1. TidyAt(b, g, id, S)
    BY <1>5, <1>7 DEF Listed, answersCheck, Rests
  <2> QED
    BY <2>1, <1>1, <1>3, TidyOffered
<1>8. CASE id # kingOf(color) /\ g.checkedId # EMPTY
  <2>1. t \in g.line
    BY <1>2, <1>4, <1>5, <1>8, MeetsCheck
  <2>2. answersCheck(g, id)
    <3>1. id # g.checkedId
      BY <1>5, <1>8 DEF checkers
    <3>2. id \notin {8, 24}
      BY <1>1, <1>8 DEF kingOf, getColor, EMPTY
    <3> QED
      BY <3>1, <3>2, <1>8 DEF answersCheck
  <2>3. Filtered(b, g, id, S)
    BY <1>5, <2>2 DEF Listed
  <2>4. \E i \in 0 .. g.movesIdx[id] - 1 : g.moves[b.moveOffset[id] + i] = t
    BY <1>3, <1>8, <2>1, <2>3 DEF Filtered
  <2> QED
    BY <2>4 DEF offered
<1> QED
  BY <1>6, <1>7, <1>8

-----------------------------------------------------------------------------
(* Pins                                                                    *)

\* A piece of color on P, and behind it on the line d from the king on k, n steps
\* away, a piece e that moves along that line; nothing else on the way.
Pinning(b, color, id, e, d, n, j) ==
    LET k == kingPlace(b, color)
    IN  /\ n \in 1 .. reachOf(k, d) /\ j \in 1 .. n - 1
        /\ ray[k][d][n] = b.piece[e].position /\ ray[k][d][j] = b.piece[id].position
        /\ b.piece[e].type \in getMatchingSet(d)
        /\ \A i \in 1 .. n - 1 : i # j => b.at[ray[k][d][i]] = EMPTY

\* genPinned finds such a pin, and no other of that piece.
LEMMA PinIs ==
  ASSUME NEW b, BoardOK(b), KingsStand(b), NEW color \in Color, NEW id \in inPlay(b),
         getColor(id) = color, NEW e \in inPlay(b), getColor(e) # color,
         NEW d \in Direction, NEW n, NEW j, Pinning(b, color, id, e, d, n, j)
  PROVE  /\ isPinned(b, color, id)
         /\ \A t \in allowed(b, color, id) : \E m \in 1 .. n : t = ray[kingPlace(b, color)][d][m]
<1> DEFINE k == kingPlace(b, color)
           s == b.piece[e].position
           p == b.piece[id].position
<1>1. k \in Square /\ k = b.piece[kingOf(color)].position /\ k \in Place
  BY KingsStanding DEF Place
<1>2. s \in Square /\ p \in Square /\ id \in ID /\ e \in ID
  BY InPlayStanding DEF Standing
<1>3. id # EMPTY /\ e # EMPTY
  BY <1>2 DEF ID, EMPTY
<1>4. b.at[s] = e /\ b.at[p] = id
  BY <1>2, StandsOn
<1>5. /\ n \in 1 .. reachOf(k, d) /\ j \in 1 .. n - 1
      /\ ray[k][d][n] = s /\ ray[k][d][j] = p
      /\ b.piece[e].type \in getMatchingSet(d)
      /\ \A i \in 1 .. n - 1 : i # j => b.at[ray[k][d][i]] = EMPTY
  BY DEF Pinning
<1>6. reachOf(k, d) \in 0 .. 8 /\ DOMAIN ray[k][d] = 1 .. reachOf(k, d)
  BY <1>1, Reaches, RayIs
<1> HIDE DEF k, s, p
<1>7. firstMet(b.at, k, d) = p
  <2>1. p \in visible(b.at, k, d)
    <3>1. j \in DOMAIN ray[k][d]
      BY <1>5, <1>6
    <3>2. \A i \in 1 .. j - 1 : i \in 1 .. n - 1 /\ i # j
      BY <1>5, <1>6
    <3>3. j \in sight(b.at, k, d)
      BY <3>1, <3>2, <1>5 DEF sight
    <3> QED
      BY <3>3, <1>5 DEF visible
  <2> QED
    BY <2>1, <1>1, <1>3, <1>4, SeenOnLine
<1>8. shieldOn(b, color, d) = id
  BY <1>1, <1>2, <1>4, <1>7 DEF shieldOn
<1> DEFINE B == beyondShield(b, color, d)
<1>9. \A m : m \in B <=>
         /\ m \in 1 .. reachOf(k, d) /\ m \notin sight(b.at, k, d)
         /\ b.at[ray[k][d][m]] # EMPTY
         /\ \/ getColor(b.at[ray[k][d][m]]) = color
            \/ b.piece[b.at[ray[k][d][m]]].type \in getMatchingSet(d)
  BY <1>1, <1>6 DEF beyondShield
<1>10. \A m \in 1 .. reachOf(k, d) : m \in sight(b.at, k, d) <=>
          \A i \in 1 .. m - 1 : b.at[ray[k][d][i]] = EMPTY
  BY <1>6 DEF sight
<1>11. n \in B
  <2>1. n \notin sight(b.at, k, d)
    BY <1>3, <1>4, <1>5, <1>10
  <2> HIDE DEF B
  <2> QED
    BY <2>1, <1>3, <1>4, <1>5, <1>9
<1>12. ASSUME NEW m \in B PROVE n <= m
  <2> SUFFICES ASSUME m < n PROVE FALSE
    BY <1>5, <1>6, <1>9
  <2>1. m \in 1 .. reachOf(k, d) /\ m \notin sight(b.at, k, d) /\ b.at[ray[k][d][m]] # EMPTY
    BY <1>9
  <2>2. PICK i \in 1 .. m - 1 : b.at[ray[k][d][i]] # EMPTY
    BY <2>1, <1>10
  <2>3. i \in 1 .. n - 1 /\ m \in 1 .. n - 1
    BY <1>5, <1>6, <2>1
  <2>4. i = j /\ m = j
    BY <1>5, <2>1, <2>2, <2>3
  <2> QED
    BY <2>2, <2>4, <1>5
<1>13. pinnerPlace(b, color, d) = n
  <2>1. B \subseteq Nat
    BY <1>6, <1>9
  <2>2. Min(B) \in B /\ \A m \in B : Min(B) <= m
    BY <2>1, <1>11, LeastNumber
  <2> HIDE DEF B
  <2>3. Min(B) <= n /\ n <= Min(B) /\ Min(B) \in Nat /\ n \in Nat
    BY <2>1, <2>2, <1>11, <1>12
  <2>4. Min(B) = n
    BY <2>3
  <2> QED
    BY <2>4 DEF B, pinnerPlace
<1>14. d \in pinnedDirections(b, color)
  <2>1. getColor(b.at[ray[k][d][pinnerPlace(b, color, d)]]) # color
    BY <1>4, <1>5, <1>13
  <2>2. pinnedOn(b, color, d)
    BY <2>1, <1>1, <1>3, <1>8, <1>11 DEF pinnedOn
  <2> QED
    BY <2>2 DEF pinnedDirections, Direction
<1>15. isPinned(b, color, id)
  BY <1>8, <1>14 DEF isPinned
<1>16. ASSUME NEW f \in Direction, shieldOn(b, color, f) = id PROVE f = d
  <2>1. firstMet(b.at, k, f) \in Square /\ b.at[firstMet(b.at, k, f)] = id
    BY <1>1, <1>3, <1>16 DEF shieldOn
  <2>2. firstMet(b.at, k, f) = p
    BY <2>1, <1>2, StandsOn DEF p
  <2>3. p \in squaresOn(k, f)
    BY <2>1, <2>2, <1>1, SeenOnLine, OffBoard
  <2>4. PICK m \in 1 .. reachOf(k, f) : ray[k][f][m] = p
    BY <2>3 DEF squaresOn
  <2>5. j \in 1 .. reachOf(k, d)
    BY <1>5, <1>6
  <2> QED
    BY <2>4, <2>5, <1>1, <1>5, RaysPart
<1>17. ASSUME NEW t \in allowed(b, color, id) PROVE \E m \in 1 .. n : t = ray[k][d][m]
  <2>1. PICK f \in pinnedDirections(b, color) : shieldOn(b, color, f) = id
                                                 /\ t \in pinnedMoves(b, color, f)
    BY DEF allowed
  <2>2. f = d
    BY <2>1, <1>16 DEF pinnedDirections, Direction
  <2>3. PICK m \in 1 .. reachOf(k, d) : t = ray[k][d][m] /\ m <= n
    <3>1. t \in pinnedMoves(b, color, d)
      BY <2>1, <2>2
    <3> QED
      BY <3>1, <1>1, <1>6, <1>13 DEF pinnedMoves
  <2> QED
    BY <2>3, <1>5, <1>6
<1> QED
  BY <1>15, <1>17 DEF k

\* A piece that lets a slider through to its king was pinned by it, and does not
\* stay on the line.
LEMMA PinHolds ==
  ASSUME NEW b, BoardOK(b), KingsStand(b), NEW color \in Color, NEW id, NEW t,
         Moving(b, color, id, t), id # kingOf(color),
         NEW e \in checkers(move(b, id, t), color), b.piece[e].type \in Slider,
         b.piece[id].position \in between[b.piece[e].position][kingPlace(b, color)]
  PROVE  isPinned(b, color, id) /\ t \notin allowed(b, color, id)
<1> DEFINE k == kingPlace(b, color)
           s == b.piece[e].position
           p == b.piece[id].position
<1>1. k \in Square /\ k \in Place
  BY KingsStanding DEF Place
<1>2. kingThen(b, color, id, t) = k
  BY DEF kingThen
<1>3. e \in inPlay(b) /\ getColor(e) # color /\ s # t /\ bearsPast(b, id, t, e, k)
  BY <1>2, CheckersAfter
<1>4. id \in inPlay(b) /\ t \in Square /\ getColor(id) = color
  BY DEF Moving
<1>5. s \in Square /\ p \in Square
  BY <1>3, <1>4, InPlayStanding DEF Standing
<1>6. s # k /\ shape(b.piece[e].type, getColor(e), s, k)
      /\ \A u \in between[s][k] : u # t /\ (u = p \/ b.at[u] = EMPTY)
  BY <1>3 DEF bearsPast
<1>7. /\ between[s][k] = between[k][s]
      /\ \E d \in Direction : /\ b.piece[e].type \in getMatchingSet(d)
                              /\ \E n \in 1 .. 8 : On(k, s, d, n)
  BY <1>1, <1>3, <1>6, SliderLine
<1> HIDE DEF k, s, p
<1>8. PICK d \in Direction : /\ b.piece[e].type \in getMatchingSet(d)
                             /\ \E n \in 1 .. 8 : On(k, s, d, n)
  BY <1>7
<1>9. PICK n \in 1 .. 8 : On(k, s, d, n)
  BY <1>8
<1>10. between[k][s] = {u \in Square : \E i \in 1 .. n - 1 : On(k, u, d, i)}
  BY <1>1, <1>5, <1>9, BetweenIs
<1>11. PICK j \in 1 .. n - 1 : On(k, p, d, j)
  BY <1>7, <1>10 DEF k, s, p
<1>12. n <= reachOf(k, d) /\ ray[k][d][n] = s /\ reachOf(k, d) \in 0 .. 8
  BY <1>1, <1>5, <1>9, OnRay, Reaches
<1>13. j \in 1 .. 8 /\ n \in 1 .. reachOf(k, d)
  BY <1>12
<1>14. j <= reachOf(k, d) /\ ray[k][d][j] = p
  BY <1>1, <1>5, <1>11, <1>13, OnRay
<1>15. \A i \in 1 .. n - 1 : ray[k][d][i] \in between[k][s]
  <2> SUFFICES ASSUME NEW i \in 1 .. n - 1 PROVE ray[k][d][i] \in between[k][s]
    OBVIOUS
  <2>1. i \in 1 .. n
    OBVIOUS
  <2>2. ray[k][d][i] \in Square /\ On(k, ray[k][d][i], d, i)
    BY <2>1, <1>1, <1>5, <1>9, EachStep
  <2> QED
    BY <2>2, <1>10
<1>16. \A i \in 1 .. n - 1 : ray[k][d][i] # t /\ (i # j => b.at[ray[k][d][i]] = EMPTY)
  <2> SUFFICES ASSUME NEW i \in 1 .. n - 1
               PROVE  ray[k][d][i] # t /\ (i # j => b.at[ray[k][d][i]] = EMPTY)
    OBVIOUS
  <2>1. ray[k][d][i] # t /\ (ray[k][d][i] = p \/ b.at[ray[k][d][i]] = EMPTY)
    BY <1>6, <1>7, <1>15 DEF k, s, p
  <2>2. ray[k][d][i] = p => i = j
    <3>1. i \in 1 .. reachOf(k, d) /\ j \in 1 .. reachOf(k, d)
      BY <1>12, <1>13, <1>14
    <3> QED
      BY <3>1, <1>1, <1>14, RaysPart
  <2> QED
    BY <2>1, <2>2
<1>17. Pinning(b, color, id, e, d, n, j)
  BY <1>8, <1>11, <1>12, <1>13, <1>14, <1>16 DEF Pinning, k, s, p
<1>18. isPinned(b, color, id)
  BY <1>3, <1>4, <1>17, PinIs
<1>19. \A u \in allowed(b, color, id) : \E m \in 1 .. n : u = ray[k][d][m]
  BY <1>3, <1>4, <1>17, PinIs DEF k
<1>20. t \notin allowed(b, color, id)
  <2> SUFFICES ASSUME t \in allowed(b, color, id) PROVE FALSE
    OBVIOUS
  <2>1. PICK m \in 1 .. n : t = ray[k][d][m]
    BY <1>19
  <2>2. m = n \/ m \in 1 .. n - 1
    BY <1>13, <1>12
  <2> QED
    BY <2>1, <2>2, <1>3, <1>12, <1>16 DEF s
<1> QED
  BY <1>18, <1>20

\* A piece but the king that answers the only check, on the line of a pin if it is
\* pinned, leaves its king safe.
LEMMA OthersLegal ==
  ASSUME NEW b, BoardOK(b), KingsStand(b), NEW color \in Color, NEW id, NEW t,
         Moving(b, color, id, t), id # kingOf(color),
         isPinned(b, color, id) => t \in allowed(b, color, id),
         \A e \in checkers(b, color) : t \in wayOf(b, e, kingPlace(b, color))
  PROVE  checkers(move(b, id, t), color) = {}
<1> SUFFICES ASSUME NEW e \in checkers(move(b, id, t), color) PROVE FALSE
  OBVIOUS
<1> DEFINE k == kingPlace(b, color)
           s == b.piece[e].position
<1>1. k \in Square /\ k = b.piece[kingOf(color)].position
  BY KingsStanding
<1>2. kingThen(b, color, id, t) = k
  BY DEF kingThen
<1>3. e \in inPlay(b) /\ getColor(e) # color /\ s # t /\ bearsPast(b, id, t, e, k)
  BY <1>2, CheckersAfter
<1>4. id \in inPlay(b) /\ t \in Square
  BY DEF Moving
<1>5. ~(b.piece[e].type \in Slider /\ b.piece[id].position \in between[s][k])
  BY PinHolds
<1>6. bears(b, e, k)
  BY <1>1, <1>3, <1>4, <1>5, BearsBefore
<1>7. e \in checkers(b, color)
  BY <1>1, <1>3, <1>6 DEF checkers
<1>8. t \in wayOf(b, e, k)
  BY <1>7
<1>9. b.piece[e].type \in Slider /\ t \in between[k][s]
  BY <1>3, <1>8 DEF wayOf
<1>10. s # k /\ shape(b.piece[e].type, getColor(e), s, k) /\ t \notin between[s][k]
  BY <1>3, <1>9 DEF bearsPast
<1>11. between[s][k] = between[k][s]
  BY <1>1, <1>3, <1>9, <1>10, SliderLine
<1> QED
  BY <1>9, <1>10, <1>11

\* A king that goes where no enemy bears is safe there, unless it goes on along the
\* line of a check.
LEMMA KingLegal ==
  ASSUME NEW b, BoardOK(b), KingsStand(b), NEW color \in Color, NEW t,
         Moving(b, color, kingOf(color), t),
         \A e \in inPlay(b) : getColor(e) # color => ~bears(b, e, t),
         \A e \in checkers(b, color) : kingPlace(b, color) \notin between[b.piece[e].position][t]
  PROVE  checkers(move(b, kingOf(color), t), color) = {}
<1> SUFFICES ASSUME NEW e \in checkers(move(b, kingOf(color), t), color) PROVE FALSE
  OBVIOUS
<1> DEFINE k == kingPlace(b, color)
           s == b.piece[e].position
           y == b.piece[e].type
<1>1. k \in Square /\ k = b.piece[kingOf(color)].position
  BY KingsStanding
<1>2. kingThen(b, color, kingOf(color), t) = t
  BY DEF kingThen
<1>3. e \in inPlay(b) /\ getColor(e) # color /\ s # t /\ bearsPast(b, kingOf(color), t, e, t)
  BY <1>2, CheckersAfter
<1>4. kingOf(color) \in inPlay(b) /\ t \in Square
  BY DEF Moving
<1>5. ~bears(b, e, t)
  BY <1>3
<1>6. y \in Slider /\ k \in between[s][t]
  BY <1>1, <1>3, <1>4, <1>5, BearsBefore
<1>7. s # t /\ shape(y, getColor(e), s, t)
      /\ \A u \in between[s][t] : u = k \/ b.at[u] = EMPTY
  BY <1>1, <1>3, <1>6 DEF bearsPast
<1>8. s \in Square /\ Standing(b, e)
  BY <1>3, InPlayStanding DEF Standing
<1>9. PICK d \in Direction : y \in getMatchingSet(d) /\ \E n \in 1 .. 8 : On(t, s, d, n)
  BY <1>3, <1>4, <1>6, <1>7, SliderLine
<1>10. PICK n \in 1 .. 8 : On(t, s, d, n)
  BY <1>9
<1> DEFINE f == opposite(d)
<1>11. /\ f \in Direction /\ On(s, t, f, n) /\ opposite(f) = d
       /\ opposite(f) \in Direction
  <2>1. f \in Direction /\ On(s, t, f, n)
    BY <1>4, <1>8, <1>10, Backwards
  <2>2. opposite(f) = d
    <3>1. d = <<d[1], d[2]>> /\ d[1] \in Int /\ d[2] \in Int
      BY DirectionSteps
    <3> QED
      BY <3>1 DEF opposite
  <2> QED
    BY <2>1, <2>2
<1> HIDE DEF f, k, s
<1>12. between[s][t] = {u \in Square : \E i \in 1 .. n - 1 : On(s, u, f, i)}
  BY <1>4, <1>8, <1>11, BetweenIs
<1>13. PICK j \in 1 .. n - 1 : On(s, k, f, j)
  BY <1>6, <1>12
<1>14. j \in 1 .. 8 /\ \A i \in 1 .. j - 1 : i \in 1 .. n - 1 /\ i \in 1 .. 8 /\ i # j
  BY <1>13
<1>15. between[s][k] = {u \in Square : \E i \in 1 .. j - 1 : On(s, u, f, i)}
  BY <1>1, <1>8, <1>11, <1>13, <1>14, BetweenIs
<1>16. Clear(b.at, s, k)
  <2> SUFFICES ASSUME NEW u \in between[s][k] PROVE b.at[u] = EMPTY
    BY DEF Clear
  <2>1. PICK i \in 1 .. j - 1 : On(s, u, f, i) /\ u \in Square
    BY <1>15
  <2>2. u \in between[s][t]
    BY <2>1, <1>12, <1>14
  <2>3. u # k
    <3>1. i \in 1 .. 8 /\ i # j
      BY <2>1, <1>14
    <3> QED
      BY <3>1, <2>1, <1>1, <1>8, <1>11, <1>13, <1>14, OnTheWay
  <2> QED
    BY <2>2, <2>3, <1>7 DEF s, k
<1>17. On(k, s, d, j) /\ between[k][s] = between[s][k]
  <2>1. On(k, s, opposite(f), j)
    BY <1>1, <1>8, <1>11, <1>13, <1>14, Backwards
  <2>2. between[s][k] = between[k][s]
    BY <1>1, <1>8, <1>11, <1>13, <1>14, BetweenBack
  <2> QED
    BY <2>1, <2>2, <1>11
<1>18. Clear(b.at, k, s)
  BY <1>16, <1>17 DEF Clear
<1>19. bears(b, e, k)
  <2>1. y \in getMatchingSet(d) /\ Clear(b.at, k, b.piece[e].position)
        /\ \E i \in 1 .. 8 : On(k, b.piece[e].position, d, i)
    BY <1>9, <1>14, <1>17, <1>18 DEF s
  <2> QED
    BY <2>1, <1>1, <1>6, <1>8, SlidesBack
<1>20. e \in checkers(b, color)
  BY <1>1, <1>3, <1>19 DEF checkers
<1> QED
  BY <1>6, <1>20 DEF k, s

-----------------------------------------------------------------------------
(* The moves that are offered and the legal ones                           *)

\* A move that is offered is legal, but for the four ways out.
LEMMA OfferedLegal ==
  ASSUME NEW b, BoardOK(b), KingsStand(b), NEW color \in Color, NEW g, g = genMoves(b, color),
         NEW id \in inPlay(b), getColor(id) = color, NEW t \in Square, t \in offered(b, g, id),
         ~(g.checkedId # EMPTY /\ behindFull(b, id)), ~leaps(b, id, t),
         id = kingOf(color) => \A e \in checkers(b, color) :
                                  b.piece[id].position \notin between[b.piece[e].position][t],
         id # kingOf(color) => \A e, f \in checkers(b, color) : e = f
  PROVE  legal(b, id, t)
<1> DEFINE S == unpinned(b, color)[id]
<1>1. id \in ID /\ id # EMPTY
  BY DEF inPlay, ID, EMPTY
<1>2. /\ Listed(b, color, g, id, S)
      /\ g.movesIdx[id] <= b.piece[id].reserved /\ g.movesIdx[id] \in Nat
      /\ g.attacked = attackedBy(b, otherColor(color)) /\ g.defended = defendedSquares(b)
      /\ g.checkedId = EMPTY => checkers(b, color) = {}
      /\ g.checkedId # EMPTY =>
           /\ g.checkedId \in checkers(b, color)
           /\ g.line = wayOf(b, g.checkedId, kingPlace(b, color))
  BY <1>1, GenMeans
<1>3. PICK i \in 0 .. g.movesIdx[id] - 1 : t = g.moves[b.moveOffset[id] + i]
  BY DEF offered
<1>4. i \in 0 .. b.piece[id].reserved - 1
  <2>1. b.piece[id].reserved \in Nat
    BY <1>1, FieldsOf
  <2> QED
    BY <1>2, <2>1
<1>5. t # NoSquare
  BY Coordinates
<1>6. S = IF isPinned(b, color, id) THEN targets(b, id) \cap allowed(b, color, id)
          ELSE targets(b, id)
  BY <1>1 DEF unpinned, own
<1> HIDE DEF S
<1>7. t \in S /\ (id = kingOf(color) => t \in safe(g)) /\ (answersCheck(g, id) => t \in g.line)
  <2>1. CASE id = kingOf(color)
    <3>1. t \in safe(g) /\ t \in S
      BY <1>2, <1>3, <1>4, <1>5, <2>1 DEF Listed
    <3>2. ~answersCheck(g, id)
      BY <2>1 DEF answersCheck, kingOf
    <3> QED
      BY <3>1, <3>2
  <2>2. CASE id # kingOf(color) /\ answersCheck(g, id)
    <3>1. Filtered(b, g, id, S) /\ ~behindFull(b, id)
      BY <1>2, <2>2 DEF Listed, answersCheck
    <3> QED
      BY <3>1, <2>2, <1>3, <1>4, <1>5 DEF Filtered
  <2>3. CASE id # kingOf(color) /\ ~answersCheck(g, id)
    <3>1. Rests(b, g, id, S)
      BY <1>2, <2>3 DEF Listed
    <3> QED
      BY <3>1, <2>3, <1>3, <1>4, <1>5 DEF Rests
  <2> QED
    BY <2>1, <2>2, <2>3
<1>8. mayMove(b, id, t)
  BY <1>6, <1>7, TargetsAreMoves
<1>9. Moving(b, color, id, t)
  BY <1>8, MovesElsewhere DEF Moving
<1>10. CASE id = kingOf(color)
  <2>1. getColor(b.at[t]) # color
    BY <1>9 DEF Moving
  <2>2. \A e \in inPlay(b) : getColor(e) # color => ~bears(b, e, t)
    BY <2>1, <1>2, <1>7, <1>10, SafeIs
  <2>3. \A e \in checkers(b, color) : kingPlace(b, color) \notin between[b.piece[e].position][t]
    BY <1>10 DEF kingPlace
  <2>4. checkers(move(b, id, t), color) = {}
    BY <2>2, <2>3, <1>9, <1>10, KingLegal
  <2> QED
    BY <2>4, <1>8 DEF legal
<1>11. CASE id # kingOf(color)
  <2>1. isPinned(b, color, id) => t \in allowed(b, color, id)
    BY <1>6, <1>7
  <2>2. ASSUME NEW e \in checkers(b, color) PROVE t \in wayOf(b, e, kingPlace(b, color))
    <3>1. g.checkedId # EMPTY /\ g.checkedId = e
      BY <1>2, <1>11, <2>2
    <3>2. answersCheck(g, id)
      <4>1. id # g.checkedId
        BY <3>1, <2>2 DEF checkers
      <4>2. id \notin {8, 24}
        BY <1>1, <1>11 DEF kingOf, getColor, EMPTY
      <4> QED
        BY <3>1, <4>1, <4>2 DEF answersCheck
    <3> QED
      BY <3>1, <3>2, <1>2, <1>7
  <2>3. checkers(move(b, id, t), color) = {}
    BY <2>1, <2>2, <1>9, <1>11, OthersLegal
  <2> QED
    BY <2>3, <1>8 DEF legal
<1> QED
  BY <1>10, <1>11

\* Where kings stand apart.
LEMMA NotNear ==
  ASSUME NEW s \in Square, NEW t \in Square
  PROVE  /\ apart(s, t) <=> ~(distance(row(s), row(t)) <= 1 /\ distance(col(s), col(t)) <= 1)
         /\ apart(s, t) <=> apart(t, s)
<1> DEFINE r == row(s)
           c == col(s)
           x == row(t)
           y == col(t)
<1>1. r \in Int /\ c \in Int /\ x \in Int /\ y \in Int
  BY Coordinates
<1>2. /\ apart(s, t) <=> (r - x \notin -1 .. 1 \/ c - y \notin -1 .. 1)
      /\ apart(t, s) <=> (x - r \notin -1 .. 1 \/ y - c \notin -1 .. 1)
  BY DEF apart
<1> HIDE DEF r, c, x, y
<1>3. apart(s, t) <=> ~(distance(r, x) <= 1 /\ distance(c, y) <= 1)
  BY <1>1, <1>2 DEF distance
<1>4. apart(s, t) <=> apart(t, s)
  BY <1>1, <1>2
<1> QED
  BY <1>3, <1>4 DEF r, c, x, y

\* Kings that are both in play are not next to each other.
KingsApart(b) ==
    {8, 24} \subseteq inPlay(b) => apart(b.piece[8].position, b.piece[24].position)

\* Where the same pieces stand on the same squares.
LEMMA SamePlaces ==
  ASSUME NEW b, BoardOK(b), NEW c, BoardOK(c), c.at = b.at
  PROVE  \A i \in ID : c.piece[i].position = b.piece[i].position
<1> SUFFICES ASSUME NEW i \in ID PROVE c.piece[i].position = b.piece[i].position
  OBVIOUS
<1>1. b.piece[i].position \in Place /\ c.piece[i].position \in Place
  BY FieldsOf
<1>2. \A s \in Square : b.piece[i].position = s <=> c.piece[i].position = s
  BY DEF BoardOK, Agreed
<1> QED
  BY <1>1, <1>2 DEF Place

\* A promotion leaves the pieces where they are.
LEMMA PromotedPlaces ==
  ASSUME NEW b, BoardOK(b), NEW id \in ID, NEW promotion \in promotions \cup {"None"}
  PROVE  \A i \in ID : promoteIfDue(b, id, promotion).piece[i].position = b.piece[i].position
<1> DEFINE c == promoteIfDue(b, id, promotion)
<1>1. BoardOK(c)
  BY PromoteIfDueOK
<1>2. c.at = b.at
  BY DEF promoteIfDue, promotePawn, BoardOK, Boards
<1> HIDE DEF c
<1>3. \A i \in ID : c.piece[i].position = b.piece[i].position
  BY <1>1, <1>2, SamePlaces
<1> QED
  BY <1>3 DEF c

-----------------------------------------------------------------------------
(* The kings stand apart, throughout                                       *)

\* A king never takes a piece next to the other king.
LEMMA KingsOfApart ==
  ASSUME NEW b, KingsApart(b), 8 \in inPlay(b), 24 \in inPlay(b)
  PROVE  KingsStand(b)
  BY DEF KingsApart, KingsStand

\* The king goes to a square that is not next to the other king's.
LEMMA KingOffered ==
  ASSUME NEW b, BoardOK(b), KingsStand(b), NEW color \in Color, NEW g, g = genMoves(b, color),
         NEW t \in Square, t \in offered(b, g, kingOf(color)),
         t # kingPlace(b, otherColor(color))
  PROVE  apart(t, kingPlace(b, otherColor(color)))
<1> DEFINE id == kingOf(color)
           e == kingOf(otherColor(color))
           s == kingPlace(b, otherColor(color))
           S == unpinned(b, color)[id]
<1>1. otherColor(color) \in Color /\ otherColor(color) # color
  BY OtherColor
<1>2. /\ id \in inPlay(b) /\ id \in ID /\ e \in inPlay(b) /\ e \in ID
      /\ getColor(id) = color /\ getColor(e) # color
      /\ s \in Square /\ s = b.piece[e].position
  BY <1>1, KingsStanding DEF Standing
<1>3. /\ Listed(b, color, g, id, S)
      /\ g.movesIdx[id] <= b.piece[id].reserved /\ g.movesIdx[id] \in Nat
      /\ g.attacked = attackedBy(b, otherColor(color)) /\ g.defended = defendedSquares(b)
  BY <1>2, GenMeans
<1>4. PICK i \in 0 .. g.movesIdx[id] - 1 : t = g.moves[b.moveOffset[id] + i]
  BY DEF offered
<1>5. i \in 0 .. b.piece[id].reserved - 1
  <2>1. b.piece[id].reserved \in Nat
    BY <1>2, FieldsOf
  <2> HIDE DEF id, S
  <2> QED
    BY <1>3, <2>1
<1>6. t # NoSquare
  BY Coordinates
<1>7. S \subseteq targets(b, id)
  BY <1>2 DEF unpinned, own
<1> HIDE DEF S
<1>8. t \in S /\ t \in safe(g)
  BY <1>3, <1>4, <1>5, <1>6 DEF Listed
<1>9. b.piece[id].type = "KING" /\ b.piece[e].type = "KING"
  BY <1>2, KingTypes DEF kingOf
<1>10. getColor(b.at[t]) # color
  BY <1>2, <1>7, <1>8, <1>9 DEF targets
<1>11. ~bears(b, e, t)
  BY <1>2, <1>3, <1>8, <1>10, SafeIs
<1>12. ~(distance(row(s), row(t)) <= 1 /\ distance(col(s), col(t)) <= 1)
  BY <1>2, <1>9, <1>11 DEF bears, shape
<1> HIDE DEF s
<1>13. apart(t, s)
  BY <1>2, <1>12, NotNear
<1> QED
  BY <1>13 DEF s

\* A move leaves the kings apart.
LEMMA MovedApart ==
  ASSUME BoardInv, KingsApart(board), NEW id, NEW to, NEW promotion, Moved(id, to, promotion)
  PROVE  KingsApart(board')
<1> DEFINE c == move(board, id, to)
<1>1. /\ id \in inPlay(board) /\ id \in ID /\ to \in Square
      /\ promotion \in promotions \cup {"None"}
      /\ to \in offered(board, gen, id) /\ getColor(id) = turn
      /\ board' = promoteIfDue(c, id, promotion)
  BY DEF Moved, isColor, inPlay
<1>2. BoardOK(board) /\ turn \in Color /\ gen = genMoves(board, turn)
  BY DEF BoardInv
<1>3. board.at[to] # id
  BY <1>1, <1>2, OfferedElsewhere
<1>4. BoardOK(c)
  BY <1>1, <1>2, <1>3, MovedOK
<1>5. \A i \in ID : board'.piece[i].position = c.piece[i].position
  BY <1>1, <1>4, PromotedPlaces
<1>6. \A i \in ID : c.piece[i].position =
         IF i = id THEN to ELSE IF i = board.at[to] THEN NoSquare ELSE board.piece[i].position
  BY <1>1, <1>2, <1>3, MovedPieces
<1>7. \A i \in ID : board.at[to] = i <=> board.piece[i].position = to
  BY <1>1, <1>2, StandsOn
<1> HIDE DEF c
<1> SUFFICES ASSUME 8 \in inPlay(board'), 24 \in inPlay(board')
             PROVE  apart(board'.piece[8].position, board'.piece[24].position)
  BY DEF KingsApart
<1>8. 8 \in ID /\ 24 \in ID
  BY DEF ID
<1>9. /\ 8 \in inPlay(board) /\ 24 \in inPlay(board)
      /\ board'.piece[8].position = IF id = 8 THEN to ELSE board.piece[8].position
      /\ board'.piece[24].position = IF id = 24 THEN to ELSE board.piece[24].position
      /\ id # 8 => board.piece[8].position # to
      /\ id # 24 => board.piece[24].position # to
  <2>1. ASSUME NEW i \in {8, 24}
        PROVE  /\ i \in inPlay(board)
               /\ board'.piece[i].position = IF id = i THEN to ELSE board.piece[i].position
               /\ id # i => board.piece[i].position # to
    <3>1. i \in ID /\ board'.piece[i].position # NoSquare
      BY <1>8 DEF inPlay
    <3> QED
      BY <3>1, <1>1, <1>5, <1>6, <1>7 DEF inPlay
  <2> QED
    BY <2>1
<1>10. KingsStand(board)
  BY <1>9, KingsOfApart
<1>11. apart(board.piece[8].position, board.piece[24].position)
  BY <1>10 DEF KingsStand
<1>12. getColor(8) = "WHITE" /\ getColor(24) = "BLACK"
  BY DEF getColor, EMPTY
<1>13. CASE id = 8
  <2>1. turn = "WHITE" /\ kingOf(turn) = 8
         /\ kingPlace(board, otherColor(turn)) = board.piece[24].position
    BY <1>1, <1>12, <1>13 DEF kingOf, kingPlace, otherColor
  <2>2. apart(to, board.piece[24].position)
    BY <2>1, <1>1, <1>2, <1>9, <1>10, <1>13, KingOffered
  <2> QED
    BY <2>2, <1>9, <1>13
<1>14. CASE id = 24
  <2>1. turn = "BLACK" /\ kingOf(turn) = 24
         /\ kingPlace(board, otherColor(turn)) = board.piece[8].position
    BY <1>1, <1>12, <1>14 DEF kingOf, kingPlace, otherColor
  <2>2. apart(to, board.piece[8].position)
    BY <2>1, <1>1, <1>2, <1>9, <1>10, <1>14, KingOffered
  <2>3. board.piece[8].position \in Square
    BY <1>2, <1>9, InPlayStanding DEF Standing
  <2>4. apart(board.piece[8].position, to)
    BY <2>2, <2>3, <1>1, NotNear
  <2> QED
    BY <2>4, <1>9, <1>14
<1> QED
  BY <1>9, <1>11, <1>13, <1>14

\* Two kings on a position of their own: at the start of a game, and when one is
\* taken up.
LEMMA PositionApart ==
  ASSUME NEW pos, Position(pos), {8, 24} \subseteq DOMAIN pos => apart(pos[8], pos[24]),
         NEW b, b.piece = genPieces(pos)
  PROVE  KingsApart(b)
<1>1. \A i \in ID : b.piece[i].position = IF i \in DOMAIN pos THEN pos[i] ELSE NoSquare
  BY GenPieces
<1>2. 8 \in ID /\ 24 \in ID
  BY DEF ID
<1> SUFFICES ASSUME 8 \in inPlay(b), 24 \in inPlay(b)
             PROVE  apart(b.piece[8].position, b.piece[24].position)
  BY DEF KingsApart
<1>3. b.piece[8].position # NoSquare /\ b.piece[24].position # NoSquare
  BY DEF inPlay
<1>4. 8 \in DOMAIN pos /\ 24 \in DOMAIN pos
      /\ b.piece[8].position = pos[8] /\ b.piece[24].position = pos[24]
  BY <1>1, <1>2, <1>3
<1> QED
  BY <1>4

\* They stand apart at first.
LEMMA InitApart == BoardInit => KingsApart(board)
<1> SUFFICES ASSUME BoardInit PROVE KingsApart(board)
  OBVIOUS
<1>1. PICK p \in Positions : board = newBoard(p.pieces)
  BY DEF BoardInit
<1>2. Position(p.pieces) /\ ({8, 24} \subseteq DOMAIN p.pieces => apart(p.pieces[8], p.pieces[24]))
  BY PositionsAssumption DEF Position
<1>3. board.piece = genPieces(p.pieces)
  BY <1>1 DEF newBoard
<1> QED
  BY <1>2, <1>3, PositionApart

\* And when a new game is started.
LEMMA RestartApart ==
  ASSUME BoardInv, StartAgain
  PROVE  KingsApart(board')
<1>1. board' = assign(board, newBoard(initialPosition)) /\ BoardOK(board)
  BY DEF StartAgain, BoardInv
<1>2. board'.piece = newBoard(initialPosition).piece
  BY <1>1, Assigned DEF AssignedTo
<1>3. board'.piece = genPieces(initialPosition)
  BY <1>2 DEF newBoard
<1>4. initialPosition[8] = 4 /\ initialPosition[24] = 60
  BY DEF initialPosition, ID
<1>5. apart(4, 60)
  BY DEF apart, row, col, NoSquare
<1> QED
  BY <1>3, <1>4, <1>5, InitialPosition, PositionApart

-----------------------------------------------------------------------------
(* What is offered is legal, and what is legal is offered                  *)

\* What the two properties of moves need: the board's invariant, and kings apart.
RulesInv == BoardInv /\ KingsApart(board)

\* Both hold throughout.
LEMMA RulesInductive == BoardSpec => []RulesInv
<1>1. BoardInit => RulesInv
  BY BoardInvInit, InitApart DEF RulesInv
<1>2. RulesInv /\ [BoardNext]_boardVars => RulesInv'
  <2> SUFFICES ASSUME RulesInv, [BoardNext]_boardVars PROVE BoardInv' /\ KingsApart(board')
    BY DEF RulesInv
  <2>1. BoardInv /\ KingsApart(board)
    BY DEF RulesInv
  <2>2. BoardInv'
    BY <2>1, BoardStep
  <2>3. ASSUME NEW id, NEW to, NEW promotion, Moved(id, to, promotion) PROVE KingsApart(board')
    BY <2>1, <2>3, MovedApart
  <2>4. ASSUME TakenUp PROVE KingsApart(board')
    <3>1. 8 \in ID /\ 24 \in ID
      BY DEF ID
    <3> QED
      BY <3>1, <2>1, <2>4 DEF TakenUp, Alike, KingsApart
  <2>5. ASSUME StartAgain PROVE KingsApart(board')
    BY <2>1, <2>5, RestartApart
  <2>6. ASSUME UNCHANGED boardVars PROVE KingsApart(board')
    BY <2>1, <2>6 DEF boardVars
  <2>7. \/ \E id, to, promotion : Moved(id, to, promotion)
        \/ TakenUp
        \/ StartAgain
        \/ UNCHANGED boardVars
    BY <2>1, BoardStep
  <2> QED
    BY <2>2, <2>3, <2>4, <2>5, <2>6, <2>7
<1> QED
  BY <1>1, <1>2, PTL DEF BoardSpec

\* A king that is in play stands on a square.
LEMMA StandingKings ==
  ASSUME RulesInv, kingsStand
  PROVE  /\ BoardOK(board) /\ KingsStand(board)
         /\ turn \in Color /\ gen = genMoves(board, turn)
<1>1. 8 \in inPlay(board) /\ 24 \in inPlay(board)
  BY DEF kingsStand, kingOf
<1> QED
  BY <1>1, KingsOfApart DEF RulesInv, BoardInv

\* They imply that every legal move is accepted.
LEMMA InvLegal == RulesInv => LegalMovesAreAccepted
<1> SUFFICES ASSUME RulesInv, kingsStand,
                    NEW id \in inPlay(board), getColor(id) = turn, NEW t \in Square,
                    legal(board, id, t),
                    id \notin shields, ~borrows(id), ~(isInCheck(gen) /\ listFull(id))
             PROVE  <<id, t>> \in accepted
  BY DEF LegalMovesAreAccepted
<1>1. /\ BoardOK(board) /\ KingsStand(board)
      /\ turn \in Color /\ gen = genMoves(board, turn)
  BY StandingKings
<1>2. id \in ID /\ id # EMPTY
  BY DEF inPlay, ID, EMPTY
<1>3. ~isPinned(board, turn, id)
  BY <1>2 DEF shields
<1>4. gen.checkedId # EMPTY => ~behindFull(board, id) /\ ~Full(board, id)
  BY FullIsFull DEF isInCheck, borrows, behindFull
<1>5. t \in offered(board, gen, id)
  BY <1>1, <1>3, <1>4, LegalOffered
<1>6. isValidMove(board, gen, turn, id, t)
  <2>1. getColor(id) = IF id <= 16 THEN "WHITE" ELSE "BLACK"
    BY <1>2, IdColor
  <2> QED
    BY <2>1, <1>2, <1>5 DEF isValidMove, ID
<1> QED
  BY <1>2, <1>6 DEF accepted, isAccepted, isColor

\* A move that the rules allow is accepted (genMoves, filterPinned, filterChecked
\* and isValidMove offer it), unless its piece counts as pinned or a full list
\* loses it in a check; on every board that games lead to.
THEOREM LegalIsAccepted == BoardSpec => []LegalMovesAreAccepted
  BY RulesInductive, InvLegal, PTL

\* At most one member.
LEMMA OneMember ==
  ASSUME NEW S, S \subseteq ID, ~(Cardinality(S) > 1)
  PROVE  \A e, f \in S : e = f
<1> SUFFICES ASSUME NEW e \in S, NEW f \in S, e # f PROVE FALSE
  OBVIOUS
<1>1. IsFiniteSet(S)
  <2>1. IsFiniteSet(1 .. 32)
    <3>1. \A x, y \in Int : IsFiniteSet(x .. y)
      BY FS_Interval
    <3>2. 1 \in Int /\ 32 \in Int
      OBVIOUS
    <3> QED
      BY <3>1, <3>2
  <2> QED
    BY <2>1, FS_Subset DEF ID
<1>2. IsFiniteSet({e}) /\ Cardinality({e}) = 1
  BY FS_Singleton
<1>3. IsFiniteSet({e} \cup {f}) /\ Cardinality({e} \cup {f}) = 2
  <2> DEFINE T == {e}
  <2>1. f \notin T /\ IsFiniteSet(T) /\ Cardinality(T) = 1
    BY <1>2
  <2> HIDE DEF T
  <2>2. IsFiniteSet(T \cup {f}) /\ Cardinality(T \cup {f}) = Cardinality(T) + 1
    BY <2>1, FS_AddElement
  <2> QED
    BY <2>1, <2>2 DEF T
<1>4. Cardinality({e} \cup {f}) <= Cardinality(S)
  <2>1. {e} \cup {f} \in SUBSET S
    OBVIOUS
  <2> QED
    BY <2>1, <1>1, FS_Subset
<1>5. Cardinality(S) \in Nat
  BY <1>1, FS_CardinalityType
<1> QED
  BY <1>3, <1>4, <1>5

\* They imply that every accepted move is legal, in the ways that are stated.
LEMMA AcceptedLegal ==
  ASSUME RulesInv, kingsStand, NEW m \in accepted
  PROVE  /\ getColor(m[1]) = turn
         /\ \/ legal(board, m[1], m[2])
            \/ jumps(m[1], m[2])
            \/ backsOff(m[1], m[2])
            \/ borrows(m[1])
            \/ unseenChecker(m[1])
<1> DEFINE id == m[1]
           t == m[2]
<1>1. /\ BoardOK(board) /\ KingsStand(board)
      /\ turn \in Color /\ gen = genMoves(board, turn)
  BY StandingKings
<1>2. id \in inPlay(board) /\ isColor(id, turn) /\ t \in Square
      /\ isValidMove(board, gen, turn, id, t)
  BY DEF accepted, isAccepted
<1> HIDE DEF id, t
<1>3. getColor(id) = turn /\ t \in offered(board, gen, id) /\ id \in ID
  BY <1>2 DEF isColor, isValidMove, inPlay
<1>4. ASSUME ~jumps(id, t), ~backsOff(id, t), ~borrows(id), ~unseenChecker(id)
      PROVE  legal(board, id, t)
  <2>1. ~(gen.checkedId # EMPTY /\ behindFull(board, id))
    BY <1>4, FullIsFull DEF isInCheck, borrows, behindFull
  <2>2. ~leaps(board, id, t)
    BY <1>4 DEF jumps, leaps
  <2>3. id = kingOf(turn) => \A e \in checkers(board, turn) :
          board.piece[id].position \notin between[board.piece[e].position][t]
    BY <1>4 DEF backsOff
  <2>4. id # kingOf(turn) => \A e, f \in checkers(board, turn) : e = f
    <3>1. checkers(board, turn) \subseteq ID
      BY DEF checkers, inPlay
    <3>2. id # kingOf(turn) => ~(Cardinality(checkers(board, turn)) > 1)
      BY <1>4 DEF unseenChecker
    <3> QED
      BY <3>1, <3>2, OneMember
  <2> QED
    BY <1>1, <1>2, <1>3, <2>1, <2>2, <2>3, <2>4, OfferedLegal
<1> QED
  BY <1>3, <1>4 DEF id, t

\* The bounds that isValidMove compares the id less one with leave one piece out.
LEMMA BoundsDivide ==
  ASSUME NEW id \in ID \ {B_ROOK1}, NEW t, turn \in Color,
         isValidMove(board, gen, turn, id, t)
  PROVE  getColor(id) = turn
<1>1. id \in 1 .. 32 /\ id # 17 /\ getColor(id) = IF id <= 16 THEN "WHITE" ELSE "BLACK"
  BY IdColor DEF ID, B_ROOK1
<1>2. ~(id < 17 /\ turn = "BLACK") /\ ~(id > 17 /\ turn = "WHITE")
  BY DEF isValidMove
<1> QED
  BY <1>1, <1>2 DEF Color

LEMMA InvAccepted == RulesInv => AcceptedMovesAreLegal
<1> SUFFICES ASSUME RulesInv, kingsStand PROVE AcceptedMovesAreLegal
  BY DEF AcceptedMovesAreLegal
<1>1. ASSUME NEW id \in inPlay(board) \ {B_ROOK1}, NEW t \in Square,
             isValidMove(board, gen, turn, id, t)
      PROVE  getColor(id) = turn
  <2>1. id \in ID \ {B_ROOK1} /\ turn \in Color
    BY StandingKings DEF inPlay
  <2> QED
    BY <1>1, <2>1, BoundsDivide
<1> QED
  BY <1>1, AcceptedLegal DEF AcceptedMovesAreLegal

\* A move that the game accepts is one of the side to move that the rules allow:
\* it leaves that side's king out of check, but for the four cases that
\* AcceptedMovesAreLegal names; and isValidMove alone keeps the other side's pieces
\* from moving, but for B_ROOK1.
THEOREM AcceptedIsLegal == BoardSpec => []AcceptedMovesAreLegal
  BY RulesInductive, InvAccepted, PTL
=============================================================================
