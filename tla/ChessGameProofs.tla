--------------------------- MODULE ChessGameProofs ---------------------------
(***************************************************************************)
(* The two halves of a game of chess.                                      *)
(*                                                                         *)
(* The clocks: what each operation of the game with its clocks does to the *)
(* books of a game, for the games of the rooms (GameProofs) and for        *)
(* the local one (SingleplayerClientProofs). A game's time is booked if    *)
(* what its clocks have taken is what was used, up to less than a          *)
(* millisecond for each turn that has ended and for each of the p pauses.  *)
(* The turn under way is on no clock yet: it is counted from turnStart. A  *)
(* stored time of zero has taken all there was, however much was used.     *)
(*                                                                         *)
(* The board: what genMoves writes to the move array, list by list and     *)
(* filter by filter, on any board in order (BoardOK), and that moves,      *)
(* promotions, snapshots and restarts keep a board in order. The filters   *)
(* write beyond the list they work on: what a list can lose to another, or *)
(* be given by it, is what Filtered and Rests say.                         *)
(***************************************************************************)
EXTENDS ChessGame, BoardPlay, FiniteSetTheorems, TLAPS

\* The moves of a side in a game that is in progress.
moves(g, side) ==
    IF side = "WHITE" THEN g.version \div 2 ELSE (g.version - 1) \div 2

due(g, side) ==
    g.clockConfig.initialTime + moves(g, side) * g.clockConfig.increment

\* The ticks of the turn under way.
turnTicks(g, side, n) == IF side = g.currentTurn THEN n - g.turnStart ELSE 0

\* What was used and is on no clock: the fractions of the turns that ended.
dropped(g, side, n, u) ==
    u[side] - turnTicks(g, side, n)
      - (due(g, side) - g.time[side]) * TicksPerMs

SideBooked(g, side, n, u, p) ==
    /\ dropped(g, side, n, u) >= 0
    /\ g.time[side] > 0 =>
          dropped(g, side, n, u) <= (moves(g, side) + p) * (TicksPerMs - 1)

Turns(g) ==
    /\ g.version > 0
    /\ g.currentTurn = "WHITE" <=> g.version % 2 = 1

\* The moves of a side in a game that is over.
played(g, side) ==
    IF side = "WHITE" THEN (g.version - 1) \div 2 ELSE (g.version - 2) \div 2

dueAtEnd(g, side) ==
    g.clockConfig.initialTime + played(g, side) * g.clockConfig.increment

LostOnTime(g, u) ==
    LET loser == g.currentTurn
    IN  /\ g.winner = oppositeColor(loser)
        /\ g.time[loser] = 0
        /\ u[loser] >= TicksPerMs * dueAtEnd(g, loser)

\* A game that is over has ended its last turn too, and its clocks stand.
SideSettled(g, side, u, p) ==
    g.time[side] > 0 =>
        u[side] - (dueAtEnd(g, side) - g.time[side]) * TicksPerMs
           \in 0 .. (played(g, side) + 1 + p) * (TicksPerMs - 1)

Booked(g, n, u, p) ==
    /\ g \in ChessGame
    /\ n \in Nat
    /\ u \in [Side -> Nat]
    /\ g.turnStart <= n
    /\ g.state = "NotStarted" =>
         /\ g.currentTurn = "WHITE"
         /\ g.time = [side \in Side |-> 0]
         /\ u = [side \in Side |-> 0]
    /\ g.state = "InProgress" =>
         /\ Turns(g)
         /\ g.clockConfig.enabled => \A side \in Side : SideBooked(g, side, n, u, p)
    /\ g.state = "Finished" /\ g.clockConfig.enabled =>
         \A side \in Side : SideSettled(g, side, u, p)
    /\ g.state # "Finished" => g.endReason = "None"
    /\ g.endReason = "Timeout" => LostOnTime(g, u)

\* The side that waits in a game in progress has time left.
Alive(g) ==
    g.state = "InProgress" /\ g.clockConfig.enabled =>
        g.time[oppositeColor(g.currentTurn)] > 0

-----------------------------------------------------------------------------
(* Arithmetic *)

LEMMA Division ==
  ASSUME NEW x \in Nat
  PROVE  /\ x \div TicksPerMs \in Nat
         /\ x - (x \div TicksPerMs) * TicksPerMs \in 0 .. (TicksPerMs - 1)
BY TicksAssumption

LEMMA Distributive ==
  ASSUME NEW a \in Int, NEW b \in Int, NEW c \in Int
  PROVE  /\ a * c \in Int
         /\ (a + b) * c = a * c + b * c
         /\ (a - b) * c = a * c - b * c
OBVIOUS

LEMMA Monotone ==
  ASSUME NEW a \in Int, NEW b \in Int, NEW c \in Nat, a <= b
  PROVE  a * c <= b * c
OBVIOUS

LEMMA Halves ==
  ASSUME NEW g \in ChessGame, g.version > 0
  PROVE  \A side \in Side : moves(g, side) \in Nat
BY DEF moves, ChessGame, Side

-----------------------------------------------------------------------------
(* Clocks *)

\* What is left is at most what was stored, and both differ by the whole
\* milliseconds of the turn under way.
LEMMA Remaining ==
  ASSUME NEW g \in ChessGame, NEW n \in Nat, g.turnStart <= n,
         NEW side \in Side
  PROVE  /\ elapsed(g, n) \in Nat
         /\ timeRemaining(g, side, n) \in Nat
         /\ g.clockConfig.enabled /\ g.state = "InProgress"
              /\ side = g.currentTurn =>
              timeRemaining(g, side, n) =
                 IF g.time[side] <= elapsed(g, n) THEN 0
                 ELSE g.time[side] - elapsed(g, n)
<1>1. /\ n - g.turnStart \in Nat
      /\ g.time[side] \in Nat
  BY DEF ChessGame
<1>2. elapsed(g, n) \in Nat
  BY <1>1, Division DEF elapsed
<1> QED
  BY <1>1, <1>2 DEF timeRemaining, positivePart

\* Charging the turn under way.
LEMMA Commit ==
  ASSUME NEW g \in ChessGame, NEW n \in Nat, g.turnStart <= n
  PROVE  LET c == commitElapsedToActiveSide(g, n)
             t == timeRemaining(g, g.currentTurn, n)
         IN  /\ c \in ChessGame
             /\ c = [g EXCEPT !.time = c.time, !.turnStart = n]
             /\ c.time = IF g.clockConfig.enabled /\ g.state = "InProgress"
                         THEN [g.time EXCEPT ![g.currentTurn] = t]
                         ELSE g.time
<1>1. g.currentTurn \in Side
  BY DEF ChessGame
<1>2. timeRemaining(g, g.currentTurn, n) \in Nat
  BY <1>1, Remaining
<1>3. g = [state |-> g.state, currentTurn |-> g.currentTurn,
           winner |-> g.winner, endReason |-> g.endReason,
           clockConfig |-> g.clockConfig, time |-> g.time,
           turnStart |-> g.turnStart, version |-> g.version]
  BY DEF ChessGame
<1>4. g.time \in [Side -> Nat]
  BY DEF ChessGame
<1> QED
  BY <1>1, <1>2, <1>3, <1>4 DEF commitElapsedToActiveSide, ChessGame

-----------------------------------------------------------------------------
(* Operations *)

\* Finishing a game touches neither its clocks nor its turn.
LEMMA Finish ==
  ASSUME NEW g \in ChessGame, g.state # "Finished",
         NEW winner \in Side \cup {"EMPTY"}, NEW reason \in ChessGameEndReason
  PROVE  /\ finish(g, winner, reason) \in ChessGame
         /\ finish(g, winner, reason) =
              [g EXCEPT !.state = "Finished", !.winner = winner,
                        !.endReason = reason, !.version = g.version + 1]
<1>1. finish(g, winner, reason) =
        [g EXCEPT !.state = "Finished", !.winner = winner,
                  !.endReason = reason, !.version = g.version + 1]
  BY DEF finish
<1>2. g.version + 1 \in Nat
  BY DEF ChessGame
<1>3. "Finished" \in ChessGameState
  BY DEF ChessGameState
<1> QED
  BY <1>1, <1>2, <1>3, Zenon DEF ChessGame

\* A clock that has run out was used up by its side.
LEMMA UsedUp ==
  ASSUME NEW g, NEW n, NEW u, NEW p \in Nat, Booked(g, n, u, p),
         g.state = "InProgress", timeIsUp(g, n)
  PROVE  u[g.currentTurn] >= TicksPerMs * due(g, g.currentTurn)
<1> DEFINE s == g.currentTurn
<1> DEFINE e == elapsed(g, n)
<1>1. /\ g \in ChessGame /\ n \in Nat /\ g.turnStart <= n
      /\ s \in Side /\ g.clockConfig.enabled
      /\ g.version > 0
      /\ SideBooked(g, s, n, u, p)
  BY DEF Booked, ChessGame, timeIsUp, Turns
<1>2. /\ u[s] \in Nat /\ g.time[s] \in Nat /\ n - g.turnStart \in Nat
      /\ g.clockConfig.initialTime \in Nat
      /\ g.clockConfig.increment \in Nat
      /\ moves(g, s) \in Nat
  BY <1>1, Halves DEF Booked, ChessGame, ChessClockConfig
<1>3. due(g, s) \in Nat
  BY <1>2 DEF due
<1>4. e \in Nat /\ g.time[s] <= e
  BY <1>1, <1>2, Remaining DEF timeIsUp
<1>5. n - g.turnStart - e * TicksPerMs >= 0 /\ e * TicksPerMs \in Int
  <2> DEFINE x == n - g.turnStart
  <2>1. x - (x \div TicksPerMs) * TicksPerMs \in 0 .. (TicksPerMs - 1)
    BY <1>2, Division
  <2>2. e = x \div TicksPerMs
    BY DEF elapsed
  <2>3. e * TicksPerMs \in Int
    BY <1>4, TicksAssumption
  <2> HIDE DEF x, e
  <2> QED
    BY <1>2, <2>1, <2>2, <2>3 DEF x
<1>6. g.time[s] * TicksPerMs <= e * TicksPerMs
  BY <1>2, <1>4, TicksAssumption, Monotone
<1>7. /\ (due(g, s) - g.time[s]) * TicksPerMs
           = due(g, s) * TicksPerMs - g.time[s] * TicksPerMs
      /\ due(g, s) * TicksPerMs \in Int
      /\ g.time[s] * TicksPerMs \in Int
  BY <1>2, <1>3, TicksAssumption, Distributive
<1>8. u[s] - (n - g.turnStart)
        - (due(g, s) - g.time[s]) * TicksPerMs >= 0
  <2>1. turnTicks(g, s, n) = n - g.turnStart
    BY DEF turnTicks
  <2>2. dropped(g, s, n, u) >= 0
    BY <1>1 DEF SideBooked
  <2> QED
    BY <2>1, <2>2 DEF dropped
<1>9. u[s] >= due(g, s) * TicksPerMs
  <2> HIDE DEF s, e
  <2> QED
    BY <1>2, <1>3, <1>5, <1>6, <1>7, <1>8
<1> QED
  BY <1>3, <1>9, TicksAssumption

\* What a clock shows has taken from its side what the side used, but for less
\* than a millisecond of each of its turns, the one under way included, and of
\* each pause.
LEMMA ClockInPlay ==
  ASSUME NEW g, NEW n, NEW u, NEW p \in Nat, Booked(g, n, u, p),
         g.state = "InProgress", g.clockConfig.enabled,
         NEW side \in Side, timeRemaining(g, side, n) > 0
  PROVE  u[side] - (due(g, side) - timeRemaining(g, side, n)) * TicksPerMs
            \in 0 .. (moves(g, side) + 1 + p) * (TicksPerMs - 1)
<1> DEFINE T == TicksPerMs
<1> DEFINE m == moves(g, side)
<1> DEFINE x == n - g.turnStart
<1> DEFINE e == elapsed(g, n)
<1> DEFINE owed == due(g, side) - g.time[side]
<1> DEFINE remains == timeRemaining(g, side, n)
<1>1. /\ g \in ChessGame /\ n \in Nat /\ g.turnStart <= n
      /\ x \in Nat /\ u[side] \in Nat /\ g.time[side] \in Nat
      /\ g.version \in Nat /\ g.version > 0
      /\ g.clockConfig \in ChessClockConfig
      /\ SideBooked(g, side, n, u, p)
  BY DEF Booked, ChessGame, Turns
<1>2. m \in Nat
  BY <1>1, Halves
<1>3. due(g, side) \in Nat
  <2>1. /\ g.clockConfig.initialTime \in Nat
        /\ g.clockConfig.increment \in Nat
    BY <1>1 DEF ChessClockConfig
  <2> QED
    BY <1>2, <2>1 DEF due
<1>4. e \in Nat /\ x - e * T \in 0 .. (T - 1)
  <2>1. e \in Nat
    BY <1>1, Remaining
  <2>2. x - (x \div T) * T \in 0 .. (T - 1)
    BY <1>1, Division
  <2> QED
    BY <2>1, <2>2 DEF elapsed
<1>5. owed \in Int
  BY <1>1, <1>3
<1>6. T \in Nat \ {0}
  BY TicksAssumption
<1>7. remains \in Nat /\ remains > 0 /\ g.time[side] > 0
      /\ remains = g.time[side] - (IF side = g.currentTurn THEN e ELSE 0)
  <2>1. CASE side = g.currentTurn
    BY <1>1, <1>4, <2>1, Remaining
  <2>2. CASE side # g.currentTurn
    BY <1>1, <2>2 DEF timeRemaining
  <2> QED
    BY <2>1, <2>2
<1> DEFINE ticks == turnTicks(g, side, n)
<1> DEFINE d == u[side] - ticks - owed * T
<1> DEFINE most == (m + p) * (T - 1)
<1>8. d >= 0 /\ d <= most
  <2>1. dropped(g, side, n, u) = d
    BY DEF dropped
  <2> QED
    BY <1>1, <1>7, <2>1 DEF SideBooked
<1>9. most \in Int /\ (m + 1 + p) * (T - 1) = most + (T - 1)
  <2> DEFINE a == m + p
  <2> DEFINE c == T - 1
  <2>1. a \in Int /\ c \in Int /\ m + 1 + p = a + 1
    BY <1>2, <1>6
  <2> HIDE DEF a, c
  <2>2. a * c \in Int /\ (a + 1) * c = a * c + 1 * c /\ 1 * c = c
    BY <2>1, Distributive
  <2> QED
    BY <2>1, <2>2 DEF a, c
<1>10. ticks = IF side = g.currentTurn THEN x ELSE 0
  BY DEF turnTicks
<1>11. owed * T \in Int /\ e * T \in Int /\ (owed + e) * T = owed * T + e * T
  <2> HIDE DEF owed, e, T
  <2> QED
    BY <1>4, <1>5, <1>6, Distributive
<1>12. due(g, side) - remains = IF side = g.currentTurn THEN owed + e ELSE owed
  <2> HIDE DEF remains, e
  <2> QED
    BY <1>1, <1>3, <1>4, <1>7
<1>13. u[side] - (due(g, side) - remains) * T
          \in 0 .. (m + 1 + p) * (T - 1)
  <2> HIDE DEF m, x, e, owed, remains, ticks, most, T
  <2>1. CASE side = g.currentTurn
    BY <1>1, <1>4, <1>6, <1>8, <1>9, <1>10, <1>11, <1>12, <2>1
  <2>2. CASE side # g.currentTurn
    BY <1>1, <1>4, <1>6, <1>8, <1>9, <1>10, <1>11, <1>12, <2>2
  <2> QED
    BY <2>1, <2>2
<1> QED
  BY <1>13

\* What the clocks show when a game ends is what they keep, and is settled.
LEMMA EndSettled ==
  ASSUME NEW g, NEW n, NEW u, NEW p \in Nat, Booked(g, n, u, p),
         g.state = "InProgress", g.clockConfig.enabled,
         NEW h, h.version = g.version + 1, h.clockConfig = g.clockConfig,
         \A side \in Side : h.time[side] = timeRemaining(g, side, n)
  PROVE  \A side \in Side : SideSettled(h, side, u, p)
<1> SUFFICES ASSUME NEW side \in Side, h.time[side] > 0
             PROVE  SideSettled(h, side, u, p)
  BY DEF SideSettled
<1>1. u[side] - (due(g, side) - h.time[side]) * TicksPerMs
         \in 0 .. (moves(g, side) + 1 + p) * (TicksPerMs - 1)
  BY ClockInPlay
<1>2. played(h, side) = moves(g, side)
  <2>1. g.version \in Nat
    BY DEF Booked, ChessGame
  <2>2. h.version - 1 = g.version /\ h.version - 2 = g.version - 1
    BY <2>1
  <2> QED
    BY <2>2 DEF played, moves
<1>3. dueAtEnd(h, side) = due(g, side)
  BY <1>2, Zenon DEF dueAtEnd, due
<1> QED
  BY <1>1, <1>2, <1>3, Zenon DEF SideSettled

\* A turn that has just begun has taken nothing yet.
LEMMA TurnJustBegun ==
  ASSUME NEW g \in ChessGame, NEW n \in Nat, g.clockConfig.enabled,
         g.state = "InProgress" => g.turnStart = n, NEW side \in Side
  PROVE  timeRemaining(g, side, n) = g.time[side]
<1>1. g.time[side] \in Nat
  BY DEF ChessGame
<1>2. CASE g.state = "InProgress"
  <2>1. elapsed(g, n) = 0
    <3>1. 0 \div TicksPerMs = 0 /\ n - g.turnStart = 0
      BY <1>2, TicksAssumption
    <3> QED
      BY <3>1 DEF elapsed
  <2> QED
    BY <1>1, <2>1 DEF timeRemaining, positivePart
<1>3. CASE g.state # "InProgress"
  BY <1>3 DEF timeRemaining
<1> QED
  BY <1>2, <1>3

\* What the room's tick leaves: a game whose clock has run out is over, any other
\* is as it was.
LEMMA TickKept ==
  ASSUME NEW g, NEW n, NEW u, NEW p \in Nat, Booked(g, n, u, p)
  PROVE  /\ Booked(tick(g, n), n, u, p)
         /\ tick(g, n).state = "InProgress" =>
              tick(g, n) = g /\ ~timeIsUp(g, n)
<1>1. CASE ~(g.state = "InProgress" /\ timeIsUp(g, n))
  <2>1. tick(g, n) = g
    BY <1>1 DEF tick, refreshTerminalStateFromBoard
  <2> QED
    BY <1>1, <2>1
<1>2. CASE g.state = "InProgress" /\ timeIsUp(g, n)
  <2> DEFINE c == commitElapsedToActiveSide(g, n)
  <2> DEFINE r == tick(g, n)
  <2>1. /\ g \in ChessGame /\ n \in Nat /\ g.turnStart <= n
        /\ u \in [Side -> Nat] /\ g.currentTurn \in Side
        /\ Turns(g)
    BY <1>2 DEF Booked, ChessGame
  <2>2. r = finish(c, oppositeColor(g.currentTurn), "Timeout")
    BY <1>2 DEF tick, refreshTerminalStateFromBoard
  <2>3. /\ c \in ChessGame
        /\ c = [g EXCEPT !.time = c.time, !.turnStart = n]
        /\ c.time = [g.time EXCEPT ![g.currentTurn] = 0]
    BY <1>2, <2>1, Commit DEF timeIsUp
  <2>4. c.state = "InProgress" /\ c.currentTurn = g.currentTurn
        /\ c.turnStart = n /\ c.version = g.version
        /\ c.clockConfig = g.clockConfig
    BY <1>2, <2>1, <2>3 DEF ChessGame
  <2>5. oppositeColor(g.currentTurn) \in Side
    BY <2>1 DEF oppositeColor, Side
  <2> HIDE DEF c, r
  <2>6. /\ r \in ChessGame
        /\ r = [c EXCEPT !.state = "Finished",
                         !.winner = oppositeColor(g.currentTurn),
                         !.endReason = "Timeout", !.version = c.version + 1]
    BY <2>2, <2>3, <2>4, <2>5, Finish DEF ChessGameEndReason
  <2>7. /\ r.state = "Finished" /\ r.currentTurn = g.currentTurn
        /\ r.winner = oppositeColor(g.currentTurn)
        /\ r.turnStart = n /\ r.version = g.version + 1
        /\ r.time = [g.time EXCEPT ![g.currentTurn] = 0]
        /\ r.clockConfig = g.clockConfig
    BY <2>3, <2>4, <2>6 DEF ChessGame
  <2>8. r.time[g.currentTurn] = 0
    BY <2>1, <2>7 DEF ChessGame
  <2>9. /\ r.version - 1 = g.version
        /\ r.version - 2 = g.version - 1
    BY <2>1, <2>7 DEF ChessGame
  <2>10. u[g.currentTurn] >= TicksPerMs * due(g, g.currentTurn)
    BY <1>2, UsedUp
  <2>11. LostOnTime(r, u)
    BY <2>7, <2>8, <2>9, <2>10 DEF LostOnTime, due, moves, dueAtEnd, played
  <2>12. ASSUME g.clockConfig.enabled, NEW side \in Side
         PROVE  r.time[side] = timeRemaining(g, side, n)
    <3>1. CASE side = g.currentTurn
      BY <1>2, <2>7, <2>8, <3>1 DEF timeIsUp
    <3>2. CASE side # g.currentTurn
      BY <2>1, <2>7, <2>12, <3>2 DEF timeRemaining, ChessGame
    <3> QED
      BY <3>1, <3>2
  <2>13. g.clockConfig.enabled => \A side \in Side : SideSettled(r, side, u, p)
    <3> SUFFICES ASSUME g.clockConfig.enabled
                 PROVE  \A side \in Side : SideSettled(r, side, u, p)
      OBVIOUS
    <3>1. \A side \in Side : r.time[side] = timeRemaining(g, side, n)
      BY <2>12
    <3>2. r.version = g.version + 1 /\ r.clockConfig = g.clockConfig
      BY <2>7
    <3> QED
      BY <1>2, <3>1, <3>2, EndSettled
  <2> QED
    BY <2>1, <2>6, <2>7, <2>11, <2>13 DEF Booked, r
<1> QED
  BY <1>1, <1>2

\* The game that start makes, before it looks at the clocks.
initially(g) ==
    IF g.clockConfig.enabled THEN g.clockConfig.initialTime ELSE 0

fullClocks(g) == [side \in Side |-> initially(g)]

opened(g, n) ==
    [newGame(g.clockConfig) EXCEPT
       !.state = "InProgress", !.version = 1, !.turnStart = n,
       !.time = fullClocks(g)]

LEMMA Opened ==
  ASSUME NEW g, NEW n, NEW u, NEW p \in Nat, Booked(g, n, u, p), g.state = "NotStarted"
  PROVE  /\ start(g, n) = tick(opened(g, n), n)
         /\ Booked(opened(g, n), n, u, p)
         /\ opened(g, n).state = "InProgress"
         /\ opened(g, n).currentTurn = "WHITE"
         /\ opened(g, n).winner = "EMPTY"
         /\ opened(g, n).endReason = "None"
         /\ opened(g, n).clockConfig = g.clockConfig
         /\ opened(g, n).time = fullClocks(g)
         /\ opened(g, n).turnStart = n
         /\ opened(g, n).version = 1
<1> DEFINE initial == initially(g)
<1> DEFINE b == opened(g, n)
<1>1. start(g, n) = tick(b, n)
  BY Zenon DEF start, tick, opened, initially, fullClocks
<1>2. /\ g.clockConfig \in ChessClockConfig /\ n \in Nat
      /\ u = [side \in Side |-> 0] /\ u \in [Side -> Nat]
      /\ initial \in Nat
  BY DEF Booked, ChessGame, ChessClockConfig, initially
<1> HIDE DEF initial
<1>3. /\ b \in ChessGame
      /\ b.state = "InProgress" /\ b.currentTurn = "WHITE"
      /\ b.winner = "EMPTY" /\ b.endReason = "None"
      /\ b.clockConfig = g.clockConfig
      /\ b.time = [side \in Side |-> initial]
      /\ b.turnStart = n /\ b.version = 1
  <2> DEFINE full == [side \in Side |-> initial]
  <2> DEFINE new == newGame(g.clockConfig)
  <2>1. full \in [Side -> Nat]
    BY <1>2
  <2>2. new \in ChessGame /\ new.currentTurn = "WHITE"
        /\ new.winner = "EMPTY" /\ new.endReason = "None"
        /\ new.clockConfig = g.clockConfig
    <3>1. [side \in Side |-> 0] \in [Side -> Nat]
      OBVIOUS
    <3>2. "NotStarted" \in ChessGameState /\ "WHITE" \in Side
          /\ "None" \in ChessGameEndReason /\ 0 \in Nat
      BY DEF ChessGameState, ChessGameEndReason, Side
    <3> QED
      BY <1>2, <3>1, <3>2, Zenon DEF newGame, ChessGame
  <2> HIDE DEF full, new
  <2>3. b = [new EXCEPT !.state = "InProgress", !.version = 1,
                        !.turnStart = n, !.time = full]
    BY Zenon DEF full, new, opened, initial, fullClocks
  <2> HIDE DEF b
  <2>4. /\ b \in ChessGame
        /\ b.state = "InProgress" /\ b.currentTurn = new.currentTurn
        /\ b.winner = new.winner /\ b.endReason = new.endReason
        /\ b.clockConfig = new.clockConfig /\ b.time = full
        /\ b.turnStart = n /\ b.version = 1
    BY <1>2, <2>1, <2>2, <2>3 DEF ChessGame, ChessGameState
  <2> QED
    BY <2>2, <2>4, Zenon DEF full
<1>4. b \in ChessGame
  BY <1>3
<1> HIDE DEF b
<1>5. \A side \in Side : moves(b, side) = 0
  BY <1>3 DEF moves, Side
<1>6. ASSUME b.clockConfig.enabled, NEW side \in Side
      PROVE  SideBooked(b, side, n, u, p)
  <2>1. initial = g.clockConfig.initialTime
        /\ g.clockConfig.initialTime \in Nat
        /\ g.clockConfig.increment \in Nat
    BY <1>2, <1>3, <1>6 DEF initial, initially, ChessClockConfig
  <2>2. due(b, side) = initial /\ b.time[side] = initial
    BY <1>3, <1>5, <2>1 DEF due
  <2>3. turnTicks(b, side, n) = 0 /\ u[side] = 0
    BY <1>2, <1>3 DEF turnTicks
  <2>4. (initial - initial) * TicksPerMs = 0
    BY <1>2, TicksAssumption
  <2>5. dropped(b, side, n, u) = 0
    BY <2>2, <2>3, <2>4 DEF dropped
  <2>6. 0 <= (0 + p) * (TicksPerMs - 1)
    BY TicksAssumption
  <2> QED
    BY <1>5, <2>5, <2>6 DEF SideBooked
<1>7. Turns(b)
  BY <1>3 DEF Turns
<1>8. Booked(b, n, u, p)
  BY <1>2, <1>3, <1>4, <1>6, <1>7 DEF Booked
<1> QED
  BY <1>1, <1>3, <1>8, Zenon DEF b, initial, fullClocks

\* Starting a game puts the same time on both clocks; with no time at all, the
\* look at the clocks ends it.
LEMMA StartKept ==
  ASSUME NEW g, NEW n, NEW u, NEW p \in Nat, Booked(g, n, u, p), g.state = "NotStarted"
  PROVE  Booked(start(g, n), n, u, p) /\ Alive(start(g, n))
<1> DEFINE initial == initially(g)
<1> DEFINE b == opened(g, n)
<1>1. start(g, n) = tick(b, n) /\ Booked(b, n, u, p)
  BY Opened
<1>2. initial \in Nat /\ n \in Nat
  BY DEF Booked, ChessGame, ChessClockConfig, initially
<1>3. /\ b.state = "InProgress" /\ b.currentTurn = "WHITE"
      /\ b.turnStart = n
      /\ b.time = fullClocks(g)
  BY Opened
<1>4. b \in ChessGame /\ b.time = [side \in Side |-> initial]
  BY <1>1, <1>3 DEF Booked, fullClocks
<1> HIDE DEF b, initial
<1>5. /\ Booked(tick(b, n), n, u, p)
      /\ tick(b, n).state = "InProgress" =>
           tick(b, n) = b /\ ~timeIsUp(b, n)
  BY <1>1, TickKept
<1>6. ASSUME ~timeIsUp(b, n), b.clockConfig.enabled, NEW side \in Side
       PROVE  b.time[side] > 0
  <2>1. timeRemaining(b, "WHITE", n) # 0 /\ "WHITE" \in Side
        /\ elapsed(b, n) \in Nat
    BY <1>2, <1>3, <1>4, <1>6, Remaining DEF timeIsUp, Side
  <2>2. initial # 0
    BY <1>2, <1>3, <1>4, <1>6, <2>1 DEF timeRemaining, positivePart
  <2> QED
    BY <1>2, <1>3, <1>4, <2>2
<1>7. oppositeColor(b.currentTurn) \in Side
  BY <1>3 DEF oppositeColor, Side
<1> QED
  BY <1>1, <1>5, <1>6, <1>7 DEF Alive

\* After a move the mover's whole milliseconds are on his clock, with the
\* increment; the other side's clock starts with what was stored.
LEMMA AdvanceKept ==
  ASSUME NEW g, NEW n, NEW u, NEW p \in Nat, Booked(g, n, u, p), Alive(g),
         g.state = "InProgress", ~timeIsUp(g, n)
  PROVE  LET a == advanceTurn([g EXCEPT !.version = @ + 1], n)
         IN  /\ Booked(a, n, u, p) /\ Alive(a)
             /\ a.state = "InProgress" /\ ~timeIsUp(a, n)
             /\ a.currentTurn = oppositeColor(g.currentTurn)
             /\ a.version = g.version + 1 /\ a.turnStart = n
             /\ a.winner = g.winner /\ a.endReason = g.endReason
<1> DEFINE v == [g EXCEPT !.version = @ + 1]
<1> DEFINE c == commitElapsedToActiveSide(v, n)
<1> DEFINE s == g.currentTurn
<1> DEFINE o == oppositeColor(s)
<1> DEFINE bonus == IF g.clockConfig.enabled THEN g.clockConfig.increment
                    ELSE 0
<1> DEFINE e == elapsed(g, n)
<1> DEFINE a == advanceTurn(v, n)
<1>1. /\ g \in ChessGame /\ n \in Nat /\ g.turnStart <= n
      /\ u \in [Side -> Nat] /\ s \in Side /\ Turns(g)
      /\ g.version \in Nat /\ g.version > 0
      /\ g.time \in [Side -> Nat] /\ g.turnStart \in Nat
      /\ g.clockConfig \in ChessClockConfig
      /\ g.endReason = "None"
  BY DEF Booked, ChessGame, Turns
<1>2. /\ o \in Side /\ o # s /\ \A side \in Side : side = s \/ side = o
  BY <1>1 DEF oppositeColor, Side
<1>3. bonus \in Nat
  BY <1>1 DEF ChessClockConfig
<1>4. /\ v \in ChessGame
      /\ v.state = "InProgress" /\ v.currentTurn = s
      /\ v.clockConfig = g.clockConfig /\ v.time = g.time
      /\ v.turnStart = g.turnStart /\ v.version = g.version + 1
      /\ v.winner = g.winner /\ v.endReason = g.endReason
  <2>1. g.version + 1 \in Nat
    BY <1>1
  <2> QED
    BY <1>1, <2>1 DEF ChessGame
<1> HIDE DEF v, s
<1>5. timeRemaining(v, s, n) = timeRemaining(g, s, n)
  <2>1. elapsed(v, n) = elapsed(g, n)
    BY <1>4 DEF elapsed
  <2> QED
    BY <1>4, <2>1, Zenon DEF timeRemaining, s
<1>6. /\ c \in ChessGame
      /\ c = [v EXCEPT !.time = c.time, !.turnStart = n]
      /\ c.time = IF g.clockConfig.enabled
                  THEN [g.time EXCEPT ![s] = timeRemaining(g, s, n)]
                  ELSE g.time
  <2>1. /\ c \in ChessGame
        /\ c = [v EXCEPT !.time = c.time, !.turnStart = n]
        /\ c.time = IF v.clockConfig.enabled /\ v.state = "InProgress"
                    THEN [v.time EXCEPT ![v.currentTurn] =
                             timeRemaining(v, v.currentTurn, n)]
                    ELSE v.time
    <3>1. v \in ChessGame /\ n \in Nat /\ v.turnStart <= n
      BY <1>1, <1>4
    <3> QED
      BY <3>1, Commit
  <2>2. v.currentTurn = s /\ v.time = g.time /\ v.state = "InProgress"
        /\ v.clockConfig = g.clockConfig
    BY <1>4
  <2> QED
    BY <2>1, <2>2, <1>5, Zenon
<1> HIDE DEF c, o, bonus, e
<1>7. a = [c EXCEPT !.time[s] = @ + bonus, !.currentTurn = oppositeColor(@)]
  BY <1>4, Zenon DEF advanceTurn, c, bonus
<1> HIDE DEF a
<1>8. /\ c.currentTurn = s /\ c.turnStart = n /\ c.state = "InProgress"
      /\ c.clockConfig = g.clockConfig /\ c.version = g.version + 1
      /\ c.winner = g.winner /\ c.endReason = "None"
      /\ c.time \in [Side -> Nat]
  BY <1>1, <1>4, <1>6 DEF ChessGame
<1>9. /\ a.currentTurn = o /\ a.turnStart = n /\ a.state = "InProgress"
      /\ a.clockConfig = g.clockConfig /\ a.version = g.version + 1
      /\ a.winner = g.winner /\ a.endReason = "None"
      /\ a.time = [c.time EXCEPT ![s] = c.time[s] + bonus]
      /\ a = [state |-> a.state, currentTurn |-> a.currentTurn,
              winner |-> a.winner, endReason |-> a.endReason,
              clockConfig |-> a.clockConfig, time |-> a.time,
              turnStart |-> a.turnStart, version |-> a.version]
  BY <1>6, <1>7, <1>8 DEF ChessGame, o
<1>10. a.time \in [Side -> Nat]
  BY <1>1, <1>3, <1>8, <1>9
<1>11. a \in ChessGame
  <2>1. a = [c EXCEPT !.time = a.time, !.currentTurn = o]
    BY <1>6, <1>9, <1>7, <1>8 DEF o
  <2> QED
    BY <1>2, <1>6, <1>10, <2>1, Zenon DEF ChessGame
<1>12. Turns(a)
  <2>1. /\ a.version = g.version + 1 /\ g.version \in Nat /\ g.version > 0
        /\ s = "WHITE" => g.version % 2 = 1
        /\ s # "WHITE" => g.version % 2 # 1
    BY <1>1, <1>9 DEF Turns, s
  <2>2. a.currentTurn = "WHITE" <=> s # "WHITE"
    BY <1>1, <1>9 DEF oppositeColor, o, Side
  <2>3. CASE s = "WHITE"
    BY <2>1, <2>2, <2>3 DEF Turns
  <2>4. CASE s # "WHITE"
    BY <2>1, <2>2, <2>4 DEF Turns
  <2> QED
    BY <2>3, <2>4
<1>13. elapsed(a, n) = 0
  <2>1. n - a.turnStart = 0
    BY <1>1, <1>9
  <2>2. 0 \div TicksPerMs = 0
    BY TicksAssumption
  <2> QED
    BY <2>1, <2>2 DEF elapsed
<1>14. ASSUME g.clockConfig.enabled
       PROVE  /\ e \in Nat /\ g.time[s] > e
              /\ a.time[s] = g.time[s] - e + bonus
              /\ a.time[o] = g.time[o] /\ g.time[o] > 0
              /\ bonus = g.clockConfig.increment
  <2>1. /\ e \in Nat /\ timeRemaining(g, s, n) \in Nat
        /\ timeRemaining(g, s, n) =
              IF g.time[s] <= e THEN 0 ELSE g.time[s] - e
    BY <1>1, <1>14, Remaining DEF e, s
  <2>2. timeRemaining(g, s, n) # 0
    BY <1>14 DEF timeIsUp, s
  <2>3. c.time[s] = timeRemaining(g, s, n) /\ c.time[o] = g.time[o]
    BY <1>1, <1>2, <1>6, <1>14
  <2>4. a.time[s] = c.time[s] + bonus /\ a.time[o] = c.time[o]
    BY <1>1, <1>2, <1>8, <1>9
  <2>5. g.time[o] > 0 /\ g.time[s] \in Nat
    BY <1>1, <1>2, <1>14 DEF Alive, o, s
  <2> QED
    BY <1>14, <2>1, <2>2, <2>3, <2>4, <2>5 DEF bonus
<1>15. Alive(a)
  <2>1. ASSUME g.clockConfig.enabled PROVE a.time[s] > 0
    BY <1>1, <1>3, <1>14, <2>1
  <2>2. oppositeColor(a.currentTurn) = s
    BY <1>1, <1>9 DEF oppositeColor, o, Side
  <2> QED
    BY <1>9, <2>1, <2>2 DEF Alive
<1>16. ~timeIsUp(a, n)
  <2>1. ASSUME g.clockConfig.enabled PROVE timeRemaining(a, o, n) # 0
    <3>1. a.time[o] \in Nat /\ a.time[o] > 0
      BY <1>2, <1>10, <1>14, <2>1
    <3>2. /\ a.turnStart <= n /\ a.currentTurn = o
          /\ a.state = "InProgress" /\ a.clockConfig.enabled
      BY <1>1, <1>9, <2>1
    <3>3. timeRemaining(a, o, n) =
            IF a.time[o] <= elapsed(a, n) THEN 0
            ELSE a.time[o] - elapsed(a, n)
      BY <1>1, <1>2, <1>11, <3>2, Remaining
    <3> QED
      BY <1>13, <3>1, <3>3
  <2> QED
    BY <1>9, <2>1 DEF timeIsUp
<1>17. ASSUME g.clockConfig.enabled PROVE SideBooked(a, o, n, u, p)
  <2>1. moves(a, o) = moves(g, o)
    BY <1>1, <1>2, <1>9 DEF moves, Turns, oppositeColor, o, s, Side
  <2>2. due(a, o) = due(g, o)
    BY <1>9, <2>1 DEF due
  <2>3. turnTicks(a, o, n) = 0 /\ turnTicks(g, o, n) = 0
    BY <1>1, <1>2, <1>9 DEF turnTicks, s
  <2>4. a.time[o] = g.time[o]
    BY <1>14, <1>17
  <2>5. dropped(a, o, n, u) = dropped(g, o, n, u)
    BY <2>2, <2>3, <2>4 DEF dropped
  <2>6. SideBooked(g, o, n, u, p)
    BY <1>2, <1>17 DEF Booked
  <2> QED
    BY <2>1, <2>4, <2>5, <2>6 DEF SideBooked
<1>18. ASSUME g.clockConfig.enabled PROVE SideBooked(a, s, n, u, p)
  <2> DEFINE inc == g.clockConfig.increment
  <2> DEFINE init == g.clockConfig.initialTime
  <2> DEFINE m == moves(g, s)
  <2> DEFINE T == TicksPerMs
  <2> DEFINE x == n - g.turnStart
  <2> DEFINE owed == due(g, s) - g.time[s]
  <2>1. inc \in Nat /\ init \in Nat /\ x \in Nat /\ u[s] \in Nat
        /\ g.time[s] \in Nat
    BY <1>1 DEF ChessClockConfig
  <2>2. m \in Nat
    BY <1>1, Halves
  <2>3. moves(a, s) = m + 1
    <3>1. /\ a.version = g.version + 1 /\ g.version \in Nat /\ g.version > 0
          /\ s = "WHITE" => g.version % 2 = 1
          /\ s # "WHITE" => g.version % 2 # 1
      BY <1>1, <1>9 DEF Turns, s
    <3>2. CASE s = "WHITE"
      BY <3>1, <3>2 DEF moves
    <3>3. CASE s # "WHITE"
      BY <3>1, <3>3 DEF moves
    <3> QED
      BY <3>2, <3>3
  <2>4. due(g, s) = init + m * inc /\ due(a, s) = init + (m + 1) * inc
    BY <1>9, <2>3 DEF due
  <2>5. (m + 1) * inc = m * inc + inc /\ m * inc \in Int
    <3> HIDE DEF m, inc
    <3>1. (m + 1) * inc = m * inc + 1 * inc
      BY <2>1, <2>2, Distributive
    <3> QED
      BY <2>1, <2>2, <3>1
  <2>6. turnTicks(a, s, n) = 0 /\ turnTicks(g, s, n) = x
    BY <1>2, <1>9 DEF turnTicks, s
  <2>7. /\ e \in Nat /\ a.time[s] = g.time[s] - e + inc
    BY <1>14, <1>18
  <2>8. x - e * T \in 0 .. (T - 1)
    BY <2>1, Division DEF elapsed, e
  <2>9. SideBooked(g, s, n, u, p)
    BY <1>1, <1>18 DEF Booked
  <2> HIDE DEF inc, init, m, x, T
  <2>10. owed \in Int /\ due(a, s) - a.time[s] = owed + e
    BY <2>1, <2>2, <2>4, <2>5, <2>7
  <2> HIDE DEF owed
  <2>11. T \in Nat \ {0}
    BY TicksAssumption DEF T
  <2>12. (owed + e) * T = owed * T + e * T /\ owed * T \in Int /\ e * T \in Int
    BY <2>7, <2>10, <2>11, Distributive
  <2>13. u[s] - x - owed * T \in 0 .. (m + p) * (T - 1)
    <3>1. g.time[s] > 0
      BY <1>14, <1>18, <2>1
    <3>2. (m + p) * (T - 1) \in Int /\ u[s] - x - owed * T \in Int
      BY <2>1, <2>2, <2>11, <2>12
    <3>3. /\ u[s] - x - owed * T >= 0
          /\ u[s] - x - owed * T <= (m + p) * (T - 1)
      BY <2>6, <2>9, <3>1 DEF SideBooked, dropped, owed, m, T
    <3> QED
      BY <3>2, <3>3
  <2>14. /\ (m + p) * (T - 1) \in Int
         /\ (m + 1 + p) * (T - 1) = (m + p) * (T - 1) + (T - 1)
    <3>1. m + p \in Int /\ T - 1 \in Int /\ m + 1 + p = (m + p) + 1
      BY <2>2, <2>11
    <3> QED
      BY <3>1, Distributive
  <2>15. u[s] - 0 - (owed + e) * T \in 0 .. (m + 1 + p) * (T - 1)
    BY <2>1, <2>8, <2>11, <2>12, <2>13, <2>14
  <2>16. dropped(a, s, n, u) = u[s] - 0 - (owed + e) * T
    BY <2>6, <2>10 DEF dropped, T
  <2> QED
    <3> DEFINE d == u[s] - 0 - (owed + e) * T
    <3> DEFINE most == (m + 1 + p) * (T - 1)
    <3>1. most \in Int
      BY <2>11, <2>14
    <3>2. d >= 0 /\ d <= most
      BY <2>15, <3>1
    <3>3. dropped(a, s, n, u) = d
      BY <2>16
    <3>4. most = (moves(a, s) + p) * (TicksPerMs - 1)
      BY <2>3 DEF T
    <3> HIDE DEF d, most
    <3> QED
      BY <3>2, <3>3, <3>4, Zenon DEF SideBooked
<1>19. Booked(a, n, u, p)
  BY <1>1, <1>2, <1>9, <1>11, <1>12, <1>17, <1>18 DEF Booked
<1> QED
  BY <1>1, <1>9, <1>15, <1>16, <1>19 DEF a, v, o, s

\* Also a game that ends otherwise is booked: it ends when a turn has just begun.
LEMMA FinishKept ==
  ASSUME NEW g, NEW n, NEW u, NEW p \in Nat, Booked(g, n, u, p), g.state = "InProgress",
         g.turnStart = n,
         NEW winner \in Side \cup {"EMPTY"},
         NEW reason \in ChessGameEndReason \ {"Timeout"}
  PROVE  Booked(finish(g, winner, reason), n, u, p)
<1> DEFINE r == finish(g, winner, reason)
<1>1. g \in ChessGame /\ g.state # "Finished" /\ n \in Nat /\ u \in [Side -> Nat]
  BY DEF Booked
<1>2. /\ r \in ChessGame
      /\ r = [g EXCEPT !.state = "Finished", !.winner = winner,
                       !.endReason = reason, !.version = g.version + 1]
  BY <1>1, Finish
<1> HIDE DEF r
<1>3. /\ r.state = "Finished" /\ r.endReason # "Timeout"
      /\ r.turnStart = g.turnStart /\ r.version = g.version + 1
      /\ r.clockConfig = g.clockConfig /\ r.time = g.time
  BY <1>1, <1>2 DEF ChessGame
<1>4. g.clockConfig.enabled => \A side \in Side : SideSettled(r, side, u, p)
  BY <1>1, <1>3, TurnJustBegun, EndSettled
<1> QED
  BY <1>1, <1>2, <1>3, <1>4 DEF Booked, r

LEMMA Over ==
  ASSUME NEW g \in ChessGame, NEW winner, NEW reason
  PROVE  finish(g, winner, reason).state = "Finished"
BY DEF finish, ChessGame

LEMMA MoveKept ==
  ASSUME NEW g, NEW n, NEW u, NEW p \in Nat, Booked(g, n, u, p), Alive(g),
         NEW side \in Side, NEW outcome \in MoveOutcome
  PROVE  LET r == submitMove(g, side, outcome, n)
         IN  Booked(r, n, u, p) /\ Alive(r)
<1>1. CASE ~moveAccepted(g, side, outcome, n)
  <2>1. submitMove(g, side, outcome, n) = tick(g, n)
    BY <1>1 DEF submitMove
  <2>2. Booked(tick(g, n), n, u, p) /\ Alive(tick(g, n))
    BY TickKept DEF Alive
  <2> QED
    BY <2>1, <2>2
<1>2. CASE moveAccepted(g, side, outcome, n)
  <2> DEFINE a == advanceTurn([g EXCEPT !.version = @ + 1], n)
  <2> DEFINE r == refreshTerminalStateFromBoard(a, outcome, n)
  <2>1. g.state = "InProgress" /\ ~timeIsUp(g, n)
    BY <1>2, TickKept DEF moveAccepted
  <2>2. /\ Booked(a, n, u, p) /\ Alive(a)
        /\ a.state = "InProgress" /\ ~timeIsUp(a, n) /\ a.turnStart = n
    BY <2>1, AdvanceKept
  <2>3. submitMove(g, side, outcome, n) = r
    BY <1>2 DEF submitMove
  <2> HIDE DEF a, r
  <2>4. oppositeColor(a.currentTurn) \in Side /\ a \in ChessGame
    BY <2>2 DEF oppositeColor, Side, Booked
  <2>5. CASE outcome = "checkmate"
    <3>1. r = finish(a, oppositeColor(a.currentTurn), "Checkmate")
      BY <2>2, <2>5 DEF refreshTerminalStateFromBoard, r
    <3>2. Booked(r, n, u, p)
      BY <2>2, <2>4, <3>1, FinishKept DEF ChessGameEndReason
    <3> QED
      BY <2>2, <2>3, <2>4, <3>1, <3>2, Over, Zenon DEF Alive
  <2>6. CASE outcome = "stalemate"
    <3>1. r = finish(a, "EMPTY", "Draw")
      BY <2>2, <2>6 DEF refreshTerminalStateFromBoard, r
    <3>2. Booked(r, n, u, p)
      BY <2>2, <3>1, FinishKept DEF ChessGameEndReason
    <3> QED
      BY <2>2, <2>3, <2>4, <3>1, <3>2, Over, Zenon DEF Alive
  <2>7. CASE outcome \notin {"checkmate", "stalemate"}
    <3>1. r = a
      BY <2>2, <2>7 DEF refreshTerminalStateFromBoard, r
    <3> QED
      BY <2>2, <2>3, <3>1, Zenon
  <2> QED
    BY <2>5, <2>6, <2>7
<1> QED
  BY <1>1, <1>2

\* Resigning charges the turn under way.
LEMMA ResignKept ==
  ASSUME NEW g, NEW n, NEW u, NEW p \in Nat, Booked(g, n, u, p), Alive(g), NEW side \in Side
  PROVE  LET r == resign(g, side, n)
         IN  Booked(r, n, u, p) /\ Alive(r)
<1> DEFINE k == commitElapsedToActiveSide(g, n)
<1> DEFINE c == IF g.clockConfig.enabled THEN k ELSE g
<1> DEFINE winner == oppositeColor(side)
<1> DEFINE r == finish(c, winner, "Resign")
<1>1. CASE g.state # "InProgress"
  BY <1>1 DEF resign
<1>2. CASE g.state = "InProgress"
  <2>1. g \in ChessGame /\ n \in Nat /\ g.turnStart <= n
        /\ u \in [Side -> Nat]
    BY DEF Booked
  <2>2. /\ k \in ChessGame /\ k = [g EXCEPT !.time = k.time, !.turnStart = n]
        /\ g.clockConfig.enabled =>
             k.time = [g.time EXCEPT ![g.currentTurn] =
                         timeRemaining(g, g.currentTurn, n)]
    BY <1>2, <2>1, Commit
  <2> HIDE DEF k
  <2>3. /\ c \in ChessGame /\ c.state = "InProgress" /\ c.turnStart <= n
    <3>1. k.state = g.state /\ k.turnStart = n
      BY <2>1, <2>2 DEF ChessGame
    <3> QED
      BY <1>2, <2>1, <2>2, <3>1
  <2>4. winner \in Side \cup {"EMPTY"} /\ "Resign" \in ChessGameEndReason
    BY DEF oppositeColor, Side, ChessGameEndReason
  <2> HIDE DEF c, winner
  <2>5. /\ r \in ChessGame
        /\ r = [c EXCEPT !.state = "Finished", !.winner = winner,
                         !.endReason = "Resign", !.version = c.version + 1]
    BY <2>3, <2>4, Finish
  <2> HIDE DEF r
  <2>6. r.state = "Finished" /\ r.endReason = "Resign" /\ r.turnStart <= n
    BY <2>3, <2>5 DEF ChessGame
  <2>7. g.clockConfig.enabled => \A s \in Side : SideSettled(r, s, u, p)
    <3> SUFFICES ASSUME g.clockConfig.enabled
                 PROVE  \A s \in Side : SideSettled(r, s, u, p)
      OBVIOUS
    <3>1. c = k
      BY DEF c
    <3>2. /\ c.version = g.version /\ c.clockConfig = g.clockConfig
          /\ c.time = k.time
      BY <2>1, <2>2, <3>1 DEF ChessGame
    <3>3. /\ r.version = g.version + 1 /\ r.clockConfig = g.clockConfig
          /\ r.time = k.time
      BY <2>3, <2>5, <3>2 DEF ChessGame
    <3>4. ASSUME NEW s \in Side
          PROVE  r.time[s] = timeRemaining(g, s, n)
      <4>1. g.time \in [Side -> Nat]
        BY <2>1 DEF ChessGame
      <4>2. CASE s = g.currentTurn
        BY <2>2, <3>3, <4>1, <4>2
      <4>3. CASE s # g.currentTurn
        BY <2>2, <3>3, <4>1, <4>3 DEF timeRemaining
      <4> QED
        BY <4>2, <4>3
    <3> QED
      BY <1>2, <3>3, <3>4, EndSettled
  <2>8. r.clockConfig = g.clockConfig
    BY <2>1, <2>2, <2>3, <2>5 DEF ChessGame, c
  <2>9. Booked(r, n, u, p) /\ Alive(r)
    BY <2>1, <2>5, <2>6, <2>7, <2>8 DEF Booked, Alive
  <2>10. resign(g, side, n) = r
    BY <1>2, Zenon DEF resign, r, c, k, winner
  <2> QED
    BY <2>9, <2>10
<1> QED
  BY <1>1, <1>2

\* A tick of the clock is used by the side to move and is on nobody's clock.
LEMMA TimeKept ==
  ASSUME NEW g, NEW n, NEW u, NEW p \in Nat, Booked(g, n, u, p)
  PROVE  LET used1 == IF g.state = "InProgress"
                      THEN [u EXCEPT ![g.currentTurn] = @ + 1] ELSE u
         IN  Booked(g, n + 1, used1, p)
<1> DEFINE w == IF g.state = "InProgress"
                THEN [u EXCEPT ![g.currentTurn] = @ + 1] ELSE u
<1>1. /\ g \in ChessGame /\ n \in Nat /\ g.turnStart \in Nat
      /\ g.turnStart <= n
      /\ u \in [Side -> Nat] /\ g.currentTurn \in Side
  BY DEF Booked, ChessGame
<1>2. n + 1 \in Nat /\ g.turnStart <= n + 1 /\ w \in [Side -> Nat]
  BY <1>1
<1>3. CASE g.state # "InProgress"
  BY <1>2, <1>3 DEF Booked
<1>4. CASE g.state = "InProgress"
  <2>1. \A side \in Side :
          /\ w[side] \in Nat
          /\ turnTicks(g, side, n + 1) \in Int /\ turnTicks(g, side, n) \in Int
          /\ w[side] - turnTicks(g, side, n + 1)
                = u[side] - turnTicks(g, side, n)
    BY <1>1, <1>2, <1>4 DEF turnTicks
  <2> HIDE DEF w
  <2>2. \A side \in Side : dropped(g, side, n + 1, w) = dropped(g, side, n, u)
    BY <2>1 DEF dropped
  <2>3. \A side \in Side : SideBooked(g, side, n, u, p) =>
                              SideBooked(g, side, n + 1, w, p)
    BY <2>2 DEF SideBooked
  <2> QED
    <3>1. Booked(g, n + 1, w, p)
      BY <1>1, <1>2, <1>4, <2>3 DEF Booked
    <3> QED
      BY <3>1, <1>4 DEF w
<1> QED
  BY <1>3, <1>4

-----------------------------------------------------------------------------
(* The clock of any game *)

\* The moves a side has made, and the time it was due for them.
made(g, side) ==
    IF g.state = "Finished" THEN played(g, side) ELSE moves(g, side)

allotted(g, side) ==
    g.clockConfig.initialTime + made(g, side) * g.clockConfig.increment

\* A clock that shows time is right, in a game that runs and in one that is over;
\* before a game the clocks show none.
LEMMA ClockShown ==
  ASSUME NEW g, NEW n, NEW u, NEW p \in Nat, Booked(g, n, u, p),
         NEW side \in Side, timeRemaining(g, side, n) > 0
  PROVE  /\ made(g, side) \in Int
         /\ g.clockConfig.initialTime \in Nat /\ g.clockConfig.increment \in Nat
         /\ timeRemaining(g, side, n) \in Nat
         /\ u[side] - (allotted(g, side) - timeRemaining(g, side, n)) * TicksPerMs
              \in 0 .. (made(g, side) + 1 + p) * (TicksPerMs - 1)
<1>1. /\ g \in ChessGame /\ g.version \in Nat /\ n \in Nat /\ g.turnStart <= n
      /\ g.clockConfig.initialTime \in Nat /\ g.clockConfig.increment \in Nat
  BY DEF Booked, ChessGame, ChessClockConfig
<1>2. made(g, side) \in Int
  BY <1>1 DEF made, played, moves
<1>3. timeRemaining(g, side, n) \in Nat
  BY <1>1, Remaining
<1>4. g.clockConfig.enabled
  BY DEF timeRemaining
<1>5. g.state \in {"InProgress", "Finished"}
  <2>1. CASE g.state = "NotStarted"
    <3>1. g.time[side] = 0
      BY <2>1 DEF Booked
    <3> QED
      BY <1>4, <2>1, <3>1 DEF timeRemaining
  <2> QED
    BY <1>1, <2>1 DEF ChessGame, ChessGameState
<1>6. u[side] - (allotted(g, side) - timeRemaining(g, side, n)) * TicksPerMs
        \in 0 .. (made(g, side) + 1 + p) * (TicksPerMs - 1)
  <2>1. CASE g.state = "InProgress"
    <3>1. made(g, side) = moves(g, side) /\ allotted(g, side) = due(g, side)
      BY <2>1 DEF made, allotted, due
    <3> QED
      BY <1>4, <2>1, <3>1, ClockInPlay
  <2>2. CASE g.state = "Finished"
    <3>1. made(g, side) = played(g, side) /\ allotted(g, side) = dueAtEnd(g, side)
      BY <2>2 DEF made, allotted, dueAtEnd
    <3>2. timeRemaining(g, side, n) = g.time[side]
      BY <1>4, <2>2 DEF timeRemaining
    <3>3. SideSettled(g, side, u, p)
      BY <1>4, <2>2 DEF Booked
    <3> QED
      BY <3>1, <3>2, <3>3 DEF SideSettled
  <2> QED
    BY <1>5, <2>1, <2>2
<1> QED
  BY <1>1, <1>2, <1>3, <1>6

-----------------------------------------------------------------------------
(* Pauses *)

\* The game that comes out of a pause, if it is resumed at time m.
resumed(g, n, m) == applySnapshot(snapshot(g, n), m)

LEMMA Resumed ==
  ASSUME NEW g \in ChessGame, NEW n \in Nat, NEW m \in Nat, g.turnStart <= n
  PROVE  /\ resumed(g, n, m) \in ChessGame
         /\ resumed(g, n, m).state = g.state
         /\ resumed(g, n, m).currentTurn = g.currentTurn
         /\ resumed(g, n, m).winner = g.winner
         /\ resumed(g, n, m).endReason = g.endReason
         /\ resumed(g, n, m).clockConfig = g.clockConfig
         /\ resumed(g, n, m).version = g.version
         /\ resumed(g, n, m).time =
              [side \in Side |-> timeRemaining(g, side, n)]
         /\ resumed(g, n, m).turnStart =
              IF g.state = "InProgress" THEN m ELSE 0
         /\ snapshot(g, n).state = g.state
         /\ snapshot(g, n).time =
              [side \in Side |-> timeRemaining(g, side, n)]
<1> DEFINE t == [side \in Side |-> timeRemaining(g, side, n)]
<1> DEFINE began == IF g.state = "InProgress" THEN m ELSE 0
<1>1. t \in [Side -> Nat]
  BY Remaining
<1>2. began \in Nat
  OBVIOUS
<1> HIDE DEF t, began
<1>3. /\ snapshot(g, n) =
           [state |-> g.state, currentTurn |-> g.currentTurn,
            winner |-> g.winner, endReason |-> g.endReason,
            clockConfig |-> g.clockConfig, version |-> g.version, time |-> t]
  BY Zenon DEF snapshot, t
<1>4. resumed(g, n, m) =
        [state |-> g.state, currentTurn |-> g.currentTurn,
         winner |-> g.winner, endReason |-> g.endReason,
         clockConfig |-> g.clockConfig, version |-> g.version,
         time |-> t, turnStart |-> began]
  BY <1>3 DEF resumed, applySnapshot, began
<1>5. resumed(g, n, m) \in ChessGame
  BY <1>1, <1>2, <1>4 DEF ChessGame
<1> QED
  BY <1>3, <1>4, <1>5 DEF t, began

\* A pause charges the turn under way and begins it anew, and costs its fraction
\* of a millisecond.
LEMMA PauseKept ==
  ASSUME NEW g, NEW n, NEW u, NEW p \in Nat, Booked(g, n, u, p), Alive(g)
  PROVE  Booked(resumed(g, n, n), n, u, p + 1) /\ Alive(resumed(g, n, n))
<1> DEFINE r == resumed(g, n, n)
<1> DEFINE T == TicksPerMs
<1> DEFINE s == g.currentTurn
<1> DEFINE e == elapsed(g, n)
<1>1. /\ g \in ChessGame /\ n \in Nat /\ g.turnStart <= n
      /\ u \in [Side -> Nat] /\ s \in Side
      /\ g.turnStart \in Nat /\ g.time \in [Side -> Nat]
  BY DEF Booked, ChessGame
<1>2. /\ r \in ChessGame /\ r.state = g.state /\ r.currentTurn = s
      /\ r.winner = g.winner /\ r.endReason = g.endReason
      /\ r.clockConfig = g.clockConfig /\ r.version = g.version
      /\ r.time = [side \in Side |-> timeRemaining(g, side, n)]
      /\ r.turnStart = IF g.state = "InProgress" THEN n ELSE 0
  BY <1>1, Resumed
<1> HIDE DEF r
<1>3. \A side \in Side : r.time[side] = timeRemaining(g, side, n)
  BY <1>2
<1>4. r.turnStart <= n
  BY <1>1, <1>2
<1>5. ASSUME g.state = "InProgress", g.clockConfig.enabled, NEW side \in Side
      PROVE  SideBooked(r, side, n, u, p + 1)
  <2> DEFINE m == moves(g, side)
  <2> DEFINE x == n - g.turnStart
  <2> DEFINE ticks == turnTicks(g, side, n)
  <2> DEFINE D == due(g, side)
  <2> DEFINE paid == g.time[side] - r.time[side]
  <2>1. /\ g.version > 0 /\ m \in Nat
        /\ g.clockConfig.initialTime \in Nat
        /\ g.clockConfig.increment \in Nat
        /\ SideBooked(g, side, n, u, p)
        /\ u[side] \in Nat /\ g.time[side] \in Nat /\ x \in Nat
        /\ r.time[side] \in Nat
    <3>1. g.version > 0 /\ SideBooked(g, side, n, u, p)
      BY <1>5 DEF Booked, Turns
    <3> QED
      BY <1>1, <1>2, <3>1, Halves DEF ChessGame, ChessClockConfig
  <2>2. D \in Nat
    BY <2>1 DEF due
  <2>3. moves(r, side) = m /\ due(r, side) = D
    BY <1>2 DEF moves, due
  <2>4. turnTicks(r, side, n) = 0 /\ ticks = IF side = s THEN x ELSE 0
    BY <1>1, <1>2, <1>5 DEF turnTicks
  <2>5. T \in Nat \ {0}
    BY TicksAssumption
  <2>6. e \in Nat /\ x - e * T \in 0 .. (T - 1) /\ e * T \in Int
    <3>1. e \in Nat
      BY <1>1, Remaining
    <3>2. x - (x \div T) * T \in 0 .. (T - 1)
      BY <2>1, Division
    <3> QED
      BY <2>5, <3>1, <3>2 DEF elapsed
  <2>7. /\ side = s => r.time[side] = IF g.time[side] <= e THEN 0
                                      ELSE g.time[side] - e
        /\ side # s => r.time[side] = g.time[side]
    <3>1. CASE side = s
      BY <1>1, <1>3, <1>5, <3>1, Remaining
    <3>2. CASE side # s
      BY <1>3, <1>5, <3>2 DEF timeRemaining
    <3> QED
      BY <3>1, <3>2
  \* What is paid for is not more than the turn, nor less but for a fraction.
  <2>8. /\ paid * T \in Int /\ ticks \in Nat
        /\ ticks - paid * T >= 0
        /\ r.time[side] > 0 =>
              ticks - paid * T <= T - 1 /\ g.time[side] > 0
    <3>1. CASE side # s
      <4>1. paid = 0 /\ ticks = 0 /\ r.time[side] = g.time[side]
        BY <2>1, <2>4, <2>7, <3>1
      <4>2. 0 * T = 0
        BY <2>5
      <4> HIDE DEF paid, ticks
      <4> QED
        BY <2>5, <4>1, <4>2
    <3>2. CASE side = s
      <4>1. ticks = x /\ paid \in Nat /\ paid <= e
            /\ (r.time[side] > 0 => paid = e /\ g.time[side] > 0)
        BY <2>1, <2>4, <2>6, <2>7, <3>2
      <4> HIDE DEF paid, ticks, e, T, x
      <4>2. paid * T <= e * T /\ paid * T \in Int
        BY <2>5, <2>6, <4>1, Monotone
      <4> QED
        BY <2>1, <2>5, <2>6, <4>1, <4>2
    <3> QED
      BY <3>1, <3>2
  <2>9. (D - r.time[side]) * T = (D - g.time[side]) * T + paid * T
        /\ (D - g.time[side]) * T \in Int
    <3>1. D - r.time[side] = (D - g.time[side]) + paid
          /\ D - g.time[side] \in Int /\ paid \in Int
      BY <2>1, <2>2
    <3> HIDE DEF paid, D, T
    <3> QED
      BY <2>5, <3>1, Distributive
  <2> DEFINE before == dropped(g, side, n, u)
  <2> DEFINE after == dropped(r, side, n, u)
  <2>10. before = u[side] - ticks - (D - g.time[side]) * T
    BY DEF dropped
  <2>11. after = u[side] - 0 - (D - r.time[side]) * T
    BY <2>3, <2>4 DEF dropped
  <2> DEFINE most == (m + p) * (T - 1)
  <2>12. most \in Int /\ (m + (p + 1)) * (T - 1) = most + (T - 1)
    <3>1. m + p \in Int /\ T - 1 \in Int /\ m + (p + 1) = (m + p) + 1
      BY <2>1, <2>5
    <3> HIDE DEF m, T
    <3> QED
      BY <3>1, Distributive
  <2>13. before >= 0 /\ (g.time[side] > 0 => before <= most)
    BY <2>1 DEF SideBooked
  <2>14. /\ after >= 0
         /\ r.time[side] > 0 => after <= most + (T - 1)
    <3> HIDE DEF paid, D, T, before, after, most, ticks
    <3> QED
      BY <2>1, <2>5, <2>8, <2>9, <2>10, <2>11, <2>12, <2>13
  <2> HIDE DEF most, after, m, T
  <2> QED
    BY <2>3, <2>12, <2>14, Zenon DEF SideBooked, after, T
<1>6. Turns(g) => Turns(r)
  BY <1>2 DEF Turns
<1>7. LostOnTime(g, u) => LostOnTime(r, u)
  <2> SUFFICES ASSUME LostOnTime(g, u) PROVE LostOnTime(r, u)
    OBVIOUS
  <2>1. g.time[s] = 0 /\ elapsed(g, n) \in Nat
    BY <1>1, Remaining DEF LostOnTime
  <2>2. r.time[s] = 0
    BY <1>1, <1>3, <2>1 DEF timeRemaining, positivePart
  <2> QED
    BY <1>2, <2>2 DEF LostOnTime, dueAtEnd, played
<1>8. ASSUME g.state # "InProgress", g.clockConfig.enabled, NEW side \in Side
      PROVE  r.time[side] = g.time[side]
  BY <1>3, <1>8 DEF timeRemaining
<1>9. ASSUME g.state = "Finished", g.clockConfig.enabled, NEW side \in Side
      PROVE  SideSettled(r, side, u, p + 1)
  <2>1. played(r, side) = played(g, side) /\ r.time[side] = g.time[side]
    BY <1>2, <1>8, <1>9 DEF played
  <2>2. SideSettled(g, side, u, p)
    BY <1>9 DEF Booked
  <2> DEFINE most == (played(g, side) + 1 + p) * (T - 1)
  <2>3. most \in Int /\ (played(g, side) + 1 + (p + 1)) * (T - 1) = most + (T - 1)
    <3> DEFINE m == played(g, side) + 1 + p
    <3>1. T - 1 \in Int /\ m \in Int /\ played(g, side) + 1 + (p + 1) = m + 1
      BY <1>1, TicksAssumption DEF played, ChessGame
    <3> DEFINE c == T - 1
    <3>2. m \in Int /\ c \in Int
      BY <3>1
    <3> HIDE DEF m, c
    <3>3. m * c \in Int /\ (m + 1) * c = m * c + 1 * c /\ 1 * c = c
      BY <3>2, Distributive
    <3>4. most = m * c
      BY Zenon DEF m, c
    <3>5. (played(g, side) + 1 + (p + 1)) * (T - 1) = (m + 1) * c
      BY <3>1, Zenon DEF c
    <3> QED
      BY <3>3, <3>4, <3>5 DEF c
  <2>4. T - 1 \in Nat
    BY TicksAssumption
  <2> DEFINE lost == u[side] - (dueAtEnd(g, side) - g.time[side]) * T
  <2>5. g.time[side] > 0 => lost \in 0 .. most
    BY <2>2 DEF SideSettled
  <2>6. g.time[side] > 0 => lost \in 0 .. (most + (T - 1))
    <3> HIDE DEF lost, most, T
    <3> QED
      BY <2>3, <2>4, <2>5
  <2>7. dueAtEnd(r, side) = dueAtEnd(g, side)
    BY <1>2, <2>1 DEF dueAtEnd
  <2> HIDE DEF most
  <2> QED
    BY <2>1, <2>3, <2>6, <2>7 DEF SideSettled
<1>10. ASSUME g.state = "NotStarted"
       PROVE  r.time = [side \in Side |-> 0]
  <2>1. \A side \in Side : g.time[side] = 0
    BY <1>10 DEF Booked
  <2>2. \A side \in Side : timeRemaining(g, side, n) = 0
    BY <1>10, <2>1 DEF timeRemaining
  <2> QED
    BY <1>2, <2>2
<1>11. Booked(r, n, u, p + 1)
  BY <1>1, <1>2, <1>4, <1>5, <1>6, <1>7, <1>9, <1>10 DEF Booked
<1>12. Alive(r)
  <2> DEFINE o == oppositeColor(s)
  <2>1. o \in Side /\ o # s
    BY <1>1 DEF oppositeColor, Side
  <2>2. g.state = "InProgress" /\ g.clockConfig.enabled => r.time[o] = g.time[o]
    BY <1>3, <2>1 DEF timeRemaining
  <2> QED
    BY <1>2, <2>2 DEF Alive
<1> QED
  BY <1>11, <1>12 DEF r

\* While a game is paused, it does not matter when it is resumed.
LEMMA PausedKept ==
  ASSUME NEW g \in ChessGame, NEW k \in Nat, NEW n \in Nat, NEW m \in Nat,
         g.turnStart <= k,
         NEW u, NEW p \in Nat, Booked(resumed(g, k, n), n, u, p)
  PROVE  /\ Booked(resumed(g, k, m), m, u, p)
         /\ Alive(resumed(g, k, n)) => Alive(resumed(g, k, m))
<1> DEFINE a == resumed(g, k, n)
<1> DEFINE b == resumed(g, k, m)
<1>a. /\ a \in ChessGame /\ a.state = g.state
      /\ a.currentTurn = g.currentTurn /\ a.winner = g.winner
      /\ a.endReason = g.endReason /\ a.clockConfig = g.clockConfig
      /\ a.version = g.version
      /\ a.time = [side \in Side |-> timeRemaining(g, side, k)]
      /\ a.turnStart = IF g.state = "InProgress" THEN n ELSE 0
  BY Resumed
<1>b. /\ b \in ChessGame /\ b.state = g.state
      /\ b.currentTurn = g.currentTurn /\ b.winner = g.winner
      /\ b.endReason = g.endReason /\ b.clockConfig = g.clockConfig
      /\ b.version = g.version
      /\ b.time = [side \in Side |-> timeRemaining(g, side, k)]
      /\ b.turnStart = IF g.state = "InProgress" THEN m ELSE 0
  BY Resumed
<1>1. /\ a \in ChessGame /\ b \in ChessGame
      /\ a.state = b.state /\ a.currentTurn = b.currentTurn
      /\ a.winner = b.winner /\ a.endReason = b.endReason
      /\ a.clockConfig = b.clockConfig /\ a.version = b.version
      /\ a.time = b.time
      /\ a.turnStart = IF a.state = "InProgress" THEN n ELSE 0
      /\ b.turnStart = IF a.state = "InProgress" THEN m ELSE 0
  <2> HIDE DEF a, b
  <2> QED
    BY <1>a, <1>b
<1>2. Booked(a, n, u, p)
  OBVIOUS
<1> SUFFICES Booked(b, m, u, p) /\ (Alive(a) => Alive(b))
  OBVIOUS
<1> HIDE DEF a, b
<1>3. ASSUME NEW side \in Side, a.state = "InProgress",
             SideBooked(a, side, n, u, p)
      PROVE  SideBooked(b, side, m, u, p)
  <2>1. /\ moves(a, side) = moves(b, side)
        /\ due(a, side) = due(b, side)
        /\ a.time[side] = b.time[side]
    BY <1>1 DEF moves, due
  <2>2. turnTicks(a, side, n) = 0 /\ turnTicks(b, side, m) = 0
    BY <1>1, <1>3 DEF turnTicks
  <2>3. dropped(a, side, n, u) = dropped(b, side, m, u)
    BY <2>1, <2>2 DEF dropped
  <2> QED
    BY <1>3, <2>1, <2>3 DEF SideBooked
<1>4. b.turnStart <= m
  BY <1>1
<1>5. (Turns(a) => Turns(b)) /\ (LostOnTime(a, u) => LostOnTime(b, u))
  BY <1>1 DEF Turns, LostOnTime, dueAtEnd, played
<1>6. \A side \in Side : SideSettled(a, side, u, p) => SideSettled(b, side, u, p)
  BY <1>1 DEF SideSettled, dueAtEnd, played
<1>7. Booked(b, m, u, p)
  BY <1>1, <1>2, <1>3, <1>4, <1>5, <1>6 DEF Booked
<1>8. Alive(a) => Alive(b)
  BY <1>1 DEF Alive
<1> QED
  BY <1>7, <1>8

-----------------------------------------------------------------------------
(* New games, and what a tick ends *)

LEMMA NewBooked ==
  ASSUME NEW config \in ChessClockConfig, NEW n \in Nat
  PROVE  /\ Booked(newGame(config), n, [side \in Side |-> 0], 0)
         /\ newGame(config).state = "NotStarted"
<1> DEFINE g == newGame(config)
<1> DEFINE zero == [side \in Side |-> 0]
<1>1. zero \in [Side -> Nat]
  OBVIOUS
<1>2. "NotStarted" \in ChessGameState /\ "WHITE" \in Side
      /\ "None" \in ChessGameEndReason /\ 0 \in Nat
  BY DEF ChessGameState, ChessGameEndReason, Side
<1>3. /\ g \in ChessGame
      /\ g.state = "NotStarted" /\ g.currentTurn = "WHITE"
      /\ g.endReason = "None" /\ g.turnStart = 0 /\ g.time = zero
  BY <1>1, <1>2, Zenon DEF newGame, ChessGame
<1> HIDE DEF g
<1>4. Booked(g, n, zero, 0)
  BY <1>1, <1>3 DEF Booked
<1> QED
  BY <1>3, <1>4 DEF g

\* A tick ends a game for no other reason than time.
LEMMA TickEnds ==
  ASSUME NEW g \in ChessGame, NEW n \in Nat, g.turnStart <= n
  PROVE  tick(g, n) = g \/ tick(g, n).endReason = "Timeout"
<1>1. CASE ~(g.state = "InProgress" /\ timeIsUp(g, n))
  BY <1>1 DEF tick, refreshTerminalStateFromBoard
<1>2. CASE g.state = "InProgress" /\ timeIsUp(g, n)
  <2> DEFINE c == commitElapsedToActiveSide(g, n)
  <2> DEFINE w == oppositeColor(g.currentTurn)
  <2>1. tick(g, n) = finish(c, w, "Timeout")
    BY <1>2 DEF tick, refreshTerminalStateFromBoard
  <2>2. c \in ChessGame /\ c = [g EXCEPT !.time = c.time, !.turnStart = n]
    BY Commit
  <2>3. w \in Side
    BY DEF oppositeColor, Side
  <2> HIDE DEF c, w
  <2>4. c.state # "Finished"
    BY <1>2, <2>2 DEF ChessGame
  <2>5. finish(c, w, "Timeout") =
          [c EXCEPT !.state = "Finished", !.winner = w,
                    !.endReason = "Timeout", !.version = c.version + 1]
    BY <2>2, <2>3, <2>4, Finish DEF ChessGameEndReason
  <2> QED
    BY <2>1, <2>2, <2>5 DEF ChessGame
<1> QED
  BY <1>1, <1>2
-----------------------------------------------------------------------------
(* Finite recursions and the list operator only                           *)

\* Induction over the numbers, for a set.
LEMMA CountingUp ==
  ASSUME NEW T, 0 \in T, \A i \in Nat : i \in T => i + 1 \in T, NEW n \in Nat
  PROVE  n \in T
<1> SUFFICES ASSUME n \notin T PROVE FALSE
  OBVIOUS
<1> DEFINE below == T \cap (0 .. n)
<1> DEFINE successor == [i \in below |-> i + 1]
<1>1. 0 \in below /\ \A i \in below : i \in Nat /\ i + 1 \in below \ {0}
  OBVIOUS
<1>2. IsFiniteSet(0 .. n) /\ below \subseteq 0 .. n
  BY FS_Interval
<1>3. \A i \in below : successor[i] = i + 1
  OBVIOUS
<1>4. successor \in [below -> below \ {0}]
  BY <1>1
<1> HIDE DEF below, successor
<1>5. IsFiniteSet(below)
  BY <1>2, FS_Subset
<1>6. /\ IsFiniteSet(below \ {0}) /\ Cardinality(below) \in Nat
      /\ Cardinality(below \ {0}) = Cardinality(below) - 1
  BY <1>1, <1>5, FS_RemoveElement, FS_CardinalityType
<1>7. \E i, j \in below : i # j /\ successor[i] = successor[j]
  BY <1>4, <1>5, <1>6, FS_PigeonHole
<1> QED
  BY <1>1, <1>3, <1>7

\* Two runs of the same steps from the same start end alike.
LEMMA SameRun ==
  ASSUME NEW N \in Nat, NEW o, NEW p, o[0] = p[0],
         \A n \in 0 .. N - 1 : o[n] = p[n] => o[n + 1] = p[n + 1]
  PROVE  \A n \in 0 .. N : o[n] = p[n]
<1> DEFINE T == {n \in Nat : n <= N => o[n] = p[n]}
<1>1. 0 \in T
  OBVIOUS
<1>2. ASSUME NEW n \in Nat, n \in T PROVE n + 1 \in T
  <2> SUFFICES ASSUME n + 1 <= N PROVE o[n + 1] = p[n + 1]
    OBVIOUS
  <2>1. n \in 0 .. N - 1 /\ o[n] = p[n]
    BY <1>2
  <2> QED
    BY <2>1
<1> HIDE DEF T
<1>3. \A n \in Nat : n \in T
  BY <1>1, <1>2, CountingUp
<1>4. \A n \in Nat : n \in T => (n <= N => o[n] = p[n])
  BY DEF T
<1> QED
  BY <1>3, <1>4

\* A set of numbers that is not empty has a least one.
LEMMA LeastNumber ==
  ASSUME NEW S \in SUBSET Nat, S # {}
  PROVE  Min(S) \in S /\ \A n \in S : Min(S) <= n
<1>1. \E m \in S : \A n \in S : m <= n
  <2> SUFFICES ASSUME \A m \in S : \E n \in S : n < m PROVE FALSE
    OBVIOUS
  <2> DEFINE T == {n \in Nat : \A m \in 0 .. n : m \notin S}
  <2>1. 0 \in T
    OBVIOUS
  <2>2. ASSUME NEW i \in Nat, i \in T PROVE i + 1 \in T
    <3>1. i + 1 \notin S
      BY <2>2
    <3>2. \A m \in 0 .. i + 1 : m \in 0 .. i \/ m = i + 1
      OBVIOUS
    <3> QED
      BY <3>1, <3>2, <2>2
  <2> HIDE DEF T
  <2>3. \A n \in Nat : n \in T
    BY <2>1, <2>2, CountingUp
  <2>4. PICK m \in S : TRUE
    OBVIOUS
  <2>5. m \in Nat /\ m \in T
    BY <2>3
  <2> QED
    BY <2>5 DEF T
<1>2. \A m \in S : (\A n \in S : m <= n) <=> (\A n \in S : m =< n)
  OBVIOUS
<1> QED
  BY <1>1 DEF Min

\* A recursive definition that goes through the numbers up to N is one.
Iterates(f, N, V, first, next) ==
    /\ f \in [0 .. N -> V]
    /\ f[0] = first
    /\ \A n \in 1 .. N : f[n] = next[n][f[n - 1]]

\* Such a recursion has a value.
LEMMA Iteration ==
  ASSUME NEW N \in Nat, NEW V, NEW first \in V, NEW next \in [1 .. N -> [V -> V]]
  PROVE  \E f : Iterates(f, N, V, first, next)
<1> DEFINE Way(f, n) == /\ f[0] = first
                        /\ \A i \in 1 .. n : f[i] = next[i][f[i - 1]]
<1> DEFINE T == {n \in Nat : n <= N => \E f \in [0 .. n -> V] : Way(f, n)}
<1>1. 0 \in T
  <2> DEFINE f == [i \in 0 .. 0 |-> first]
  <2>1. f \in [0 .. 0 -> V] /\ Way(f, 0)
    OBVIOUS
  <2> QED
    BY <2>1
<1>2. ASSUME NEW n \in Nat, n \in T PROVE n + 1 \in T
  <2> SUFFICES ASSUME n + 1 <= N PROVE \E f \in [0 .. n + 1 -> V] : Way(f, n + 1)
    OBVIOUS
  <2>1. PICK f \in [0 .. n -> V] : Way(f, n)
    BY <1>2
  <2> DEFINE last == next[n + 1][f[n]]
  <2> DEFINE g == [i \in 0 .. n + 1 |-> IF i = n + 1 THEN last ELSE f[i]]
  <2>2. last \in V
    <3>1. n + 1 \in 1 .. N /\ f[n] \in V /\ next[n + 1] \in [V -> V]
      BY <2>1
    <3> QED
      BY <3>1
  <2> HIDE DEF last
  <2>3. g \in [0 .. n + 1 -> V]
    BY <2>2, <2>1
  <2>4. /\ g[0] = first /\ g[n + 1] = last /\ g[n] = f[n]
        /\ \A i \in 1 .. n : g[i] = f[i] /\ g[i - 1] = f[i - 1]
    BY <2>1
  <2> HIDE DEF g
  <2>5. \A i \in 1 .. n + 1 : g[i] = next[i][g[i - 1]]
    <3>1. \A i \in 1 .. n + 1 : i \in 1 .. n \/ (i = n + 1 /\ i - 1 = n)
      OBVIOUS
    <3>2. g[n + 1] = next[n + 1][g[n]]
      BY <2>4 DEF last
    <3>3. \A i \in 1 .. n : g[i] = next[i][g[i - 1]]
      BY <2>1, <2>4
    <3> QED
      BY <3>1, <3>2, <3>3
  <2> QED
    BY <2>3, <2>4, <2>5
<1> HIDE DEF T
<1>3. N \in T
  BY <1>1, <1>2, CountingUp
<1>4. PICK f \in [0 .. N -> V] : Way(f, N)
  BY <1>3 DEF T
<1>5. Iterates(f, N, V, first, next)
  BY <1>4 DEF Iterates
<1> QED
  BY <1>5

\* The list that only yields: the members of S, each as often as before.
KeptOf(kept, X, list, S) ==
    /\ kept \in [0 .. Len(list) -> Seq(X)]
    /\ kept[0] = <<>>
    /\ \A n \in 1 .. Len(list) :
          kept[n] = IF list[n] \in S THEN Append(kept[n - 1], list[n])
                    ELSE kept[n - 1]

\* The list operator only is such a recursion.
LEMMA OnlyEquations ==
  ASSUME NEW X, NEW list \in Seq(X), NEW S
  PROVE  \E kept : KeptOf(kept, X, list, S) /\ only(list, S) = kept[Len(list)]
<1> DEFINE N == Len(list)
<1> DEFINE next == [n \in 1 .. N |-> [v \in Seq(X) |->
                      IF list[n] \in S THEN Append(v, list[n]) ELSE v]]
<1> DEFINE Kept(f) == f = [n \in 0 .. N |->
                             IF n = 0 THEN <<>>
                             ELSE IF list[n] \in S THEN Append(f[n - 1], list[n])
                             ELSE f[n - 1]]
<1>1. N \in Nat /\ \A n \in 1 .. N : list[n] \in X
  OBVIOUS
<1>2. next \in [1 .. N -> [Seq(X) -> Seq(X)]]
  BY <1>1
<1>3. <<>> \in Seq(X)
  OBVIOUS
<1>4. \A n \in 1 .. N, v \in Seq(X) :
        next[n][v] = IF list[n] \in S THEN Append(v, list[n]) ELSE v
  OBVIOUS
<1> HIDE DEF next, N
<1>13. \E f : Iterates(f, N, Seq(X), <<>>, next)
  BY <1>1, <1>2, <1>3, Iteration
<1>5. PICK f : /\ f \in [0 .. N -> Seq(X)]
               /\ f[0] = <<>> /\ \A n \in 1 .. N : f[n] = next[n][f[n - 1]]
  BY <1>13 DEF Iterates
<1>6. \A n \in 0 .. N : n # 0 => n \in 1 .. N /\ f[n - 1] \in Seq(X)
  BY <1>1, <1>5
<1>7. \A n \in 0 .. N : f[n] = IF n = 0 THEN <<>>
                               ELSE IF list[n] \in S THEN Append(f[n - 1], list[n])
                               ELSE f[n - 1]
  BY <1>4, <1>5, <1>6
<1>8. Kept(f)
  BY <1>5, <1>7
<1> DEFINE kept == CHOOSE g : Kept(g)
<1>9. Kept(kept)
  BY <1>8
<1>10. only(list, S) = kept[N]
  BY DEF only, N
<1> HIDE DEF kept
<1>11. /\ kept[0] = <<>>
       /\ \A n \in 1 .. N : kept[n] = IF list[n] \in S THEN Append(kept[n - 1], list[n])
                                      ELSE kept[n - 1]
  <2>1. \A n \in 0 .. N : kept[n] = IF n = 0 THEN <<>>
                               ELSE IF list[n] \in S THEN Append(kept[n - 1], list[n])
                               ELSE kept[n - 1]
    BY <1>9
  <2> QED
    BY <2>1, <1>1
<1>12. kept \in [0 .. N -> Seq(X)]
  <2> DEFINE T == {n \in Nat : n <= N => kept[n] \in Seq(X)}
  <2>1. 0 \in T
    BY <1>3, <1>11
  <2>2. ASSUME NEW n \in Nat, n \in T PROVE n + 1 \in T
    <3> SUFFICES ASSUME n + 1 <= N PROVE kept[n + 1] \in Seq(X)
      OBVIOUS
    <3>1. n + 1 \in 1 .. N /\ kept[n] \in Seq(X) /\ (n + 1) - 1 = n
      BY <1>1, <2>2
    <3>2. list[n + 1] \in X
      BY <3>1, <1>1
    <3>3. kept[n + 1] = IF list[n + 1] \in S THEN Append(kept[n], list[n + 1]) ELSE kept[n]
      BY <3>1, <1>11
    <3> QED
      BY <3>1, <3>2, <3>3
  <2> HIDE DEF T
  <2>3. \A n \in Nat : n \in T
    BY <2>1, <2>2, CountingUp
  <2>4. \A n \in 0 .. N : kept[n] \in Seq(X)
    BY <2>3, <1>1 DEF T
  <2> QED
    BY <1>9, <2>4
<1> QED
  BY <1>10, <1>11, <1>12 DEF N, KeptOf

\* What Append does.
LEMMA Appended ==
  ASSUME NEW X, NEW r \in Seq(X), NEW x \in X
  PROVE  /\ Append(r, x) \in Seq(X) /\ Len(Append(r, x)) = Len(r) + 1
         /\ Append(r, x)[Len(r) + 1] = x
         /\ \A m \in 1 .. Len(r) : Append(r, x)[m] = r[m]
  OBVIOUS

\* What r is of the first n members of list.
Picked(r, n, list, S) ==
    /\ Len(r) <= n
    /\ \A m \in 1 .. Len(r) : r[m] \in S /\ \E i \in 1 .. n : r[m] = list[i]
    /\ \A i \in 1 .. n : list[i] \in S => \E m \in 1 .. Len(r) : r[m] = list[i]

Distinct(r) == \A i, j \in 1 .. Len(r) : i # j => r[i] # r[j]

\* One more member of the list.
LEMMA PickedNext ==
  ASSUME NEW X, NEW list \in Seq(X), NEW S, NEW r \in Seq(X),
         NEW n \in 0 .. Len(list) - 1, Picked(r, n, list, S)
  PROVE  Picked(IF list[n + 1] \in S THEN Append(r, list[n + 1]) ELSE r, n + 1, list, S)
<1>1. n + 1 \in 1 .. Len(list) /\ list[n + 1] \in X /\ n \in Nat /\ Len(r) \in Nat
  OBVIOUS
<1>2. \A i \in 1 .. n + 1 : i \in 1 .. n \/ i = n + 1
  BY <1>1
<1>3. 1 .. n \subseteq 1 .. n + 1
  BY <1>1
<1>4. CASE list[n + 1] \notin S
  <2>1. Len(r) <= n + 1
    BY <1>1 DEF Picked
  <2>2. \A m \in 1 .. Len(r) : r[m] \in S /\ \E i \in 1 .. n + 1 : r[m] = list[i]
    BY <1>3 DEF Picked
  <2>3. \A i \in 1 .. n + 1 : list[i] \in S => \E m \in 1 .. Len(r) : r[m] = list[i]
    BY <1>2, <1>4 DEF Picked
  <2>4. Picked(r, n + 1, list, S)
    BY <2>1, <2>2, <2>3 DEF Picked
  <2> QED
    BY <2>4, <1>4
<1>5. CASE list[n + 1] \in S
  <2> DEFINE q == Append(r, list[n + 1])
  <2>1. /\ Len(q) = Len(r) + 1 /\ q[Len(r) + 1] = list[n + 1]
        /\ \A m \in 1 .. Len(r) : q[m] = r[m]
    BY <1>1, Appended
  <2> HIDE DEF q
  <2>2. \A m \in 1 .. Len(q) : m \in 1 .. Len(r) \/ m = Len(r) + 1
    BY <2>1, <1>1
  <2>3. 1 .. Len(r) \subseteq 1 .. Len(q) /\ Len(r) + 1 \in 1 .. Len(q)
    BY <2>1, <1>1
  <2>4. Len(q) <= n + 1
    BY <2>1, <1>1 DEF Picked
  <2>5. \A m \in 1 .. Len(q) : q[m] \in S /\ \E i \in 1 .. n + 1 : q[m] = list[i]
    <3>1. \A m \in 1 .. Len(r) : q[m] \in S /\ \E i \in 1 .. n + 1 : q[m] = list[i]
      BY <2>1, <1>3 DEF Picked
    <3>2. q[Len(r) + 1] \in S /\ \E i \in 1 .. n + 1 : q[Len(r) + 1] = list[i]
      BY <2>1, <1>1, <1>5
    <3> QED
      BY <3>1, <3>2, <2>2
  <2>6. \A i \in 1 .. n + 1 : list[i] \in S => \E m \in 1 .. Len(q) : q[m] = list[i]
    BY <2>1, <2>3, <1>2 DEF Picked
  <2>7. Picked(q, n + 1, list, S)
    BY <2>4, <2>5, <2>6 DEF Picked
  <2>8. (IF list[n + 1] \in S THEN Append(r, list[n + 1]) ELSE r) = q
    BY <1>5 DEF q
  <2> QED
    BY <2>7, <2>8
<1> QED
  BY <1>4, <1>5

\* only picks the members of S, and no square twice.
LEMMA Only ==
  ASSUME NEW X, NEW list \in Seq(X), NEW S
  PROVE  /\ only(list, S) \in Seq(X)
         /\ Picked(only(list, S), Len(list), list, S)
         /\ (\A i, j \in 1 .. Len(list) : i # j /\ list[i] \in S => list[i] # list[j]) =>
               Distinct(only(list, S))
         /\ \A i, j \in 1 .. Len(list) :
               i # j /\ list[i] \notin S /\ list[j] \notin S =>
                  Len(only(list, S)) <= Len(list) - 2
<1> DEFINE N == Len(list)
<1>0. PICK kept : KeptOf(kept, X, list, S) /\ only(list, S) = kept[Len(list)]
  BY OnlyEquations
<1>1. /\ kept \in [0 .. N -> Seq(X)]
      /\ only(list, S) = kept[N]
      /\ kept[0] = <<>>
      /\ \A n \in 1 .. N :
           kept[n] = IF list[n] \in S THEN Append(kept[n - 1], list[n])
                     ELSE kept[n - 1]
  BY <1>0 DEF KeptOf
<1>2. N \in Nat /\ \A n \in 1 .. N : list[n] \in X
  OBVIOUS
<1> HIDE DEF N
<1>3. \A n \in Nat : n + 1 <= N =>
        /\ kept[n] \in Seq(X) /\ list[n + 1] \in X
        /\ kept[n + 1] = IF list[n + 1] \in S THEN Append(kept[n], list[n + 1])
                         ELSE kept[n]
  <2> SUFFICES ASSUME NEW n \in Nat, n + 1 <= N
               PROVE  /\ kept[n] \in Seq(X) /\ list[n + 1] \in X
                      /\ kept[n + 1] = IF list[n + 1] \in S
                                       THEN Append(kept[n], list[n + 1]) ELSE kept[n]
    OBVIOUS
  <2>1. n \in 0 .. N /\ n + 1 \in 1 .. N /\ (n + 1) - 1 = n
    BY <1>2
  <2> QED
    BY <1>1, <1>2, <2>1
<1>4. \A n \in Nat : n <= N => kept[n] \in Seq(X)
  BY <1>1, <1>2
<1>5. \A n \in Nat : n <= N => Picked(kept[n], n, list, S)
  <2> DEFINE T == {n \in Nat : n <= N => Picked(kept[n], n, list, S)}
  <2>1. 0 \in T
    BY <1>1 DEF Picked
  <2>2. ASSUME NEW n \in Nat, n \in T PROVE n + 1 \in T
    <3> SUFFICES ASSUME n + 1 <= N PROVE Picked(kept[n + 1], n + 1, list, S)
      OBVIOUS
    <3>1. n \in 0 .. Len(list) - 1 /\ Picked(kept[n], n, list, S)
      BY <2>2, <1>2 DEF N
    <3> QED
      BY <3>1, <1>3, PickedNext
  <2> HIDE DEF T
  <2>3. \A n \in Nat : n \in T
    BY <2>1, <2>2, CountingUp
  <2> QED
    BY <2>3 DEF T
<1>6. ASSUME \A i, j \in 1 .. N : i # j /\ list[i] \in S => list[i] # list[j]
      PROVE  \A n \in Nat : n <= N => Distinct(kept[n])
  <2> DEFINE T == {n \in Nat : n <= N => Distinct(kept[n])}
  <2>1. 0 \in T
    BY <1>1 DEF Distinct
  <2>2. ASSUME NEW n \in Nat, n \in T PROVE n + 1 \in T
    <3> SUFFICES ASSUME n + 1 <= N PROVE Distinct(kept[n + 1])
      OBVIOUS
    <3>1. Distinct(kept[n]) /\ Picked(kept[n], n, list, S) /\ kept[n] \in Seq(X)
      BY <2>2, <1>5, <1>2, <1>3
    <3>2. CASE list[n + 1] \notin S
      BY <3>1, <3>2, <1>3
    <3>3. CASE list[n + 1] \in S
      <4> DEFINE r == kept[n]
      <4> DEFINE x == list[n + 1]
      <4>1. kept[n + 1] = Append(r, x) /\ x \in X /\ r \in Seq(X)
        BY <3>3, <1>3
      <4>2. \A m \in 1 .. Len(r) : r[m] # x
        <5>1. \A i \in 1 .. n : list[i] # x
          <6>1. \A i \in 1 .. n : i \in 1 .. N /\ n + 1 \in 1 .. N /\ i # n + 1
            BY <1>2
          <6> QED
            BY <6>1, <1>6, <3>3
        <5> QED
          BY <5>1, <3>1 DEF Picked
      <4> HIDE DEF r, x
      <4>3. /\ Len(Append(r, x)) = Len(r) + 1 /\ Append(r, x)[Len(r) + 1] = x
            /\ \A m \in 1 .. Len(r) : Append(r, x)[m] = r[m]
        BY <4>1, Appended
      <4>4. Len(r) \in Nat /\ \A m \in 1 .. Len(r) + 1 : m \in 1 .. Len(r) \/ m = Len(r) + 1
        BY <4>1
      <4>5. Distinct(r)
        BY <3>1 DEF r
      <4> QED
        BY <4>1, <4>2, <4>3, <4>4, <4>5 DEF Distinct
    <3> QED
      BY <3>2, <3>3
  <2> HIDE DEF T
  <2>3. \A n \in Nat : n \in T
    BY <2>1, <2>2, CountingUp
  <2> QED
    BY <2>3 DEF T
<1>7. \A i, j \in 1 .. N : i < j /\ list[i] \notin S /\ list[j] \notin S =>
         Len(kept[N]) <= N - 2
  <2> SUFFICES ASSUME NEW i \in 1 .. N, NEW j \in 1 .. N, i < j,
                      list[i] \notin S, list[j] \notin S
               PROVE  Len(kept[N]) <= N - 2
    OBVIOUS
  <2> DEFINE Shorter(n) == /\ Len(kept[n]) <= n
                           /\ i <= n => Len(kept[n]) <= n - 1
                           /\ j <= n => Len(kept[n]) <= n - 2
  <2> DEFINE T == {n \in Nat : n <= N => Shorter(n)}
  <2>1. 0 \in T
    BY <1>1, <1>2
  <2>2. ASSUME NEW n \in Nat, n \in T PROVE n + 1 \in T
    <3> SUFFICES ASSUME n + 1 <= N PROVE Shorter(n + 1)
      OBVIOUS
    <3>1. Shorter(n) /\ Len(kept[n]) \in Nat
      BY <2>2, <1>2, <1>3
    <3>2. CASE n + 1 = i \/ n + 1 = j
      <4>1. kept[n + 1] = kept[n]
        BY <3>2, <1>3
      <4> QED
        BY <4>1, <3>1, <3>2, <1>2
    <3>3. CASE n + 1 # i /\ n + 1 # j
      <4>1. Len(kept[n + 1]) = Len(kept[n]) + 1 \/ Len(kept[n + 1]) = Len(kept[n])
        <5>1. kept[n] \in Seq(X) /\ list[n + 1] \in X
          BY <1>3
        <5>2. Len(Append(kept[n], list[n + 1])) = Len(kept[n]) + 1
          BY <5>1, Appended
        <5> QED
          BY <5>2, <1>3
      <4> QED
        BY <4>1, <3>1, <3>3, <1>2
    <3> QED
      BY <3>2, <3>3
  <2> HIDE DEF T
  <2>3. N \in T
    BY <2>1, <2>2, <1>2, CountingUp
  <2> QED
    BY <2>3, <1>2 DEF T
<1>8. \A i, j \in 1 .. N : i # j => i < j \/ j < i
  BY <1>2
<1>9. kept[N] \in Seq(X) /\ Picked(kept[N], N, list, S)
  BY <1>4, <1>5, <1>2
<1> QED
  BY <1>1, <1>2, <1>6, <1>7, <1>8, <1>9 DEF N

-----------------------------------------------------------------------------
(* The board's geometry: rows, columns, rays and steps                     *)

\* Squares, and what a piece off the board has for one.
Place == Square \cup {NoSquare}
Direction == cardinals \cup diagonals

\* The row and the column of a square.
LEMMA Coordinates ==
  ASSUME NEW s \in Square
  PROVE  /\ row(s) \in 0 .. 7 /\ col(s) \in 0 .. 7
         /\ s = 8 * row(s) + col(s)
         /\ s # NoSquare
  BY DEF Square, row, col, NoSquare

\* The square in a row and a column.
LEMMA SquareAt ==
  ASSUME NEW r \in 0 .. 7, NEW c \in 0 .. 7
  PROVE  /\ 8 * r + c \in Square
         /\ row(8 * r + c) = r /\ col(8 * r + c) = c
  BY DEF Square, row, col, NoSquare

\* NoSquare is no square, and no step from it is.
LEMMA OffBoard ==
  /\ row(NoSquare) = 8 /\ col(NoSquare) = 8 /\ NoSquare = 72 /\ NoSquare \notin Square
  BY DEF row, col, NoSquare, Square

\* Row and column make the square.
LEMMA SamePlace ==
  ASSUME NEW s \in Square, NEW t \in Square, row(s) = row(t), col(s) = col(t)
  PROVE  s = t
  BY Coordinates

\* The eight directions.
LEMMA DirectionSteps ==
  ASSUME NEW d \in Direction
  PROVE  /\ d[1] \in {-1, 0, 1} /\ d[2] \in {-1, 0, 1} /\ d = <<d[1], d[2]>>
         /\ d[1] # 0 \/ d[2] # 0
         /\ d \in cardinals <=> d[1] = 0 \/ d[2] = 0
         /\ d \in diagonals <=> d[1] # 0 /\ d[2] # 0
  BY DEF Direction, cardinals, diagonals, North, South, East, West, NorthEast,
         SouthEast, NorthWest, SouthWest

\* How many steps of e one may take from x before one leaves 0 .. 7.
limit(x, e) ==
    IF e = 0 THEN IF x = 8 THEN 0 ELSE 8 ELSE IF e = -1 THEN x
    ELSE IF x = 8 THEN 0 ELSE 7 - x

reachOf(s, d) ==
    IF limit(row(s), d[1]) <= limit(col(s), d[2]) THEN limit(row(s), d[1])
    ELSE limit(col(s), d[2])

\* From a row or a column, the steps in range.
LEMMA Limits ==
  ASSUME NEW x \in 0 .. 8, NEW e \in {-1, 0, 1}
  PROVE  /\ limit(x, e) \in 0 .. 8
         /\ \A n \in 1 .. 8 : x + n * e \in 0 .. 7 <=> n <= limit(x, e)
<1>1. CASE e = -1
  BY <1>1 DEF limit
<1>2. CASE e = 0
  BY <1>2 DEF limit
<1>3. CASE e = 1
  BY <1>3 DEF limit
<1> QED
  BY <1>1, <1>2, <1>3

\* From a place, the steps on the board.
LEMMA Reaches ==
  ASSUME NEW s \in Place, NEW d \in Direction
  PROVE  /\ reachOf(s, d) \in 0 .. 8
         /\ \A n \in 1 .. 8 : isInBoard(row(s) + n * d[1], col(s) + n * d[2])
                                <=> n <= reachOf(s, d)
<1>1. row(s) \in 0 .. 8 /\ col(s) \in 0 .. 8
  BY Coordinates, OffBoard DEF Place
<1>2. d[1] \in {-1, 0, 1} /\ d[2] \in {-1, 0, 1}
  BY DirectionSteps
<1>3. limit(row(s), d[1]) \in 0 .. 8 /\ limit(col(s), d[2]) \in 0 .. 8
  BY <1>1, <1>2, Limits
<1>4. \A n \in 1 .. 8 : /\ row(s) + n * d[1] \in 0 .. 7 <=> n <= limit(row(s), d[1])
                        /\ col(s) + n * d[2] \in 0 .. 7 <=> n <= limit(col(s), d[2])
  BY <1>1, <1>2, Limits
<1>5. reachOf(s, d) \in 0 .. 8
  BY <1>3 DEF reachOf
<1>6. \A n \in 1 .. 8 : n <= reachOf(s, d) <=>
         n <= limit(row(s), d[1]) /\ n <= limit(col(s), d[2])
  BY <1>3 DEF reachOf
<1> QED
  BY <1>4, <1>5, <1>6 DEF isInBoard

\* The squares of a ray, by row and column.
LEMMA RayIs ==
  ASSUME NEW s \in Place, NEW d \in Direction
  PROVE  /\ DOMAIN ray[s][d] = 1 .. reachOf(s, d)
         /\ \A n \in 1 .. reachOf(s, d) :
              /\ ray[s][d][n] \in Square
              /\ row(ray[s][d][n]) = row(s) + n * d[1]
              /\ col(ray[s][d][n]) = col(s) + n * d[2]
<1> DEFINE D == {k \in 1 .. 8 : isInBoard(row(s) + k * d[1], col(s) + k * d[2])}
<1>1. ray[s][d] = [n \in D |-> square(row(s) + n * d[1], col(s) + n * d[2])]
  BY DEF ray, Place, Direction
<1>2. D = 1 .. reachOf(s, d)
  BY Reaches
<1>3. ASSUME NEW n \in D
      PROVE  row(s) + n * d[1] \in 0 .. 7 /\ col(s) + n * d[2] \in 0 .. 7
  BY DEF isInBoard
<1>4. ASSUME NEW n \in D
      PROVE  LET t == square(row(s) + n * d[1], col(s) + n * d[2])
             IN  t \in Square /\ row(t) = row(s) + n * d[1] /\ col(t) = col(s) + n * d[2]
  BY <1>3, SquareAt DEF square
<1> HIDE DEF D
<1> QED
  BY <1>1, <1>2, <1>4

\* A ray is a list as long as its reach.
LEMMA RaySeq ==
  ASSUME NEW s \in Place, NEW d \in Direction
  PROVE  ray[s][d] \in Seq(Int) /\ Len(ray[s][d]) = reachOf(s, d)
<1> DEFINE D == {k \in 1 .. 8 : isInBoard(row(s) + k * d[1], col(s) + k * d[2])}
<1>1. ray[s][d] = [n \in D |-> square(row(s) + n * d[1], col(s) + n * d[2])]
  BY DEF ray, Place, Direction
<1>2. D = 1 .. reachOf(s, d)
  BY Reaches
<1>3. \A n \in 1 .. reachOf(s, d) : ray[s][d][n] \in Square
  BY RayIs
<1>4. reachOf(s, d) \in Nat
  BY Reaches
<1> HIDE DEF D
<1>5. ray[s][d] \in [1 .. reachOf(s, d) -> Int]
  BY <1>1, <1>2, <1>3 DEF Square
<1> QED
  BY <1>4, <1>5

\* The squares of a line, and of several.
squaresOn(s, d) == {ray[s][d][n] : n \in 1 .. reachOf(s, d)}

\* r names the members of S, each once.
Enumerates(r, S) ==
    /\ r \in Seq(Int)
    /\ Distinct(r)
    /\ \A i \in 1 .. Len(r) : r[i] \in S
    /\ \A x \in S : \E i \in 1 .. Len(r) : r[i] = x

\* Two lists without a common member.
LEMMA Joined ==
  ASSUME NEW a, NEW b, NEW A, NEW B, Enumerates(a, A), Enumerates(b, B), A \cap B = {}
  PROVE  Enumerates(a \o b, A \cup B) /\ Len(a \o b) = Len(a) + Len(b)
<1>1. /\ a \o b \in Seq(Int) /\ Len(a \o b) = Len(a) + Len(b)
      /\ Len(a) \in Nat /\ Len(b) \in Nat
  BY DEF Enumerates
<1>2. \A i \in 1 .. Len(a) : (a \o b)[i] = a[i]
  BY DEF Enumerates
<1>3. \A i \in 1 .. Len(b) : (a \o b)[Len(a) + i] = b[i]
  BY <1>1 DEF Enumerates
<1>4. \A i \in 1 .. Len(a \o b) :
         \/ i \in 1 .. Len(a)
         \/ i - Len(a) \in 1 .. Len(b) /\ i = Len(a) + (i - Len(a))
  BY <1>1
<1> DEFINE c == a \o b
<1>5. \A i \in 1 .. Len(c) :
         \/ i \in 1 .. Len(a) /\ c[i] = a[i]
         \/ i - Len(a) \in 1 .. Len(b) /\ c[i] = b[i - Len(a)]
  BY <1>2, <1>3, <1>4
<1>6. /\ \A i \in 1 .. Len(a) : i \in 1 .. Len(c)
      /\ \A i \in 1 .. Len(b) : Len(a) + i \in 1 .. Len(c)
  BY <1>1
<1>7. \A i \in 1 .. Len(c) : c[i] \in A \cup B
  BY <1>5 DEF Enumerates
<1>8. \A x \in A \cup B : \E i \in 1 .. Len(c) : c[i] = x
  BY <1>2, <1>3, <1>6 DEF Enumerates
<1>9. Distinct(c)
  <2> SUFFICES ASSUME NEW i \in 1 .. Len(c), NEW j \in 1 .. Len(c), i # j
               PROVE  c[i] # c[j]
    BY DEF Distinct
  <2> HIDE DEF c
  <2>1. CASE i \in 1 .. Len(a) /\ c[i] = a[i] /\ j \in 1 .. Len(a) /\ c[j] = a[j]
    BY <2>1 DEF Enumerates, Distinct
  <2>2. CASE /\ i - Len(a) \in 1 .. Len(b) /\ c[i] = b[i - Len(a)]
             /\ j - Len(a) \in 1 .. Len(b) /\ c[j] = b[j - Len(a)]
    <3> DEFINE p == i - Len(a)
    <3> DEFINE q == j - Len(a)
    <3>1. p # q
      BY <1>1, <2>2
    <3>2. p \in 1 .. Len(b) /\ q \in 1 .. Len(b) /\ c[i] = b[p] /\ c[j] = b[q]
      BY <2>2
    <3> HIDE DEF p, q
    <3> QED
      BY <3>1, <3>2 DEF Enumerates, Distinct
  <2>3. CASE i \in 1 .. Len(a) /\ c[i] = a[i] /\ j - Len(a) \in 1 .. Len(b) /\ c[j] = b[j - Len(a)]
    BY <2>3 DEF Enumerates
  <2>4. CASE j \in 1 .. Len(a) /\ c[j] = a[j] /\ i - Len(a) \in 1 .. Len(b) /\ c[i] = b[i - Len(a)]
    BY <2>4 DEF Enumerates
  <2> QED
    BY <1>5, <2>1, <2>2, <2>3, <2>4
<1> HIDE DEF c
<1>10. Enumerates(c, A \cup B)
  BY <1>1, <1>7, <1>8, <1>9 DEF Enumerates, c
<1> QED
  BY <1>1, <1>10 DEF c

\* Steps that lead as far in the same way.
LEMMA SameSign ==
  ASSUME NEW n \in 1 .. 8, NEW m \in 1 .. 8, NEW e \in {-1, 0, 1}, NEW f \in {-1, 0, 1},
         n * e = m * f
  PROVE  e = f /\ (e # 0 => n = m)
<1>1. CASE e = -1 /\ f = -1
  BY <1>1
<1>2. CASE e = 1 /\ f = 1
  BY <1>2
<1>3. CASE e = 0 /\ f = 0
  BY <1>3
<1>4. CASE e = -1 /\ f # -1
  BY <1>4
<1>5. CASE e = 1 /\ f # 1
  BY <1>5
<1>6. CASE e = 0 /\ f # 0
  BY <1>6
<1> QED
  BY <1>1, <1>2, <1>3, <1>4, <1>5, <1>6

\* From one place, the squares of the rays are all different.
LEMMA RaysPart ==
  ASSUME NEW s \in Place, NEW d \in Direction, NEW e \in Direction,
         NEW n \in 1 .. reachOf(s, d), NEW m \in 1 .. reachOf(s, e),
         ray[s][d][n] = ray[s][e][m]
  PROVE  d = e /\ n = m
<1>1. n \in 1 .. 8 /\ m \in 1 .. 8
  BY Reaches
<1>2. row(s) + n * d[1] = row(s) + m * e[1] /\ col(s) + n * d[2] = col(s) + m * e[2]
  BY RayIs
<1>3. /\ d[1] \in {-1, 0, 1} /\ d[2] \in {-1, 0, 1} /\ d = <<d[1], d[2]>>
      /\ e[1] \in {-1, 0, 1} /\ e[2] \in {-1, 0, 1} /\ e = <<e[1], e[2]>>
      /\ d[1] # 0 \/ d[2] # 0
  BY DirectionSteps
<1>4. row(s) \in Int /\ col(s) \in Int
  BY Coordinates, OffBoard DEF Place
<1>5. \A x, y, z \in Int : x + y = x + z => y = z
  OBVIOUS
<1>6. \A x \in {-1, 0, 1} : n * x \in Int /\ m * x \in Int
  BY <1>1
<1>7. n * d[1] = m * e[1] /\ n * d[2] = m * e[2]
  BY <1>2, <1>3, <1>4, <1>5, <1>6
<1> QED
  BY <1>1, <1>3, <1>7, SameSign

\* A ray names its squares, each once.
LEMMA RayEnumerates ==
  ASSUME NEW s \in Place, NEW d \in Direction
  PROVE  Enumerates(ray[s][d], squaresOn(s, d)) /\ Len(ray[s][d]) = reachOf(s, d)
<1>1. ray[s][d] \in Seq(Int) /\ Len(ray[s][d]) = reachOf(s, d)
  BY RaySeq
<1>3. Distinct(ray[s][d])
  BY <1>1, RaysPart DEF Distinct
<1> QED
  BY <1>1, <1>3 DEF Enumerates, squaresOn

\* Two rays have no square in common.
LEMMA RaysDisjoint ==
  ASSUME NEW s \in Place, NEW d \in Direction, NEW e \in Direction, d # e
  PROVE  squaresOn(s, d) \cap squaresOn(s, e) = {}
  BY RaysPart DEF squaresOn

\* The directions are different.
LEMMA Compass ==
  /\ cardinals \subseteq Direction /\ diagonals \subseteq Direction
  /\ North \in cardinals /\ South \in cardinals /\ East \in cardinals /\ West \in cardinals
  /\ NorthEast \in diagonals /\ SouthWest \in diagonals /\ NorthWest \in diagonals
  /\ SouthEast \in diagonals
  /\ \A d \in cardinals : d \in {North, South, East, West}
  /\ \A d \in diagonals : d \in {NorthEast, SouthWest, NorthWest, SouthEast}
  /\ North # South /\ North # East /\ North # West /\ South # East /\ South # West
  /\ East # West
  /\ NorthEast # SouthWest /\ NorthEast # NorthWest /\ NorthEast # SouthEast
  /\ SouthWest # NorthWest /\ SouthWest # SouthEast /\ NorthWest # SouthEast
  /\ cardinals \cap diagonals = {}
  BY DEF Direction, cardinals, diagonals, North, South, East, West, NorthEast,
         SouthEast, NorthWest, SouthWest

squaresAlong(s, ds) == UNION {squaresOn(s, d) : d \in ds}

\* Four rays make the list of four directions.
InRow(s, d1, d2, d3, d4) ==
    LET r == ray[s][d1] \o ray[s][d2] \o ray[s][d3] \o ray[s][d4]
    IN  /\ Enumerates(r, squaresAlong(s, {d1, d2, d3, d4}))
        /\ Len(r) = reachOf(s, d1) + reachOf(s, d2) + reachOf(s, d3) + reachOf(s, d4)

\* Four rays, one behind the other.
LEMMA FourRays ==
  ASSUME NEW s \in Place, NEW d1 \in Direction, NEW d2 \in Direction,
         NEW d3 \in Direction, NEW d4 \in Direction,
         d1 # d2, d1 # d3, d1 # d4, d2 # d3, d2 # d4, d3 # d4
  PROVE  InRow(s, d1, d2, d3, d4)
<1> DEFINE A == squaresOn(s, d1)
<1> DEFINE B == squaresOn(s, d2)
<1> DEFINE C == squaresOn(s, d3)
<1> DEFINE D == squaresOn(s, d4)
<1>1. /\ A \cap B = {} /\ A \cap C = {} /\ A \cap D = {} /\ B \cap C = {}
      /\ B \cap D = {} /\ C \cap D = {}
  BY RaysDisjoint
<1>2. /\ Enumerates(ray[s][d1], A) /\ Enumerates(ray[s][d2], B)
      /\ Enumerates(ray[s][d3], C) /\ Enumerates(ray[s][d4], D)
      /\ Len(ray[s][d1]) = reachOf(s, d1) /\ Len(ray[s][d2]) = reachOf(s, d2)
      /\ Len(ray[s][d3]) = reachOf(s, d3) /\ Len(ray[s][d4]) = reachOf(s, d4)
  BY RayEnumerates
<1>3. squaresAlong(s, {d1, d2, d3, d4}) = A \cup B \cup C \cup D
  BY DEF squaresAlong
<1> HIDE DEF A, B, C, D
<1>4. /\ Enumerates(ray[s][d1] \o ray[s][d2], A \cup B)
      /\ Len(ray[s][d1] \o ray[s][d2]) = reachOf(s, d1) + reachOf(s, d2)
  BY <1>1, <1>2, Joined
<1>5. (A \cup B) \cap C = {} /\ (A \cup B \cup C) \cap D = {}
  BY <1>1
<1>6. /\ Enumerates(ray[s][d1] \o ray[s][d2] \o ray[s][d3], A \cup B \cup C)
      /\ Len(ray[s][d1] \o ray[s][d2] \o ray[s][d3]) =
           reachOf(s, d1) + reachOf(s, d2) + reachOf(s, d3)
  BY <1>2, <1>4, <1>5, Joined
<1>7. /\ Enumerates(ray[s][d1] \o ray[s][d2] \o ray[s][d3] \o ray[s][d4], A \cup B \cup C \cup D)
      /\ Len(ray[s][d1] \o ray[s][d2] \o ray[s][d3] \o ray[s][d4]) =
           reachOf(s, d1) + reachOf(s, d2) + reachOf(s, d3) + reachOf(s, d4)
  BY <1>2, <1>5, <1>6, Joined
<1> QED
  BY <1>3, <1>7 DEF InRow

\* A rook looks at 14 squares, a bishop at 13 or less.
LEMMA LineLengths ==
  ASSUME NEW s \in Square
  PROVE  /\ Enumerates(cardinalLines(s), squaresAlong(s, cardinals))
         /\ Len(cardinalLines(s)) = 14
         /\ Enumerates(diagonalLines(s), squaresAlong(s, diagonals))
         /\ Len(diagonalLines(s)) \in 0 .. 13
<1>1. row(s) \in 0 .. 7 /\ col(s) \in 0 .. 7 /\ s \in Place
  BY Coordinates DEF Place
<1>2. /\ reachOf(s, North) = row(s) /\ reachOf(s, South) = 7 - row(s)
      /\ reachOf(s, East) = 7 - col(s) /\ reachOf(s, West) = col(s)
  BY <1>1 DEF reachOf, limit, North, South, East, West
<1>3. /\ reachOf(s, NorthEast) = IF row(s) <= 7 - col(s) THEN row(s) ELSE 7 - col(s)
      /\ reachOf(s, SouthWest) = IF 7 - row(s) <= col(s) THEN 7 - row(s) ELSE col(s)
      /\ reachOf(s, NorthWest) = IF row(s) <= col(s) THEN row(s) ELSE col(s)
      /\ reachOf(s, SouthEast) = IF 7 - row(s) <= 7 - col(s) THEN 7 - row(s) ELSE 7 - col(s)
  BY <1>1 DEF reachOf, limit, NorthEast, SouthWest, NorthWest, SouthEast
<1>4. /\ Enumerates(cardinalLines(s), squaresAlong(s, {North, South, East, West}))
      /\ Len(cardinalLines(s)) = reachOf(s, North) + reachOf(s, South)
                                   + reachOf(s, East) + reachOf(s, West)
  <2>1. /\ North \in Direction /\ South \in Direction /\ East \in Direction
        /\ West \in Direction
        /\ North # South /\ North # East /\ North # West /\ South # East /\ South # West
        /\ East # West
    BY Compass
  <2>2. InRow(s, North, South, East, West)
    BY <1>1, <2>1, FourRays
  <2> QED
    BY <2>2 DEF cardinalLines, InRow
<1>5. /\ Enumerates(diagonalLines(s),
                    squaresAlong(s, {NorthEast, SouthWest, NorthWest, SouthEast}))
      /\ Len(diagonalLines(s)) = reachOf(s, NorthEast) + reachOf(s, SouthWest)
                                   + reachOf(s, NorthWest) + reachOf(s, SouthEast)
  <2>1. /\ NorthEast \in Direction /\ SouthWest \in Direction /\ NorthWest \in Direction
        /\ SouthEast \in Direction
        /\ NorthEast # SouthWest /\ NorthEast # NorthWest /\ NorthEast # SouthEast
        /\ SouthWest # NorthWest /\ SouthWest # SouthEast /\ NorthWest # SouthEast
    BY Compass
  <2>2. InRow(s, NorthEast, SouthWest, NorthWest, SouthEast)
    BY <1>1, <2>1, FourRays
  <2> QED
    BY <2>2 DEF diagonalLines, InRow
<1>6. Len(cardinalLines(s)) = 14
  BY <1>1, <1>2, <1>4
<1>7. Len(diagonalLines(s)) \in 0 .. 13
  BY <1>1, <1>3, <1>5
<1> QED
  BY <1>4, <1>5, <1>6, <1>7 DEF cardinals, diagonals

Type == {"PAWN", "KNIGHT", "BISHOP", "ROOK", "QUEEN", "KING"}
Color == {"WHITE", "BLACK"}

\* A list of squares and other numbers that names no square twice.
Proper(w) ==
    /\ w \in Seq(Int)
    /\ \A i, j \in 1 .. Len(w) : i # j /\ w[i] \in Square => w[i] # w[j]

\* A step of a knight, king or pawn.
LEMMA SteppedIs ==
  ASSUME NEW s \in Square, NEW m, m[1] \in -2 .. 2, m[2] \in -2 .. 2
  PROVE  /\ stepped(s, m) \in Place
         /\ stepped(s, m) \in Square <=> isInBoard(row(s) + m[1], col(s) + m[2])
         /\ stepped(s, m) \in Square =>
              /\ row(stepped(s, m)) = row(s) + m[1]
              /\ col(stepped(s, m)) = col(s) + m[2]
<1>1. CASE isInBoard(row(s) + m[1], col(s) + m[2])
  <2>1. row(s) + m[1] \in 0 .. 7 /\ col(s) + m[2] \in 0 .. 7
    BY <1>1 DEF isInBoard
  <2> DEFINE r == row(s) + m[1]
  <2> DEFINE c == col(s) + m[2]
  <2>2. stepped(s, m) = 8 * r + c
    BY <1>1 DEF stepped, square
  <2> HIDE DEF r, c
  <2>3. r \in 0 .. 7 /\ c \in 0 .. 7
    BY <2>1 DEF r, c
  <2>4. 8 * r + c \in Square /\ row(8 * r + c) = r /\ col(8 * r + c) = c
    BY <2>3, SquareAt
  <2> QED
    BY <1>1, <2>2, <2>4 DEF r, c, Place
<1>2. CASE ~isInBoard(row(s) + m[1], col(s) + m[2])
  BY <1>2, OffBoard DEF stepped, Place
<1> QED
  BY <1>1, <1>2

\* The steps of a knight.
KnightStep == {<<2, 1>>, <<1, 2>>, <<2, -1>>, <<-1, 2>>, <<-2, 1>>, <<1, -2>>,
               <<-2, -1>>, <<-1, -2>>}

\* The steps of the knight and the king.
LEMMA EightSteps ==
  /\ DOMAIN knightSteps = 1 .. 8 /\ DOMAIN kingSteps = 1 .. 8
  /\ \A n \in 1 .. 8 : /\ knightSteps[n] \in KnightStep
                       /\ kingSteps[n] \in Direction
  /\ \A m \in KnightStep : \E n \in 1 .. 8 : knightSteps[n] = m
  /\ \A m \in Direction : \E n \in 1 .. 8 : kingSteps[n] = m
  /\ \A i, j \in 1 .. 8 : i # j => knightSteps[i] # knightSteps[j]
                                   /\ kingSteps[i] # kingSteps[j]
<1>1. DOMAIN knightSteps = 1 .. 8 /\ DOMAIN kingSteps = 1 .. 8
  BY DEF knightSteps, kingSteps
<1>2. \A n \in 1 .. 8 : n = 1 \/ n = 2 \/ n = 3 \/ n = 4 \/ n = 5 \/ n = 6 \/ n = 7 \/ n = 8
  OBVIOUS
<1>3. /\ knightSteps[1] = <<2, 1>> /\ knightSteps[2] = <<1, 2>>
      /\ knightSteps[3] = <<2, -1>> /\ knightSteps[4] = <<-1, 2>>
      /\ knightSteps[5] = <<-2, 1>> /\ knightSteps[6] = <<1, -2>>
      /\ knightSteps[7] = <<-2, -1>> /\ knightSteps[8] = <<-1, -2>>
  BY DEF knightSteps
<1>4. /\ kingSteps[1] = <<1, 0>> /\ kingSteps[2] = <<0, 1>>
      /\ kingSteps[3] = <<-1, 0>> /\ kingSteps[4] = <<0, -1>>
      /\ kingSteps[5] = <<1, 1>> /\ kingSteps[6] = <<1, -1>>
      /\ kingSteps[7] = <<-1, 1>> /\ kingSteps[8] = <<-1, -1>>
  BY DEF kingSteps, North, South, East, West, NorthEast, SouthEast, NorthWest, SouthWest
<1>5. Direction = {<<1, 0>>, <<0, 1>>, <<-1, 0>>, <<0, -1>>, <<1, 1>>, <<1, -1>>,
                   <<-1, 1>>, <<-1, -1>>}
  BY DEF Direction, cardinals, diagonals, North, South, East, West, NorthEast,
         SouthEast, NorthWest, SouthWest
<1>6. \A n \in 1 .. 8 : knightSteps[n] \in KnightStep
  BY <1>2, <1>3 DEF KnightStep
<1>7. \A m \in KnightStep : \E n \in 1 .. 8 : knightSteps[n] = m
  BY <1>3 DEF KnightStep
<1>8. /\ knightSteps[1][1] = 2 /\ knightSteps[1][2] = 1
      /\ knightSteps[2][1] = 1 /\ knightSteps[2][2] = 2
      /\ knightSteps[3][1] = 2 /\ knightSteps[3][2] = -1
      /\ knightSteps[4][1] = -1 /\ knightSteps[4][2] = 2
      /\ knightSteps[5][1] = -2 /\ knightSteps[5][2] = 1
      /\ knightSteps[6][1] = 1 /\ knightSteps[6][2] = -2
      /\ knightSteps[7][1] = -2 /\ knightSteps[7][2] = -1
      /\ knightSteps[8][1] = -1 /\ knightSteps[8][2] = -2
  BY <1>3
<1>9. ASSUME NEW i \in 1 .. 8, NEW j \in 1 .. 8, i # j
      PROVE  knightSteps[i] # knightSteps[j]
  <2>1. knightSteps[i][1] # knightSteps[j][1] \/ knightSteps[i][2] # knightSteps[j][2]
    BY <1>2, <1>8, <1>9
  <2> QED
    BY <2>1
<1>10. \A n \in 1 .. 8 : kingSteps[n] \in Direction
  BY <1>2, <1>4, <1>5
<1>11. \A m \in Direction : \E n \in 1 .. 8 : kingSteps[n] = m
  BY <1>4, <1>5
<1>12. /\ kingSteps[1][1] = 1 /\ kingSteps[1][2] = 0
      /\ kingSteps[2][1] = 0 /\ kingSteps[2][2] = 1
      /\ kingSteps[3][1] = -1 /\ kingSteps[3][2] = 0
      /\ kingSteps[4][1] = 0 /\ kingSteps[4][2] = -1
      /\ kingSteps[5][1] = 1 /\ kingSteps[5][2] = 1
      /\ kingSteps[6][1] = 1 /\ kingSteps[6][2] = -1
      /\ kingSteps[7][1] = -1 /\ kingSteps[7][2] = 1
      /\ kingSteps[8][1] = -1 /\ kingSteps[8][2] = -1
  BY <1>4
<1>13. ASSUME NEW i \in 1 .. 8, NEW j \in 1 .. 8, i # j
      PROVE  kingSteps[i] # kingSteps[j]
  <2>1. kingSteps[i][1] # kingSteps[j][1] \/ kingSteps[i][2] # kingSteps[j][2]
    BY <1>2, <1>12, <1>13
  <2> QED
    BY <2>1
<1> QED
  BY <1>1, <1>6, <1>7, <1>9, <1>10, <1>11, <1>13

\* A list of different steps.
Steps(mods, N, M) ==
    /\ DOMAIN mods = 1 .. N
    /\ \A n \in 1 .. N : mods[n] \in M
    /\ \A m \in M : \E n \in 1 .. N : mods[n] = m
    /\ \A i, j \in 1 .. N : i # j => mods[i] # mods[j]
    /\ \A m \in M : m = <<m[1], m[2]>> /\ m[1] \in -2 .. 2 /\ m[2] \in -2 .. 2

\* A list of steps names no square twice.
LEMMA StepsProper ==
  ASSUME NEW s \in Square, NEW N \in Nat, NEW mods, NEW M, Steps(mods, N, M)
  PROVE  /\ Proper(stepsFrom(s, mods)) /\ Len(stepsFrom(s, mods)) = N
         /\ \A n \in 1 .. N : stepsFrom(s, mods)[n] = stepped(s, mods[n])
         /\ Range(stepsFrom(s, mods)) \ {NoSquare} =
              {stepped(s, m) : m \in M} \cap Square
<1> DEFINE w == stepsFrom(s, mods)
<1>1. w = [n \in 1 .. N |-> stepped(s, mods[n])]
  BY DEF stepsFrom, Steps
<1>2. \A n \in 1 .. N : stepped(s, mods[n]) \in Place /\ stepped(s, mods[n]) \in Int
  <2>1. \A n \in 1 .. N : mods[n][1] \in -2 .. 2 /\ mods[n][2] \in -2 .. 2
    BY DEF Steps
  <2>2. \A n \in 1 .. N : stepped(s, mods[n]) \in Place
    BY <2>1, SteppedIs
  <2> QED
    BY <2>2, OffBoard DEF Place, Square
<1>3. w \in [1 .. N -> Int]
  BY <1>1, <1>2
<1>4. w \in Seq(Int) /\ Len(w) = N /\ DOMAIN w = 1 .. N
  BY <1>3
<1>5. \A n \in 1 .. N : w[n] = stepped(s, mods[n])
  BY <1>1
<1> HIDE DEF w
<1>6. ASSUME NEW i \in 1 .. N, NEW j \in 1 .. N, w[i] \in Square, w[i] = w[j] PROVE i = j
  <2>1. /\ row(s) + mods[i][1] = row(s) + mods[j][1]
        /\ col(s) + mods[i][2] = col(s) + mods[j][2]
    BY <1>5, <1>6, SteppedIs DEF Steps
  <2>2. row(s) \in Int /\ col(s) \in Int
    BY Coordinates
  <2>3. \A n \in 1 .. N : /\ mods[n][1] \in -2 .. 2 /\ mods[n][2] \in -2 .. 2
                          /\ mods[n] = <<mods[n][1], mods[n][2]>>
    BY DEF Steps
  <2>4. \A x, y, z \in Int : x + y = x + z => y = z
    OBVIOUS
  <2>5. mods[i][1] = mods[j][1] /\ mods[i][2] = mods[j][2]
    BY <2>1, <2>2, <2>3, <2>4
  <2>6. mods[i] = mods[j]
    BY <2>3, <2>5
  <2> QED
    BY <2>6 DEF Steps
<1>7. Range(w) = {stepped(s, mods[n]) : n \in 1 .. N}
  BY <1>4, <1>5 DEF Range
<1>8. Range(w) = {stepped(s, m) : m \in M}
  BY <1>7 DEF Steps
<1>9. \A m \in M : stepped(s, m) \in Square \/ stepped(s, m) = NoSquare
  BY SteppedIs DEF Steps, Place
<1>10. Range(w) \ {NoSquare} = {stepped(s, m) : m \in M} \cap Square
  BY <1>8, <1>9, OffBoard
<1> QED
  BY <1>4, <1>5, <1>6, <1>10 DEF w, Proper

\* The steps of a pawn's captures.
pawnStep(color) == IF color = "WHITE" THEN {<<1, 1>>, <<1, -1>>} ELSE {<<-1, 1>>, <<-1, -1>>}

\* The lists of steps of the code.
LEMMA StepLists ==
  /\ Steps(knightSteps, 8, KnightStep)
  /\ Steps(kingSteps, 8, Direction)
  /\ \A color \in Color : Steps(pawnSteps(color), 2, pawnStep(color))
<1>1. \A m \in KnightStep : m = <<m[1], m[2]>> /\ m[1] \in -2 .. 2 /\ m[2] \in -2 .. 2
  BY DEF KnightStep
<1>2. \A m \in Direction : m = <<m[1], m[2]>> /\ m[1] \in -2 .. 2 /\ m[2] \in -2 .. 2
  BY DirectionSteps
<1>3. Steps(pawnSteps("WHITE"), 2, pawnStep("WHITE"))
  BY DEF Steps, pawnSteps, pawnStep, SouthEast, SouthWest
<1>4. Steps(pawnSteps("BLACK"), 2, pawnStep("BLACK"))
  BY DEF Steps, pawnSteps, pawnStep, NorthEast, NorthWest
<1> QED
  BY <1>1, <1>2, <1>3, <1>4, EightSteps DEF Steps, Color

\* What concatenation does.
LEMMA Concatenated ==
  ASSUME NEW a \in Seq(Int), NEW b \in Seq(Int)
  PROVE  /\ a \o b \in Seq(Int) /\ Len(a \o b) = Len(a) + Len(b)
         /\ \A i \in 1 .. Len(a) : (a \o b)[i] = a[i]
         /\ \A i \in 1 .. Len(b) : (a \o b)[Len(a) + i] = b[i]
<1>1. a \o b \in Seq(Int) /\ Len(a \o b) = Len(a) + Len(b)
  OBVIOUS
<1>2. \A i \in 1 .. Len(a) : (a \o b)[i] = a[i]
  OBVIOUS
<1>3. \A i \in 1 .. Len(b) : (a \o b)[Len(a) + i] = b[i]
  OBVIOUS
<1> QED
  BY <1>1, <1>2, <1>3

\* A queen looks at 27 squares at most.
LEMMA AllLines ==
  ASSUME NEW s \in Square
  PROVE  /\ Enumerates(cardinalLines(s) \o diagonalLines(s),
                       squaresAlong(s, cardinals \cup diagonals))
         /\ Len(cardinalLines(s) \o diagonalLines(s)) \in 0 .. 27
<1> DEFINE A == squaresAlong(s, cardinals)
<1> DEFINE B == squaresAlong(s, diagonals)
<1>1. s \in Place
  BY DEF Place
<1>2. A \cap B = {}
  BY <1>1, RaysDisjoint, Compass DEF squaresAlong
<1>3. A \cup B = squaresAlong(s, cardinals \cup diagonals)
  BY DEF squaresAlong
<1>4. /\ Enumerates(cardinalLines(s), A) /\ Enumerates(diagonalLines(s), B)
      /\ Len(cardinalLines(s)) = 14 /\ Len(diagonalLines(s)) \in 0 .. 13
  BY LineLengths
<1> DEFINE a == cardinalLines(s)
<1> DEFINE b == diagonalLines(s)
<1> DEFINE w == a \o b
<1> HIDE DEF A, B, a, b
<1>5. Enumerates(a, A) /\ Enumerates(b, B) /\ Len(a) = 14 /\ Len(b) \in 0 .. 13
  BY <1>4 DEF a, b
<1>6. Enumerates(w, A \cup B) /\ Len(w) = Len(a) + Len(b)
  BY <1>2, <1>5, Joined
<1> HIDE DEF w
<1>7. Len(w) \in 0 .. 27 /\ Enumerates(w, squaresAlong(s, cardinals \cup diagonals))
  <2>1. Len(w) \in 0 .. 27
    <3>1. \A n \in 0 .. 13 : 14 + n \in 0 .. 27
      OBVIOUS
    <3> QED
      BY <3>1, <1>5, <1>6, Zenon
  <2>2. Enumerates(w, squaresAlong(s, cardinals \cup diagonals))
    BY <1>3, <1>6, Zenon
  <2> QED
    BY <2>1, <2>2
<1> QED
  BY <1>7, Zenon DEF w, a, b

\* A list that names the members of a set names none twice.
LEMMA EnumerationProper ==
  ASSUME NEW r, NEW S, Enumerates(r, S)
  PROVE  Proper(r)
  BY DEF Enumerates, Proper, Distinct

\* A pawn's two steps ahead and its two captures.
LEMMA PawnWalk ==
  ASSUME NEW s \in Square, NEW color \in Color
  PROVE  /\ Proper(pawnAdvances(s, color) \o stepsFrom(s, pawnSteps(color)))
         /\ Len(pawnAdvances(s, color) \o stepsFrom(s, pawnSteps(color))) = 4
         /\ \A t \in Square \cap Range(pawnAdvances(s, color)) :
              \E i \in 1 .. 4 :
                 (pawnAdvances(s, color) \o stepsFrom(s, pawnSteps(color)))[i] = t
         /\ \A i \in 1 .. 2 :
              (pawnAdvances(s, color) \o stepsFrom(s, pawnSteps(color)))[i + 2]
                = stepsFrom(s, pawnSteps(color))[i]
<1> DEFINE a == pawnAdvances(s, color)
<1> DEFINE c == stepsFrom(s, pawnSteps(color))
<1> DEFINE f == IF color = "WHITE" THEN 8 ELSE -8
<1>1. /\ a = <<IF row(s) = pawnRow(color) THEN s + 2 * f ELSE NoSquare, s + f>>
      /\ f \in {8, -8}
  <2>1. 8 * pawnSteps(color)[1][1] = f
    BY DEF pawnSteps, SouthEast, NorthEast, Color
  <2> QED
    BY <2>1 DEF pawnAdvances
<1>2. /\ s \in 0 .. 63 /\ row(s) \in 0 .. 7 /\ col(s) \in 0 .. 7
      /\ s = 8 * row(s) + col(s)
  BY Coordinates DEF Square
<1>3. /\ Len(a) = 2 /\ a \in Seq(Int) /\ DOMAIN a = 1 .. 2
      /\ a[1] \in {s + 2 * f, NoSquare} /\ a[2] = s + f
  BY <1>1, <1>2 DEF NoSquare
<1>4. /\ Proper(c) /\ Len(c) = 2
      /\ c[1] = stepped(s, pawnSteps(color)[1])
      /\ c[2] = stepped(s, pawnSteps(color)[2])
  <2>1. Steps(pawnSteps(color), 2, pawnStep(color))
    BY StepLists
  <2>2. /\ Proper(c) /\ Len(c) = 2
        /\ \A n \in 1 .. 2 : c[n] = stepped(s, pawnSteps(color)[n])
    BY <2>1, StepsProper
  <2> QED
    BY <2>2
<1> HIDE DEF a, c, f
<1>5. \A i \in 1 .. 2 : c[i] \in Square => col(c[i]) # col(s)
  <2>1. ASSUME NEW i \in 1 .. 2 PROVE c[i] \in Square => col(c[i]) # col(s)
    <3> DEFINE m == pawnSteps(color)[i]
    <3>1. m[1] \in {-1, 1} /\ m[2] \in {-1, 1}
      BY DEF pawnSteps, NorthEast, NorthWest, SouthEast, SouthWest, Color
    <3>2. c[i] = stepped(s, m)
      BY <1>4
    <3> HIDE DEF m
    <3>3. c[i] \in Square => col(c[i]) = col(s) + m[2]
      BY <3>1, <3>2, SteppedIs
    <3> QED
      BY <3>1, <3>3, <1>2
  <2> QED
    BY <2>1
<1>6. \A t \in Square : t \in {s + f, s + 2 * f} => col(t) = col(s)
  <2> TAKE t \in Square
  <2>1. /\ row(t) \in 0 .. 7 /\ col(t) \in 0 .. 7
        /\ t = 8 * row(t) + col(t)
    BY Coordinates
  <2> QED
    BY <2>1, <1>1, <1>2
<1> DEFINE w == a \o c
<1>7. /\ w \in Seq(Int) /\ Len(w) = 4
      /\ w[1] = a[1] /\ w[2] = a[2] /\ w[3] = c[1] /\ w[4] = c[2]
  <2>1. a \in Seq(Int) /\ c \in Seq(Int) /\ Len(a) = 2 /\ Len(c) = 2
    BY <1>3, <1>4 DEF Proper
  <2>2. /\ w \in Seq(Int) /\ Len(w) = Len(a) + Len(c)
        /\ \A i \in 1 .. Len(a) : w[i] = a[i]
        /\ \A i \in 1 .. Len(c) : w[Len(a) + i] = c[i]
    BY <2>1, Concatenated, Zenon
  <2> HIDE DEF w
  <2> QED
    BY <2>1, <2>2
<1> HIDE DEF w
<1>8. \A i \in 1 .. 4 : i = 1 \/ i = 2 \/ i = 3 \/ i = 4
  OBVIOUS
<1>9. Proper(w)
  <2>1. w[3] \in Square => w[3] # w[4]
    BY <1>4, <1>7 DEF Proper
  <2>2. w[4] \in Square => w[3] # w[4]
    BY <1>4, <1>7 DEF Proper
  <2>3. w[1] \in Square => w[1] # w[2] /\ w[1] # w[3] /\ w[1] # w[4]
    <3> HAVE w[1] \in Square
    <3>1. w[1] = s + 2 * f
      BY <1>3, <1>7, OffBoard
    <3>2. w[1] # w[2]
      BY <3>1, <1>1, <1>2, <1>3, <1>7
    <3>3. col(w[1]) = col(s)
      BY <3>1, <1>6
    <3> QED
      BY <3>2, <3>3, <1>5, <1>7
  <2>4. w[2] \in Square => w[2] # w[1] /\ w[2] # w[3] /\ w[2] # w[4]
    <3> HAVE w[2] \in Square
    <3>1. w[2] = s + f /\ col(w[2]) = col(s)
      BY <1>3, <1>6, <1>7
    <3>2. w[1] = s + 2 * f \/ w[1] \notin Square
      BY <1>3, <1>7, OffBoard
    <3>3. w[1] # w[2]
      BY <3>1, <3>2, <1>1, <1>2
    <3> QED
      BY <3>1, <3>3, <1>5, <1>7
  <2>5. ASSUME NEW i \in 1 .. 4, NEW j \in 1 .. 4, i # j, w[i] \in Square
        PROVE  w[i] # w[j]
    BY <1>8, <2>1, <2>2, <2>3, <2>4, <2>5
  <2> QED
    BY <1>7, <2>5 DEF Proper
<1>10. \A t \in Square \cap Range(a) : \E i \in 1 .. 4 : w[i] = t
  <2>1. Range(a) = {a[1], a[2]}
    BY <1>3 DEF Range
  <2> QED
    BY <2>1, <1>7
<1>11. \A i \in 1 .. 2 : w[i + 2] = c[i]
  BY <1>7
<1> QED
  BY <1>7, <1>9, <1>10, <1>11 DEF w, a, c

\* What a piece looks at fits in its slots.
LEMMA WalkProper ==
  ASSUME NEW type \in Type, NEW color \in Color, NEW s \in Square
  PROVE  /\ Proper(walk(type, color, s))
         /\ Len(walk(type, color, s)) \in 0 .. reservedForType[type]
<1>1. CASE type = "ROOK"
  <2>1. /\ Enumerates(cardinalLines(s), squaresAlong(s, cardinals))
        /\ Len(cardinalLines(s)) = 14
    BY LineLengths
  <2>2. Proper(cardinalLines(s))
    BY <2>1, EnumerationProper
  <2>3. walk(type, color, s) = cardinalLines(s) /\ reservedForType[type] = 14
    BY <1>1 DEF walk, reservedForType
  <2> QED
    BY <2>1, <2>2, <2>3
<1>2. CASE type = "BISHOP"
  <2>1. /\ Enumerates(diagonalLines(s), squaresAlong(s, diagonals))
        /\ Len(diagonalLines(s)) \in 0 .. 13
    BY LineLengths
  <2>2. Proper(diagonalLines(s))
    BY <2>1, EnumerationProper
  <2>3. walk(type, color, s) = diagonalLines(s) /\ reservedForType[type] = 13
    BY <1>2 DEF walk, reservedForType
  <2> QED
    BY <2>1, <2>2, <2>3
<1>3. CASE type = "QUEEN"
  BY <1>3, AllLines, EnumerationProper DEF walk, reservedForType
<1>4. CASE type = "KNIGHT"
  BY <1>4, StepsProper, StepLists DEF walk, reservedForType
<1>5. CASE type = "KING"
  BY <1>5, StepsProper, StepLists DEF walk, reservedForType
<1>6. CASE type = "PAWN"
  BY <1>6, PawnWalk DEF walk, reservedForType
<1> QED
  BY <1>1, <1>2, <1>3, <1>4, <1>5, <1>6 DEF Type

-----------------------------------------------------------------------------
(* What a piece looks at: all it bears on, no square twice, and no more    *)
(* squares than its type has slots                                         *)

\* What is seen along lines is on them.
LEMMA VisibleAlong ==
  ASSUME NEW at, NEW s \in Place, NEW ds \in SUBSET Direction
  PROVE  /\ seen(at, s, ds) \subseteq squaresAlong(s, ds)
         /\ squaresAlong(s, ds) \subseteq Square
<1>1. ASSUME NEW d \in Direction
      PROVE  /\ visible(at, s, d) \subseteq squaresOn(s, d)
             /\ squaresOn(s, d) \subseteq Square
  <2>1. DOMAIN ray[s][d] = 1 .. reachOf(s, d)
    BY RayIs
  <2>2. sight(at, s, d) \subseteq 1 .. reachOf(s, d)
    BY <2>1 DEF sight
  <2>3. \A n \in 1 .. reachOf(s, d) : ray[s][d][n] \in Square
    BY RayIs
  <2> QED
    BY <2>2, <2>3 DEF visible, squaresOn
<1> QED
  BY <1>1 DEF seen, squaresAlong

\* What a list of steps or lines names.
Names(w, S) == S \subseteq Square /\ \A t \in S : \E i \in 1 .. Len(w) : w[i] = t

\* The color of an id.
LEMMA IdColor ==
  ASSUME NEW id \in ID
  PROVE  getColor(id) \in Color /\ getColor(id) = IF id <= 16 THEN "WHITE" ELSE "BLACK"
  BY DEF ID, getColor, EMPTY, Color

Standing(b, id) ==
    /\ id \in ID
    /\ b.piece[id].position \in Square
    /\ b.piece[id].type \in Type

\* A piece looks at all the squares it bears on.
LEMMA WalkNamesBearing ==
  ASSUME NEW b, NEW id, Standing(b, id)
  PROVE  Names(walk(b.piece[id].type, getColor(id), b.piece[id].position),
               bearing(b, id))
<1> DEFINE s == b.piece[id].position
<1> DEFINE type == b.piece[id].type
<1> DEFINE w == walk(type, getColor(id), s)
<1>1. s \in Square /\ s \in Place /\ type \in Type /\ getColor(id) \in Color
  BY IdColor DEF Standing, Place
<1>2. ASSUME NEW mods, NEW N \in Nat, NEW M, Steps(mods, N, M),
             w = stepsFrom(s, mods),
             bearing(b, id) = Range(stepsFrom(s, mods)) \ {NoSquare}
      PROVE  Names(w, bearing(b, id))
  <2>1. /\ Len(w) = N /\ Proper(w)
        /\ bearing(b, id) \subseteq Square
    BY <1>1, <1>2, StepsProper
  <2>2. DOMAIN w = 1 .. Len(w)
    BY <2>1 DEF Proper
  <2> QED
    BY <2>1, <2>2, <1>2 DEF Names, Range
<1>3. ASSUME NEW ds \in SUBSET Direction, bearing(b, id) = seen(b.at, s, ds),
             Enumerates(w, squaresAlong(s, ds))
      PROVE  Names(w, bearing(b, id))
  <2>1. seen(b.at, s, ds) \subseteq squaresAlong(s, ds) /\ squaresAlong(s, ds) \subseteq Square
    BY <1>1, VisibleAlong
  <2>2. \A t \in squaresAlong(s, ds) : \E i \in 1 .. Len(w) : w[i] = t
    BY <1>3 DEF Enumerates
  <2> HIDE DEF w, s
  <2> QED
    BY <1>3, <2>1, <2>2 DEF Names
<1>4. cardinals \subseteq Direction /\ diagonals \subseteq Direction
      /\ cardinals \cup diagonals \subseteq Direction
  BY Compass
<1>5. CASE type = "ROOK"
  <2>1. w = cardinalLines(s) /\ bearing(b, id) = seen(b.at, s, cardinals)
    BY <1>5 DEF walk, bearing
  <2>2. Enumerates(cardinalLines(s), squaresAlong(s, cardinals))
    BY <1>1, LineLengths
  <2> QED
    BY <2>1, <2>2, <1>3, <1>4
<1>6. CASE type = "BISHOP"
  <2>1. w = diagonalLines(s) /\ bearing(b, id) = seen(b.at, s, diagonals)
    BY <1>6 DEF walk, bearing
  <2>2. Enumerates(diagonalLines(s), squaresAlong(s, diagonals))
    BY <1>1, LineLengths
  <2> QED
    BY <2>1, <2>2, <1>3, <1>4
<1>7. CASE type = "QUEEN"
  <2>1. /\ w = cardinalLines(s) \o diagonalLines(s)
        /\ bearing(b, id) = seen(b.at, s, cardinals \cup diagonals)
    BY <1>7 DEF walk, bearing
  <2>2. Enumerates(cardinalLines(s) \o diagonalLines(s),
                   squaresAlong(s, cardinals \cup diagonals))
    BY <1>1, AllLines
  <2>3. Enumerates(w, squaresAlong(s, cardinals \cup diagonals))
    BY <2>1, <2>2
  <2> QED
    BY <2>1, <2>3, <1>3, <1>4
<1>8. CASE type = "KNIGHT"
  <2>1. /\ w = stepsFrom(s, knightSteps)
        /\ bearing(b, id) = Range(stepsFrom(s, knightSteps)) \ {NoSquare}
    BY <1>8 DEF walk, bearing
  <2> QED
    BY <2>1, <1>2, StepLists
<1>9. CASE type = "KING"
  <2>1. /\ w = stepsFrom(s, kingSteps)
        /\ bearing(b, id) = Range(stepsFrom(s, kingSteps)) \ {NoSquare}
    BY <1>9 DEF walk, bearing
  <2> QED
    BY <2>1, <1>2, StepLists
<1>10. CASE type = "PAWN"
  <2> DEFINE c == stepsFrom(s, pawnSteps(getColor(id)))
  <2>1. /\ w = pawnAdvances(s, getColor(id)) \o c
        /\ bearing(b, id) = Range(c) \ {NoSquare}
    BY <1>10 DEF walk, bearing
  <2>2. Steps(pawnSteps(getColor(id)), 2, pawnStep(getColor(id)))
    BY <1>1, StepLists
  <2> DEFINE mods == pawnSteps(getColor(id))
  <2> DEFINE M == pawnStep(getColor(id))
  <2>7. Steps(mods, 2, M)
    BY <2>2
  <2> HIDE DEF mods, M, s
  <2>8. /\ Proper(stepsFrom(s, mods)) /\ Len(stepsFrom(s, mods)) = 2
        /\ Range(stepsFrom(s, mods)) \ {NoSquare} =
              {stepped(s, m) : m \in M} \cap Square
    BY <1>1, <2>7, StepsProper
  <2>3. Proper(c) /\ Len(c) = 2 /\ Range(c) \ {NoSquare} \subseteq Square
    BY <2>8 DEF mods
  <2>4. Len(w) = 4 /\ \A i \in 1 .. 2 : w[i + 2] = c[i]
    BY <1>1, <2>1, PawnWalk
  <2>5. DOMAIN c = 1 .. 2
    BY <2>3 DEF Proper
  <2>6. \A i \in 1 .. 2 : i + 2 \in 1 .. 4
    OBVIOUS
  <2> HIDE DEF c, w
  <2>9. Names(w, bearing(b, id))
    BY <2>1, <2>3, <2>4, <2>5, <2>6 DEF Names, Range
  <2> QED
    BY <2>9 DEF w, s
<1> QED
  BY <1>1, <1>5, <1>6, <1>7, <1>8, <1>9, <1>10 DEF Type

\* A piece looks at all its targets.
LEMMA WalkNamesTargets ==
  ASSUME NEW b, NEW id, Standing(b, id)
  PROVE  Names(walk(b.piece[id].type, getColor(id), b.piece[id].position),
               targets(b, id))
<1> DEFINE s == b.piece[id].position
<1> DEFINE type == b.piece[id].type
<1> DEFINE w == walk(type, getColor(id), s)
<1>1. s \in Square /\ type \in Type /\ getColor(id) \in Color
  BY IdColor DEF Standing
<1>2. Names(w, bearing(b, id))
  BY WalkNamesBearing
<1>3. CASE type # "PAWN"
  <2>1. targets(b, id) \subseteq bearing(b, id)
    BY <1>3 DEF targets
  <2> HIDE DEF w
  <2>2. Names(w, targets(b, id))
    BY <1>2, <2>1 DEF Names
  <2> QED
    BY <2>2 DEF w
<1>4. CASE type = "PAWN"
  <2> DEFINE a == pawnAdvances(s, getColor(id))
  <2>1. \A t \in targets(b, id) : t \in Square \cap Range(a) \/ t \in bearing(b, id)
    BY <1>4 DEF targets
  <2>2. w = a \o stepsFrom(s, pawnSteps(getColor(id)))
    BY <1>4 DEF walk
  <2>3. Len(w) = 4 /\ \A t \in Square \cap Range(a) : \E i \in 1 .. 4 : w[i] = t
    BY <1>1, <2>2, PawnWalk
  <2> HIDE DEF w, a
  <2>4. Names(w, targets(b, id))
    BY <1>2, <2>1, <2>3 DEF Names
  <2> QED
    BY <2>4 DEF w
<1> QED
  BY <1>3, <1>4

\* The list of a piece: its targets, each once.
LEMMA AddMovesIs ==
  ASSUME NEW b, NEW id, Standing(b, id)
  PROVE  /\ Enumerates(addMoves(b, id), targets(b, id))
         /\ targets(b, id) \subseteq Square
         /\ Len(addMoves(b, id)) \in 0 .. reservedForType[b.piece[id].type]
<1> DEFINE w == walk(b.piece[id].type, getColor(id), b.piece[id].position)
<1> DEFINE S == targets(b, id)
<1>1. Proper(w) /\ Len(w) \in 0 .. reservedForType[b.piece[id].type]
  BY WalkProper, IdColor DEF Standing
<1>2. Names(w, S)
  BY WalkNamesTargets
<1>3. addMoves(b, id) = only(w, S)
  BY DEF addMoves
<1>4. reservedForType[b.piece[id].type] \in Nat
  BY DEF reservedForType, Standing, Type
<1> DEFINE res == reservedForType[b.piece[id].type]
<1> HIDE DEF w, S, res
<1>5. w \in Seq(Int) /\ Len(w) \in 0 .. res /\ res \in Nat
  BY <1>1, <1>4 DEF Proper, res
<1>6. /\ only(w, S) \in Seq(Int)
      /\ Picked(only(w, S), Len(w), w, S)
      /\ (\A i, j \in 1 .. Len(w) : i # j /\ w[i] \in S => w[i] # w[j]) =>
               Distinct(only(w, S))
  BY <1>5, Only
<1>7. Distinct(only(w, S))
  BY <1>1, <1>2, <1>6 DEF Names, Proper
<1> DEFINE r == only(w, S)
<1> HIDE DEF r
<1>8. r \in Seq(Int) /\ Picked(r, Len(w), w, S) /\ Distinct(r)
  BY <1>6, <1>7 DEF r
<1>9. Enumerates(r, S)
  BY <1>2, <1>8 DEF Enumerates, Picked, Names
<1>10. Len(r) \in 0 .. res
  <2>1. Len(r) \in Nat /\ Len(r) <= Len(w)
    BY <1>8 DEF Picked
  <2> QED
    BY <2>1, <1>5
<1> QED
  BY <1>2, <1>3, <1>9, <1>10 DEF r, S, res, Names

-----------------------------------------------------------------------------
(* The offsets of the move array, and what is true of every board          *)

\* What m_pieceArr may hold.
Pieces == [ID -> [position : Place, type : Type, reserved : Nat]]

\* The offsets are the sums of the slots before.
LEMMA OffsetsAre ==
  ASSUME NEW p \in Pieces
  PROVE  /\ genMoveOffsets(p) \in [ID -> Nat]
         /\ genMoveOffsets(p)[1] = 0
         /\ \A id \in 1 .. 31 :
              genMoveOffsets(p)[id + 1] = genMoveOffsets(p)[id] + p[id].reserved
<1> DEFINE next == [n \in 1 .. 31 |-> [v \in Nat |-> v + p[n].reserved]]
<1> DEFINE Offset(f) == f = [id \in ID |-> IF id = 1 THEN 0
                                           ELSE f[id - 1] + p[id - 1].reserved]
<1>1. \A id \in ID : p[id].reserved \in Nat
  BY DEF Pieces
<1>2. next \in [1 .. 31 -> [Nat -> Nat]]
  BY <1>1 DEF ID
<1>3. \A n \in 1 .. 31, v \in Nat : next[n][v] = v + p[n].reserved
  OBVIOUS
<1> HIDE DEF next
<1>4. \E f : Iterates(f, 31, Nat, 0, next)
  BY <1>2, Iteration
<1>5. PICK f : /\ f \in [0 .. 31 -> Nat]
               /\ f[0] = 0 /\ \A n \in 1 .. 31 : f[n] = next[n][f[n - 1]]
  BY <1>4 DEF Iterates
<1> DEFINE g == [id \in ID |-> f[id - 1]]
<1>6. Offset(g)
  <2>1. \A id \in ID : id # 1 => /\ id - 1 \in 1 .. 31 /\ id - 1 \in ID
                                 /\ (id - 1) - 1 \in 0 .. 31
    BY DEF ID
  <2>2. \A id \in ID : id # 1 =>
           g[id] = f[(id - 1) - 1] + p[id - 1].reserved
    BY <2>1, <1>3, <1>5
  <2>3. \A id \in ID : g[id] = IF id = 1 THEN 0 ELSE g[id - 1] + p[id - 1].reserved
    BY <2>1, <2>2, <1>5
  <2> QED
    BY <2>3
<1> DEFINE o == CHOOSE h : Offset(h)
<1>7. Offset(o)
  BY <1>6
<1>8. genMoveOffsets(p) = [id \in ID |-> o[id]]
  BY DEF genMoveOffsets
<1> HIDE DEF o
<1>9. \A id \in ID : o[id] = IF id = 1 THEN 0 ELSE o[id - 1] + p[id - 1].reserved
  BY <1>7
<1>10. \A id \in 1 .. 31 : id \in ID /\ id + 1 \in ID /\ id + 1 # 1 /\ (id + 1) - 1 = id
  BY DEF ID
<1>11. o[1] = 0 /\ \A id \in 1 .. 31 : o[id + 1] = o[id] + p[id].reserved
  <2>1. 1 \in ID
    BY DEF ID
  <2> QED
    BY <2>1, <1>9, <1>10
<1>12. \A id \in ID : o[id] \in Nat
  <2> DEFINE T == {n \in Nat : n <= 31 => o[n + 1] \in Nat}
  <2>1. 0 \in T
    BY <1>11
  <2>2. ASSUME NEW n \in Nat, n \in T PROVE n + 1 \in T
    <3> SUFFICES ASSUME n + 1 <= 31 PROVE o[(n + 1) + 1] \in Nat
      OBVIOUS
    <3>1. n + 1 \in 1 .. 31 /\ n + 1 \in ID /\ o[n + 1] \in Nat
      BY <2>2 DEF ID
    <3> QED
      BY <3>1, <1>1, <1>11
  <2> HIDE DEF T
  <2>3. \A n \in Nat : n \in T
    BY <2>1, <2>2, CountingUp
  <2>4. \A id \in ID : id - 1 \in Nat /\ id - 1 <= 31 /\ (id - 1) + 1 = id
    BY DEF ID
  <2> QED
    BY <2>3, <2>4 DEF T
<1>13. 1 \in ID /\ \A id \in 1 .. 31 : id \in ID /\ id + 1 \in ID
  BY DEF ID
<1> QED
  BY <1>8, <1>11, <1>12, <1>13

\* The length of the array that the lists of all pieces take.
total(p) == genMoveOffsets(p)[32] + p[32].reserved

\* Where one piece gets more slots, and the others as many as before.
LEMMA OffsetsShift ==
  ASSUME NEW p \in Pieces, NEW q \in Pieces, NEW id \in ID,
         \A i \in ID \ {id} : q[i].reserved = p[i].reserved
  PROVE  total(q) = total(p) + q[id].reserved - p[id].reserved
<1> DEFINE o == genMoveOffsets(p)
<1> DEFINE r == genMoveOffsets(q)
<1> DEFINE more == q[id].reserved - p[id].reserved
<1>1. /\ o \in [ID -> Nat] /\ r \in [ID -> Nat] /\ o[1] = 0 /\ r[1] = 0
      /\ \A i \in 1 .. 31 : o[i + 1] = o[i] + p[i].reserved
      /\ \A i \in 1 .. 31 : r[i + 1] = r[i] + q[i].reserved
  BY OffsetsAre
<1>2. \A i \in ID : p[i].reserved \in Nat /\ q[i].reserved \in Nat
  BY DEF Pieces
<1>3. more \in Int /\ q[id].reserved = p[id].reserved + more
  BY <1>2
<1> HIDE DEF o, r, more
<1> DEFINE T == {n \in Nat : n <= 31 =>
                   r[n + 1] = o[n + 1] + IF n + 1 > id THEN more ELSE 0}
<1>4. 0 \in T
  BY <1>1 DEF ID
<1>5. ASSUME NEW n \in Nat, n \in T PROVE n + 1 \in T
  <2> SUFFICES ASSUME n + 1 <= 31
               PROVE  r[(n + 1) + 1] = o[(n + 1) + 1] + IF (n + 1) + 1 > id THEN more ELSE 0
    OBVIOUS
  <2> DEFINE m == n + 1
  <2>1. /\ m \in 1 .. 31 /\ m \in ID /\ id \in Nat
        /\ r[m] = o[m] + IF m > id THEN more ELSE 0
    BY <1>5 DEF ID
  <2>2. r[m + 1] = r[m] + q[m].reserved /\ o[m + 1] = o[m] + p[m].reserved
    BY <2>1, <1>1
  <2>3. o[m] \in Nat /\ r[m] \in Nat /\ p[m].reserved \in Nat /\ q[m].reserved \in Nat
    BY <2>1, <1>1, <1>2
  <2> HIDE DEF m
  <2>4. ASSUME m = id
        PROVE  r[m + 1] = o[m + 1] + IF m + 1 > id THEN more ELSE 0
    BY <2>1, <2>2, <2>3, <2>4, <1>3
  <2>5. ASSUME m # id
        PROVE  r[m + 1] = o[m + 1] + IF m + 1 > id THEN more ELSE 0
    <3>1. q[m].reserved = p[m].reserved
      BY <2>1, <2>5
    <3> QED
      BY <3>1, <2>1, <2>2, <2>3, <2>5, <1>3
  <2>6. r[m + 1] = o[m + 1] + IF m + 1 > id THEN more ELSE 0
    BY <2>4, <2>5
  <2> QED
    BY <2>6 DEF m
<1> HIDE DEF T
<1>6. 31 \in T
  BY <1>4, <1>5, CountingUp
<1>7. r[32] = o[32] + IF 32 > id THEN more ELSE 0
  BY <1>6 DEF T
<1>8. 32 \in ID
  BY DEF ID
<1>9. CASE id = 32
  BY <1>1, <1>2, <1>3, <1>7, <1>8, <1>9 DEF total, o, r, more
<1>10. CASE id # 32
  <2>1. 32 > id /\ q[32].reserved = p[32].reserved
    BY <1>8, <1>10 DEF ID
  <2> QED
    BY <2>1, <1>1, <1>2, <1>3, <1>7, <1>8 DEF total, o, r, more
<1> QED
  BY <1>9, <1>10

\* Where no piece gets more slots.
LEMMA OffsetsShrink ==
  ASSUME NEW p \in Pieces, NEW q \in Pieces,
         \A i \in ID : q[i].reserved <= p[i].reserved
  PROVE  total(q) <= total(p)
<1> DEFINE o == genMoveOffsets(p)
<1> DEFINE r == genMoveOffsets(q)
<1>1. /\ o \in [ID -> Nat] /\ r \in [ID -> Nat] /\ o[1] = 0 /\ r[1] = 0
      /\ \A i \in 1 .. 31 : o[i + 1] = o[i] + p[i].reserved
      /\ \A i \in 1 .. 31 : r[i + 1] = r[i] + q[i].reserved
  BY OffsetsAre
<1>2. \A i \in ID : p[i].reserved \in Nat /\ q[i].reserved \in Nat
  BY DEF Pieces
<1> HIDE DEF o, r
<1> DEFINE T == {n \in Nat : n <= 31 => r[n + 1] <= o[n + 1]}
<1>4. 0 \in T
  BY <1>1
<1>5. ASSUME NEW n \in Nat, n \in T PROVE n + 1 \in T
  <2> SUFFICES ASSUME n + 1 <= 31 PROVE  r[(n + 1) + 1] <= o[(n + 1) + 1]
    OBVIOUS
  <2>1. n + 1 \in 1 .. 31 /\ n + 1 \in ID /\ r[n + 1] <= o[n + 1]
    BY <1>5 DEF ID
  <2>2. /\ r[(n + 1) + 1] = r[n + 1] + q[n + 1].reserved
        /\ o[(n + 1) + 1] = o[n + 1] + p[n + 1].reserved
    BY <2>1, <1>1
  <2>3. /\ o[n + 1] \in Nat /\ r[n + 1] \in Nat /\ p[n + 1].reserved \in Nat
        /\ q[n + 1].reserved \in Nat /\ q[n + 1].reserved <= p[n + 1].reserved
    BY <2>1, <1>1, <1>2
  <2> QED
    BY <2>1, <2>2, <2>3
<1> HIDE DEF T
<1>6. 31 \in T
  BY <1>4, <1>5, CountingUp
<1>7. r[32] <= o[32] /\ 32 \in ID
  BY <1>6 DEF T, ID
<1> QED
  BY <1>1, <1>2, <1>7 DEF total, o, r

\* The records that boards are.
Boards ==
    [at : [Square -> ID \cup {EMPTY}], piece : Pieces, moveOffset : [ID -> Nat],
     size : Nat]

\* A piece has the slots of its type, which is its first one or, for a pawn, one
\* it was promoted to.
Suited(p) ==
    \A id \in ID :
       /\ p[id].reserved = reservedForType[p[id].type]
       /\ p[id].type # homeType[id] =>
            homeType[id] = "PAWN" /\ p[id].type \in promotions

\* The two views of the board agree.
Agreed(b) ==
    \A id \in ID, s \in Square : b.at[s] = id <=> b.piece[id].position = s

\* Where the slots after a piece's own begin.
nextOffset(b, id) == IF id = 32 THEN b.size ELSE b.moveOffset[id + 1]

Spaced(b) ==
    \A id \in ID : b.moveOffset[id] + b.piece[id].reserved <= nextOffset(b, id)

\* A board in order: each piece has the slots of its type, the two views agree,
\* the blocks of slots do not overlap, and the array holds them all.
BoardOK(b) ==
    /\ b \in Boards
    /\ Suited(b.piece)
    /\ Agreed(b)
    /\ Spaced(b)
    /\ total(b.piece) <= b.size

\* The slots of a type.
LEMMA ReservedIs ==
  ASSUME NEW type \in Type
  PROVE  reservedForType[type] \in 5 .. 27
  BY DEF Type, reservedForType

\* The fields of a piece.
LEMMA FieldsOf ==
  ASSUME NEW b, BoardOK(b), NEW id \in ID
  PROVE  /\ b.moveOffset[id] \in Nat /\ b.size \in Nat
         /\ b.piece[id].position \in Place /\ b.piece[id].type \in Type
         /\ b.piece[id].reserved = reservedForType[b.piece[id].type]
         /\ b.piece[id].reserved \in 5 .. 27 /\ b.piece[id].reserved \in Nat
         /\ nextOffset(b, id) \in Nat
<1>1. /\ b.moveOffset \in [ID -> Nat] /\ b.size \in Nat /\ b.piece \in Pieces
  BY DEF BoardOK, Boards
<1>2. /\ b.piece[id].position \in Place /\ b.piece[id].type \in Type
      /\ b.piece[id].reserved = reservedForType[b.piece[id].type]
  BY <1>1 DEF Pieces, BoardOK, Suited
<1>3. id # 32 => id + 1 \in ID
  BY DEF ID
<1> QED
  BY <1>1, <1>2, <1>3, ReservedIs DEF nextOffset

\* The slots of two pieces are apart, and inside the array.
LEMMA BlocksApart ==
  ASSUME NEW b, BoardOK(b)
  PROVE  /\ \A i, j \in ID : i < j =>
              b.moveOffset[i] + b.piece[i].reserved <= b.moveOffset[j]
         /\ \A i \in ID : b.moveOffset[i] + b.piece[i].reserved <= b.size
<1> DEFINE o == b.moveOffset
<1> DEFINE r == [i \in ID |-> b.piece[i].reserved]
<1>1. /\ \A i \in ID : o[i] \in Nat /\ r[i] \in 5 .. 27
      /\ b.size \in Nat
  BY SMTT(30), FieldsOf DEF ID
<1>2. /\ \A i \in 1 .. 31 : o[i] + r[i] <= o[i + 1]
      /\ o[32] + r[32] <= b.size
  BY DEF BoardOK, Spaced, nextOffset, ID
<1>3. \A i \in ID : r[i] = b.piece[i].reserved
  OBVIOUS
<1> HIDE DEF o, r
<1>4. ASSUME NEW i \in ID
      PROVE  \A n \in Nat : (i + 1) + n <= 32 => o[i] + r[i] <= o[(i + 1) + n]
  <2> DEFINE T == {n \in Nat : (i + 1) + n <= 32 => o[i] + r[i] <= o[(i + 1) + n]}
  <2>1. 0 \in T
    BY <1>1, <1>2 DEF ID
  <2>2. ASSUME NEW n \in Nat, n \in T PROVE n + 1 \in T
    <3> SUFFICES ASSUME (i + 1) + (n + 1) <= 32
                 PROVE  o[i] + r[i] <= o[(i + 1) + (n + 1)]
      OBVIOUS
    <3> DEFINE m == (i + 1) + n
    <3>1. /\ m \in 1 .. 31 /\ m \in ID /\ m + 1 = (i + 1) + (n + 1) /\ m + 1 \in ID
          /\ o[i] + r[i] <= o[m]
      BY <2>2 DEF ID
    <3>2. o[m] + r[m] <= o[m + 1]
      BY <3>1, <1>2
    <3>3. o[m] \in Nat /\ r[m] \in Nat /\ o[m + 1] \in Nat /\ o[i] \in Nat /\ r[i] \in Nat
      BY <3>1, <1>1
    <3> HIDE DEF m
    <3>4. o[i] + r[i] <= o[m + 1]
      BY <3>1, <3>2, <3>3
    <3> QED
      BY <3>4, <3>1 DEF m
  <2> HIDE DEF T
  <2>3. \A n \in Nat : n \in T
    BY <2>1, <2>2, CountingUp
  <2> QED
    BY <2>3 DEF T
<1>5. ASSUME NEW i \in ID, NEW j \in ID, i < j
      PROVE  o[i] + r[i] <= o[j]
  <2>1. j - (i + 1) \in Nat /\ (i + 1) + (j - (i + 1)) = j /\ j <= 32
    BY <1>5 DEF ID
  <2>2. (i + 1) + (j - (i + 1)) <= 32 => o[i] + r[i] <= o[(i + 1) + (j - (i + 1))]
    BY <2>1, <1>4
  <2> QED
    BY <2>1, <2>2
<1>6. ASSUME NEW i \in ID PROVE o[i] + r[i] <= b.size
  <2>1. CASE i = 32
    BY <2>1, <1>2
  <2>2. CASE i # 32
    <3>1. 32 \in ID /\ i < 32
      BY <2>2 DEF ID
    <3>2. o[i] + r[i] <= o[32]
      BY <3>1, <1>5
    <3>3. /\ o[i] \in Nat /\ r[i] \in Nat /\ o[32] \in Nat /\ r[32] \in Nat
          /\ b.size \in Nat
      BY <3>1, <1>1
    <3> QED
      BY <3>2, <3>3, <1>2
  <2> QED
    BY <2>1, <2>2
<1> QED
  BY <1>3, <1>5, <1>6 DEF o

\* A piece in play stands on a square.
LEMMA InPlayStanding ==
  ASSUME NEW b, BoardOK(b), NEW id \in inPlay(b)
  PROVE  Standing(b, id) /\ id \in ID
  BY FieldsOf DEF inPlay, Standing, Place

\* No place in the array belongs to two pieces.
LEMMA OneOwner ==
  ASSUME NEW b, BoardOK(b), NEW i \in ID, NEW j \in ID, NEW k \in Int,
         k - b.moveOffset[i] \in 0 .. b.piece[i].reserved - 1,
         k - b.moveOffset[j] \in 0 .. b.piece[j].reserved - 1
  PROVE  i = j
<1>1. /\ b.moveOffset[i] \in Nat /\ b.moveOffset[j] \in Nat
      /\ b.piece[i].reserved \in Nat /\ b.piece[j].reserved \in Nat
  BY FieldsOf
<1>2. i < j \/ j < i \/ i = j
  BY DEF ID
<1>3. ASSUME i < j PROVE FALSE
  <2>1. b.moveOffset[i] + b.piece[i].reserved <= b.moveOffset[j]
    BY <1>3, BlocksApart
  <2> QED
    BY <2>1, <1>1
<1>4. ASSUME j < i PROVE FALSE
  <2>1. b.moveOffset[j] + b.piece[j].reserved <= b.moveOffset[i]
    BY <1>4, BlocksApart
  <2> QED
    BY <2>1, <1>1
<1> QED
  BY <1>2, <1>3, <1>4

-----------------------------------------------------------------------------
(* The lists before the filters                                            *)

\* The n moves of a list are the members of S, each once, and the slots after
\* them, up to the res-th, are empty.
Tidy(m, off, n, res, S) ==
    /\ n \in 0 .. res
    /\ \A i \in 0 .. n - 1 : m[off + i] \in S
    /\ \A i \in n .. res - 1 : m[off + i] = NoSquare
    /\ \A t \in S : \E i \in 0 .. n - 1 : m[off + i] = t
    /\ \A i, j \in 0 .. n - 1 : i # j => m[off + i] # m[off + j]

TidyAt(b, g, id, S) ==
    Tidy(g.moves, b.moveOffset[id], g.movesIdx[id], b.piece[id].reserved, S)

\* The slots of the move array, and those that are some piece's.
Slots(b) == 0 .. b.size - 1

Owned(b, k) == \E id \in ID : k - b.moveOffset[id] \in 0 .. b.piece[id].reserved - 1

\* What the move array and the counts hold, at any time.
Holding(b, g) ==
    /\ g.moves \in [Slots(b) -> Place]
    /\ g.movesIdx \in [ID -> Nat]
    /\ \A id \in ID : g.movesIdx[id] <= b.piece[id].reserved
    /\ \A k \in Slots(b) : g.moves[k] # NoSquare => Owned(b, k)

\* Every list is tidy: S has the moves of every piece.
Lists(b, g, S) ==
    /\ Holding(b, g)
    /\ \A id \in ID : TidyAt(b, g, id, S[id])

\* A piece's moves before the filters.
own(b) == [id \in ID |-> IF id \in inPlay(b) THEN targets(b, id) ELSE {}]

\* A piece's slots are in the array.
LEMMA InSlots ==
  ASSUME NEW b, BoardOK(b), NEW id \in ID, NEW i \in 0 .. b.piece[id].reserved - 1
  PROVE  b.moveOffset[id] + i \in Slots(b)
<1>1. b.moveOffset[id] + b.piece[id].reserved <= b.size
  BY BlocksApart
<1>2. b.moveOffset[id] \in Nat /\ b.piece[id].reserved \in Nat /\ b.size \in Nat
  BY FieldsOf
<1> QED
  BY <1>1, <1>2 DEF Slots

\* What addMoves gives a piece.
LEMMA Given ==
  ASSUME NEW b, BoardOK(b), NEW id \in inPlay(b)
  PROVE  /\ Enumerates(addMoves(b, id), own(b)[id])
         /\ Len(addMoves(b, id)) \in 0 .. b.piece[id].reserved
         /\ own(b)[id] = targets(b, id)
<1>1. Standing(b, id) /\ id \in ID
  BY InPlayStanding
<1>2. own(b)[id] = targets(b, id)
  BY <1>1 DEF own
<1> QED
  BY <1>1, <1>2, AddMovesIs, FieldsOf

\* own names squares.
LEMMA OwnSquares ==
  ASSUME NEW b, BoardOK(b)
  PROVE  own(b) \in [ID -> SUBSET Square]
<1>1. \A id \in inPlay(b) : targets(b, id) \subseteq Square
  BY InPlayStanding, AddMovesIs
<1> QED
  BY <1>1 DEF own

\* What genMoves writes to a piece's slots.
LEMMA Filled ==
  ASSUME NEW b, BoardOK(b), NEW given, NEW id \in ID, NEW i \in 0 .. b.piece[id].reserved - 1,
         given = [j \in inPlay(b) |-> addMoves(b, j)]
  PROVE  filledSlots(b, given)[b.moveOffset[id] + i] =
            IF id \in inPlay(b) THEN
              IF i < Len(addMoves(b, id)) THEN addMoves(b, id)[i + 1] ELSE NoSquare
            ELSE NoSquare
<1> DEFINE k == b.moveOffset[id] + i
<1> DEFINE holds(j) == k - b.moveOffset[j] \in 0 .. Len(given[j]) - 1
<1> DEFINE writer == writers(b, given, k)
<1>0. DOMAIN given = inPlay(b) /\ writer = {j \in inPlay(b) : holds(j)}
  BY DEF writers
<1>1. k \in Slots(b) /\ k \in Int /\ k - b.moveOffset[id] = i /\ i \in Nat
  BY InSlots, FieldsOf DEF Slots
<1>2. filledSlots(b, given)[k] =
         IF writer = {} THEN NoSquare
         ELSE given[Max(writer)][k - b.moveOffset[Max(writer)] + 1]
  BY <1>1 DEF filledSlots, Slots
<1>3. writer \subseteq {id}
  <2> SUFFICES ASSUME NEW j \in inPlay(b), holds(j) PROVE j = id
    BY <1>0
  <2>1. j \in ID /\ given[j] = addMoves(b, j) /\ Len(addMoves(b, j)) \in 0 .. b.piece[j].reserved
    BY Given DEF inPlay
  <2>2. b.piece[j].reserved \in Nat /\ b.piece[id].reserved \in Nat
    BY <2>1, FieldsOf
  <2>3. k - b.moveOffset[j] \in 0 .. b.piece[j].reserved - 1
    BY <2>1, <2>2
  <2> HIDE DEF k
  <2>4. k - b.moveOffset[id] \in 0 .. b.piece[id].reserved - 1
    BY <1>1
  <2> QED
    BY <2>1, <2>3, <2>4, <1>1, OneOwner
<1>4. CASE id \in inPlay(b) /\ i < Len(addMoves(b, id))
  <2>1. given[id] = addMoves(b, id) /\ Len(addMoves(b, id)) \in Nat
    BY <1>4, Given
  <2>2. holds(id)
    BY <2>1, <1>1, <1>4
  <2>3. writer = {id} /\ id >= id
    BY <2>2, <1>0, <1>3, <1>4 DEF ID
  <2>4. Max(writer) = id
    BY <2>3 DEF Max
  <2> QED
    BY <1>1, <1>2, <1>4, <2>1, <2>3, <2>4
<1>5. CASE ~(id \in inPlay(b) /\ i < Len(addMoves(b, id)))
  <2>1. id \notin writer
    <3> SUFFICES ASSUME id \in inPlay(b), holds(id) PROVE FALSE
      BY <1>0
    <3>1. given[id] = addMoves(b, id) /\ Len(addMoves(b, id)) \in Nat
      BY Given
    <3> QED
      BY <3>1, <1>1, <1>5
  <2>2. writer = {}
    BY <2>1, <1>3
  <2> QED
    BY <2>2, <1>2, <1>5
<1> QED
  BY <1>4, <1>5

\* It writes to no other slots.
LEMMA FilledElsewhere ==
  ASSUME NEW b, BoardOK(b), NEW given, NEW k \in Slots(b),
         given = [j \in inPlay(b) |-> addMoves(b, j)],
         filledSlots(b, given)[k] # NoSquare
  PROVE  Owned(b, k)
<1> DEFINE holds(j) == k - b.moveOffset[j] \in 0 .. Len(given[j]) - 1
<1> DEFINE writer == writers(b, given, k)
<1>0. DOMAIN given = inPlay(b) /\ writer = {j \in inPlay(b) : holds(j)}
  BY DEF writers
<1>2. filledSlots(b, given)[k] =
         IF writer = {} THEN NoSquare
         ELSE given[Max(writer)][k - b.moveOffset[Max(writer)] + 1]
  BY DEF filledSlots, Slots
<1>3. PICK j \in inPlay(b) : holds(j)
  BY <1>0, <1>2
<1>4. j \in ID /\ given[j] = addMoves(b, j) /\ Len(addMoves(b, j)) \in 0 .. b.piece[j].reserved
  BY Given DEF inPlay
<1>5. b.piece[j].reserved \in Nat
  BY <1>4, FieldsOf
<1> QED
  BY <1>3, <1>4, <1>5 DEF Owned

\* Before the filters, every piece has all its moves.
LEMMA GeneratedLists ==
  ASSUME NEW b, BoardOK(b), NEW color
  PROVE  /\ Lists(b, generated(b, color), own(b))
         /\ generated(b, color).overrun = FALSE
         /\ \A id \in inPlay(b) :
              generated(b, color).movesIdx[id] = Len(addMoves(b, id))
<1> DEFINE given == [id \in inPlay(b) |-> addMoves(b, id)]
<1> DEFINE m == filledSlots(b, given)
<1> DEFINE n == [id \in ID |-> IF id \in inPlay(b) THEN Len(given[id]) ELSE 0]
<1> DEFINE g == generated(b, color)
<1>1. g.moves = m /\ g.movesIdx = n /\ g.overrun = FALSE
  BY DEF generated
<1>2. \A id \in ID : n[id] = IF id \in inPlay(b) THEN Len(addMoves(b, id)) ELSE 0
  OBVIOUS
<1>3. n \in [ID -> Nat] /\ \A id \in ID : n[id] \in 0 .. b.piece[id].reserved
  <2>1. \A id \in ID : n[id] \in 0 .. b.piece[id].reserved /\ n[id] \in Nat
    BY <1>2, Given, FieldsOf
  <2> QED
    BY <2>1
<1>4. DOMAIN m = Slots(b) /\ m = [k \in Slots(b) |-> m[k]]
  BY DEF filledSlots, Slots
<1>5. given = [j \in inPlay(b) |-> addMoves(b, j)]
  OBVIOUS
<1> HIDE DEF given
<1>6. \A id \in ID : \A i \in 0 .. b.piece[id].reserved - 1 :
         m[b.moveOffset[id] + i] =
            IF id \in inPlay(b) THEN
              IF i < Len(addMoves(b, id)) THEN addMoves(b, id)[i + 1] ELSE NoSquare
            ELSE NoSquare
  BY <1>5, Filled
<1>7. \A k \in Slots(b) : m[k] # NoSquare => Owned(b, k)
  BY <1>5, FilledElsewhere
<1> HIDE DEF m, n, g
<1>8. ASSUME NEW id \in ID
      PROVE  Tidy(m, b.moveOffset[id], n[id], b.piece[id].reserved, own(b)[id])
  <2>1. CASE id \notin inPlay(b)
    <3>1. n[id] = 0 /\ own(b)[id] = {}
      BY <2>1, <1>2 DEF own
    <3>2. b.piece[id].reserved \in Nat
      BY FieldsOf
    <3> QED
      BY <3>1, <3>2, <2>1, <1>6 DEF Tidy
  <2>2. CASE id \in inPlay(b)
    <3> DEFINE r == addMoves(b, id)
    <3>1. Enumerates(r, own(b)[id]) /\ Len(r) \in 0 .. b.piece[id].reserved
      BY <2>2, Given
    <3>2. n[id] = Len(r) /\ b.piece[id].reserved \in Nat
      BY <2>2, <1>2, FieldsOf
    <3>3. \A i \in 0 .. b.piece[id].reserved - 1 :
             m[b.moveOffset[id] + i] = IF i < Len(r) THEN r[i + 1] ELSE NoSquare
      BY <2>2, <1>6
    <3> HIDE DEF r
    <3>4. \A i \in 0 .. n[id] - 1 : m[b.moveOffset[id] + i] = r[i + 1] /\ i + 1 \in 1 .. Len(r)
      BY <3>1, <3>2, <3>3
    <3>5. \A i \in n[id] .. b.piece[id].reserved - 1 : m[b.moveOffset[id] + i] = NoSquare
      BY <3>1, <3>2, <3>3
    <3>6. \A i \in 1 .. Len(r) : /\ i - 1 \in 0 .. n[id] - 1
                                 /\ m[b.moveOffset[id] + (i - 1)] = r[i]
      BY <3>1, <3>2, <3>3
    <3>7. \A t \in own(b)[id] : \E i \in 0 .. n[id] - 1 : m[b.moveOffset[id] + i] = t
      BY <3>1, <3>6 DEF Enumerates
    <3>8. \A i \in 0 .. n[id] - 1 : m[b.moveOffset[id] + i] \in own(b)[id]
      BY <3>1, <3>4 DEF Enumerates
    <3>9. \A i, j \in 0 .. n[id] - 1 :
             i # j => m[b.moveOffset[id] + i] # m[b.moveOffset[id] + j]
      <4> SUFFICES ASSUME NEW i \in 0 .. n[id] - 1, NEW j \in 0 .. n[id] - 1, i # j
                   PROVE  m[b.moveOffset[id] + i] # m[b.moveOffset[id] + j]
        OBVIOUS
      <4>1. i + 1 # j + 1
        OBVIOUS
      <4> QED
        BY <4>1, <3>1, <3>4 DEF Enumerates, Distinct
    <3> QED
      BY <1>3, <3>5, <3>7, <3>8, <3>9 DEF Tidy
  <2> QED
    BY <2>1, <2>2
<1>9. \A k \in Slots(b) : m[k] \in Place
  <2> SUFFICES ASSUME NEW k \in Slots(b), m[k] # NoSquare PROVE m[k] \in Square
    BY DEF Place
  <2>1. PICK id \in ID : k - b.moveOffset[id] \in 0 .. b.piece[id].reserved - 1
    BY <1>7 DEF Owned
  <2> DEFINE i == k - b.moveOffset[id]
  <2>2. k = b.moveOffset[id] + i /\ i \in 0 .. b.piece[id].reserved - 1
        /\ b.piece[id].reserved \in Nat
    BY <2>1, FieldsOf DEF Slots
  <2> HIDE DEF i
  <2>3. i < n[id]
    BY <2>2, <1>3, <1>8 DEF Tidy
  <2>4. m[k] \in own(b)[id]
    BY <2>2, <2>3, <1>3, <1>8 DEF Tidy
  <2> QED
    BY <2>4, OwnSquares
<1>10. m \in [Slots(b) -> Place]
  BY <1>4, <1>9
<1>11. \A id \in ID : n[id] <= b.piece[id].reserved
  BY <1>3, FieldsOf
<1>12. Holding(b, g)
  BY <1>1, <1>3, <1>7, <1>10, <1>11 DEF Holding
<1>13. \A id \in ID : TidyAt(b, g, id, own(b)[id])
  BY <1>1, <1>8 DEF TidyAt
<1>14. \A id \in inPlay(b) : g.movesIdx[id] = Len(addMoves(b, id))
  BY <1>1, <1>2 DEF inPlay
<1> QED
  BY <1>1, <1>12, <1>13, <1>14 DEF Lists, g

-----------------------------------------------------------------------------
(* filterPinned: the loop over one list, and all of them                   *)

\* The records the loops over a list work on, M being the array's length.
Loops(M) ==
    [moves : [0 .. M - 1 -> Place], off : Nat, idx : Int, j : Int, overrun : BOOLEAN]

\* filterPinned's loop has come to its end.
Stopped(l) == l.j >= l.idx \/ l.moves[l.off + l.j] = NoSquare

\* The filters' first loop keeps what its steps keep, and comes to an end.
LEMMA SiftRuns ==
  ASSUME NEW M \in Nat, NEW S, NEW V \in SUBSET Loops(M), NEW list \in V,
         \A l \in V : sifted(l, S) \in V,
         list.idx \in Nat, list.j = 0
  PROVE  sift(list, S) \in V /\ Stopped(sift(list, S))
<1> DEFINE N == list.idx
<1> DEFINE next == [n \in 1 .. N |-> [l \in V |-> sifted(l, S)]]
<1> DEFINE After(h) == h = [n \in 0 .. N |-> IF n = 0 THEN list ELSE sifted(h[n - 1], S)]
<1>1. N \in Nat /\ next \in [1 .. N -> [V -> V]]
  OBVIOUS
<1>2. \A n \in 1 .. N, l \in V : next[n][l] = sifted(l, S)
  OBVIOUS
<1> HIDE DEF next, N
<1>3. \E f : Iterates(f, N, V, list, next)
  BY <1>1, Iteration
<1>4. PICK f : /\ f \in [0 .. N -> V] /\ f[0] = list
               /\ \A n \in 1 .. N : f[n] = next[n][f[n - 1]]
  BY <1>3 DEF Iterates
<1>5. After(f)
  <2>1. \A n \in 0 .. N : n # 0 => n \in 1 .. N /\ f[n - 1] \in V
    BY <1>1, <1>4
  <2>2. \A n \in 0 .. N : f[n] = IF n = 0 THEN list ELSE sifted(f[n - 1], S)
    BY <2>1, <1>2, <1>4
  <2> QED
    BY <2>2, <1>4
<1> DEFINE o == CHOOSE h : After(h)
<1>6. After(o)
  BY <1>5
<1>7. sift(list, S) = o[N]
  BY DEF sift, N
<1> HIDE DEF o
<1>8. o[0] = list /\ \A n \in Nat : n + 1 <= N => o[n + 1] = sifted(o[n], S)
  <2>1. \A n \in 0 .. N : o[n] = IF n = 0 THEN list ELSE sifted(o[n - 1], S)
    BY <1>6
  <2>2. ASSUME NEW n \in Nat, n + 1 <= N PROVE o[n + 1] = sifted(o[n], S)
    <3>1. n + 1 \in 0 .. N /\ n + 1 # 0 /\ (n + 1) - 1 = n
      BY <2>2, <1>1
    <3> QED
      BY <3>1, <2>1
  <2> QED
    BY <2>1, <2>2, <1>1
<1> DEFINE T == {n \in Nat : n <= N => /\ o[n] \in V
                                       /\ Stopped(o[n]) \/ o[n].idx - o[n].j = N - n}
<1>9. 0 \in T
  BY <1>8, <1>1 DEF N
<1>10. ASSUME NEW n \in Nat, n \in T PROVE n + 1 \in T
  <2> SUFFICES ASSUME n + 1 <= N
               PROVE  /\ o[n + 1] \in V
                      /\ Stopped(o[n + 1]) \/ o[n + 1].idx - o[n + 1].j = N - (n + 1)
    OBVIOUS
  <2> DEFINE l == o[n]
  <2>1. l \in V /\ (Stopped(l) \/ l.idx - l.j = N - n) /\ o[n + 1] = sifted(l, S)
    BY <1>1, <1>8, <1>10
  <2>2. l \in Loops(M) /\ l.idx \in Int /\ l.j \in Int
    BY <2>1 DEF Loops
  <2> HIDE DEF l
  <2>3. CASE Stopped(l)
    BY <2>1, <2>3 DEF sifted, Stopped
  <2>4. CASE ~Stopped(l) /\ l.moves[l.off + l.j] \in S
    <3>1. sifted(l, S) = [l EXCEPT !.j = @ + 1]
      BY <2>4 DEF sifted, Stopped
    <3>2. sifted(l, S).j = l.j + 1 /\ sifted(l, S).idx = l.idx
      BY <3>1, <2>2 DEF Loops
    <3> QED
      BY <3>2, <2>1, <2>2, <2>4, <1>1
  <2>5. CASE ~Stopped(l) /\ l.moves[l.off + l.j] \notin S
    <3>1. sifted(l, S) = [l EXCEPT !.moves = [[@ EXCEPT ![l.off + l.j] = l.moves[l.off + l.idx - 1]]
                                     EXCEPT ![l.off + l.idx - 1] = NoSquare],
                       !.idx = @ - 1]
      BY <2>5 DEF sifted, Stopped
    <3>2. sifted(l, S).j = l.j /\ sifted(l, S).idx = l.idx - 1
      BY <3>1, <2>2 DEF Loops
    <3> QED
      BY <3>2, <2>1, <2>2, <2>5, <1>1
  <2> QED
    BY <2>3, <2>4, <2>5
<1> HIDE DEF T
<1>11. N \in T
  BY <1>1, <1>9, <1>10, CountingUp
<1>12. o[N] \in V /\ (Stopped(o[N]) \/ o[N].idx - o[N].j = 0)
  BY <1>1, <1>11 DEF T
<1>13. o[N].idx \in Int /\ o[N].j \in Int
  BY <1>12 DEF Loops
<1> QED
  BY <1>7, <1>12, <1>13 DEF Stopped

\* How far a list is sifted: nothing outside it changes, no move comes in, and
\* those passed are in S.
SiftInv(l, list, M, S) ==
    /\ l \in Loops(M)
    /\ l.off = list.off /\ l.overrun = list.overrun
    /\ 0 <= l.j /\ l.j <= l.idx /\ l.idx <= list.idx
    /\ \A k \in 0 .. M - 1 :
          k - list.off \notin 0 .. list.idx - 1 => l.moves[k] = list.moves[k]
    /\ \A i \in 0 .. list.idx - 1 :
          l.moves[list.off + i] # NoSquare =>
             /\ list.moves[list.off + i] # NoSquare
             /\ \E e \in 0 .. list.idx - 1 :
                   l.moves[list.off + i] = list.moves[list.off + e]
    /\ \A i \in 0 .. l.j - 1 : l.moves[list.off + i] \in S

\* When the list had no gaps, it has none, and has lost no member of S.
SiftTidy(l, list, S) ==
    /\ \A i \in 0 .. l.idx - 1 : l.moves[list.off + i] # NoSquare
    /\ \A i \in l.idx .. list.idx - 1 : l.moves[list.off + i] = NoSquare
    /\ \A e \in 0 .. list.idx - 1 :
          list.moves[list.off + e] \in S =>
             \E i \in 0 .. l.idx - 1 : l.moves[list.off + i] = list.moves[list.off + e]
    /\ \A i, e \in 0 .. l.idx - 1 :
          i # e => l.moves[list.off + i] # l.moves[list.off + e]

\* A list without gaps.
NoGaps(list) ==
    /\ \A i \in 0 .. list.idx - 1 : list.moves[list.off + i] # NoSquare
    /\ \A i, e \in 0 .. list.idx - 1 :
          i # e => list.moves[list.off + i] # list.moves[list.off + e]

\* One step of filterPinned's loop keeps that.
LEMMA SiftStep ==
  ASSUME NEW M \in Nat, NEW S, NEW list \in Loops(M), list.idx \in Nat, list.j = 0,
         list.off + list.idx <= M,
         NEW l, SiftInv(l, list, M, S)
  PROVE  /\ SiftInv(sifted(l, S), list, M, S)
         /\ SiftTidy(l, list, S) => SiftTidy(sifted(l, S), list, S)
<1> DEFINE o == list.off
<1> DEFINE N == list.idx
<1> DEFINE m == l.moves
<1> DEFINE r == sifted(l, S)
<1>1. /\ l \in Loops(M) /\ l.off = o /\ l.overrun = list.overrun
      /\ l.idx \in Int /\ l.j \in Int /\ o \in Nat /\ N \in Nat /\ o + N <= M
      /\ 0 <= l.j /\ l.j <= l.idx /\ l.idx <= N
      /\ m \in [0 .. M - 1 -> Place]
  BY DEF SiftInv, Loops
<1>2. \A i \in 0 .. N - 1 : o + i \in 0 .. M - 1
  BY <1>1
<1>6. /\ l.idx \in Int /\ l.j \in Int /\ o \in Int /\ N \in Int
      /\ 0 <= l.j /\ l.j <= l.idx /\ l.idx <= N
  BY <1>1
<1>3. CASE Stopped(l)
  BY <1>3 DEF sifted, Stopped
<1>4. CASE ~Stopped(l) /\ m[o + l.j] \in S
  <2>1. r = [l EXCEPT !.j = @ + 1]
    BY <1>1, <1>4 DEF sifted, Stopped
  <2>2. /\ r.j = l.j + 1 /\ r.idx = l.idx /\ r.moves = m /\ r.off = o
        /\ r.overrun = list.overrun /\ r \in Loops(M)
    <3>1. l.j + 1 \in Int
      BY <1>6
    <3>2. r \in Loops(M)
      BY <1>1, <2>1, <3>1 DEF Loops
    <3>3. /\ r.j = l.j + 1 /\ r.idx = l.idx /\ r.moves = m /\ r.off = l.off
          /\ r.overrun = l.overrun
      BY <1>1, <2>1 DEF Loops
    <3> QED
      BY <1>1, <3>2, <3>3
  <2>3. l.j < l.idx
    BY <1>1, <1>4 DEF Stopped
  <2>4. \A i \in 0 .. r.j - 1 : i \in 0 .. l.j - 1 \/ i = l.j
    BY <2>2, <1>1
  <2> HIDE DEF r
  <2>5. \A i \in 0 .. r.j - 1 : r.moves[o + i] \in S
    BY <2>2, <2>4, <1>4 DEF SiftInv
  <2>6. SiftInv(r, list, M, S)
    BY <1>1, <2>2, <2>3, <2>5 DEF SiftInv
  <2>7. SiftTidy(l, list, S) => SiftTidy(r, list, S)
    BY <2>2 DEF SiftTidy
  <2> QED
    BY <2>6, <2>7 DEF r
<1>5. CASE ~Stopped(l) /\ m[o + l.j] \notin S
  <2> DEFINE p == o + l.j
  <2> DEFINE last == o + l.idx - 1
  <2>1. r = [l EXCEPT !.moves = [[m EXCEPT ![p] = m[last]] EXCEPT ![last] = NoSquare],
                      !.idx = @ - 1]
    BY <1>1, <1>5 DEF sifted, Stopped
  <2>2. l.j < l.idx /\ m[p] # NoSquare
    BY <1>1, <1>5 DEF Stopped
  <2>3. p \in 0 .. M - 1 /\ last \in 0 .. M - 1
    BY SMTT(30), <1>1, <2>2
  <2>4. NoSquare \in Place /\ m[last] \in Place
    BY <1>1, <2>3 DEF Place
  <2> DEFINE q == [[m EXCEPT ![p] = m[last]] EXCEPT ![last] = NoSquare]
  <2>5. /\ q \in [0 .. M - 1 -> Place]
        /\ \A k \in 0 .. M - 1 :
              q[k] = IF k = last THEN NoSquare ELSE IF k = p THEN m[last] ELSE m[k]
    BY <1>1, <2>3, <2>4
  <2> HIDE DEF q
  <2>6. /\ r.j = l.j /\ r.idx = l.idx - 1 /\ r.moves = q /\ r.off = o
        /\ r.overrun = list.overrun /\ r \in Loops(M)
    <3>1. l.idx - 1 \in Int
      BY <1>6
    <3>2. r = [l EXCEPT !.moves = q, !.idx = @ - 1]
      BY <2>1 DEF q
    <3>3. r \in Loops(M)
      BY <1>1, <2>5, <3>1, <3>2 DEF Loops
    <3>4. /\ r.j = l.j /\ r.idx = l.idx - 1 /\ r.moves = q /\ r.off = l.off
          /\ r.overrun = l.overrun
      BY <1>1, <3>2 DEF Loops
    <3> QED
      BY <1>1, <3>3, <3>4
  <2> HIDE DEF r
  <2>7. /\ \A i \in 0 .. N - 1 :
              q[o + i] = IF i = l.idx - 1 THEN NoSquare
                         ELSE IF i = l.j THEN m[o + (l.idx - 1)] ELSE m[o + i]
    <3>1. last = o + (l.idx - 1)
      BY <1>6
    <3>2. \A i \in 0 .. N - 1 : (o + i = last <=> i = l.idx - 1) /\ (o + i = p <=> i = l.j)
      <4> DEFINE a == l.idx
      <4> DEFINE c == l.j
      <4>1. a \in Int /\ c \in Int /\ o \in Int
        BY <1>6
      <4> HIDE DEF a, c, o
      <4>2. \A i \in Int : (o + i = o + a - 1 <=> i = a - 1) /\ (o + i = o + c <=> i = c)
        BY <4>1
      <4> QED
        BY <4>2 DEF a, c
    <3> QED
      BY <3>1, <3>2, <1>2, <2>5
  <2>8. l.j \in 0 .. N - 1 /\ l.idx - 1 \in 0 .. N - 1
    BY <1>1, <2>2
  <2>9. \A k \in 0 .. M - 1 : k - o \notin 0 .. N - 1 => q[k] = list.moves[k]
    <3>1. \A k \in 0 .. M - 1 : k - o \notin 0 .. N - 1 => k # p /\ k # last
      BY SMTT(30), <1>1, <2>8
    <3> QED
      BY <3>1, <2>5 DEF SiftInv
  <2>10. \A i \in 0 .. N - 1 : q[o + i] # NoSquare =>
            /\ list.moves[o + i] # NoSquare
            /\ \E e \in 0 .. N - 1 : q[o + i] = list.moves[o + e]
    BY <2>2, <2>7, <2>8 DEF SiftInv
  <2>11. \A i \in 0 .. l.j - 1 : q[o + i] \in S
    <3>1. \A i \in 0 .. l.j - 1 : i \in 0 .. N - 1 /\ i # l.j /\ i # l.idx - 1
      BY <1>1, <2>2
    <3> QED
      BY <3>1, <2>7 DEF SiftInv
  <2>12. SiftInv(r, list, M, S)
    BY <1>1, <2>2, <2>6, <2>9, <2>10, <2>11 DEF SiftInv
  <2>13. ASSUME SiftTidy(l, list, S) PROVE SiftTidy(r, list, S)
    <3>1. \A i \in 0 .. r.idx - 1 : i \in 0 .. N - 1 /\ i \in 0 .. l.idx - 1 /\ i # l.idx - 1
      BY <1>1, <2>6
    <3>2. \A i \in 0 .. r.idx - 1 : q[o + i] = IF i = l.j THEN m[o + (l.idx - 1)] ELSE m[o + i]
      BY <3>1, <2>7
    <3>3. l.idx - 1 \in 0 .. l.idx - 1
      BY <1>1, <2>2
    <3>4. \A i \in 0 .. r.idx - 1 : q[o + i] # NoSquare
      BY <3>1, <3>2, <3>3, <2>13 DEF SiftTidy
    <3>5. \A i \in r.idx .. N - 1 : q[o + i] = NoSquare
      <4>1. \A i \in r.idx .. N - 1 : /\ i \in 0 .. N - 1
                                      /\ i = l.idx - 1 \/ (i \in l.idx .. N - 1 /\ i # l.j)
        <5>1. l.j < l.idx /\ r.idx = l.idx - 1
          BY <2>2, <2>6
        <5> QED
          BY <1>6, <5>1
      <4> QED
        BY <4>1, <2>7, <2>13 DEF SiftTidy
    <3>6. ASSUME NEW e \in 0 .. N - 1, list.moves[o + e] \in S
          PROVE  \E i \in 0 .. r.idx - 1 : q[o + i] = list.moves[o + e]
      <4>1. PICK i \in 0 .. l.idx - 1 : m[o + i] = list.moves[o + e]
        BY <3>6, <2>13 DEF SiftTidy
      <4>2. i # l.j
        BY <4>1, <3>6, <1>5
      <4>3. CASE i = l.idx - 1
        <5>1. l.j \in 0 .. r.idx - 1
          BY <4>2, <4>3, <1>1, <2>2, <2>6
        <5> QED
          BY <5>1, <3>2, <4>1, <4>3
      <4>4. CASE i # l.idx - 1
        <5>1. i \in 0 .. r.idx - 1
          BY <4>4, <1>1, <2>6
        <5> QED
          BY <5>1, <3>2, <4>1, <4>2
      <4> QED
        BY <4>3, <4>4
    <3>7. ASSUME NEW i \in 0 .. r.idx - 1, NEW e \in 0 .. r.idx - 1, i # e
          PROVE  q[o + i] # q[o + e]
      <4>1. \A a, c \in 0 .. l.idx - 1 : a # c => m[o + a] # m[o + c]
        BY <2>13 DEF SiftTidy
      <4> QED
        BY <4>1, <3>1, <3>2, <3>3, <3>7
    <3> QED
      BY <2>6, <3>4, <3>5, <3>6, <3>7 DEF SiftTidy
  <2> QED
    BY <2>12, <2>13 DEF r
<1> QED
  BY <1>1, <1>3, <1>4, <1>5

\* And so does the loop, which passes the whole list.
LEMMA Sifted ==
  ASSUME NEW M \in Nat, NEW S, NEW list \in Loops(M), list.idx \in Nat, list.j = 0,
         list.off + list.idx <= M
  PROVE  /\ SiftInv(sift(list, S), list, M, S)
         /\ Stopped(sift(list, S))
         /\ NoGaps(list) => /\ SiftTidy(sift(list, S), list, S)
                            /\ sift(list, S).j = sift(list, S).idx
<1> DEFINE V == {l \in Loops(M) : /\ SiftInv(l, list, M, S)
                                  /\ NoGaps(list) => SiftTidy(l, list, S)}
<1>1. list \in V
  <2>1. SiftInv(list, list, M, S)
    BY DEF SiftInv, Loops
  <2>2. ASSUME NoGaps(list) PROVE SiftTidy(list, list, S)
    <3>1. \A i \in list.idx .. list.idx - 1 : FALSE
      OBVIOUS
    <3> QED
      BY <2>2, <3>1 DEF NoGaps, SiftTidy
  <2> QED
    BY <2>1, <2>2
<1>2. ASSUME NEW l \in V PROVE sifted(l, S) \in V
  <2>1. SiftInv(l, list, M, S) /\ (NoGaps(list) => SiftTidy(l, list, S))
    OBVIOUS
  <2>2. /\ SiftInv(sifted(l, S), list, M, S)
        /\ SiftTidy(l, list, S) => SiftTidy(sifted(l, S), list, S)
    BY <2>1, SiftStep
  <2>3. sifted(l, S) \in Loops(M)
    BY <2>2 DEF SiftInv
  <2> QED
    BY <2>1, <2>2, <2>3
<1>3. V \in SUBSET Loops(M)
  OBVIOUS
<1> HIDE DEF V
<1>4. sift(list, S) \in V /\ Stopped(sift(list, S))
  BY <1>1, <1>2, <1>3, SiftRuns
<1> DEFINE r == sift(list, S)
<1> HIDE DEF r
<1>5. r \in V /\ Stopped(r)
  BY <1>4 DEF r
<1>6. SiftInv(r, list, M, S) /\ (NoGaps(list) => SiftTidy(r, list, S))
  BY <1>5 DEF V
<1>7. ASSUME NoGaps(list) PROVE r.j = r.idx
  <2>1. /\ r.j \in Int /\ r.idx \in Int /\ 0 <= r.j /\ r.j <= r.idx /\ r.off = list.off
    BY <1>6 DEF SiftInv, Loops
  <2>2. CASE r.j < r.idx
    <3>1. r.j \in 0 .. r.idx - 1
      BY <2>1, <2>2
    <3>2. r.moves[list.off + r.j] # NoSquare
      BY <3>1, <1>6, <1>7 DEF SiftTidy
    <3> QED
      BY <3>2, <2>1, <2>2, <1>5 DEF Stopped
  <2> QED
    BY <2>1, <2>2
<1> QED
  BY <1>5, <1>6, <1>7 DEF r

\* What genMoves works on and leaves.
Gens(b) ==
    [moves : [Slots(b) -> Place], movesIdx : [ID -> Nat], checkedId : ID \cup {EMPTY},
     line : SUBSET Square, attacked : SUBSET Square, defended : SUBSET Square,
     overrun : BOOLEAN]

\* Two states of the move array in one and the same call of genMoves.
SameCall(g, h) ==
    /\ h.checkedId = g.checkedId /\ h.line = g.line
    /\ h.attacked = g.attacked /\ h.defended = g.defended

\* A list as the loops take it up.
LEMMA ListLoops ==
  ASSUME NEW b, BoardOK(b), NEW g \in Gens(b), Holding(b, g), NEW id \in ID
  PROVE  /\ b.size \in Nat
         /\ listOf(b, g, id) \in Loops(b.size)
         /\ listOf(b, g, id).idx = g.movesIdx[id] /\ g.movesIdx[id] \in Nat
         /\ g.movesIdx[id] <= b.piece[id].reserved
         /\ listOf(b, g, id).j = 0
         /\ listOf(b, g, id).off = b.moveOffset[id]
         /\ listOf(b, g, id).moves = g.moves
         /\ listOf(b, g, id).overrun = g.overrun
         /\ b.moveOffset[id] + g.movesIdx[id] <= b.size
<1>1. /\ b.moveOffset[id] \in Nat /\ b.size \in Nat /\ b.piece[id].reserved \in Nat
  BY FieldsOf
<1>2. b.moveOffset[id] + b.piece[id].reserved <= b.size
  BY BlocksApart
<1>3. g.moves \in [Slots(b) -> Place] /\ g.movesIdx[id] \in Nat /\ g.overrun \in BOOLEAN
  BY DEF Gens
<1>4. g.movesIdx[id] <= b.piece[id].reserved
  BY DEF Holding
<1>5. b.moveOffset[id] + g.movesIdx[id] <= b.size
  BY <1>1, <1>2, <1>3, <1>4
<1>6. listOf(b, g, id) = [moves |-> g.moves, off |-> b.moveOffset[id],
                          idx |-> g.movesIdx[id], j |-> 0, overrun |-> g.overrun]
  BY DEF listOf
<1>7. listOf(b, g, id) \in Loops(b.size)
  BY <1>1, <1>3, <1>6 DEF Loops, Slots
<1> QED
  BY <1>1, <1>3, <1>4, <1>5, <1>6, <1>7

\* What sifting one list does to the array.
Sifts(b, g, id, A, h) ==
    /\ h \in Gens(b) /\ Holding(b, h)
    /\ \A e \in ID \ {id} :
          /\ h.movesIdx[e] = g.movesIdx[e]
          /\ \A i \in 0 .. b.piece[e].reserved - 1 :
                h.moves[b.moveOffset[e] + i] = g.moves[b.moveOffset[e] + i]
    /\ \A i \in 0 .. b.piece[id].reserved - 1 :
          LET t == h.moves[b.moveOffset[id] + i]
          IN  t # NoSquare =>
                /\ g.moves[b.moveOffset[id] + i] # NoSquare
                /\ \E e \in 0 .. b.piece[id].reserved - 1 : t = g.moves[b.moveOffset[id] + e]
    /\ \A i \in 0 .. h.movesIdx[id] - 1 : h.moves[b.moveOffset[id] + i] \in A
    /\ \A S \in SUBSET Square : TidyAt(b, g, id, S) => TidyAt(b, h, id, S \cap A)

\* Seen from the board: one list loses moves, the others stay.
LEMMA SiftedIn ==
  ASSUME NEW b, BoardOK(b), NEW g \in Gens(b), Holding(b, g), NEW id \in ID, NEW A, NEW h,
         NEW l, l = sift(listOf(b, g, id), A), h \in Gens(b), h.moves = l.moves,
         h.movesIdx = [g.movesIdx EXCEPT ![id] = l.j]
  PROVE  Sifts(b, g, id, A, h)
<1> DEFINE list == listOf(b, g, id)
<1> DEFINE off == b.moveOffset[id]
<1> DEFINE N == g.movesIdx[id]
<1> DEFINE res == b.piece[id].reserved
<1>1. /\ b.size \in Nat /\ list \in Loops(b.size) /\ list.idx = N /\ N \in Nat /\ N <= res
      /\ list.j = 0 /\ list.off = off /\ list.moves = g.moves /\ off + N <= b.size
      /\ off \in Nat /\ res \in Nat
  BY ListLoops, FieldsOf
<1>2. /\ SiftInv(l, list, b.size, A) /\ Stopped(l)
      /\ NoGaps(list) => SiftTidy(l, list, A) /\ l.j = l.idx
  <2> DEFINE r == sift(list, A)
  <2> HIDE DEF list
  <2>1. /\ SiftInv(r, list, b.size, A) /\ Stopped(r)
        /\ NoGaps(list) => SiftTidy(r, list, A) /\ r.j = r.idx
    BY <1>1, Sifted
  <2>2. l = r
    BY DEF list
  <2> QED
    BY <2>1, <2>2
<1>3. h \in Gens(b) /\ h.moves = l.moves /\ h.movesIdx = [g.movesIdx EXCEPT ![id] = l.j]
  OBVIOUS
<1> HIDE DEF list, off, N, res
<1>4. l.j \in Int /\ l.idx \in Int /\ 0 <= l.j /\ l.j <= l.idx /\ l.idx <= N
  BY <1>1, <1>2 DEF SiftInv, Loops
<1>5. /\ h.movesIdx[id] = l.j
      /\ \A e \in ID \ {id} : h.movesIdx[e] = g.movesIdx[e]
      /\ g.movesIdx \in [ID -> Nat]
  BY <1>3 DEF Gens
<1>6. \A k \in Slots(b) : k - off \notin 0 .. N - 1 => h.moves[k] = g.moves[k]
  BY <1>1, <1>2, <1>3 DEF SiftInv, Slots
<1>7. \A i \in 0 .. N - 1 :
         h.moves[off + i] # NoSquare =>
            /\ g.moves[off + i] # NoSquare
            /\ \E e \in 0 .. N - 1 : h.moves[off + i] = g.moves[off + e]
  <2>1. list.moves = g.moves /\ list.off = off /\ list.idx = N /\ l.moves = h.moves
    BY <1>1, <1>3
  <2>2. SiftInv(l, list, b.size, A)
    BY <1>2
  <2> QED
    BY <2>1, <2>2 DEF SiftInv
<1>8. \A i \in 0 .. l.j - 1 : h.moves[off + i] \in A
  BY <1>1, <1>2, <1>3 DEF SiftInv
<1>9. ASSUME NEW e \in ID \ {id}, NEW i \in 0 .. b.piece[e].reserved - 1
      PROVE  h.moves[b.moveOffset[e] + i] = g.moves[b.moveOffset[e] + i]
  <2> DEFINE k == b.moveOffset[e] + i
  <2>1. k \in Slots(b) /\ k \in Int /\ k - b.moveOffset[e] = i
    BY InSlots, FieldsOf DEF Slots
  <2> HIDE DEF k
  <2>2. ASSUME k - off \in 0 .. N - 1 PROVE FALSE
    <3>1. k - b.moveOffset[id] \in 0 .. b.piece[id].reserved - 1
      BY <2>1, <2>2, <1>1 DEF off, res
    <3>2. k - b.moveOffset[e] \in 0 .. b.piece[e].reserved - 1
      BY <2>1
    <3> QED
      BY <2>1, <3>1, <3>2, OneOwner
  <2>3. h.moves[k] = g.moves[k]
    BY <2>1, <2>2, <1>6
  <2> QED
    BY <2>3 DEF k
<1>10. \A i \in 0 .. res - 1 : /\ off + i \in Slots(b)
                               /\ i \notin 0 .. N - 1 => h.moves[off + i] = g.moves[off + i]
  <2>1. \A i \in 0 .. res - 1 : off + i \in Slots(b)
    BY InSlots DEF off, res
  <2>2. \A i \in 0 .. res - 1 : (off + i) - off = i
    BY <1>1
  <2> QED
    BY <2>1, <2>2, <1>6
<1>11. 0 .. N - 1 \subseteq 0 .. res - 1
  BY <1>1
<1>12. \A i \in 0 .. res - 1 :
          h.moves[off + i] # NoSquare =>
            /\ g.moves[off + i] # NoSquare
            /\ \E e \in 0 .. res - 1 : h.moves[off + i] = g.moves[off + e]
  <2> TAKE i \in 0 .. res - 1
  <2>1. CASE i \in 0 .. N - 1
    BY <2>1, <1>7, <1>11
  <2>2. CASE i \notin 0 .. N - 1
    BY <2>2, <1>10
  <2> QED
    BY <2>1, <2>2
<1>13. Holding(b, h)
  <2>1. h.moves \in [Slots(b) -> Place] /\ h.movesIdx \in [ID -> Nat]
    BY <1>3 DEF Gens
  <2>2. \A e \in ID : h.movesIdx[e] <= b.piece[e].reserved
    <3>1. l.j <= res
      BY <1>1, <1>4
    <3> QED
      BY <3>1, <1>5 DEF Holding, res
  <2>3. ASSUME NEW k \in Slots(b), h.moves[k] # NoSquare PROVE Owned(b, k)
    <3>1. CASE k - off \in 0 .. N - 1
      <4>1. k - b.moveOffset[id] \in 0 .. b.piece[id].reserved - 1
        BY <3>1, <1>11 DEF off, res
      <4> QED
        BY <4>1 DEF Owned
    <3>2. CASE k - off \notin 0 .. N - 1
      BY <3>2, <2>3, <1>6 DEF Holding
    <3> QED
      BY <3>1, <3>2
  <2> QED
    BY <2>1, <2>2, <2>3 DEF Holding
<1>14. ASSUME NEW S \in SUBSET Square, TidyAt(b, g, id, S)
       PROVE  TidyAt(b, h, id, S \cap A)
  <2>1. Tidy(g.moves, off, N, res, S)
    BY <1>14 DEF TidyAt, off, N, res
  <2>2. NoGaps(list)
    <3>1. list.moves = g.moves /\ list.off = off /\ list.idx = N
      BY <1>1
    <3> QED
      BY <2>1, <3>1, OffBoard DEF NoGaps, Tidy
  <2>3. SiftTidy(l, list, A) /\ l.j = l.idx
    BY <2>2, <1>2
  <2>4. \A i \in 0 .. l.j - 1 : i \in 0 .. N - 1 /\ h.moves[off + i] # NoSquare
    BY <1>1, <1>3, <1>4, <2>3 DEF SiftTidy
  <2>5. \A i \in 0 .. l.j - 1 : h.moves[off + i] \in S \cap A
    BY <2>1, <2>4, <1>7, <1>8 DEF Tidy
  <2>6. \A i \in l.j .. res - 1 : h.moves[off + i] = NoSquare
    <3> TAKE i \in l.j .. res - 1
    <3>1. i \in 0 .. res - 1 /\ (i \in l.j .. N - 1 \/ (i \notin 0 .. N - 1 /\ i \in N .. res - 1))
      BY <1>1, <1>4
    <3>2. CASE i \in l.j .. N - 1
      BY <3>2, <2>3, <1>1, <1>3 DEF SiftTidy
    <3>3. CASE i \notin 0 .. N - 1 /\ i \in N .. res - 1
      BY <3>1, <3>3, <2>1, <1>10 DEF Tidy
    <3> QED
      BY <3>1, <3>2, <3>3
  <2>7. ASSUME NEW t \in S \cap A
        PROVE  \E i \in 0 .. l.j - 1 : h.moves[off + i] = t
    <3>1. PICK e \in 0 .. N - 1 : g.moves[off + e] = t
      BY <2>1 DEF Tidy
    <3>2. list.moves[list.off + e] = t /\ e \in 0 .. list.idx - 1
      BY <3>1, <1>1
    <3>3. \E i \in 0 .. l.idx - 1 : l.moves[list.off + i] = t
      BY <3>2, <2>3 DEF SiftTidy
    <3> QED
      BY <3>3, <2>3, <1>1, <1>3
  <2>8. \A i, e \in 0 .. l.j - 1 : i # e => h.moves[off + i] # h.moves[off + e]
    BY <2>3, <1>1, <1>3 DEF SiftTidy
  <2>9. l.j \in 0 .. res
    BY <1>1, <1>4
  <2>10. Tidy(h.moves, off, l.j, res, S \cap A)
    BY <2>5, <2>6, <2>7, <2>8, <2>9 DEF Tidy
  <2> QED
    BY <2>10, <1>5 DEF TidyAt, off, res
<1> QED
  BY <1>3, <1>5, <1>8, <1>9, <1>12, <1>13, <1>14 DEF off, res, Sifts

\* No slot that was empty holds a move.
Emptier(b, g, h) == \A k \in Slots(b) : g.moves[k] = NoSquare => h.moves[k] = NoSquare

\* Sifting writes no move to an empty slot.
LEMMA SiftEmpties ==
  ASSUME NEW b, BoardOK(b), NEW g, NEW id \in ID, NEW A, NEW h, Sifts(b, g, id, A, h)
  PROVE  Emptier(b, g, h)
<1> SUFFICES ASSUME NEW k \in Slots(b), g.moves[k] = NoSquare, h.moves[k] # NoSquare
             PROVE  FALSE
  BY DEF Emptier
<1>1. PICK e \in ID : k - b.moveOffset[e] \in 0 .. b.piece[e].reserved - 1
  BY DEF Sifts, Holding, Owned
<1> DEFINE i == k - b.moveOffset[e]
<1>2. i \in 0 .. b.piece[e].reserved - 1 /\ k = b.moveOffset[e] + i
  BY <1>1, FieldsOf DEF Slots
<1> HIDE DEF i
<1>3. CASE e = id
  <2>1. \A n \in 0 .. b.piece[id].reserved - 1 :
          h.moves[b.moveOffset[id] + n] # NoSquare => g.moves[b.moveOffset[id] + n] # NoSquare
    BY DEF Sifts
  <2> QED
    BY <1>2, <1>3, <2>1
<1>4. CASE e # id
  BY <1>2, <1>4 DEF Sifts
<1> QED
  BY <1>3, <1>4

\* The types of what the loop leaves.
LEMMA SiftedTypes ==
  ASSUME NEW b, BoardOK(b), NEW g \in Gens(b), Holding(b, g), NEW id \in ID, NEW A,
         NEW l, l = sift(listOf(b, g, id), A)
  PROVE  /\ l.moves \in [Slots(b) -> Place]
         /\ [g.movesIdx EXCEPT ![id] = l.j] \in [ID -> Nat]
<1> DEFINE list == listOf(b, g, id)
<1>1. /\ b.size \in Nat /\ list \in Loops(b.size) /\ list.idx \in Nat
      /\ list.j = 0 /\ list.off + list.idx <= b.size
  BY ListLoops
<1> HIDE DEF list
<1>2. SiftInv(sift(list, A), list, b.size, A)
  BY <1>1, Sifted
<1>3. SiftInv(l, list, b.size, A)
  BY <1>2 DEF list
<1>4. l \in Loops(b.size) /\ 0 <= l.j
  BY <1>3 DEF SiftInv
<1>5. l.j \in Nat
  BY <1>4 DEF Loops
<1> QED
  BY <1>4, <1>5 DEF Loops, Slots, Gens

\* What filterPinned does with one list.
Restrains(b, color, g, id, h) ==
    /\ h \in Gens(b) /\ Holding(b, h) /\ SameCall(g, h) /\ h.overrun = g.overrun
    /\ Emptier(b, g, h)
    /\ \A e \in ID \ {id} : \A S \in SUBSET Square :
          TidyAt(b, g, e, S) => TidyAt(b, h, e, S)
    /\ \A S \in SUBSET Square :
          TidyAt(b, g, id, S) =>
            TidyAt(b, h, id, IF isPinned(b, color, id)
                             THEN S \cap allowed(b, color, id) ELSE S)

\* filterPinned, for one piece.
LEMMA RestrainedLists ==
  ASSUME NEW b, BoardOK(b), NEW color, NEW g \in Gens(b), Holding(b, g), NEW id \in ID,
         NEW h, h = restrained(b, color, g, id)
  PROVE  Restrains(b, color, g, id, h)
<1>1. CASE ~isPinned(b, color, id)
  <2>1. h = g
    BY <1>1 DEF restrained
  <2> QED
    BY <2>1, <1>1 DEF SameCall, Restrains, Emptier
<1>2. CASE isPinned(b, color, id)
  <2> DEFINE A == allowed(b, color, id)
  <2> DEFINE l == sift(listOf(b, g, id), A)
  <2>1. h = [g EXCEPT !.moves = l.moves, !.movesIdx[id] = l.j]
    BY <1>2 DEF restrained
  <2>2. /\ l.moves \in [Slots(b) -> Place]
        /\ [g.movesIdx EXCEPT ![id] = l.j] \in [ID -> Nat]
    BY SiftedTypes
  <2>3. h = [g EXCEPT !.moves = l.moves, !.movesIdx = [g.movesIdx EXCEPT ![id] = l.j]]
    BY <2>1
  <2>4. /\ h \in Gens(b) /\ SameCall(g, h) /\ h.overrun = g.overrun
        /\ h.moves = l.moves /\ h.movesIdx = [g.movesIdx EXCEPT ![id] = l.j]
    BY <2>2, <2>3 DEF Gens, SameCall
  <2>5. l = sift(listOf(b, g, id), A)
    OBVIOUS
  <2> HIDE DEF l, A
  <2>6. /\ Holding(b, h)
        /\ \A e \in ID \ {id} :
               /\ h.movesIdx[e] = g.movesIdx[e]
               /\ \A i \in 0 .. b.piece[e].reserved - 1 :
                     h.moves[b.moveOffset[e] + i] = g.moves[b.moveOffset[e] + i]
        /\ \A S \in SUBSET Square : TidyAt(b, g, id, S) => TidyAt(b, h, id, S \cap A)
    <3>1. Sifts(b, g, id, A, h)
      BY <2>4, <2>5, SiftedIn
    <3> QED
      BY <3>1 DEF Sifts
  <2>8. Emptier(b, g, h)
    <3>1. Sifts(b, g, id, A, h)
      BY <2>4, <2>5, SiftedIn
    <3> QED
      BY <3>1, SiftEmpties
  <2>7. ASSUME NEW e \in ID \ {id}, NEW S \in SUBSET Square, TidyAt(b, g, e, S)
        PROVE  TidyAt(b, h, e, S)
    <3>1. b.piece[e].reserved \in Nat
      BY FieldsOf
    <3>2. \A i \in 0 .. g.movesIdx[e] - 1 : i \in 0 .. b.piece[e].reserved - 1
      BY <3>1, <2>7 DEF TidyAt, Tidy
    <3>3. \A i \in g.movesIdx[e] .. b.piece[e].reserved - 1 : i \in 0 .. b.piece[e].reserved - 1
      BY <3>1, <2>7 DEF TidyAt, Tidy
    <3>4. /\ \A i \in 0 .. g.movesIdx[e] - 1 :
               h.moves[b.moveOffset[e] + i] = g.moves[b.moveOffset[e] + i]
          /\ \A i \in g.movesIdx[e] .. b.piece[e].reserved - 1 :
               h.moves[b.moveOffset[e] + i] = g.moves[b.moveOffset[e] + i]
          /\ h.movesIdx[e] = g.movesIdx[e]
      BY <3>2, <3>3, <2>6
    <3> QED
      BY <3>4, <2>7 DEF TidyAt, Tidy
  <2> QED
    BY <1>2, <2>4, <2>6, <2>7, <2>8 DEF A, Restrains
<1> QED
  BY <1>1, <1>2

\* The moves that filterPinned leaves a piece.
unpinned(b, color) ==
    [id \in ID |-> IF isPinned(b, color, id) THEN own(b)[id] \cap allowed(b, color, id)
                   ELSE own(b)[id]]

\* filterPinned's way through the pieces.
PinRun(b, color, g, o) ==
    /\ filterPinned(b, color, g) = o[32]
    /\ o[0] = g
    /\ \A n \in 0 .. 31 : o[n + 1] = restrained(b, color, o[n], n + 1)
    /\ \A n \in 0 .. 32 : o[n] \in Gens(b) /\ Holding(b, o[n])

\* filterPinned is such a run.
LEMMA PinRuns ==
  ASSUME NEW b, BoardOK(b), NEW color, NEW g \in Gens(b), Holding(b, g)
  PROVE  \E o : PinRun(b, color, g, o)
<1> DEFINE V == {r \in Gens(b) : Holding(b, r)}
<1> DEFINE next == [n \in 1 .. 32 |-> [r \in V |-> restrained(b, color, r, n)]]
<1> DEFINE After(f) == f = [n \in 0 .. 32 |->
                              IF n = 0 THEN g ELSE restrained(b, color, f[n - 1], n)]
<1>1. g \in V
  OBVIOUS
<1>2. \A n \in 1 .. 32, r \in V : restrained(b, color, r, n) \in V
  <2> SUFFICES ASSUME NEW n \in ID, NEW r \in V PROVE restrained(b, color, r, n) \in V
    BY DEF ID
  <2>1. Restrains(b, color, r, n, restrained(b, color, r, n))
    BY RestrainedLists
  <2> QED
    BY <2>1 DEF Restrains
<1>3. next \in [1 .. 32 -> [V -> V]]
  BY <1>2
<1>4. \A n \in 1 .. 32, r \in V : next[n][r] = restrained(b, color, r, n)
  OBVIOUS
<1>5. filterPinned(b, color, g) = (CHOOSE f : After(f))[32]
  BY DEF filterPinned
<1> HIDE DEF next, V
<1>6. \E f : Iterates(f, 32, V, g, next)
  BY <1>1, <1>3, Iteration
<1>7. PICK f : /\ f \in [0 .. 32 -> V] /\ f[0] = g
               /\ \A n \in 1 .. 32 : f[n] = next[n][f[n - 1]]
  BY <1>6 DEF Iterates
<1>8. After(f)
  <2>1. \A n \in 0 .. 32 : n # 0 => n \in 1 .. 32 /\ f[n - 1] \in V
    BY <1>7
  <2>2. \A n \in 0 .. 32 : f[n] = IF n = 0 THEN g ELSE restrained(b, color, f[n - 1], n)
    BY <2>1, <1>4, <1>7
  <2> QED
    BY <2>2, <1>7
<1> DEFINE o == CHOOSE q : After(q)
<1>9. After(o)
  BY <1>8
<1> HIDE DEF o
<1>10. /\ \A n \in 0 .. 32 : o[n] = IF n = 0 THEN g ELSE restrained(b, color, o[n - 1], n)
       /\ \A n \in 0 .. 32 : f[n] = IF n = 0 THEN g ELSE restrained(b, color, f[n - 1], n)
  BY <1>8, <1>9
<1>11. /\ o[0] = g /\ f[0] = g
       /\ \A n \in 0 .. 31 : o[n + 1] = restrained(b, color, o[n], n + 1)
       /\ \A n \in 0 .. 31 : f[n + 1] = restrained(b, color, f[n], n + 1)
  <2>1. \A n \in 0 .. 31 : n + 1 \in 0 .. 32 /\ n + 1 # 0 /\ (n + 1) - 1 = n
    OBVIOUS
  <2> QED
    BY <1>10, <2>1
<1>12. \A n \in 0 .. 32 : o[n] = f[n]
  <2>1. \A n \in 0 .. 32 - 1 : n \in 0 .. 31
    OBVIOUS
  <2>2. \A n \in 0 .. 32 - 1 : o[n] = f[n] => o[n + 1] = f[n + 1]
    BY <1>11, <2>1
  <2> QED
    BY <1>11, <2>2, SameRun
<1>13. filterPinned(b, color, g) = o[32]
  BY <1>5 DEF o
<1>14. \A n \in 0 .. 32 : f[n] \in V
  BY <1>7
<1>15. \A n \in 0 .. 32 : o[n] \in Gens(b) /\ Holding(b, o[n])
  BY <1>12, <1>14 DEF V
<1> QED
  BY <1>11, <1>13, <1>15 DEF PinRun

\* After filterPinned every list is tidy.
LEMMA PinnedLists ==
  ASSUME NEW b, BoardOK(b), NEW color, generated(b, color) \in Gens(b),
         NEW h, h = filterPinned(b, color, generated(b, color))
  PROVE  /\ h \in Gens(b) /\ Lists(b, h, unpinned(b, color))
         /\ SameCall(generated(b, color), h) /\ h.overrun = FALSE
         /\ Emptier(b, generated(b, color), h)
<1> DEFINE g == generated(b, color)
<1>1. Lists(b, g, own(b)) /\ g.overrun = FALSE /\ g \in Gens(b) /\ Holding(b, g)
  BY GeneratedLists DEF Lists
<1> HIDE DEF g
<1>2. PICK o : PinRun(b, color, g, o)
  BY <1>1, PinRuns
<1>5. filterPinned(b, color, g) = o[32]
  BY <1>2 DEF PinRun
<1>10. o[0] = g /\ \A n \in Nat : n + 1 <= 32 => o[n + 1] = restrained(b, color, o[n], n + 1)
  <2>1. \A n \in Nat : n + 1 <= 32 => n \in 0 .. 31
    OBVIOUS
  <2> QED
    BY <1>2, <2>1 DEF PinRun
<1> DEFINE Cut(n, id) == IF id <= n THEN unpinned(b, color)[id] ELSE own(b)[id]
<1> DEFINE Kept(r, n) == \A id \in ID : TidyAt(b, r, id, Cut(n, id))
<1> DEFINE T == {n \in Nat : n <= 32 => /\ o[n] \in Gens(b) /\ Holding(b, o[n])
                                        /\ SameCall(g, o[n]) /\ o[n].overrun = FALSE
                                        /\ Kept(o[n], n) /\ Emptier(b, g, o[n])}
<1>11. 0 \in T
  <2>1. \A id \in ID : Cut(0, id) = own(b)[id]
    BY DEF ID
  <2>2. Kept(o[0], 0)
    BY <2>1, <1>1, <1>10 DEF Lists
  <2> QED
    BY <2>2, <1>1, <1>10 DEF SameCall, Emptier
<1> HIDE DEF Kept, T, Cut
<1>12. ASSUME NEW n \in Nat, n \in T PROVE n + 1 \in T
  <2> SUFFICES ASSUME n + 1 <= 32
               PROVE  /\ o[n + 1] \in Gens(b) /\ Holding(b, o[n + 1])
                      /\ SameCall(g, o[n + 1]) /\ o[n + 1].overrun = FALSE
                      /\ Kept(o[n + 1], n + 1) /\ Emptier(b, g, o[n + 1])
    <3>1. n + 1 \in Nat
      OBVIOUS
    <3> QED
      BY <3>1 DEF T
  <2> DEFINE k == n + 1
  <2> DEFINE r == o[n]
  <2> DEFINE q == o[n + 1]
  <2>1. /\ r \in Gens(b) /\ Holding(b, r) /\ SameCall(g, r) /\ r.overrun = FALSE
        /\ Kept(r, n) /\ Emptier(b, g, r)
    BY <1>12 DEF T
  <2>2. q = restrained(b, color, r, k) /\ k \in ID
    BY <1>10 DEF ID
  <2>6. \A id \in ID : id <= n \/ id = k \/ ~(id <= k)
    BY DEF ID
  <2>7. ~(k <= n) /\ k <= k /\ \A id \in ID : id <= n => id <= k
    BY DEF ID
  <2> HIDE DEF q, r, k
  <2>3. /\ q \in Gens(b) /\ Holding(b, q) /\ SameCall(r, q) /\ q.overrun = r.overrun
        /\ Emptier(b, r, q)
        /\ \A e \in ID \ {k} : \A S \in SUBSET Square :
               TidyAt(b, r, e, S) => TidyAt(b, q, e, S)
        /\ \A S \in SUBSET Square :
               TidyAt(b, r, k, S) =>
                 TidyAt(b, q, k, IF isPinned(b, color, k)
                                  THEN S \cap allowed(b, color, k) ELSE S)
    <3>1. Restrains(b, color, r, k, q)
      BY <2>1, <2>2, RestrainedLists
    <3> QED
      BY <3>1 DEF Restrains
  <2>4. \A id \in ID : own(b)[id] \in SUBSET Square /\ unpinned(b, color)[id] \in SUBSET Square
    BY OwnSquares DEF unpinned
  <2>5. Kept(q, k)
    <3> SUFFICES ASSUME NEW id \in ID PROVE TidyAt(b, q, id, Cut(k, id))
      BY DEF Kept
    <3>1. TidyAt(b, r, id, Cut(n, id)) /\ Cut(n, id) \in SUBSET Square
      BY <2>1, <2>4 DEF Kept, Cut
    <3>2. CASE id = k
      <4>1. Cut(n, k) = own(b)[k] /\ Cut(k, k) = unpinned(b, color)[k]
        BY <2>7 DEF Cut
      <4>2. unpinned(b, color)[k] = IF isPinned(b, color, k)
               THEN own(b)[k] \cap allowed(b, color, k) ELSE own(b)[k]
        BY <2>2 DEF unpinned
      <4>3. TidyAt(b, r, k, own(b)[k]) /\ own(b)[k] \in SUBSET Square
        BY <3>1, <3>2, <4>1
      <4>4. TidyAt(b, q, k, unpinned(b, color)[k])
        BY <4>2, <4>3, <2>3
      <4> QED
        BY <4>1, <4>4, <3>2
    <3>3. CASE id # k
      <4>1. Cut(n, id) = Cut(k, id)
        BY <3>3, <2>6, <2>7 DEF Cut
      <4>2. TidyAt(b, q, id, Cut(n, id))
        BY <3>1, <3>3, <2>3
      <4> QED
        BY <4>1, <4>2
    <3> QED
      BY <3>2, <3>3
  <2> QED
    BY <2>1, <2>3, <2>5 DEF SameCall, Emptier, q, k
<1>13. 32 \in T
  BY <1>11, <1>12, CountingUp
<1>14. /\ o[32] \in Gens(b) /\ Holding(b, o[32])
       /\ SameCall(g, o[32]) /\ o[32].overrun = FALSE
       /\ Kept(o[32], 32) /\ Emptier(b, g, o[32])
  BY <1>13 DEF T
<1>15. \A id \in ID : Cut(32, id) = unpinned(b, color)[id]
  BY DEF ID, Cut
<1>16. h = o[32]
  BY <1>5 DEF g
<1> QED
  BY <1>14, <1>15, <1>16 DEF Lists, g, Kept

-----------------------------------------------------------------------------
(* filterChecked: the loop over one list, which may run out of it          *)

\* filterChecked's loop has come to its end.
Halted(l, res) == l.j >= res \/ l.moves[l.off + l.j] = NoSquare

\* The run of moves before a slot.
LEMMA RunBefore ==
  ASSUME NEW mv, NEW k \in Nat
  PROVE  runBefore(mv, k) \in 0 .. k
<1> DEFINE S == {i \in 0 .. k : \A m \in i .. k - 1 : mv[m] # NoSquare}
<1>1. S \in SUBSET Nat /\ S \subseteq 0 .. k
  OBVIOUS
<1>2. k \in S
  OBVIOUS
<1> HIDE DEF S
<1>3. Min(S) \in S
  BY <1>1, <1>2, LeastNumber
<1> QED
  BY <1>1, <1>3 DEF runBefore, S

\* filterChecked's loop keeps what its steps keep. Where it is cut off, it has
\* gone further down than the list and what stands before it reach.
LEMMA NarrowRuns ==
  ASSUME NEW M \in Nat, NEW line, NEW res \in Nat, NEW V \in SUBSET Loops(M), NEW list \in V,
         \A l \in V : narrowed(l, line, res) \in V,
         list.idx \in Nat, list.j = 0
  PROVE  /\ narrow(list, line, res) \in V
         /\ \/ Halted(narrow(list, line, res), res)
            \/ narrow(list, line, res).j - narrow(list, line, res).idx >= res + 1
<1> DEFINE R == runBefore(list.moves, list.off)
<1> DEFINE N == list.off - R + list.idx + res + 1
<1> DEFINE next == [n \in 1 .. N |-> [l \in V |-> narrowed(l, line, res)]]
<1> DEFINE After(h) == h = [n \in 0 .. N |-> IF n = 0 THEN list ELSE narrowed(h[n - 1], line, res)]
<1>0. list.off \in Nat /\ R \in 0 .. list.off
  BY RunBefore DEF Loops
<1>1. /\ next \in [1 .. N -> [V -> V]]
      /\ \A n \in 1 .. N, l \in V : next[n][l] = narrowed(l, line, res)
  OBVIOUS
<1>2. narrow(list, line, res) = (CHOOSE h : After(h))[N]
  BY DEF narrow
<1> HIDE DEF R
<1>21. N \in Nat /\ N - list.idx >= res + 1
  BY <1>0
<1> HIDE DEF next, N
<1>3. \E f : Iterates(f, N, V, list, next)
  BY <1>1, <1>21, Iteration
<1>4. PICK f : /\ f \in [0 .. N -> V] /\ f[0] = list
               /\ \A n \in 1 .. N : f[n] = next[n][f[n - 1]]
  BY <1>3 DEF Iterates
<1>5. After(f)
  <2>1. \A n \in 0 .. N : n # 0 => n \in 1 .. N /\ f[n - 1] \in V
    BY <1>21, <1>4
  <2>2. \A n \in 0 .. N : f[n] = IF n = 0 THEN list ELSE narrowed(f[n - 1], line, res)
    BY <2>1, <1>1, <1>4
  <2> QED
    BY <2>2, <1>4
<1> DEFINE o == CHOOSE h : After(h)
<1>6. After(o)
  BY <1>5
<1>7. narrow(list, line, res) = o[N]
  BY <1>2
<1> HIDE DEF o
<1>8. o[0] = list /\ \A n \in Nat : n + 1 <= N => o[n + 1] = narrowed(o[n], line, res)
  <2>1. \A n \in 0 .. N : o[n] = IF n = 0 THEN list ELSE narrowed(o[n - 1], line, res)
    BY <1>6
  <2>2. ASSUME NEW n \in Nat, n + 1 <= N PROVE o[n + 1] = narrowed(o[n], line, res)
    <3>1. n + 1 \in 0 .. N /\ n + 1 # 0 /\ (n + 1) - 1 = n
      BY <2>2, <1>21
    <3> QED
      BY <3>1, <2>1
  <2> QED
    BY <2>1, <2>2, <1>21
<1> DEFINE T == {n \in Nat : n <= N => /\ o[n] \in V
                                       /\ Halted(o[n], res) \/ o[n].j - o[n].idx = n - list.idx}
<1>9. 0 \in T
  BY <1>8
<1>10. ASSUME NEW n \in Nat, n \in T PROVE n + 1 \in T
  <2> SUFFICES ASSUME n + 1 <= N
               PROVE  /\ o[n + 1] \in V
                      /\ Halted(o[n + 1], res) \/ o[n + 1].j - o[n + 1].idx = (n + 1) - list.idx
    OBVIOUS
  <2> DEFINE l == o[n]
  <2>1. l \in V /\ (Halted(l, res) \/ l.j - l.idx = n - list.idx)
        /\ o[n + 1] = narrowed(l, line, res)
    BY <1>21, <1>8, <1>10
  <2>2. l \in Loops(M) /\ l.idx \in Int /\ l.j \in Int
    BY <2>1 DEF Loops
  <2> HIDE DEF l
  <2>3. CASE Halted(l, res)
    BY <2>1, <2>3 DEF narrowed, Halted
  <2>4. CASE ~Halted(l, res) /\ l.moves[l.off + l.j] \in line
    <3>1. narrowed(l, line, res) = [l EXCEPT !.j = @ + 1]
      BY <2>4 DEF narrowed, Halted
    <3>2. narrowed(l, line, res).j = l.j + 1 /\ narrowed(l, line, res).idx = l.idx
      BY <3>1, <2>2 DEF Loops
    <3> QED
      BY <3>2, <2>1, <2>2, <2>4, <1>21
  <2>5. CASE ~Halted(l, res) /\ l.moves[l.off + l.j] \notin line
    <3>1. \E m, u : narrowed(l, line, res) = [l EXCEPT !.moves = m, !.idx = @ - 1, !.overrun = u]
      BY <2>5 DEF narrowed, Halted
    <3>2. narrowed(l, line, res).j = l.j /\ narrowed(l, line, res).idx = l.idx - 1
      BY <3>1, <2>2 DEF Loops
    <3> QED
      BY <3>2, <2>1, <2>2, <2>5, <1>21
  <2> QED
    BY <2>3, <2>4, <2>5
<1> HIDE DEF T
<1>11. N \in T
  BY <1>21, <1>9, <1>10, CountingUp
<1>12. o[N] \in V /\ (Halted(o[N], res) \/ o[N].j - o[N].idx = N - list.idx)
  BY <1>21, <1>11 DEF T
<1> QED
  BY <1>7, <1>12, <1>21

\* How far a list is narrowed. Nothing is written to an empty slot. Outside the
\* list's own slots a step only clears: the first slot after them when the list
\* was full, and those before them as far as they are all occupied. The moves
\* passed are on the line.
NarrowInv(l, list, M, line, res) ==
    /\ l \in Loops(M)
    /\ l.off = list.off
    /\ l.idx <= list.idx /\ 0 <= l.j /\ l.j <= res
    /\ \A k \in 0 .. M - 1 :
          k - list.off \notin 0 .. res - 1 /\ l.moves[k] # list.moves[k] =>
             /\ l.moves[k] = NoSquare /\ k <= list.off + list.idx
             /\ \A m \in k .. list.off - 1 : list.moves[m] # NoSquare
    /\ \A k \in 0 .. M - 1 : list.moves[k] = NoSquare => l.moves[k] = NoSquare
    /\ \A i \in 0 .. l.j - 1 : l.moves[list.off + i] \in line \cup {NoSquare}
    /\ \/ Halted(l, res)
       \/ \A m \in list.off + l.idx .. list.off - 1 : m >= 0 /\ list.moves[m] # NoSquare
    /\ l.idx = list.idx => l.moves = list.moves
    /\ l.idx < list.idx /\ l.idx + 1 \notin 0 .. res - 1
       /\ list.off + l.idx + 1 \in 0 .. M - 1 => l.moves[list.off + l.idx + 1] = NoSquare

\* One step of filterChecked's loop keeps that.
LEMMA NarrowStep ==
  ASSUME NEW M \in Nat, NEW line, NEW res \in Nat, NEW list \in Loops(M), list.idx \in Nat,
         list.idx <= res, list.off + res <= M,
         NEW l, NarrowInv(l, list, M, line, res)
  PROVE  NarrowInv(narrowed(l, line, res), list, M, line, res)
<1> DEFINE o == list.off
<1> DEFINE N == list.idx
<1> DEFINE m == l.moves
<1> DEFINE r == narrowed(l, line, res)
<1>1. /\ l \in Loops(M) /\ l.off = o
      /\ l.idx \in Int /\ l.j \in Int /\ o \in Nat /\ N \in Nat /\ o + res <= M /\ N <= res
      /\ 0 <= l.j /\ l.j <= res /\ l.idx <= N
      /\ m \in [0 .. M - 1 -> Place]
  BY DEF NarrowInv, Loops
<1>5. /\ l.idx \in Int /\ l.j \in Int /\ o \in Int /\ N \in Int /\ o >= 0 /\ o + res <= M
      /\ N <= res /\ 0 <= l.j /\ l.j <= res /\ l.idx <= N
  BY <1>1
<1>2. CASE Halted(l, res)
  BY <1>2 DEF narrowed, Halted
<1>3. CASE ~Halted(l, res) /\ m[o + l.j] \in line
  <2>1. r = [l EXCEPT !.j = @ + 1]
    BY <1>1, <1>3 DEF narrowed, Halted
  <2>2. r.j = l.j + 1 /\ r.idx = l.idx /\ r.moves = m /\ r.off = o /\ r \in Loops(M)
    <3>1. l.j + 1 \in Int
      BY <1>5
    <3>2. r \in Loops(M)
      BY <1>1, <2>1, <3>1 DEF Loops
    <3>3. r.j = l.j + 1 /\ r.idx = l.idx /\ r.moves = m /\ r.off = l.off
      BY <1>1, <2>1 DEF Loops
    <3> QED
      BY <1>1, <3>2, <3>3
  <2>3. l.j < res
    BY <1>1, <1>3 DEF Halted
  <2>4. \A i \in 0 .. r.j - 1 : i \in 0 .. l.j - 1 \/ i = l.j
    BY <2>2, <1>1
  <2>5. 0 <= r.j /\ r.j <= res
    BY <2>2, <2>3, <1>1
  <2> HIDE DEF r
  <2>6. \A i \in 0 .. r.j - 1 : m[o + i] \in line \cup {NoSquare}
    BY <2>4, <1>3 DEF NarrowInv
  <2>7. NarrowInv(r, list, M, line, res)
    BY <1>1, <1>3, <2>2, <2>5, <2>6 DEF NarrowInv
  <2> QED
    BY <2>7 DEF r
<1>4. CASE ~Halted(l, res) /\ m[o + l.j] \notin line
  <2> DEFINE p == o + l.j
  <2> DEFINE last == o + l.idx - 1
  <2> DEFINE copy == IF last >= 0 THEN m[last] ELSE NoSquare
  <2> DEFINE q == [k \in DOMAIN m |-> IF k = p THEN copy
                                      ELSE IF k = last + 1 THEN NoSquare ELSE m[k]]
  <2> DEFINE u == l.overrun \/ last < 0 \/ last + 1 \notin DOMAIN m
  <2>1. r = [l EXCEPT !.moves = q, !.idx = @ - 1, !.overrun = u]
    BY <1>1, <1>4 DEF narrowed, Halted
  <2>2. l.j < res /\ m[p] # NoSquare
    BY <1>1, <1>4 DEF Halted
  <2>3. p \in 0 .. M - 1 /\ last \in Int /\ last <= M - 1 /\ last + 1 = o + l.idx
        /\ p - o = l.j /\ p - o \in 0 .. res - 1
    <3> DEFINE a == l.idx
    <3> DEFINE c == l.j
    <3>1. a \in Int /\ c \in Int /\ o \in Int /\ N \in Int /\ o >= 0 /\ o + res <= M
          /\ N <= res /\ 0 <= c /\ c < res /\ a <= N
      BY <1>5, <2>2
    <3> HIDE DEF a, c, o
    <3>2. /\ o + c \in 0 .. M - 1 /\ o + a - 1 \in Int /\ o + a - 1 <= M - 1
          /\ (o + a - 1) + 1 = o + a /\ (o + c) - o = c /\ (o + c) - o \in 0 .. res - 1
      BY <3>1
    <3> QED
      BY <3>2 DEF a, c
  <2>4. copy \in Place /\ NoSquare \in Place
    BY <1>1, <2>3 DEF Place
  <2>5. last < 0 => copy = NoSquare
    BY <2>3
  <2>51. last >= 0 => copy = m[last]
    OBVIOUS
  <2>6. u \in BOOLEAN /\ l.idx - 1 \in Int /\ DOMAIN m = 0 .. M - 1
    BY <1>1 DEF Loops
  <2> HIDE DEF copy, u
  <2>7. /\ q \in [0 .. M - 1 -> Place]
        /\ \A k \in 0 .. M - 1 :
              q[k] = IF k = p THEN copy ELSE IF k = last + 1 THEN NoSquare ELSE m[k]
    BY <1>1, <2>4, <2>6
  <2> HIDE DEF q
  <2>8. /\ r.j = l.j /\ r.idx = l.idx - 1 /\ r.moves = q /\ r.off = o /\ r \in Loops(M)
    BY <2>1, <2>6, <2>7, <1>1 DEF Loops
  <2> HIDE DEF r, p, last
  <2>9. \A e \in o + l.idx .. o - 1 : e >= 0 /\ list.moves[e] # NoSquare
    BY <1>4 DEF NarrowInv
  <2>10. ASSUME NEW k \in 0 .. M - 1, k - o \notin 0 .. res - 1, q[k] # list.moves[k]
         PROVE  /\ q[k] = NoSquare /\ k <= o + N
                /\ \A e \in k .. o - 1 : list.moves[e] # NoSquare
    <3>1. k # p
      BY <2>10, <2>3
    <3>2. CASE k = last + 1
      <4>1. q[k] = NoSquare /\ k = o + l.idx
        BY <3>1, <3>2, <2>3, <2>7
      <4>2. k <= o + N
        BY <4>1, <1>1
      <4> QED
        BY <4>1, <4>2, <2>9
    <3>3. CASE k # last + 1
      <4>1. q[k] = m[k]
        BY <3>1, <3>3, <2>7
      <4> QED
        BY <4>1, <2>10 DEF NarrowInv
    <3> QED
      BY <3>2, <3>3
  <2>11. \A k \in 0 .. M - 1 : list.moves[k] = NoSquare => q[k] = NoSquare
    <3>1. \A k \in 0 .. M - 1 : list.moves[k] = NoSquare => m[k] = NoSquare /\ k # p
      BY <2>2, <2>3 DEF NarrowInv
    <3> QED
      BY <3>1, <2>7
  <2>12. \A i \in 0 .. l.j - 1 : q[o + i] \in line \cup {NoSquare}
    <3> SUFFICES ASSUME NEW i \in 0 .. l.j - 1 PROVE q[o + i] \in line \cup {NoSquare}
      OBVIOUS
    <3>1. o + i \in 0 .. M - 1 /\ o + i # p
      <4>1. i \in Int /\ 0 <= i /\ i < l.j /\ l.j < res /\ l.j \in Int
        BY <1>5, <2>2
      <4>2. o + i \in 0 .. M - 1
        BY <4>1, <1>5
      <4>3. o + i # o + l.j
        BY <4>1, <1>5
      <4> QED
        BY <4>2, <4>3 DEF p
    <3>2. q[o + i] = NoSquare \/ q[o + i] = m[o + i]
      BY <3>1, <2>7
    <3> QED
      BY <3>2 DEF NarrowInv
  <2>13. \/ Halted(r, res)
         \/ \A e \in o + r.idx .. o - 1 : e >= 0 /\ list.moves[e] # NoSquare
    <3>1. q[p] = copy /\ p = r.off + r.j
      BY <2>3, <2>7, <2>8, <1>1 DEF p
    <3>2. CASE copy = NoSquare
      BY <3>1, <3>2, <2>8 DEF Halted
    <3>3. CASE copy # NoSquare
      <4>1. last >= 0 /\ last \in 0 .. M - 1 /\ m[last] # NoSquare
        BY <3>3, <2>3, <2>5, <2>51
      <4>2. list.moves[last] # NoSquare
        <5>1. \A k \in 0 .. M - 1 : list.moves[k] = NoSquare => m[k] = NoSquare
          BY DEF NarrowInv
        <5> HIDE DEF m, last
        <5> QED
          BY <4>1, <5>1
      <4>3. \A e \in o + r.idx .. o - 1 : e = last \/ e \in o + l.idx .. o - 1
        <5>1. /\ o + r.idx = last /\ o + l.idx = last + 1 /\ last \in Int /\ o \in Int
          <6> DEFINE ri == r.idx
                     li == l.idx
          <6>1. ri = li - 1 /\ last \in Int /\ last + 1 = o + li
            BY <2>3, <2>8
          <6>2. o \in Int /\ li \in Int
            BY <1>1 DEF Loops
          <6>3. o + ri = last /\ o + li = last + 1
            <7> HIDE DEF o, m, r, last, ri, li
            <7> QED
              BY <6>1, <6>2
          <6> QED
            BY <6>1, <6>2, <6>3 DEF ri, li
        <5>2. \A x, y \in Int : \A e \in x .. y - 1 : e = x \/ e \in x + 1 .. y - 1
          OBVIOUS
        <5> HIDE DEF o, m
        <5> QED
          BY <5>1, <5>2
      <4> QED
        BY <4>1, <4>2, <4>3, <2>9
    <3> QED
      BY <3>2, <3>3
  <2>14. r.idx <= N /\ 0 <= r.j /\ r.j <= res /\ r.idx # N
    BY <1>1, <2>8
  <2>16. ASSUME r.idx + 1 \notin 0 .. res - 1, o + r.idx + 1 \in 0 .. M - 1
         PROVE  q[o + r.idx + 1] = NoSquare
    <3>1. r.idx + 1 = l.idx /\ o + r.idx + 1 = last + 1
      BY <1>5, <2>3, <2>8
    <3>2. last + 1 # p
      <4>1. (last + 1) - o = l.idx
        BY <1>5, <2>3
      <4> QED
        BY <2>3, <2>16, <3>1, <4>1
    <3>3. q[last + 1] = NoSquare
      BY <3>1, <3>2, <2>7, <2>16
    <3> QED
      BY <3>1, <3>3
  <2>15. NarrowInv(r, list, M, line, res)
    BY <2>8, <2>10, <2>11, <2>12, <2>13, <2>14, <2>16 DEF NarrowInv
  <2> QED
    BY <2>15 DEF r
<1> QED
  BY <1>1, <1>2, <1>3, <1>4

Occupied(m, o, from, to) == \A i \in from .. to : m[o + i] # NoSquare
Vacant(m, o, from, to) == \A i \in from .. to : m[o + i] = NoSquare

\* The stages of filterChecked's loop over a list of which nothing precedes: no
\* move has been taken away; some have, and the last move stands twice or is not
\* on the line; the last move stands twice, with nothing in between; all have.
Untouched(l, list) ==
    l.idx = list.idx /\ l.moves = list.moves /\ l.j <= list.idx

Shrunk(l, list, line, res) ==
    /\ 0 <= l.idx /\ l.idx < list.idx /\ l.j <= l.idx + 1
    /\ Occupied(l.moves, list.off, 0, l.idx)
    /\ Vacant(l.moves, list.off, l.idx + 1, res - 1)
    /\ \/ l.moves[list.off + l.idx] \notin line
       \/ \E i \in 0 .. l.idx - 1 :
             i <= l.j /\ l.moves[list.off + i] = l.moves[list.off + l.idx]

Doubled(l, list, line, res) ==
    /\ 0 <= l.idx /\ l.idx < list.idx /\ l.idx + 1 < res
    /\ l.j = l.idx + 1 \/ l.j = l.idx + 2
    /\ Occupied(l.moves, list.off, 0, l.idx + 1)
    /\ Vacant(l.moves, list.off, l.idx + 2, res - 1)
    /\ l.moves[list.off + (l.idx + 1)] = l.moves[list.off + l.idx]
    /\ l.moves[list.off + l.idx] \in line

Emptied(l, list, res) ==
    l.idx = -1 /\ l.j = 0 /\ Vacant(l.moves, list.off, 0, res - 1)

Stage(l, list, line, res) ==
    \/ Untouched(l, list) \/ Shrunk(l, list, line, res)
    \/ Doubled(l, list, line, res) \/ Emptied(l, list, res)

\* No move comes in, and none on the line is lost.
Keeping(l, list, line, res, S) ==
    /\ \A i \in 0 .. res - 1 : l.moves[list.off + i] \in S \cup {NoSquare}
    /\ \A e \in 0 .. list.idx - 1 :
          list.moves[list.off + e] \in line =>
             \E i \in 0 .. res - 1 : l.moves[list.off + i] = list.moves[list.off + e]

\* A list without gaps, and nothing right before it.
Alone(list, res) ==
    /\ Occupied(list.moves, list.off, 0, list.idx - 1)
    /\ Vacant(list.moves, list.off, list.idx, res - 1)
    /\ list.off > 0 => list.moves[list.off - 1] = NoSquare

\* What one removal does.
Removal(l, r, o, M) ==
    /\ r.j = l.j /\ r.idx = l.idx - 1
    /\ \A k \in 0 .. M - 1 :
          r.moves[k] = IF k = o + l.j
                       THEN IF o + l.idx - 1 >= 0 THEN l.moves[o + l.idx - 1] ELSE NoSquare
                       ELSE IF k = o + l.idx THEN NoSquare ELSE l.moves[k]

\* One step: nothing, one move passed, or one taken away.
LEMMA NarrowedBy ==
  ASSUME NEW M \in Nat, NEW line, NEW res \in Nat, NEW l \in Loops(M), l.off + res <= M, 0 <= l.j
  PROVE  \/ Halted(l, res) /\ narrowed(l, line, res) = l
         \/ /\ ~Halted(l, res) /\ l.moves[l.off + l.j] \in line
            /\ narrowed(l, line, res).j = l.j + 1
            /\ narrowed(l, line, res).idx = l.idx
            /\ narrowed(l, line, res).moves = l.moves
         \/ /\ ~Halted(l, res) /\ l.moves[l.off + l.j] \notin line
            /\ Removal(l, narrowed(l, line, res), l.off, M)
<1> DEFINE r == narrowed(l, line, res)
<1>1. CASE Halted(l, res)
  BY <1>1 DEF narrowed, Halted
<1>2. CASE ~Halted(l, res) /\ l.moves[l.off + l.j] \in line
  <2>1. r = [l EXCEPT !.j = @ + 1]
    BY <1>2 DEF narrowed, Halted
  <2> QED
    BY <1>2, <2>1 DEF Loops
<1>3. CASE ~Halted(l, res) /\ l.moves[l.off + l.j] \notin line
  <2> DEFINE last == l.off + l.idx - 1
  <2> DEFINE q == [k \in DOMAIN l.moves |->
                     IF k = l.off + l.j
                     THEN IF last >= 0 THEN l.moves[last] ELSE NoSquare
                     ELSE IF k = last + 1 THEN NoSquare ELSE l.moves[k]]
  <2>1. \E u : r = [l EXCEPT !.moves = q, !.idx = @ - 1, !.overrun = u]
    BY <1>3 DEF narrowed, Halted
  <2>2. l.moves \in [0 .. M - 1 -> Place] /\ l.off \in Nat /\ l.idx \in Int
    BY DEF Loops
  <2>3. last + 1 = l.off + l.idx /\ DOMAIN l.moves = 0 .. M - 1
    BY <2>2
  <2>4. r.moves = q /\ r.j = l.j /\ r.idx = l.idx - 1
    BY <2>1 DEF Loops
  <2>5. \A k \in 0 .. M - 1 :
          q[k] = IF k = l.off + l.j
                 THEN IF l.off + l.idx - 1 >= 0 THEN l.moves[l.off + l.idx - 1] ELSE NoSquare
                 ELSE IF k = l.off + l.idx THEN NoSquare ELSE l.moves[k]
    BY <2>3
  <2> HIDE DEF q
  <2>6. Removal(l, r, l.off, M)
    BY <2>4, <2>5 DEF Removal
  <2> QED
    BY <1>3, <2>6
<1> QED
  BY <1>1, <1>2, <1>3

\* One step leads from a stage to a stage.
LEMMA StageStep ==
  ASSUME NEW M \in Nat, NEW line, NEW res \in Nat, NEW S, NEW list \in Loops(M),
         list.idx \in Nat, list.idx <= res, list.off + res <= M, NoSquare \notin line,
         Alone(list, res), NEW l, NarrowInv(l, list, M, line, res),
         Stage(l, list, line, res), Keeping(l, list, line, res, S)
  PROVE  /\ Stage(narrowed(l, line, res), list, line, res)
         /\ Keeping(narrowed(l, line, res), list, line, res, S)
<1> DEFINE o == list.off
<1> DEFINE N == list.idx
<1> DEFINE m == l.moves
<1> DEFINE r == narrowed(l, line, res)
<1> DEFINE q == r.moves
<1> DEFINE a == l.idx
<1> DEFINE j == l.j
<1>1. /\ l \in Loops(M) /\ l.off = o /\ m \in [0 .. M - 1 -> Place]
  BY DEF NarrowInv, Loops
<1>2. /\ a \in Int /\ j \in Int /\ o \in Int /\ N \in Int /\ o >= 0 /\ o + res <= M
      /\ 0 <= N /\ N <= res /\ 0 <= j /\ j <= res /\ a <= N
  BY DEF NarrowInv, Loops
<1>3. \/ Halted(l, res) /\ r = l
      \/ /\ ~Halted(l, res) /\ m[o + j] \in line /\ r.j = j + 1 /\ r.idx = a /\ q = m
      \/ ~Halted(l, res) /\ m[o + j] \notin line /\ Removal(l, r, o, M)
  BY <1>1, <1>2, NarrowedBy
<1> HIDE DEF r
<1>4. CASE Halted(l, res) /\ r = l
  BY <1>4 DEF r
<1>5. Occupied(list.moves, o, 0, N - 1) /\ Vacant(list.moves, o, N, res - 1)
      /\ (o > 0 => list.moves[o - 1] = NoSquare)
  BY DEF Alone
<1>6. ~Halted(l, res) => j < res /\ m[o + j] # NoSquare
  BY <1>1, <1>2 DEF Halted
<1>7. CASE /\ ~Halted(l, res) /\ m[o + j] \in line /\ r.j = j + 1 /\ r.idx = a /\ q = m
  <2>1. j < res /\ m[o + j] # NoSquare
    BY <1>6, <1>7
  <2>2. Keeping(r, list, line, res, S)
    BY <1>7 DEF Keeping
  <2>3. CASE Untouched(l, list)
    <3>1. j # N
      BY <2>1, <2>3, <1>2, <1>5 DEF Untouched, Vacant
    <3>2. j + 1 <= N
      BY <3>1, <2>3, <1>2 DEF Untouched
    <3> QED
      BY <3>2, <2>2, <2>3, <1>7 DEF Untouched, Stage, r
  <2>4. CASE Shrunk(l, list, line, res)
    <3>1. j # a + 1
      BY <2>1, <2>4, <1>2 DEF Shrunk, Vacant
    <3>2. j + 1 <= a + 1 /\ \A i \in 0 .. a - 1 : i <= j => i <= j + 1
      BY <3>1, <2>4, <1>2 DEF Shrunk
    <3>3. Shrunk(r, list, line, res)
      BY <3>2, <2>4, <1>7 DEF Shrunk
    <3> QED
      BY <3>3, <2>2 DEF Stage, r
  <2>5. CASE Doubled(l, list, line, res)
    <3>1. j # a + 2
      BY <2>1, <2>5, <1>2 DEF Doubled, Vacant
    <3>2. j + 1 = a + 2
      BY <3>1, <2>5, <1>2 DEF Doubled
    <3>3. Doubled(r, list, line, res)
      BY <3>2, <2>5, <1>7 DEF Doubled
    <3> QED
      BY <3>3, <2>2 DEF Stage, r
  <2>6. CASE Emptied(l, list, res)
    BY <2>1, <2>6, <1>2 DEF Emptied, Vacant
  <2> QED
    BY <2>3, <2>4, <2>5, <2>6 DEF Stage
<1>8. CASE ~Halted(l, res) /\ m[o + j] \notin line /\ Removal(l, r, o, M)
  <2>1. j < res /\ m[o + j] # NoSquare /\ r.j = j /\ r.idx = a - 1
    BY <1>6, <1>8 DEF Removal
  <2>2. \A i \in 0 .. res - 1 : o + i \in 0 .. M - 1
    BY <1>2
  <2>3. \A i \in 0 .. res - 1 : (o + i = o + j <=> i = j) /\ (o + i = o + a <=> i = a)
    <3> HIDE DEF o, a, j
    <3>1. \A i \in Int : (o + i = o + j <=> i = j) /\ (o + i = o + a <=> i = a)
      BY <1>2
    <3> QED
      BY <3>1
  <2>4. \A i \in 0 .. res - 1 :
           q[o + i] = IF i = j THEN IF o + a - 1 >= 0 THEN m[o + a - 1] ELSE NoSquare
                      ELSE IF i = a THEN NoSquare ELSE m[o + i]
    BY <2>2, <2>3, <1>8 DEF Removal
  <2>5. ASSUME 0 < a PROVE o + a - 1 >= 0 /\ o + a - 1 = o + (a - 1)
    BY <2>5, <1>2
  <2>6. ASSUME 0 < a
        PROVE  \A i \in 0 .. res - 1 :
           q[o + i] = IF i = j THEN m[o + (a - 1)] ELSE IF i = a THEN NoSquare ELSE m[o + i]
    BY <2>4, <2>5, <2>6
  <2>7. j \in 0 .. res - 1
    BY <2>1, <1>2
  <2>8. ASSUME 0 < a, a - 1 \in 0 .. res - 1,
               \A e \in 0 .. N - 1 : list.moves[o + e] \in line =>
                  \E i \in 0 .. res - 1 : /\ m[o + i] = list.moves[o + e]
                                          /\ i # a \/ i = j
        PROVE  Keeping(r, list, line, res, S)
    <3>1. \A i \in 0 .. res - 1 : m[o + i] \in S \cup {NoSquare}
      BY DEF Keeping
    <3>2. \A i \in 0 .. res - 1 : q[o + i] \in S \cup {NoSquare}
      BY <3>1, <2>6, <2>8
    <3>3. ASSUME NEW e \in 0 .. N - 1, list.moves[o + e] \in line
          PROVE  \E i \in 0 .. res - 1 : q[o + i] = list.moves[o + e]
      <4>1. PICK i \in 0 .. res - 1 : /\ m[o + i] = list.moves[o + e]
                                      /\ i # a \/ i = j
        BY <3>3, <2>8
      <4>2. i # j
        BY <4>1, <3>3, <1>8
      <4>3. q[o + i] = m[o + i]
        BY <4>1, <4>2, <2>6, <2>8
      <4> QED
        BY <4>1, <4>3
    <3> QED
      BY <3>2, <3>3 DEF Keeping
  <2>9. CASE Untouched(l, list)
    <3>1. a = N /\ m = list.moves /\ j <= N
      BY <2>9 DEF Untouched
    <3>2. j # N
      BY <2>1, <3>1, <1>2, <1>5 DEF Vacant
    <3>3. 0 < a /\ a - 1 \in 0 .. res - 1 /\ j <= a - 1
      BY <3>1, <3>2, <1>2
    <3>4. Keeping(r, list, line, res, S)
      <4>1. \A e \in 0 .. N - 1 : e \in 0 .. res - 1 /\ e # a
        BY <3>1, <1>2
      <4>2. \A e \in 0 .. N - 1 : list.moves[o + e] \in line =>
                  \E i \in 0 .. res - 1 : /\ m[o + i] = list.moves[o + e]
                                          /\ i # a \/ i = j
        BY <3>1, <4>1
      <4> QED
        BY <3>3, <4>2, <2>8
    <3>5. \A i \in 0 .. a - 1 : i \in 0 .. res - 1 /\ i # a /\ i \in 0 .. N - 1
      BY <3>1, <1>2
    <3>6. Occupied(q, o, 0, a - 1)
      BY <3>1, <3>3, <3>5, <2>6, <1>5 DEF Occupied
    <3>7. \A i \in a .. res - 1 : i \in 0 .. res - 1 /\ i # j /\ (i = a \/ i \in N .. res - 1)
      BY <3>1, <3>3, <1>2
    <3>8. Vacant(q, o, a, res - 1)
      BY <3>1, <3>3, <3>7, <2>6, <1>5 DEF Vacant
    <3>9. \/ q[o + (a - 1)] \notin line
          \/ \E i \in 0 .. (a - 1) - 1 : i <= j /\ q[o + i] = q[o + (a - 1)]
      <4>0. a - 1 # a /\ j # a
        BY <3>3, <1>2
      <4>1. CASE j = a - 1
        BY <4>0, <4>1, <3>3, <2>6, <1>8
      <4>2. CASE j # a - 1
        <5>1. j \in 0 .. (a - 1) - 1
          BY <4>2, <3>3, <1>2
        <5>2. q[o + j] = m[o + (a - 1)] /\ q[o + (a - 1)] = m[o + (a - 1)]
          BY <4>0, <4>2, <3>3, <2>6, <2>7
        <5> QED
          BY <5>1, <5>2, <1>2
      <4> QED
        BY <4>1, <4>2
    <3>10. Shrunk(r, list, line, res)
      <4>1. (a - 1) + 1 = a /\ 0 <= a - 1 /\ a - 1 < N /\ j <= (a - 1) + 1
        BY <3>1, <3>3, <1>2
      <4> QED
        BY <4>1, <3>6, <3>8, <3>9, <2>1 DEF Shrunk
    <3> QED
      BY <3>4, <3>10 DEF Stage, r
  <2>10. CASE Shrunk(l, list, line, res)
    <3>1. /\ 0 <= a /\ a < N /\ j <= a + 1 /\ Occupied(m, o, 0, a)
          /\ Vacant(m, o, a + 1, res - 1)
          /\ \/ m[o + a] \notin line
             \/ \E i \in 0 .. a - 1 : i <= j /\ m[o + i] = m[o + a]
      BY <2>10 DEF Shrunk
    <3>2. j # a + 1
      BY <2>1, <3>1, <1>2 DEF Vacant
    <3>3. j <= a
      BY <3>1, <3>2, <1>2
    <3>4. CASE 0 < a
      <4>1. a - 1 \in 0 .. res - 1 /\ a \in 0 .. res - 1
        BY <3>4, <3>1, <1>2
      <4>2. Keeping(r, list, line, res, S)
        <5> SUFFICES ASSUME NEW e \in 0 .. N - 1, list.moves[o + e] \in line
                     PROVE  \E i \in 0 .. res - 1 : /\ m[o + i] = list.moves[o + e]
                                                    /\ i # a \/ i = j
          BY <3>4, <4>1, <2>8
        <5>1. PICK i \in 0 .. res - 1 : m[o + i] = list.moves[o + e]
          BY DEF Keeping
        <5>2. CASE i = a
          <6>1. PICK i2 \in 0 .. a - 1 : i2 <= j /\ m[o + i2] = m[o + a]
            BY <5>1, <5>2, <3>1
          <6>2. i2 \in 0 .. res - 1 /\ i2 # a
            BY <6>1, <3>1, <1>2
          <6> QED
            BY <6>1, <6>2, <5>1, <5>2
        <5>3. CASE i # a
          BY <5>1, <5>3
        <5> QED
          BY <5>2, <5>3
      <4>3. \A i \in 0 .. a - 1 : i \in 0 .. res - 1 /\ i # a /\ i \in 0 .. a
        BY <3>1, <1>2
      <4>4. a - 1 \in 0 .. a /\ a \in 0 .. a
        BY <3>4, <1>2
      <4>5. Occupied(q, o, 0, a - 1)
        BY <4>3, <4>4, <3>1, <3>4, <2>6 DEF Occupied
      <4>6. CASE j < a
        <5>1. \A i \in a .. res - 1 : i \in 0 .. res - 1 /\ i # j
                                      /\ (i = a \/ i \in a + 1 .. res - 1)
          BY <4>6, <3>1, <1>2
        <5>2. Vacant(q, o, a, res - 1)
          BY <5>1, <3>1, <3>4, <2>6 DEF Vacant
        <5>3. \/ q[o + (a - 1)] \notin line
              \/ \E i \in 0 .. (a - 1) - 1 : i <= j /\ q[o + i] = q[o + (a - 1)]
          <6>0. a - 1 # a
            BY <1>2
          <6>1. CASE j = a - 1
            BY <6>0, <6>1, <3>4, <4>1, <2>6, <1>8
          <6>2. CASE j # a - 1
            <7>1. j \in 0 .. (a - 1) - 1
              BY <6>2, <4>6, <1>2
            <7>2. q[o + j] = m[o + (a - 1)] /\ q[o + (a - 1)] = m[o + (a - 1)]
              BY <6>0, <6>2, <3>4, <4>1, <2>6, <2>7
            <7> QED
              BY <7>1, <7>2, <1>2
          <6> QED
            BY <6>1, <6>2
        <5>4. (a - 1) + 1 = a /\ 0 <= a - 1 /\ a - 1 < N /\ j <= (a - 1) + 1
          BY <3>1, <3>4, <4>6, <1>2
        <5>5. Shrunk(r, list, line, res)
          BY <5>2, <5>3, <5>4, <4>5, <2>1 DEF Shrunk
        <5> QED
          BY <5>5, <4>2 DEF Stage, r
      <4>7. CASE j = a
        <5>1. q[o + a] = m[o + (a - 1)] /\ m[o + (a - 1)] # NoSquare
          BY <4>1, <4>4, <4>7, <3>1, <3>4, <2>6 DEF Occupied
        <5>2. q[o + (a - 1)] = m[o + (a - 1)]
          <6>1. a - 1 # a
            BY <1>2
          <6> QED
            BY <6>1, <4>1, <4>7, <3>4, <2>6
        <5>3. m[o + (a - 1)] \in line
          <6>1. a - 1 \in 0 .. j - 1
            BY <4>7, <3>4, <1>2
          <6> QED
            BY <6>1, <5>1 DEF NarrowInv
        <5>4. \A i \in 0 .. a : i = a \/ i \in 0 .. a - 1
          BY <1>2
        <5>5. Occupied(q, o, 0, a)
          BY <5>1, <5>4, <4>5 DEF Occupied
        <5>6. \A i \in a + 1 .. res - 1 : i \in 0 .. res - 1 /\ i # j /\ i # a
          BY <4>7, <3>1, <1>2
        <5>7. Vacant(q, o, a + 1, res - 1)
          BY <5>6, <3>1, <3>4, <2>6 DEF Vacant
        <5>8. /\ (a - 1) + 1 = a /\ 0 <= a - 1 /\ a - 1 < N /\ j = (a - 1) + 1
              /\ (a - 1) + 2 = a + 1 /\ (a - 1) + 1 < res
          BY <3>1, <3>4, <4>7, <1>2
        <5>9. Doubled(r, list, line, res)
          BY <5>1, <5>2, <5>3, <5>5, <5>7, <5>8, <2>1 DEF Doubled
        <5> QED
          BY <5>9, <4>2 DEF Stage, r
      <4> QED
        BY <4>6, <4>7, <3>3, <1>2
    <3>5. CASE a = 0
      <4>1. j = 0 /\ o + a - 1 = o - 1 /\ a - 1 = -1
        BY <3>3, <3>5, <1>2
      <4>2. o > 0 => m[o - 1] = NoSquare
        <5>1. o > 0 => o - 1 \in 0 .. M - 1
          BY <1>2
        <5> QED
          BY <5>1, <1>5 DEF NarrowInv
      <4>3. q[o + 0] = NoSquare
        <5>1. o - 1 >= 0 <=> o > 0
          BY <1>2
        <5>2. q[o + j] = IF o + a - 1 >= 0 THEN m[o + a - 1] ELSE NoSquare
          BY <2>4, <2>7
        <5> QED
          BY <5>1, <5>2, <4>1, <4>2
      <4>4. \A i \in 0 .. res - 1 : i = 0 \/ (i # j /\ i # a /\ i \in a + 1 .. res - 1)
        BY <4>1, <3>5
      <4>5. \A i \in 0 .. res - 1 : q[o + i] = NoSquare
        BY <4>3, <4>4, <2>4, <3>1 DEF Vacant
      <4>6. Emptied(r, list, res)
        BY <4>1, <4>5, <2>1 DEF Emptied, Vacant
      <4>7. ASSUME NEW e \in 0 .. N - 1, list.moves[o + e] \in line PROVE FALSE
        <5>1. PICK i \in 0 .. res - 1 : m[o + i] = list.moves[o + e]
          BY <4>7 DEF Keeping
        <5>2. m[o + i] \in line /\ m[o + i] # NoSquare
          BY <5>1, <4>7
        <5> QED
          BY <5>2, <4>1, <4>4, <3>1, <1>8 DEF Vacant
      <4>8. Keeping(r, list, line, res, S)
        BY <4>5, <4>7 DEF Keeping
      <4> QED
        BY <4>6, <4>8 DEF Stage, r
    <3> QED
      BY <3>1, <3>4, <3>5, <1>2
  <2>11. CASE Doubled(l, list, line, res)
    <3>1. /\ j = a + 1 \/ j = a + 2
          /\ Vacant(m, o, a + 2, res - 1)
          /\ m[o + (a + 1)] = m[o + a] /\ m[o + a] \in line
      BY <2>11 DEF Doubled
    <3>2. j # a + 2
      BY <3>1, <2>1, <1>2 DEF Vacant
    <3> QED
      BY <3>1, <3>2, <1>8
  <2>12. CASE Emptied(l, list, res)
    BY <2>1, <2>12, <1>2 DEF Emptied, Vacant
  <2> QED
    BY <2>9, <2>10, <2>11, <2>12 DEF Stage
<1> QED
  BY <1>3, <1>4, <1>7, <1>8

\* A list as filterChecked's loop takes it up.
Fresh(list, M, res) ==
    /\ list \in Loops(M) /\ list.idx \in Nat /\ list.idx <= res /\ list.j = 0
    /\ list.off + res <= M

\* The loop keeps the invariant.
LEMMA Narrowed ==
  ASSUME NEW M \in Nat, NEW line, NEW res \in Nat, NEW list, Fresh(list, M, res)
  PROVE  /\ NarrowInv(narrow(list, line, res), list, M, line, res)
         /\ \/ Halted(narrow(list, line, res), res)
            \/ narrow(list, line, res).j - narrow(list, line, res).idx >= res + 1
<1> DEFINE V == {l \in Loops(M) : NarrowInv(l, list, M, line, res)}
<1>1. list \in Loops(M) /\ list.idx \in Nat /\ list.idx <= res /\ list.j = 0
      /\ list.off + res <= M
  BY DEF Fresh
<1>2. NarrowInv(list, list, M, line, res)
  <2>1. list.off \in Nat /\ list.idx \in Nat
    BY <1>1 DEF Loops
  <2>2. \A e \in list.off + list.idx .. list.off - 1 : FALSE
    BY <2>1
  <2> QED
    BY <1>1, <2>2 DEF NarrowInv
<1>3. ASSUME NEW l \in V PROVE narrowed(l, line, res) \in V
  <2>1. NarrowInv(l, list, M, line, res)
    OBVIOUS
  <2>2. NarrowInv(narrowed(l, line, res), list, M, line, res)
    BY <1>1, <2>1, NarrowStep
  <2> QED
    BY <2>2 DEF NarrowInv
<1>4. list \in V /\ V \in SUBSET Loops(M)
  BY <1>1, <1>2
<1> HIDE DEF V
<1>5. /\ narrow(list, line, res) \in V
      /\ \/ Halted(narrow(list, line, res), res)
         \/ narrow(list, line, res).j - narrow(list, line, res).idx >= res + 1
  BY <1>1, <1>3, <1>4, NarrowRuns
<1> QED
  BY <1>5 DEF V

\* With nothing right before it, the loop over a list without gaps comes to an
\* end, and leaves nothing behind the moves it counts.
Settled(l, list, line, res, S) ==
    /\ Halted(l, res)
    /\ Keeping(l, list, line, res, S)
    /\ \/ Untouched(l, list) /\ l.j = list.idx
       \/ Shrunk(l, list, line, res) /\ l.j = l.idx + 1
       \/ Doubled(l, list, line, res) /\ l.j = l.idx + 2
       \/ Emptied(l, list, res)

\* And so the loop settles.
LEMMA NarrowedAlone ==
  ASSUME NEW M \in Nat, NEW line, NEW res \in Nat, 2 <= res, NEW list, Fresh(list, M, res),
         NEW S, Alone(list, res), NoSquare \notin line,
         \A i \in 0 .. list.idx - 1 : list.moves[list.off + i] \in S
  PROVE  Settled(narrow(list, line, res), list, line, res, S)
<1> DEFINE V == {l \in Loops(M) : /\ NarrowInv(l, list, M, line, res)
                                  /\ Stage(l, list, line, res)
                                  /\ Keeping(l, list, line, res, S)}
<1>1. list \in Loops(M) /\ list.idx \in Nat /\ list.idx <= res /\ list.j = 0
      /\ list.off + res <= M
  BY DEF Fresh
<1>2. list \in V
  <2>1. list.off \in Nat /\ list.idx \in Nat
    BY <1>1 DEF Loops
  <2>2. \A e \in list.off + list.idx .. list.off - 1 : FALSE
    BY <2>1
  <2>3. NarrowInv(list, list, M, line, res)
    BY <1>1, <2>2 DEF NarrowInv
  <2>4. Stage(list, list, line, res)
    BY <1>1 DEF Stage, Untouched
  <2>5. Keeping(list, list, line, res, S)
    <3>1. \A i \in 0 .. res - 1 : i \in 0 .. list.idx - 1 \/ i \in list.idx .. res - 1
      BY <1>1
    <3>2. \A i \in 0 .. list.idx - 1 : i \in 0 .. res - 1
      BY <1>1
    <3> QED
      BY <3>1, <3>2 DEF Keeping, Alone, Vacant
  <2> QED
    BY <1>1, <2>3, <2>4, <2>5
<1>3. ASSUME NEW l \in V PROVE narrowed(l, line, res) \in V
  <2>1. /\ NarrowInv(l, list, M, line, res) /\ Stage(l, list, line, res)
        /\ Keeping(l, list, line, res, S)
    OBVIOUS
  <2>2. NarrowInv(narrowed(l, line, res), list, M, line, res)
    BY <1>1, <2>1, NarrowStep
  <2>3. /\ Stage(narrowed(l, line, res), list, line, res)
        /\ Keeping(narrowed(l, line, res), list, line, res, S)
    BY <1>1, <2>1, StageStep
  <2> QED
    BY <2>2, <2>3 DEF NarrowInv
<1>4. V \in SUBSET Loops(M)
  OBVIOUS
<1> HIDE DEF V
<1> DEFINE l == narrow(list, line, res)
<1>5. l \in V /\ (Halted(l, res) \/ l.j - l.idx >= res + 1)
  BY <1>1, <1>2, <1>3, <1>4, NarrowRuns
<1> HIDE DEF l
<1>6. /\ NarrowInv(l, list, M, line, res) /\ Stage(l, list, line, res)
      /\ Keeping(l, list, line, res, S)
  BY <1>5 DEF V
<1>7. /\ l.idx \in Int /\ l.j \in Int /\ list.idx \in Int /\ list.idx <= res
      /\ 0 <= l.j /\ l.j <= res /\ l.idx <= list.idx /\ l.off = list.off /\ 0 <= list.idx
  BY <1>1, <1>6 DEF NarrowInv, Loops
<1>8. Halted(l, res)
  <2> SUFFICES ASSUME ~Halted(l, res) PROVE FALSE
    OBVIOUS
  <2>1. l.j - l.idx >= res + 1 /\ l.j < res
    BY <1>5, <1>7 DEF Halted
  <2>2. (l.idx = list.idx /\ l.j <= list.idx) \/ l.j <= l.idx + 1 \/ l.j <= l.idx + 2
        \/ (l.idx = -1 /\ l.j = 0)
    BY <1>6, <1>7 DEF Stage, Untouched, Shrunk, Doubled, Emptied
  <2> QED
    BY <2>1, <2>2, <1>7
<1>9. l.j >= res \/ l.moves[list.off + l.j] = NoSquare
  BY <1>7, <1>8 DEF Halted
<1>10. ASSUME Untouched(l, list) PROVE l.j = list.idx
  <2>1. Occupied(list.moves, list.off, 0, list.idx - 1) /\ l.moves = list.moves /\ l.j <= list.idx
    BY <1>10 DEF Alone, Untouched
  <2>2. l.j >= res \/ l.j \notin 0 .. list.idx - 1
    BY <1>9, <2>1 DEF Occupied
  <2> QED
    BY <2>1, <2>2, <1>7
<1>11. ASSUME Shrunk(l, list, line, res) PROVE l.j = l.idx + 1
  <2>1. Occupied(l.moves, list.off, 0, l.idx) /\ l.j <= l.idx + 1 /\ l.idx < list.idx
    BY <1>11 DEF Shrunk
  <2>2. l.j >= res \/ l.j \notin 0 .. l.idx
    BY <1>9, <2>1 DEF Occupied
  <2> QED
    BY <2>1, <2>2, <1>7
<1>12. ASSUME Doubled(l, list, line, res) PROVE l.j = l.idx + 2
  <2>1. /\ Occupied(l.moves, list.off, 0, l.idx + 1) /\ l.idx + 1 < res
        /\ l.j = l.idx + 1 \/ l.j = l.idx + 2
    BY <1>12 DEF Doubled
  <2>2. l.j >= res \/ l.j \notin 0 .. l.idx + 1 \/ l.j = l.idx + 2
    BY <1>9, <2>1 DEF Occupied
  <2> QED
    BY <2>1, <2>2, <1>7
<1>13. Settled(l, list, line, res, S)
  BY <1>6, <1>8, <1>10, <1>11, <1>12 DEF Settled, Stage
<1> QED
  BY <1>13 DEF l

\* A list that begins with an empty slot.
LEMMA NarrowedNothing ==
  ASSUME NEW M \in Nat, NEW line, NEW res \in Nat, NEW list, Fresh(list, M, res),
         list.moves[list.off] = NoSquare
  PROVE  narrow(list, line, res) = list
<1>1. list \in Loops(M) /\ list.idx \in Nat /\ list.j = 0 /\ list.off \in Nat
  BY DEF Fresh, Loops
<1>2. list.off + list.j = list.off
  BY <1>1
<1>3. narrowed(list, line, res) = list
  BY <1>2 DEF narrowed
<1>4. narrow(list, line, res) \in {list}
  BY <1>1, <1>3, NarrowRuns
<1> QED
  BY <1>4

\* What filterChecked does to one list, at least.
Answers(b, g, id, h) ==
    /\ h \in Gens(b) /\ Holding(b, h) /\ SameCall(g, h)
    /\ \A e \in ID \ {id} : h.movesIdx[e] = g.movesIdx[e]
    /\ \A k \in Slots(b) :
          /\ k - b.moveOffset[id] \notin 0 .. b.piece[id].reserved - 1
          /\ h.moves[k] # g.moves[k]
          => /\ h.moves[k] = NoSquare
             /\ \/ /\ k < b.moveOffset[id]
                   /\ \A m \in k .. b.moveOffset[id] - 1 : g.moves[m] # NoSquare
                \/ /\ k = b.moveOffset[id] + b.piece[id].reserved
                   /\ g.movesIdx[id] = b.piece[id].reserved
    /\ \A k \in Slots(b) : g.moves[k] = NoSquare => h.moves[k] = NoSquare
    /\ \A i \in 0 .. h.movesIdx[id] - 1 :
          h.moves[b.moveOffset[id] + i] \in g.line \cup {NoSquare}

\* And when nothing stands right before it: no move comes in, none on the line
\* is lost, and nothing is left behind those that are counted.
AnswersAlone(b, g, id, S, h) ==
    /\ \A i \in 0 .. b.piece[id].reserved - 1 :
          h.moves[b.moveOffset[id] + i] \in S \cup {NoSquare}
    /\ Vacant(h.moves, b.moveOffset[id], h.movesIdx[id], b.piece[id].reserved - 1)
    /\ \A t \in S \cap g.line : \E i \in 0 .. h.movesIdx[id] - 1 :
          h.moves[b.moveOffset[id] + i] = t

\* A list that is not, nearly full, wholly on the line.
Roomy(b, g, id) ==
    \/ g.movesIdx[id] < b.piece[id].reserved - 1
    \/ \E i \in 0 .. g.movesIdx[id] - 1 : g.moves[b.moveOffset[id] + i] \notin g.line

\* A tidy board's lists are fresh.
LEMMA FreshList ==
  ASSUME NEW b, BoardOK(b), NEW g \in Gens(b), Holding(b, g), NEW id \in ID
  PROVE  /\ Fresh(listOf(b, g, id), b.size, b.piece[id].reserved)
         /\ b.size \in Nat /\ b.piece[id].reserved \in Nat /\ 2 <= b.piece[id].reserved
<1>1. b.moveOffset[id] + b.piece[id].reserved <= b.size
  BY BlocksApart
<1>2. b.piece[id].reserved \in 5 .. 27
  BY FieldsOf
<1> QED
  BY <1>1, <1>2, ListLoops DEF Fresh

\* The array after the loop over one list and what follows it.
Cleared(l, k) ==
    IF l.j > 1 /\ k = l.off + l.idx + 1 THEN NoSquare ELSE l.moves[k]

\* filterChecked for one list, slot by slot.
LEMMA AnsweredIs ==
  ASSUME NEW b, BoardOK(b), NEW g \in Gens(b), NEW id \in ID, NEW list,
         NEW l \in Loops(b.size), 0 <= l.j, list = listOf(b, g, id),
         l = narrow(list, g.line, b.piece[id].reserved),
         NEW h, h = answered(b, g, id)
  PROVE  /\ h \in Gens(b) /\ SameCall(g, h)
         /\ h.movesIdx[id] = l.j
         /\ \A e \in ID \ {id} : h.movesIdx[e] = g.movesIdx[e]
         /\ \A k \in Slots(b) : h.moves[k] = Cleared(l, k)
<1> DEFINE q == [k \in DOMAIN l.moves |->
                   IF l.j > 1 /\ k = l.off + l.idx + 1 THEN NoSquare ELSE l.moves[k]]
<1> DEFINE u == \/ l.overrun
                \/ l.j >= b.piece[id].reserved
                \/ l.j > 1 /\ l.off + l.idx + 1 \notin DOMAIN l.moves
<1> DEFINE n == [g.movesIdx EXCEPT ![id] = l.j]
<1>1. h = [g EXCEPT !.moves = q, !.movesIdx[id] = l.j, !.overrun = u]
  BY DEF answered
<1>2. h = [g EXCEPT !.moves = q, !.movesIdx = n, !.overrun = u]
  <2> HIDE DEF q, u
  <2> QED
    BY <1>1
<1>3. l.moves \in [Slots(b) -> Place] /\ l.j \in Nat /\ DOMAIN l.moves = Slots(b)
  BY DEF Loops, Slots
<1>4. q \in [Slots(b) -> Place] /\ \A k \in Slots(b) : q[k] = Cleared(l, k)
  BY <1>3 DEF Cleared, Place
<1>5. n \in [ID -> Nat] /\ n[id] = l.j /\ \A e \in ID \ {id} : n[e] = g.movesIdx[e]
  BY <1>3 DEF Gens
<1>6. u \in BOOLEAN
  OBVIOUS
<1> HIDE DEF q, n, u
<1>7. h \in Gens(b) /\ SameCall(g, h) /\ h.moves = q /\ h.movesIdx = n
  BY <1>2, <1>4, <1>5, <1>6 DEF Gens, SameCall
<1> QED
  BY <1>4, <1>5, <1>7

\* What filterChecked does to a list and what is around it.
LEMMA Answered ==
  ASSUME NEW b, BoardOK(b), NEW g \in Gens(b), Holding(b, g), NEW id \in ID,
         NEW S, S \subseteq Square,
         \/ g.moves[b.moveOffset[id]] = NoSquare
         \/ TidyAt(b, g, id, S) /\ Roomy(b, g, id),
         NEW h, h = answered(b, g, id)
  PROVE  Answers(b, g, id, h)
<1> DEFINE list == listOf(b, g, id)
<1> DEFINE res == b.piece[id].reserved
<1> DEFINE o == b.moveOffset[id]
<1> DEFINE N == g.movesIdx[id]
<1> DEFINE l == narrow(list, g.line, res)
<1> DEFINE m == l.moves
<1>1. /\ Fresh(list, b.size, res) /\ b.size \in Nat /\ res \in Nat /\ 2 <= res
      /\ list.off = o /\ list.idx = N /\ list.moves = g.moves
      /\ o \in Nat /\ N \in Nat /\ N <= res /\ o + res <= b.size
  BY FreshList, ListLoops, FieldsOf, BlocksApart
<1>2. NarrowInv(l, list, b.size, g.line, res) /\ (Halted(l, res) \/ l.j - l.idx >= res + 1)
  <2> HIDE DEF list, res
  <2> QED
    BY <1>1, Narrowed
<1>3. list = listOf(b, g, id) /\ l = narrow(list, g.line, b.piece[id].reserved)
  OBVIOUS
<1>4. ASSUME g.moves[o] = NoSquare PROVE l.j = 0
  <2> HIDE DEF list, res, o, N
  <2>1. l = list
    BY <1>1, <1>4, NarrowedNothing
  <2> QED
    BY <2>1, <1>1 DEF Fresh
<1> HIDE DEF list, l
<1>5. /\ l \in Loops(b.size) /\ l.off = o /\ l.idx \in Int /\ l.j \in Int
      /\ 0 <= l.j /\ l.j <= res /\ l.idx <= N
      /\ \A k \in Slots(b) : k - o \notin 0 .. res - 1 /\ m[k] # g.moves[k] =>
            /\ m[k] = NoSquare /\ k <= o + N
            /\ \A e \in k .. o - 1 : g.moves[e] # NoSquare
      /\ \A k \in Slots(b) : g.moves[k] = NoSquare => m[k] = NoSquare
      /\ \A i \in 0 .. l.j - 1 : m[o + i] \in g.line \cup {NoSquare}
      /\ l.idx = N => m = g.moves
      /\ l.idx < N /\ l.idx + 1 \notin 0 .. res - 1 /\ o + l.idx + 1 \in Slots(b) =>
            m[o + l.idx + 1] = NoSquare
  BY <1>1, <1>2 DEF NarrowInv, Loops, Slots
<1>6. /\ h \in Gens(b) /\ SameCall(g, h)
      /\ h.movesIdx[id] = l.j
      /\ \A e \in ID \ {id} : h.movesIdx[e] = g.movesIdx[e]
      /\ \A k \in Slots(b) : h.moves[k] = Cleared(l, k)
  BY SMTT(30), <1>3, <1>5, AnsweredIs
<1>7. ASSUME l.j > 1, l.idx = N PROVE N < res - 1
  <2>1. TidyAt(b, g, id, S) /\ Roomy(b, g, id)
    BY <1>4, <1>7
  <2>2. Tidy(g.moves, o, N, res, S)
    BY <2>1 DEF TidyAt
  <2>3. Halted(l, res) /\ m = g.moves
    BY <1>1, <1>2, <1>5, <1>7
  <2>4. l.j >= N
    <3>1. l.j >= res \/ g.moves[o + l.j] = NoSquare
      BY <2>3, <1>5 DEF Halted
    <3>2. \A i \in 0 .. N - 1 : g.moves[o + i] # NoSquare
      BY <2>2, OffBoard DEF Tidy
    <3> QED
      BY <3>1, <3>2, <1>1, <1>5
  <2>5. ASSUME NEW i \in 0 .. N - 1, g.moves[o + i] \notin g.line PROVE FALSE
    <3>1. i \in 0 .. l.j - 1
      BY <2>4, <1>1, <1>5
    <3>2. g.moves[o + i] = NoSquare
      BY <3>1, <2>3, <2>5, <1>5
    <3> QED
      BY <3>2, <2>2, OffBoard DEF Tidy
  <2> QED
    BY <2>1, <2>5 DEF Roomy
<1> HIDE DEF res, o, N, m
<1>8. ASSUME NEW k \in Slots(b), k - o \notin 0 .. res - 1, h.moves[k] # g.moves[k]
      PROVE  m[k] # g.moves[k] /\ h.moves[k] = m[k]
  <2>1. k \in Int
    BY DEF Slots
  <2>2. CASE l.j > 1 /\ k = l.off + l.idx + 1
    <3>1. k - o = l.idx + 1 /\ k = o + l.idx + 1
      BY <2>1, <2>2, <1>1, <1>5
    <3>2. l.idx < N
      <4> SUFFICES ASSUME l.idx = N PROVE FALSE
        BY <1>1, <1>5
      <4>1. N < res - 1
        BY <2>2, <1>7
      <4> QED
        BY <4>1, <3>1, <1>1, <1>8
    <3>3. m[k] = NoSquare
      BY <3>1, <3>2, <1>5, <1>8
    <3>4. h.moves[k] = NoSquare
      BY <2>2, <1>6 DEF Cleared
    <3> QED
      BY <3>3, <3>4, <1>8
  <2>3. CASE ~(l.j > 1 /\ k = l.off + l.idx + 1)
    BY <2>3, <1>6, <1>8 DEF Cleared, m
  <2> QED
    BY <2>2, <2>3
<1>9. ASSUME NEW k \in Slots(b), k - o \notin 0 .. res - 1, h.moves[k] # g.moves[k]
      PROVE  /\ h.moves[k] = NoSquare
             /\ \/ k < o /\ \A e \in k .. o - 1 : g.moves[e] # NoSquare
                \/ k = o + res /\ N = res
  <2>1. /\ h.moves[k] = NoSquare /\ k <= o + N
        /\ \A e \in k .. o - 1 : g.moves[e] # NoSquare
    BY <1>5, <1>8, <1>9
  <2>2. k < o \/ (k = o + res /\ N = res)
    BY <2>1, <1>1, <1>9 DEF Slots
  <2> QED
    BY <2>1, <2>2
<1>10. \A k \in Slots(b) : g.moves[k] = NoSquare => h.moves[k] = NoSquare
  BY <1>5, <1>6 DEF Cleared, m
<1>11. \A i \in 0 .. l.j - 1 : h.moves[o + i] \in g.line \cup {NoSquare}
  <2> TAKE i \in 0 .. l.j - 1
  <2>1. o + i \in Slots(b)
    BY <1>1, <1>5 DEF Slots
  <2> QED
    BY <2>1, <1>5, <1>6 DEF Cleared, m
<1>12. Holding(b, h)
  <2>1. h.moves \in [Slots(b) -> Place] /\ h.movesIdx \in [ID -> Nat]
    BY <1>6 DEF Gens
  <2>2. \A e \in ID : h.movesIdx[e] <= b.piece[e].reserved
    BY <1>5, <1>6 DEF Holding, res
  <2>3. \A k \in Slots(b) : h.moves[k] # NoSquare => Owned(b, k)
    BY <1>10 DEF Holding
  <2> QED
    BY <2>1, <2>2, <2>3 DEF Holding
<1> QED
  BY <1>6, <1>9, <1>10, <1>11, <1>12 DEF Answers, o, res, N

\* What it does to a list with nothing right before it.
LEMMA AnsweredAlone ==
  ASSUME NEW b, BoardOK(b), NEW g \in Gens(b), Holding(b, g), NEW id \in ID,
         NEW S, S \subseteq Square, TidyAt(b, g, id, S), Roomy(b, g, id),
         b.moveOffset[id] > 0 => g.moves[b.moveOffset[id] - 1] = NoSquare,
         NEW h, h = answered(b, g, id)
  PROVE  AnswersAlone(b, g, id, S, h)
<1> DEFINE list == listOf(b, g, id)
<1> DEFINE res == b.piece[id].reserved
<1> DEFINE o == b.moveOffset[id]
<1> DEFINE N == g.movesIdx[id]
<1> DEFINE l == narrow(list, g.line, res)
<1> DEFINE m == l.moves
<1>1. /\ Fresh(list, b.size, res) /\ b.size \in Nat /\ res \in Nat /\ 2 <= res
      /\ list.off = o /\ list.idx = N /\ list.moves = g.moves
      /\ o \in Nat /\ N \in Nat /\ N <= res /\ o + res <= b.size
  BY FreshList, ListLoops, FieldsOf, BlocksApart
<1>2. Tidy(g.moves, o, N, res, S)
  BY DEF TidyAt
<1>3. list = listOf(b, g, id) /\ l = narrow(list, g.line, b.piece[id].reserved)
  OBVIOUS
<1>4. Alone(list, res)
  <2> HIDE DEF list, res, o, N
  <2>1. Occupied(g.moves, o, 0, N - 1) /\ Vacant(g.moves, o, N, res - 1)
    BY <1>2, OffBoard DEF Tidy, Occupied, Vacant
  <2> QED
    BY <2>1, <1>1 DEF Alone, o
<1>5. NoSquare \notin g.line
  BY OffBoard DEF Gens
<1>6. \A i \in 0 .. list.idx - 1 : list.moves[list.off + i] \in S
  BY <1>1, <1>2 DEF Tidy
<1>7. /\ Settled(l, list, g.line, res, S)
      /\ NarrowInv(l, list, b.size, g.line, res)
  <2> HIDE DEF list, res
  <2> QED
    BY <1>1, <1>4, <1>5, <1>6, NarrowedAlone, Narrowed
<1> HIDE DEF list, l
<1>8. /\ l \in Loops(b.size) /\ l.off = o /\ l.idx \in Int /\ l.j \in Int
      /\ 0 <= l.j /\ l.j <= res /\ l.idx <= N
      /\ \A i \in 0 .. l.j - 1 : m[o + i] \in g.line \cup {NoSquare}
  BY <1>1, <1>7 DEF NarrowInv, Loops
<1>9. h.movesIdx[id] = l.j /\ \A k \in Slots(b) : h.moves[k] = Cleared(l, k)
  BY <1>3, <1>8, AnsweredIs
<1> HIDE DEF res, o, N, m
<1>10. \A i \in 0 .. res - 1 :
          /\ o + i \in Slots(b)
          /\ h.moves[o + i] = IF l.j > 1 /\ i = l.idx + 1 THEN NoSquare ELSE m[o + i]
  <2>1. \A i \in 0 .. res - 1 : o + i \in Slots(b) /\ (o + i = l.off + l.idx + 1 <=> i = l.idx + 1)
    BY <1>1, <1>8 DEF Slots
  <2> QED
    BY <2>1, <1>9 DEF Cleared, m
<1>11. /\ \A i \in 0 .. res - 1 : m[o + i] \in S \cup {NoSquare}
       /\ \A e \in 0 .. N - 1 : g.moves[o + e] \in g.line =>
             \E i \in 0 .. res - 1 : m[o + i] = g.moves[o + e]
  BY <1>1, <1>7 DEF Settled, Keeping, m
<1>12. \A i \in 0 .. res - 1 : h.moves[o + i] \in S \cup {NoSquare}
  BY <1>10, <1>11
<1>13. /\ Vacant(m, o, l.j, res - 1) \/ (/\ l.j = l.idx + 2 /\ 0 <= l.idx
                                         /\ Vacant(m, o, l.idx + 2, res - 1))
       /\ \A i \in 0 .. l.j - 1 : l.j > 1 /\ i = l.idx + 1 =>
             0 <= l.idx /\ m[o + i] = m[o + l.idx]
  <2>1. CASE Untouched(l, list) /\ l.j = list.idx
    <3>1. m = g.moves /\ l.j = N /\ l.idx = N
      BY <2>1, <1>1 DEF Untouched, m
    <3>2. \A i \in 0 .. l.j - 1 : i # l.idx + 1
      BY <3>1, <1>1
    <3> QED
      BY <3>1, <3>2, <1>2 DEF Tidy, Vacant
  <2>2. CASE Shrunk(l, list, g.line, res) /\ l.j = l.idx + 1
    <3>1. \A i \in 0 .. l.j - 1 : i # l.idx + 1
      BY <2>2, <1>8
    <3> QED
      BY <3>1, <2>2, <1>1 DEF Shrunk, m
  <2>3. CASE Doubled(l, list, g.line, res) /\ l.j = l.idx + 2
    BY <2>3, <1>1 DEF Doubled, m
  <2>4. CASE Emptied(l, list, res)
    <3>1. l.j = 0 /\ Vacant(m, o, 0, res - 1)
      BY <2>4, <1>1 DEF Emptied, m
    <3> QED
      BY <3>1
  <2> QED
    BY <2>1, <2>2, <2>3, <2>4, <1>7 DEF Settled
<1>14. \A i \in l.j .. res - 1 : m[o + i] = NoSquare
  BY <1>13 DEF Vacant
<1>15. Vacant(h.moves, o, l.j, res - 1)
  <2>1. \A i \in l.j .. res - 1 : i \in 0 .. res - 1
    BY <1>1, <1>8
  <2> QED
    BY <2>1, <1>10, <1>14 DEF Vacant
<1>16. ASSUME NEW t \in S \cap g.line
       PROVE  \E i \in 0 .. l.j - 1 : h.moves[o + i] = t
  <2>1. PICK e \in 0 .. N - 1 : g.moves[o + e] = t
    BY <1>2 DEF Tidy
  <2>2. PICK i \in 0 .. res - 1 : m[o + i] = t
    BY <2>1, <1>11
  <2>3. t # NoSquare
    BY <1>5
  <2>4. i \in 0 .. l.j - 1
    <3>1. i \notin l.j .. res - 1
      BY <2>2, <2>3, <1>14
    <3> QED
      BY <3>1, <1>1, <1>8
  <2>5. CASE l.j > 1 /\ i = l.idx + 1
    <3>1. 0 <= l.idx /\ m[o + i] = m[o + l.idx]
      BY <2>4, <2>5, <1>13
    <3>2. l.idx \in 0 .. l.j - 1 /\ l.idx \in 0 .. res - 1 /\ l.idx # l.idx + 1
      BY <3>1, <2>4, <2>5, <1>1, <1>8
    <3>3. h.moves[o + l.idx] = t
      BY <3>1, <3>2, <2>2, <1>10
    <3> QED
      BY <3>2, <3>3
  <2>6. CASE ~(l.j > 1 /\ i = l.idx + 1)
    <3>1. h.moves[o + i] = t
      BY <2>2, <2>6, <1>10
    <3> QED
      BY <3>1, <2>4
  <2> QED
    BY <2>5, <2>6
<1> QED
  BY <1>9, <1>12, <1>15, <1>16 DEF AnswersAlone, o, res

-----------------------------------------------------------------------------
(* The line of a check                                                     *)

\* More different things than there are places for them.
LEMMA TooMany ==
  ASSUME NEW n \in Nat, NEW N \in Nat, n < N, NEW f, NEW r,
         \A i \in 0 .. N - 1 : \E j \in 1 .. n : r[i] = f[j],
         \A i, j \in 0 .. N - 1 : i # j => r[i] # r[j]
  PROVE  FALSE
<1> DEFINE g == [i \in 0 .. N - 1 |-> CHOOSE j \in 1 .. n : r[i] = f[j]]
<1>1. g \in [0 .. N - 1 -> 1 .. n] /\ \A i \in 0 .. N - 1 : r[i] = f[g[i]]
  <2>1. \A i \in 0 .. N - 1 : g[i] \in 1 .. n /\ r[i] = f[g[i]]
    OBVIOUS
  <2> QED
    BY <2>1
<1>2. /\ IsFiniteSet(0 .. N - 1) /\ Cardinality(0 .. N - 1) = N
      /\ IsFiniteSet(1 .. n) /\ Cardinality(1 .. n) = n
  <2>1. /\ IsFiniteSet(0 .. N - 1) /\ IsFiniteSet(1 .. n)
        /\ Cardinality(0 .. N - 1) = IF 0 > N - 1 THEN 0 ELSE N - 1 - 0 + 1
        /\ Cardinality(1 .. n) = IF 1 > n THEN 0 ELSE n - 1 + 1
    BY FS_Interval
  <2> QED
    BY <2>1
<1> HIDE DEF g
<1>3. PICK x, y \in 0 .. N - 1 : x # y /\ g[x] = g[y]
  <2> DEFINE A == 0 .. N - 1
  <2> DEFINE B == 1 .. n
  <2>1. IsFiniteSet(A) /\ IsFiniteSet(B) /\ Cardinality(B) < Cardinality(A) /\ g \in [A -> B]
    BY <1>1, <1>2
  <2>2. \E x, y \in A : x # y /\ g[x] = g[y]
    <3> HIDE DEF A, B
    <3> QED
      BY <2>1, FS_PigeonHole
  <2> QED
    BY <2>2
<1> QED
  BY <1>1, <1>3

\* A step leads to a place.
LEMMA StepPlace ==
  ASSUME NEW s \in Place, NEW m
  PROVE  stepped(s, m) \in Square \/ stepped(s, m) = NoSquare
<1>1. CASE isInBoard(row(s) + m[1], col(s) + m[2])
  <2> DEFINE r == row(s) + m[1]
  <2> DEFINE c == col(s) + m[2]
  <2>1. r \in 0 .. 7 /\ c \in 0 .. 7 /\ stepped(s, m) = 8 * r + c
    BY <1>1 DEF isInBoard, stepped, square
  <2> HIDE DEF r, c
  <2> QED
    BY <2>1, SquareAt
<1>2. CASE ~isInBoard(row(s) + m[1], col(s) + m[2])
  BY <1>2 DEF stepped
<1> QED
  BY <1>1, <1>2

\* Along a line one sees empty squares and the first piece.
LEMMA SeenOnLine ==
  ASSUME NEW at, NEW s \in Place, NEW d \in Direction
  PROVE  /\ visible(at, s, d) \subseteq squaresOn(s, d)
         /\ squaresOn(s, d) \subseteq Square
         /\ firstMet(at, s, d) = NoSquare \/ firstMet(at, s, d) \in visible(at, s, d)
         /\ \A t \in visible(at, s, d) : at[t] # EMPTY =>
               t = firstMet(at, s, d)
         /\ firstMet(at, s, d) \in Square => at[firstMet(at, s, d)] # EMPTY
<1> DEFINE N == reachOf(s, d)
<1>1. /\ DOMAIN ray[s][d] = 1 .. N /\ N \in Nat
      /\ \A n \in 1 .. N : ray[s][d][n] \in Square
  BY RayIs, Reaches
<1>2. squaresOn(s, d) \subseteq Square /\ visible(at, s, d) \subseteq squaresOn(s, d)
  BY <1>1 DEF squaresOn, visible, sight
<1>3. ASSUME NEW t \in visible(at, s, d), NEW u \in visible(at, s, d),
             at[t] # EMPTY, at[u] # EMPTY
      PROVE  t = u
  <2>1. PICK n \in sight(at, s, d) : t = ray[s][d][n]
    BY DEF visible
  <2>2. PICK m \in sight(at, s, d) : u = ray[s][d][m]
    BY DEF visible
  <2>3. n \in 1 .. N /\ m \in 1 .. N
    BY <1>1 DEF sight
  <2>4. ~(n < m)
    BY <1>3, <2>1, <2>2, <2>3 DEF sight
  <2>5. ~(m < n)
    BY <1>3, <2>1, <2>2, <2>3 DEF sight
  <2> QED
    BY <2>1, <2>2, <2>3, <2>4, <2>5
<1>4. CASE \E t \in visible(at, s, d) : at[t] # EMPTY
  <2>1. /\ firstMet(at, s, d) \in visible(at, s, d)
        /\ at[firstMet(at, s, d)] # EMPTY
    BY <1>4 DEF firstMet
  <2> QED
    BY <1>2, <1>3, <2>1
<1>5. CASE ~(\E t \in visible(at, s, d) : at[t] # EMPTY)
  <2>1. firstMet(at, s, d) = NoSquare
    BY <1>5 DEF firstMet
  <2> QED
    BY <1>2, <1>5, <2>1, OffBoard
<1> QED
  BY <1>4, <1>5

\* Where a side's king stands.
kingPlace(b, color) == b.piece[kingOf(color)].position

\* Where a king stands.
LEMMA KingPlace ==
  ASSUME NEW b, BoardOK(b), NEW color \in Color
  PROVE  kingOf(color) \in ID /\ kingPlace(b, color) \in Place
         /\ getColor(kingOf(color)) = color
<1>1. kingOf(color) \in ID /\ getColor(kingOf(color)) = color
  BY DEF kingOf, ID, Color, getColor, EMPTY
<1> QED
  BY <1>1, FieldsOf DEF kingPlace

\* The list of directions.
LEMMA DirectionList ==
  \A n \in 1 .. 8 : directions[n] \in Direction
<1> SUFFICES ASSUME NEW n \in 1 .. 8 PROVE directions[n] \in Direction
  OBVIOUS
<1>1. n \in {1, 2, 3, 4, 5, 6, 7, 8}
  OBVIOUS
<1> QED
  BY <1>1, Compass DEF directions, Direction

\* A line on which the king of color may be checked from target.
CheckLine(b, color, l) ==
    /\ l.target \in Place
    /\ l.target \in Square =>
         /\ \/ l.squares = {l.target}
            \/ \E d \in Direction : /\ l.squares = visible(b.at, kingPlace(b, color), d)
                                    /\ l.target = firstMet(b.at, kingPlace(b, color), d)
                                    /\ l.types = getMatchingSet(d)

\* The eighteen lines that are looked at are check lines.
LEMMA CheckLinesAre ==
  ASSUME NEW b, BoardOK(b), NEW color \in Color, NEW n \in 1 .. 18
  PROVE  CheckLine(b, color, checkLines(b, color)[n])
<1> DEFINE k == kingPlace(b, color)
<1> DEFINE single(m, type) ==
      [target |-> stepped(k, m), squares |-> {stepped(k, m)}, types |-> {type}]
<1> DEFINE along(d) ==
      [target |-> firstMet(b.at, k, d), squares |-> visible(b.at, k, d),
       types |-> getMatchingSet(d)]
<1>1. checkLines(b, color)[n] =
         IF n <= 8 THEN single(knightSteps[n], "KNIGHT")
         ELSE IF n <= 10 THEN single(pawnSteps(color)[n - 8], "PAWN")
         ELSE along(directions[n - 10])
  BY DEF checkLines, kingPlace
<1>2. k \in Place
  BY KingPlace
<1>3. \A m, type : CheckLine(b, color, single(m, type))
  BY <1>2, StepPlace DEF CheckLine, Place
<1>4. ASSUME NEW d \in Direction PROVE CheckLine(b, color, along(d))
  <2> HIDE DEF k
  <2>1. firstMet(b.at, k, d) \in Place
    BY <1>2, SeenOnLine DEF Place
  <2>2. along(d).target = firstMet(b.at, k, d) /\ along(d).squares = visible(b.at, k, d)
        /\ along(d).types = getMatchingSet(d)
    OBVIOUS
  <2> HIDE DEF along
  <2> QED
    BY <2>1, <2>2 DEF CheckLine, k
<1>5. n > 10 => directions[n - 10] \in Direction
  BY DirectionList
<1> HIDE DEF single, along
<1>6. CASE n <= 8
  BY <1>1, <1>3, <1>6
<1>7. CASE n > 8 /\ n <= 10
  BY <1>1, <1>3, <1>7
<1>8. CASE n > 10
  BY <1>1, <1>4, <1>5, <1>8
<1> QED
  BY <1>6, <1>7, <1>8

\* What genChecked finds: the checking piece, and the squares up to it.
FoundCheck(b, color, id, line) ==
    \E n \in 1 .. 18 :
       /\ givesCheck(b, color, checkLines(b, color)[n])
       /\ id = b.at[checkLines(b, color)[n].target]
       /\ line = checkLines(b, color)[n].squares

\* genChecked finds a check when there is one.
LEMMA CheckFound ==
  ASSUME NEW b, NEW color
  PROVE  \/ /\ checksOn(b, color) = {}
            /\ genChecked(b, color).checkedId = EMPTY /\ genChecked(b, color).line = {}
         \/ /\ checksOn(b, color) # {}
            /\ FoundCheck(b, color, genChecked(b, color).checkedId, genChecked(b, color).line)
<1>1. CASE checksOn(b, color) = {}
  BY <1>1 DEF genChecked
<1>2. CASE checksOn(b, color) # {}
  <2> DEFINE n == Min(checksOn(b, color))
  <2>1. checksOn(b, color) \in SUBSET Nat
    BY DEF checksOn
  <2>2. n \in checksOn(b, color)
    BY <1>2, <2>1, LeastNumber
  <2>3. n \in 1 .. 18 /\ givesCheck(b, color, checkLines(b, color)[n])
    BY <2>2 DEF checksOn
  <2>4. /\ genChecked(b, color).checkedId = b.at[checkLines(b, color)[n].target]
        /\ genChecked(b, color).line = checkLines(b, color)[n].squares
    BY <1>2 DEF genChecked
  <2> HIDE DEF n
  <2> QED
    BY <1>2, <2>3, <2>4 DEF FoundCheck
<1> QED
  BY <1>1, <1>2

\* The squares of a check, and what stands on them.
CheckedAlong(b, color, id, line) ==
    /\ id \in ID /\ getColor(id) # color
    /\ line \subseteq Square
    /\ \E t \in line : b.at[t] = id /\ \A u \in line : u # t => b.at[u] = EMPTY
    /\ \/ \E t : line = {t}
       \/ \E d \in Direction : line \subseteq squaresOn(kingPlace(b, color), d)

\* The line of the check that is found.
LEMMA CheckIs ==
  ASSUME NEW b, BoardOK(b), NEW color \in Color, NEW id, NEW line,
         FoundCheck(b, color, id, line)
  PROVE  CheckedAlong(b, color, id, line)
<1>1. PICK n \in 1 .. 18 : /\ givesCheck(b, color, checkLines(b, color)[n])
                           /\ id = b.at[checkLines(b, color)[n].target]
                           /\ line = checkLines(b, color)[n].squares
  BY DEF FoundCheck
<1> DEFINE l == checkLines(b, color)[n]
<1>2. CheckLine(b, color, l)
  BY CheckLinesAre
<1>3. givesCheck(b, color, l) /\ id = b.at[l.target] /\ line = l.squares
  BY <1>1
<1> HIDE DEF l
<1>4. l.target \in Square /\ id # EMPTY /\ getColor(id) # color
  BY <1>3 DEF givesCheck
<1>5. id \in ID
  BY <1>3, <1>4 DEF BoardOK, Boards
<1>6. CASE l.squares = {l.target}
  BY <1>3, <1>4, <1>5, <1>6 DEF CheckedAlong
<1>7. ASSUME NEW d \in Direction, l.squares = visible(b.at, kingPlace(b, color), d),
             l.target = firstMet(b.at, kingPlace(b, color), d)
      PROVE  CheckedAlong(b, color, id, line)
  <2> DEFINE k == kingPlace(b, color)
  <2>1. k \in Place
    BY KingPlace
  <2> HIDE DEF k
  <2>2. /\ visible(b.at, k, d) \subseteq squaresOn(k, d)
        /\ squaresOn(k, d) \subseteq Square
        /\ l.target \in visible(b.at, k, d)
        /\ \A t \in visible(b.at, k, d) : b.at[t] # EMPTY => t = l.target
    BY <2>1, <1>4, <1>7, SeenOnLine, OffBoard DEF k
  <2>3. line = visible(b.at, k, d)
    BY <1>3, <1>7 DEF k
  <2> QED
    BY <1>3, <1>4, <1>5, <2>2, <2>3 DEF CheckedAlong, k
<1> QED
  BY <1>2, <1>4, <1>6, <1>7 DEF CheckLine

\* What genMoves starts the filters with.
LEMMA GeneratedGens ==
  ASSUME NEW b, BoardOK(b), NEW color \in Color
  PROVE  /\ generated(b, color) \in Gens(b)
         /\ \/ generated(b, color).checkedId = EMPTY
            \/ CheckedAlong(b, color, generated(b, color).checkedId, generated(b, color).line)
<1> DEFINE g == generated(b, color)
<1>1. Holding(b, g) /\ g.overrun = FALSE
  BY GeneratedLists DEF Lists
<1>2. /\ g.checkedId = genChecked(b, color).checkedId /\ g.line = genChecked(b, color).line
      /\ g.attacked = attackedBy(b, otherColor(color)) /\ g.defended = defendedSquares(b)
      /\ g = [moves |-> g.moves, movesIdx |-> g.movesIdx, checkedId |-> g.checkedId,
              line |-> g.line, attacked |-> g.attacked, defended |-> g.defended,
              overrun |-> g.overrun]
  BY DEF generated
<1>3. \/ g.checkedId = EMPTY /\ g.line = {}
      \/ CheckedAlong(b, color, g.checkedId, g.line)
  BY <1>2, CheckFound, CheckIs
<1>4. g.checkedId \in ID \cup {EMPTY} /\ g.line \in SUBSET Square
  BY <1>3 DEF CheckedAlong
<1>5. \A id \in inPlay(b) : bearing(b, id) \subseteq Square
  BY InPlayStanding, WalkNamesBearing DEF Names
<1>6. g.attacked \in SUBSET Square /\ g.defended \in SUBSET Square
  BY <1>2, <1>5 DEF attackedBy, defendedSquares
<1> HIDE DEF g
<1>7. g.moves \in [Slots(b) -> Place] /\ g.movesIdx \in [ID -> Nat]
  BY <1>1 DEF Holding
<1>8. g \in Gens(b)
  BY <1>1, <1>2, <1>4, <1>6, <1>7 DEF Gens
<1> QED
  BY <1>3, <1>8 DEF g

-----------------------------------------------------------------------------
(* How much of a full list can be on one line                              *)

\* A line has eight squares at most.
LEMMA FewOnLine ==
  ASSUME NEW b, BoardOK(b), NEW color \in Color, NEW id, NEW line,
         CheckedAlong(b, color, id, line)
  PROVE  \E f : \A t \in line : \E j \in 1 .. 8 : t = f[j]
<1>1. CASE \E t : line = {t}
  <2>1. PICK t : line = {t}
    BY <1>1
  <2>2. \A u \in line : 1 \in 1 .. 8 /\ u = [j \in 1 .. 8 |-> t][1]
    BY <2>1
  <2> QED
    BY <2>2
<1>2. ASSUME NEW d \in Direction, line \subseteq squaresOn(kingPlace(b, color), d)
      PROVE  \E f : \A t \in line : \E j \in 1 .. 8 : t = f[j]
  <2> DEFINE k == kingPlace(b, color)
  <2>1. k \in Place
    BY KingPlace
  <2> HIDE DEF k
  <2>2. reachOf(k, d) \in 0 .. 8
    BY <2>1, Reaches
  <2>3. \A t \in line : \E j \in 1 .. 8 : t = ray[k][d][j]
    BY <1>2, <2>2 DEF squaresOn, k
  <2> QED
    BY <2>3
<1> QED
  BY <1>1, <1>2 DEF CheckedAlong

\* Four of a knight's steps of which no two end on one line.
Askew == {<<2, 1>>, <<1, -2>>, <<-2, -1>>, <<-1, 2>>}

\* Of four askew steps one at most ends on a line.
LEMMA OneAskew ==
  ASSUME NEW b, BoardOK(b), NEW color \in Color, NEW id, NEW line,
         CheckedAlong(b, color, id, line), NEW s \in Square,
         NEW m \in Askew, NEW w \in Askew, stepped(s, m) \in line, stepped(s, w) \in line
  PROVE  m = w \/ stepped(s, m) = stepped(s, w)
<1>1. CASE \E t : line = {t}
  BY <1>1
<1>2. ASSUME NEW d \in Direction, line \subseteq squaresOn(kingPlace(b, color), d)
      PROVE  m = w
  <2> DEFINE k == kingPlace(b, color)
  <2>1. k \in Place
    BY KingPlace
  <2>2. /\ m[1] \in -2 .. 2 /\ m[2] \in -2 .. 2 /\ w[1] \in -2 .. 2 /\ w[2] \in -2 .. 2
        /\ m[1] = w[1] \/ m[2] = w[2] \/ m[1] - m[2] = w[1] - w[2] \/ m[1] + m[2] = w[1] + w[2]
           => m = w
    BY DEF Askew
  <2>3. /\ row(stepped(s, m)) = row(s) + m[1] /\ col(stepped(s, m)) = col(s) + m[2]
        /\ row(stepped(s, w)) = row(s) + w[1] /\ col(stepped(s, w)) = col(s) + w[2]
    <3>1. line \subseteq Square
      BY DEF CheckedAlong
    <3> QED
      BY <2>2, <3>1, SteppedIs
  <2> HIDE DEF k
  <2>4. PICK n \in 1 .. reachOf(k, d) : stepped(s, m) = ray[k][d][n]
    BY <1>2 DEF squaresOn, k
  <2>5. PICK e \in 1 .. reachOf(k, d) : stepped(s, w) = ray[k][d][e]
    BY <1>2 DEF squaresOn, k
  <2>6. /\ row(s) + m[1] = row(k) + n * d[1] /\ col(s) + m[2] = col(k) + n * d[2]
        /\ row(s) + w[1] = row(k) + e * d[1] /\ col(s) + w[2] = col(k) + e * d[2]
    BY <2>1, <2>3, <2>4, <2>5, RayIs
  <2> DEFINE r == row(s)
  <2> DEFINE c == col(s)
  <2> DEFINE x == row(k)
  <2> DEFINE y == col(k)
  <2>7. r \in Int /\ c \in Int /\ x \in Int /\ y \in Int /\ n \in Int /\ e \in Int
    <3>1. s \in Place /\ reachOf(k, d) \in Int
      BY <2>1, Reaches DEF Place
    <3>2. \A p \in Place : row(p) \in Int /\ col(p) \in Int
      BY Coordinates, OffBoard DEF Place
    <3> QED
      BY <2>1, <3>1, <3>2
  <2>8. d[1] \in {-1, 0, 1} /\ d[2] \in {-1, 0, 1}
    BY DirectionSteps
  <2>9. /\ r + m[1] = x + n * d[1] /\ c + m[2] = y + n * d[2]
        /\ r + w[1] = x + e * d[1] /\ c + w[2] = y + e * d[2]
    BY <2>6
  <2> HIDE DEF r, c, x, y
  <2>10. CASE d[1] = 0
    BY <2>2, <2>7, <2>9, <2>10
  <2>11. CASE d[2] = 0
    BY <2>2, <2>7, <2>9, <2>11
  <2>12. CASE d[1] = d[2] /\ d[1] # 0
    <3>1. CASE d[1] = 1
      BY <2>2, <2>7, <2>9, <2>12, <3>1
    <3>2. CASE d[1] = -1
      BY <2>2, <2>7, <2>9, <2>12, <3>2
    <3> QED
      BY <2>8, <2>12, <3>1, <3>2
  <2>13. CASE d[1] # d[2] /\ d[1] # 0 /\ d[2] # 0
    <3>1. CASE d[1] = 1 /\ d[2] = -1
      BY <2>2, <2>7, <2>9, <3>1
    <3>2. CASE d[1] = -1 /\ d[2] = 1
      BY <2>2, <2>7, <2>9, <3>2
    <3> QED
      BY <2>8, <2>13, <3>1, <3>2
  <2> QED
    BY <2>10, <2>11, <2>12, <2>13
<1> QED
  BY <1>1, <1>2 DEF CheckedAlong

\* Of a knight's squares no more than five are on a line.
LEMMA FewKnightSquares ==
  ASSUME NEW b, BoardOK(b), NEW color \in Color, NEW id, NEW line,
         CheckedAlong(b, color, id, line), NEW s \in Square
  PROVE  \E f : \A m \in KnightStep : stepped(s, m) \in line =>
            \E j \in 1 .. 5 : stepped(s, m) = f[j]
<1> DEFINE q == IF \E m \in Askew : stepped(s, m) \in line
                THEN CHOOSE m \in Askew : stepped(s, m) \in line ELSE <<2, 1>>
<1> DEFINE f == <<stepped(s, q), stepped(s, <<1, 2>>), stepped(s, <<2, -1>>),
                  stepped(s, <<-2, 1>>), stepped(s, <<-1, -2>>)>>
<1>1. \A m \in KnightStep : \/ m \in Askew
                            \/ m = <<1, 2>> \/ m = <<2, -1>> \/ m = <<-2, 1>> \/ m = <<-1, -2>>
  BY DEF KnightStep, Askew
<1>2. ASSUME NEW m \in Askew, stepped(s, m) \in line
      PROVE  stepped(s, m) = stepped(s, q)
  <2>1. q \in Askew /\ stepped(s, q) \in line
    BY <1>2
  <2> HIDE DEF q
  <2> QED
    BY <1>2, <2>1, OneAskew
<1>3. /\ f[1] = stepped(s, q) /\ f[2] = stepped(s, <<1, 2>>) /\ f[3] = stepped(s, <<2, -1>>)
      /\ f[4] = stepped(s, <<-2, 1>>) /\ f[5] = stepped(s, <<-1, -2>>)
      /\ 1 \in 1 .. 5 /\ 2 \in 1 .. 5 /\ 3 \in 1 .. 5 /\ 4 \in 1 .. 5 /\ 5 \in 1 .. 5
  OBVIOUS
<1> HIDE DEF f, q
<1>4. \A m \in KnightStep : stepped(s, m) \in line => \E j \in 1 .. 5 : stepped(s, m) = f[j]
  <2> TAKE m \in KnightStep
  <2> HAVE stepped(s, m) \in line
  <2>1. CASE m \in Askew
    BY <1>2, <1>3, <2>1
  <2>2. CASE m \notin Askew
    BY <1>1, <1>3, <2>2
  <2> QED
    BY <2>1, <2>2
<1> QED
  BY <1>4

\* A pawn has three targets on a line at most, a knight five.
LEMMA PawnAndKnight ==
  ASSUME NEW b, BoardOK(b), NEW color \in Color, NEW id, NEW line,
         CheckedAlong(b, color, id, line), NEW e \in inPlay(b)
  PROVE  /\ b.piece[e].type = "PAWN" =>
               \E f : \A t \in targets(b, e) \cap line : \E j \in 1 .. 3 : t = f[j]
         /\ b.piece[e].type = "KNIGHT" =>
               \E f : \A t \in targets(b, e) \cap line : \E j \in 1 .. 5 : t = f[j]
<1> DEFINE s == b.piece[e].position
<1>1. Standing(b, e) /\ e \in ID /\ s \in Square
  BY InPlayStanding DEF Standing
<1>2. PICK u \in line : \A t \in line : u # t => b.at[t] = EMPTY
  BY DEF CheckedAlong
<1>3. ASSUME b.piece[e].type = "PAWN"
      PROVE  \E f : \A t \in targets(b, e) \cap line : \E j \in 1 .. 3 : t = f[j]
  <2> DEFINE a == pawnAdvances(s, getColor(e))
  <2> DEFINE f == <<a[1], a[2], u>>
  <2>1. Range(a) = {a[1], a[2]}
    <3>1. DOMAIN a = {1, 2}
      BY DEF pawnAdvances
    <3> HIDE DEF a
    <3> QED
      BY <3>1 DEF Range
  <2>2. targets(b, e) = {t \in Square \cap Range(a) : b.at[t] = EMPTY}
           \cup {t \in bearing(b, e) : getColor(b.at[t]) = otherColor(getColor(e))}
    BY <1>3 DEF targets
  <2>3. getColor(EMPTY) # otherColor(getColor(e))
    BY <1>1, IdColor DEF getColor, otherColor, EMPTY, Color
  <2> HIDE DEF a
  <2>4. f[1] = a[1] /\ f[2] = a[2] /\ f[3] = u /\ 1 \in 1 .. 3 /\ 2 \in 1 .. 3 /\ 3 \in 1 .. 3
    OBVIOUS
  <2> HIDE DEF f
  <2>5. \A t \in targets(b, e) \cap line : t \in {a[1], a[2], u}
    BY <2>1, <2>2, <2>3, <1>2
  <2> QED
    BY <2>4, <2>5
<1>4. ASSUME b.piece[e].type = "KNIGHT"
      PROVE  \E f : \A t \in targets(b, e) \cap line : \E j \in 1 .. 5 : t = f[j]
  <2>1. targets(b, e) \subseteq bearing(b, e)
    BY <1>4 DEF targets
  <2>2. bearing(b, e) = Range(stepsFrom(s, knightSteps)) \ {NoSquare}
    BY <1>4 DEF bearing
  <2> HIDE DEF s
  <2>3. Range(stepsFrom(s, knightSteps)) \ {NoSquare}
          = {stepped(s, m) : m \in KnightStep} \cap Square
    BY <1>1, StepLists, StepsProper
  <2>4. PICK f : \A m \in KnightStep : stepped(s, m) \in line =>
                    \E j \in 1 .. 5 : stepped(s, m) = f[j]
    BY <1>1, FewKnightSquares
  <2>5. \A t \in targets(b, e) : \E m \in KnightStep : t = stepped(s, m)
    BY <2>1, <2>2, <2>3
  <2> QED
    BY <2>4, <2>5
<1> QED
  BY <1>3, <1>4

\* The kings are W_KING and B_KING.
LEMMA NotAKing ==
  ASSUME NEW b, BoardOK(b), NEW id \in ID, id \notin {8, 24}
  PROVE  b.piece[id].type # "KING"
<1>1. homeType[id] # "KING"
  <2>1. (id - 1) % 16 \in 0 .. 15 /\ (id - 1) % 16 # 7
    BY DEF ID
  <2>2. homeType[id] = IF (id - 1) % 16 < 8
                       THEN <<"ROOK", "ROOK", "KNIGHT", "KNIGHT", "BISHOP", "BISHOP",
                              "QUEEN", "KING">>[((id - 1) % 16) + 1]
                       ELSE "PAWN"
    BY DEF homeType
  <2> DEFINE n == (id - 1) % 16
  <2>3. n \in 0 .. 15 /\ n # 7
    BY <2>1
  <2>4. homeType[id] = IF n < 8
                       THEN <<"ROOK", "ROOK", "KNIGHT", "KNIGHT", "BISHOP", "BISHOP",
                              "QUEEN", "KING">>[n + 1]
                       ELSE "PAWN"
    BY <2>2
  <2> HIDE DEF n
  <2>5. n < 8 => n \in {0, 1, 2, 3, 4, 5, 6}
    BY <2>3
  <2> QED
    BY <2>3, <2>4, <2>5
<1>2. b.piece[id].type # homeType[id] => b.piece[id].type \in promotions
  BY DEF BoardOK, Suited
<1> QED
  BY <1>1, <1>2 DEF promotions

\* No list but a king's is wholly on the line of a check when it is nearly full.
LEMMA RoomyList ==
  ASSUME NEW b, BoardOK(b), NEW color \in Color, NEW g \in Gens(b),
         CheckedAlong(b, color, g.checkedId, g.line), NEW id \in ID, id \notin {8, 24},
         NEW S, S \subseteq own(b)[id], TidyAt(b, g, id, S)
  PROVE  Roomy(b, g, id)
<1> SUFFICES ASSUME ~Roomy(b, g, id) PROVE FALSE
  OBVIOUS
<1> DEFINE N == g.movesIdx[id]
<1> DEFINE res == b.piece[id].reserved
<1> DEFINE r == [i \in 0 .. N - 1 |-> g.moves[b.moveOffset[id] + i]]
<1> DEFINE type == b.piece[id].type
<1>1. /\ res = reservedForType[type] /\ type \in Type /\ res \in 5 .. 27 /\ N \in Nat /\ N <= res
      /\ type # "KING"
  BY FieldsOf, NotAKing DEF TidyAt, Tidy
<1>2. /\ N >= res - 1
      /\ \A i \in 0 .. N - 1 : r[i] \in S \cap g.line
      /\ \A i, j \in 0 .. N - 1 : i # j => r[i] # r[j]
  <2>3. ~(N < res - 1)
    BY DEF Roomy
  <2>4. \A i \in 0 .. N - 1 : g.moves[b.moveOffset[id] + i] \in g.line
    BY DEF Roomy
  <2>1. N >= res - 1 /\ \A i \in 0 .. N - 1 : r[i] \in g.line
    <3>1. \A i \in 0 .. N - 1 : r[i] = g.moves[b.moveOffset[id] + i]
      OBVIOUS
    <3> HIDE DEF N, res, r
    <3> QED
      BY <1>1, <2>3, <2>4, <3>1
  <2>2. /\ \A i \in 0 .. N - 1 : r[i] \in S
        /\ \A i, j \in 0 .. N - 1 : i # j => r[i] # r[j]
    BY DEF TidyAt, Tidy
  <2> QED
    BY <2>1, <2>2
<1> HIDE DEF N, res, r, type
<1>3. id \in inPlay(b) /\ S \subseteq targets(b, id)
  <2>1. 0 \in 0 .. N - 1
    BY <1>1, <1>2
  <2>2. own(b)[id] # {}
    BY <1>2, <2>1
  <2> QED
    BY <2>2 DEF own
<1>4. CASE type = "PAWN"
  <2>1. res = 5
    BY <1>1, <1>4 DEF reservedForType
  <2>2. PICK f : \A t \in targets(b, id) \cap g.line : \E j \in 1 .. 3 : t = f[j]
    BY <1>3, <1>4, PawnAndKnight DEF type
  <2>3. \A i \in 0 .. N - 1 : \E j \in 1 .. 3 : r[i] = f[j]
    BY <1>2, <1>3, <2>2
  <2>4. 3 \in Nat /\ 3 < N
    BY <1>1, <1>2, <2>1
  <2> QED
    BY <1>1, <1>2, <2>3, <2>4, TooMany
<1>5. CASE type = "KNIGHT"
  <2>1. res = 8
    BY <1>1, <1>5 DEF reservedForType
  <2>2. PICK f : \A t \in targets(b, id) \cap g.line : \E j \in 1 .. 5 : t = f[j]
    BY <1>3, <1>5, PawnAndKnight DEF type
  <2>3. \A i \in 0 .. N - 1 : \E j \in 1 .. 5 : r[i] = f[j]
    BY <1>2, <1>3, <2>2
  <2>4. 5 \in Nat /\ 5 < N
    BY <1>1, <1>2, <2>1
  <2> QED
    BY <1>1, <1>2, <2>3, <2>4, TooMany
<1>6. CASE type \in {"BISHOP", "ROOK", "QUEEN"}
  <2>1. res >= 13
    BY <1>1, <1>6 DEF reservedForType
  <2>2. PICK f : \A t \in g.line : \E j \in 1 .. 8 : t = f[j]
    BY FewOnLine
  <2>3. \A i \in 0 .. N - 1 : \E j \in 1 .. 8 : r[i] = f[j]
    BY <1>2, <2>2
  <2>4. 8 \in Nat /\ 8 < N
    BY <1>1, <1>2, <2>1
  <2> QED
    BY <1>1, <1>2, <2>3, <2>4, TooMany
<1> QED
  BY <1>1, <1>4, <1>5, <1>6 DEF Type

-----------------------------------------------------------------------------
(* filterChecked over all the lists                                        *)

\* A piece with a move in every slot, and one whose predecessor in the array is
\* such a piece.
Full(b, id) == id \in inPlay(b) /\ Len(addMoves(b, id)) = b.piece[id].reserved
behindFull(b, id) == id > 1 /\ Full(b, id - 1)

\* The last of a piece's slots.
lastSlot(b, id) == b.moveOffset[id] + b.piece[id].reserved - 1

\* Unless a piece's list was full, its last slot is empty.
LEMMA LastSlotEmpty ==
  ASSUME NEW b, BoardOK(b), NEW color, NEW g, Emptier(b, generated(b, color), g),
         NEW id \in ID, ~Full(b, id)
  PROVE  g.moves[lastSlot(b, id)] = NoSquare
<1> DEFINE N == generated(b, color).movesIdx[id]
<1> DEFINE res == b.piece[id].reserved
<1>1. res \in 5 .. 27 /\ b.moveOffset[id] \in Nat
  BY FieldsOf
<1>2. Tidy(generated(b, color).moves, b.moveOffset[id], N, res, own(b)[id])
  BY GeneratedLists DEF Lists, TidyAt
<1>3. N < res
  <2>1. N \in 0 .. res
    BY <1>2 DEF Tidy
  <2>2. CASE id \in inPlay(b)
    <3>1. N = Len(addMoves(b, id))
      BY <2>2, GeneratedLists
    <3>2. N # res
      BY <2>2, <3>1 DEF Full
    <3> HIDE DEF N, res
    <3> QED
      BY <1>1, <2>1, <3>2
  <2>3. CASE id \notin inPlay(b)
    <3>1. N = 0
      BY <2>3 DEF generated
    <3> HIDE DEF N, res
    <3> QED
      BY <1>1, <3>1
  <2> QED
    BY <2>2, <2>3
<1>4. generated(b, color).moves[b.moveOffset[id] + (res - 1)] = NoSquare
  <2> HIDE DEF N, res
  <2>1. N \in 0 .. res
    BY <1>2 DEF Tidy
  <2>2. res - 1 \in N .. res - 1
    BY <1>1, <1>3, <2>1
  <2> QED
    BY <1>2, <2>2 DEF Tidy
<1>5. b.moveOffset[id] + (res - 1) \in Slots(b)
  BY <1>1, InSlots
<1>6. lastSlot(b, id) = b.moveOffset[id] + (res - 1)
  <2> HIDE DEF res
  <2>1. lastSlot(b, id) = b.moveOffset[id] + res - 1
    BY DEF lastSlot, res
  <2> QED
    BY <1>1, <2>1
<1> QED
  BY <1>4, <1>5, <1>6 DEF Emptier

\* The slot before a list is the last one of the list before, or nobody's.
LEMMA SlotBefore ==
  ASSUME NEW b, BoardOK(b), NEW color, NEW g, Holding(b, g),
         Emptier(b, generated(b, color), g), NEW id \in ID, ~behindFull(b, id),
         b.moveOffset[id] > 0
  PROVE  g.moves[b.moveOffset[id] - 1] = NoSquare
<1> DEFINE k == b.moveOffset[id] - 1
<1> SUFFICES ASSUME g.moves[k] # NoSquare PROVE FALSE
  OBVIOUS
<1>1. k \in Slots(b) /\ k \in Nat /\ k + 1 = b.moveOffset[id]
  <2>1. b.moveOffset[id] \in Nat /\ b.piece[id].reserved \in 5 .. 27 /\ b.size \in Nat
        /\ b.moveOffset[id] + b.piece[id].reserved <= b.size
    BY FieldsOf, BlocksApart
  <2> QED
    BY <2>1 DEF Slots
<1>2. PICK e \in ID : k - b.moveOffset[e] \in 0 .. b.piece[e].reserved - 1
  BY <1>1 DEF Holding, Owned
<1> HIDE DEF k
<1>3. /\ b.moveOffset[e] \in Nat /\ b.piece[e].reserved \in 5 .. 27 /\ b.moveOffset[id] \in Nat
      /\ b.piece[id].reserved \in 5 .. 27
  BY FieldsOf
<1>4. e < id
  <2>1. e # id
    BY <1>1, <1>2, <1>3
  <2>2. CASE id < e
    <3>1. b.moveOffset[id] + b.piece[id].reserved <= b.moveOffset[e]
      BY <2>2, BlocksApart
    <3> QED
      BY <1>1, <1>2, <1>3, <3>1
  <2> QED
    BY <2>1, <2>2 DEF ID
<1>5. e = id - 1
  <2> SUFFICES ASSUME e < id - 1 PROVE FALSE
    BY <1>4 DEF ID
  <2>1. id - 1 \in ID /\ id - 1 < id
    BY <1>4 DEF ID
  <2>2. /\ b.moveOffset[e] + b.piece[e].reserved <= b.moveOffset[id - 1]
        /\ b.moveOffset[id - 1] + b.piece[id - 1].reserved <= b.moveOffset[id]
    BY <2>1, BlocksApart
  <2>3. b.moveOffset[id - 1] \in Nat /\ b.piece[id - 1].reserved \in 5 .. 27
    BY <2>1, FieldsOf
  <2> QED
    BY <1>1, <1>2, <1>3, <2>2, <2>3
<1>6. ~Full(b, e) /\ k = lastSlot(b, e)
  <2>1. id > 1
    BY <1>4 DEF ID
  <2>2. b.moveOffset[e] + b.piece[e].reserved <= b.moveOffset[id]
    BY <1>4, BlocksApart
  <2>3. b.moveOffset[e] + b.piece[e].reserved = b.moveOffset[id]
    BY <1>1, <1>2, <1>3, <2>2
  <2> QED
    BY <1>1, <1>3, <1>5, <2>1, <2>3 DEF behindFull, lastSlot
<1> QED
  BY <1>6, LastSlotEmpty

\* Outside its own list filterChecked clears the end of a full list before it,
\* or the first slot behind it when it is full itself.
Spares(b, g, id, h) ==
    \A e \in ID \ {id} : \A i \in 0 .. b.piece[e].reserved - 1 :
       \/ h.moves[b.moveOffset[e] + i] = g.moves[b.moveOffset[e] + i]
       \/ /\ h.moves[b.moveOffset[e] + i] = NoSquare
          /\ \/ e < id /\ Full(b, e)
             \/ e = id + 1 /\ i = 0 /\ Full(b, id)

\* filterChecked spares the rest.
LEMMA Spared ==
  ASSUME NEW b, BoardOK(b), NEW color, NEW g, Emptier(b, generated(b, color), g),
         NEW id \in ID, NEW h, Answers(b, g, id, h),
         g.movesIdx[id] = b.piece[id].reserved => Full(b, id)
  PROVE  Spares(b, g, id, h)
<1> SUFFICES ASSUME NEW e \in ID \ {id}, NEW i \in 0 .. b.piece[e].reserved - 1,
                    h.moves[b.moveOffset[e] + i] # g.moves[b.moveOffset[e] + i]
             PROVE  /\ h.moves[b.moveOffset[e] + i] = NoSquare
                    /\ \/ e < id /\ Full(b, e)
                       \/ e = id + 1 /\ i = 0 /\ Full(b, id)
  BY DEF Spares
<1> DEFINE k == b.moveOffset[e] + i
<1>1. k \in Slots(b) /\ k \in Int /\ k - b.moveOffset[e] = i /\ i \in Nat
  BY InSlots, FieldsOf DEF Slots
<1>2. h.moves[k] # g.moves[k]
  OBVIOUS
<1> HIDE DEF k
<1>3. k - b.moveOffset[id] \notin 0 .. b.piece[id].reserved - 1
  BY <1>1, OneOwner
<1>4. /\ h.moves[k] = NoSquare
      /\ \/ /\ k < b.moveOffset[id]
            /\ \A m \in k .. b.moveOffset[id] - 1 : g.moves[m] # NoSquare
         \/ /\ k = b.moveOffset[id] + b.piece[id].reserved
            /\ g.movesIdx[id] = b.piece[id].reserved
  BY <1>1, <1>2, <1>3 DEF Answers
<1>5. /\ b.moveOffset[e] \in Nat /\ b.piece[e].reserved \in 5 .. 27 /\ b.moveOffset[id] \in Nat
      /\ b.piece[id].reserved \in 5 .. 27
  BY FieldsOf
<1>6. CASE k < b.moveOffset[id] /\ \A m \in k .. b.moveOffset[id] - 1 : g.moves[m] # NoSquare
  <2>1. e < id
    <3> SUFFICES ASSUME id < e PROVE FALSE
      BY DEF ID
    <3>1. b.moveOffset[id] + b.piece[id].reserved <= b.moveOffset[e]
      BY BlocksApart
    <3> QED
      BY <1>1, <1>5, <1>6, <3>1
  <2>2. b.moveOffset[e] + b.piece[e].reserved <= b.moveOffset[id]
    BY <2>1, BlocksApart
  <2>3. lastSlot(b, e) \in k .. b.moveOffset[id] - 1
    <3>1. lastSlot(b, e) = b.moveOffset[e] + b.piece[e].reserved - 1
      BY DEF lastSlot
    <3> QED
      BY <1>1, <1>5, <2>2, <3>1
  <2>4. Full(b, e)
    BY <1>6, <2>3, LastSlotEmpty
  <2> QED
    BY <1>4, <2>1, <2>4 DEF k
<1>7. CASE k = b.moveOffset[id] + b.piece[id].reserved /\ g.movesIdx[id] = b.piece[id].reserved
  <2>1. id < e
    <3> SUFFICES ASSUME e < id PROVE FALSE
      BY DEF ID
    <3>1. b.moveOffset[e] + b.piece[e].reserved <= b.moveOffset[id]
      BY BlocksApart
    <3> QED
      BY <1>1, <1>5, <1>7, <3>1
  <2>2. e = id + 1
    <3> SUFFICES ASSUME id + 1 < e PROVE FALSE
      BY <2>1 DEF ID
    <3>1. id + 1 \in ID /\ id < id + 1
      BY DEF ID
    <3>2. /\ b.moveOffset[id] + b.piece[id].reserved <= b.moveOffset[id + 1]
          /\ b.moveOffset[id + 1] + b.piece[id + 1].reserved <= b.moveOffset[e]
      BY <3>1, BlocksApart
    <3>3. b.moveOffset[id + 1] \in Nat /\ b.piece[id + 1].reserved \in 5 .. 27
      BY <3>1, FieldsOf
    <3> QED
      BY <1>1, <1>5, <1>7, <3>2, <3>3
  <2>3. b.moveOffset[id] + b.piece[id].reserved <= b.moveOffset[e]
    BY <2>1, BlocksApart
  <2>4. i = 0
    BY <1>1, <1>5, <1>7, <2>3
  <2> QED
    BY <1>4, <1>7, <2>2, <2>4 DEF k
<1> QED
  BY <1>4, <1>6, <1>7

\* A list that filterChecked has not come to, or leaves out: some of its slots
\* may have been cleared.
Bared(b, g0, g, id) ==
    /\ g.movesIdx[id] = g0.movesIdx[id]
    /\ \A i \in 0 .. b.piece[id].reserved - 1 :
          g.moves[b.moveOffset[id] + i] \in {g0.moves[b.moveOffset[id] + i], NoSquare}

\* Before filterChecked comes to it: only its first slot may have been.
Waits(b, g0, g, id, S) ==
    /\ Bared(b, g0, g, id)
    /\ \/ TidyAt(b, g, id, S)
       \/ behindFull(b, id) /\ g.moves[b.moveOffset[id]] = NoSquare

\* A list that filterChecked leaves out.
PassedBy(b, g0, g, id, S) ==
    /\ Bared(b, g0, g, id)
    /\ behindFull(b, id) \/ Full(b, id) \/ TidyAt(b, g, id, S)

\* A list that filterChecked has been through.
Filtered(b, g, id, S) ==
    /\ \A i \in 0 .. g.movesIdx[id] - 1 :
          g.moves[b.moveOffset[id] + i] \in g.line \cup {NoSquare}
    /\ ~behindFull(b, id) =>
         /\ \A i \in 0 .. b.piece[id].reserved - 1 :
               g.moves[b.moveOffset[id] + i] \in S \cup {NoSquare}
         /\ Vacant(g.moves, b.moveOffset[id], g.movesIdx[id], b.piece[id].reserved - 1)
         /\ ~Full(b, id) =>
              \A t \in S \cap g.line : \E i \in 0 .. g.movesIdx[id] - 1 :
                 g.moves[b.moveOffset[id] + i] = t

\* A list when filterChecked has been through the first n.
Progress(b, g0, g, n, id, S) ==
    IF id <= n
    THEN IF id \in {8, 24, g0.checkedId} THEN PassedBy(b, g0, g, id, S)
         ELSE Filtered(b, g, id, S)
    ELSE Waits(b, g0, g, id, S)

\* Where no slot of a list changes, nor its count.
LEMMA SameList ==
  ASSUME NEW b, BoardOK(b), NEW g, NEW h, NEW id \in ID, Holding(b, g),
         h.movesIdx[id] = g.movesIdx[id], h.line = g.line,
         \A i \in 0 .. b.piece[id].reserved - 1 :
            h.moves[b.moveOffset[id] + i] = g.moves[b.moveOffset[id] + i],
         NEW S, NEW g0
  PROVE  /\ Bared(b, g0, g, id) => Bared(b, g0, h, id)
         /\ TidyAt(b, g, id, S) => TidyAt(b, h, id, S)
         /\ Filtered(b, g, id, S) => Filtered(b, h, id, S)
         /\ h.moves[b.moveOffset[id]] = g.moves[b.moveOffset[id]]
<1> DEFINE o == b.moveOffset[id]
<1> DEFINE res == b.piece[id].reserved
<1> DEFINE N == g.movesIdx[id]
<1>1. o \in Nat /\ res \in 5 .. 27 /\ N \in Nat /\ N <= res
  BY FieldsOf DEF Holding
<1>2. \A i \in 0 .. res - 1 : h.moves[o + i] = g.moves[o + i]
  OBVIOUS
<1>3. h.movesIdx[id] = N /\ h.line = g.line
  OBVIOUS
<1>4. Bared(b, g0, g, id) => Bared(b, g0, h, id)
  BY DEF Bared
<1> HIDE DEF o, res, N
<1>5. \A i \in 0 .. N - 1 : h.moves[o + i] = g.moves[o + i]
  BY <1>1, <1>2
<1>6. \A i \in N .. res - 1 : h.moves[o + i] = g.moves[o + i]
  BY <1>1, <1>2
<1>7. Tidy(g.moves, o, N, res, S) => Tidy(h.moves, o, N, res, S)
  BY <1>5, <1>6 DEF Tidy
<1>8. TidyAt(b, g, id, S) => TidyAt(b, h, id, S)
  BY <1>3, <1>7 DEF TidyAt, o, res, N
<1>9. Filtered(b, g, id, S) => Filtered(b, h, id, S)
  <2>1. g.movesIdx[id] = N /\ b.moveOffset[id] = o /\ b.piece[id].reserved = res
    BY DEF N, o, res
  <2> QED
    BY <1>2, <1>3, <1>5, <1>6, <2>1 DEF Filtered, Vacant
<1>10. h.moves[o] = g.moves[o]
  <2>1. 0 \in 0 .. res - 1 /\ o + 0 = o
    BY <1>1
  <2> QED
    BY <1>2, <2>1
<1> QED
  BY <1>4, <1>8, <1>9, <1>10 DEF o

\* The other lists, when one is filtered.
LEMMA OthersProgress ==
  ASSUME NEW b, BoardOK(b), NEW g0, NEW g, NEW h, Holding(b, g), NEW id \in ID,
         Answers(b, g, id, h), Spares(b, g, id, h), NEW e \in ID \ {id}, NEW S
  PROVE  /\ e > id /\ Waits(b, g0, g, e, S) => Waits(b, g0, h, e, S)
         /\ e < id /\ PassedBy(b, g0, g, e, S) => PassedBy(b, g0, h, e, S)
         /\ e < id /\ Filtered(b, g, e, S) => Filtered(b, h, e, S)
<1> DEFINE o == b.moveOffset[e]
<1> DEFINE res == b.piece[e].reserved
<1>1. o \in Nat /\ res \in 5 .. 27 /\ g.movesIdx[e] \in Nat /\ g.movesIdx[e] <= res
  BY FieldsOf DEF Holding
<1>2. h.movesIdx[e] = g.movesIdx[e] /\ h.line = g.line
  BY DEF Answers, SameCall
<1>3. \A i \in 0 .. res - 1 :
         \/ h.moves[o + i] = g.moves[o + i]
         \/ /\ h.moves[o + i] = NoSquare
            /\ \/ e < id /\ Full(b, e)
               \/ e = id + 1 /\ i = 0 /\ Full(b, id)
  BY DEF Spares
<1> HIDE DEF o, res
<1>4. Bared(b, g0, g, e) => Bared(b, g0, h, e)
  BY <1>2, <1>3 DEF Bared, o, res
<1>5. CASE \A i \in 0 .. res - 1 : h.moves[o + i] = g.moves[o + i]
  <2>1. \A i \in 0 .. b.piece[e].reserved - 1 :
            h.moves[b.moveOffset[e] + i] = g.moves[b.moveOffset[e] + i]
    BY <1>5 DEF o, res
  <2>2. /\ TidyAt(b, g, e, S) => TidyAt(b, h, e, S)
        /\ Filtered(b, g, e, S) => Filtered(b, h, e, S)
        /\ h.moves[b.moveOffset[e]] = g.moves[b.moveOffset[e]]
    BY <1>2, <2>1, SameList
  <2> QED
    BY <1>4, <2>2 DEF Waits, PassedBy
<1>6. ASSUME NEW i \in 0 .. res - 1, h.moves[o + i] # g.moves[o + i] PROVE
         /\ e > id => h.moves[o] = NoSquare /\ behindFull(b, e)
         /\ e < id => Full(b, e)
  <2>1. CASE e < id /\ Full(b, e)
    BY <2>1 DEF ID
  <2>2. CASE e = id + 1 /\ i = 0 /\ Full(b, id)
    <3>1. o + i = o /\ e > 1 /\ e - 1 = id /\ ~(e < id)
      BY <2>2, <1>1 DEF ID
    <3> QED
      BY <2>2, <3>1, <1>3, <1>6 DEF behindFull
  <2> QED
    BY <2>1, <2>2, <1>3, <1>6
<1>7. CASE \E i \in 0 .. res - 1 : h.moves[o + i] # g.moves[o + i]
  <2>1. /\ e > id => h.moves[o] = NoSquare /\ behindFull(b, e)
        /\ e < id => Full(b, e)
    BY <1>6, <1>7
  <2>2. e > id /\ Waits(b, g0, g, e, S) => Waits(b, g0, h, e, S)
    BY <1>4, <2>1 DEF Waits, o
  <2>3. e < id /\ PassedBy(b, g0, g, e, S) => PassedBy(b, g0, h, e, S)
    BY <1>4, <2>1 DEF PassedBy
  <2>4. ASSUME e < id, Filtered(b, g, e, S) PROVE Filtered(b, h, e, S)
    <3> DEFINE N == g.movesIdx[e]
    <3>1. /\ \A i \in 0 .. N - 1 : g.moves[o + i] \in g.line \cup {NoSquare}
          /\ ~behindFull(b, e) =>
               /\ \A i \in 0 .. res - 1 : g.moves[o + i] \in S \cup {NoSquare}
               /\ \A i \in N .. res - 1 : g.moves[o + i] = NoSquare
      BY <2>4 DEF Filtered, Vacant, o, res
    <3>2. h.movesIdx[e] = N /\ N \in Nat /\ N <= res
      BY <1>1, <1>2
    <3> HIDE DEF N
    <3>3. \A i \in 0 .. N - 1 : i \in 0 .. res - 1
      BY <1>1, <3>2
    <3>4. \A i \in N .. res - 1 : i \in 0 .. res - 1
      BY <1>1, <3>2
    <3>5. \A i \in 0 .. N - 1 : h.moves[o + i] \in h.line \cup {NoSquare}
      BY <1>2, <1>3, <3>1, <3>3
    <3>6. ~behindFull(b, e) =>
               /\ \A i \in 0 .. res - 1 : h.moves[o + i] \in S \cup {NoSquare}
               /\ \A i \in N .. res - 1 : h.moves[o + i] = NoSquare
      <4> HAVE ~behindFull(b, e)
      <4>1. \A i \in 0 .. res - 1 : h.moves[o + i] \in S \cup {NoSquare}
        BY <1>3, <3>1
      <4>2. \A i \in N .. res - 1 : h.moves[o + i] = NoSquare
        BY <1>3, <3>1, <3>4
      <4> QED
        BY <4>1, <4>2
    <3>7. Full(b, e)
      BY <2>1, <2>4
    <3> QED
      BY <3>2, <3>5, <3>6, <3>7 DEF Filtered, Vacant, o, res
  <2> QED
    BY <2>2, <2>3, <2>4
<1> QED
  BY <1>5, <1>7

\* The list itself.
LEMMA OwnProgress ==
  ASSUME NEW b, BoardOK(b), NEW color \in Color, NEW g0, NEW g \in Gens(b), Holding(b, g),
         Emptier(b, generated(b, color), g), CheckedAlong(b, color, g.checkedId, g.line),
         NEW id \in ID, id \notin {8, 24}, NEW S, S \subseteq own(b)[id],
         Waits(b, g0, g, id, S), TidyAt(b, g0, id, S), Emptier(b, generated(b, color), g0),
         NEW h, h = answered(b, g, id)
  PROVE  /\ Answers(b, g, id, h) /\ Spares(b, g, id, h)
         /\ Filtered(b, h, id, S)
<1> DEFINE res == b.piece[id].reserved
<1>1. S \subseteq Square
  BY OwnSquares
<1>2. \/ g.moves[b.moveOffset[id]] = NoSquare
      \/ TidyAt(b, g, id, S) /\ Roomy(b, g, id)
  BY RoomyList DEF Waits
<1>3. Answers(b, g, id, h)
  BY <1>1, <1>2, Answered
<1>4. ASSUME g.movesIdx[id] = res PROVE Full(b, id)
  <2> SUFFICES ASSUME ~Full(b, id) PROVE FALSE
    OBVIOUS
  <2>1. res \in 5 .. 27 /\ b.moveOffset[id] \in Nat
    BY FieldsOf
  <2>2. g0.movesIdx[id] = res
    BY <1>4 DEF Waits, Bared
  <2>3. g0.moves[b.moveOffset[id] + (res - 1)] \in S
    <3> HIDE DEF res
    <3>1. res - 1 \in 0 .. res - 1
      BY <2>1
    <3> QED
      BY <2>2, <3>1 DEF TidyAt, Tidy
  <2>4. lastSlot(b, id) = b.moveOffset[id] + (res - 1)
    <3>1. lastSlot(b, id) = b.moveOffset[id] + res - 1
      BY DEF lastSlot
    <3> HIDE DEF res
    <3> QED
      BY <2>1, <3>1
  <2>5. g0.moves[lastSlot(b, id)] = NoSquare
    BY LastSlotEmpty
  <2> QED
    BY <1>1, <2>3, <2>4, <2>5, OffBoard
<1>5. Spares(b, g, id, h)
  BY <1>3, <1>4, Spared
<1>6. ~behindFull(b, id) => AnswersAlone(b, g, id, S, h)
  <2> HAVE ~behindFull(b, id)
  <2>1. TidyAt(b, g, id, S)
    BY DEF Waits
  <2>2. Roomy(b, g, id)
    BY <2>1, RoomyList
  <2>3. b.moveOffset[id] > 0 => g.moves[b.moveOffset[id] - 1] = NoSquare
    BY SlotBefore
  <2> QED
    BY <1>1, <2>1, <2>2, <2>3, AnsweredAlone
<1>7. Filtered(b, h, id, S)
  <2>1. h.line = g.line
    BY <1>3 DEF Answers, SameCall
  <2>2. \A i \in 0 .. h.movesIdx[id] - 1 :
           h.moves[b.moveOffset[id] + i] \in h.line \cup {NoSquare}
    BY <1>3, <2>1 DEF Answers
  <2> QED
    BY <1>6, <2>1, <2>2 DEF AnswersAlone, Filtered
<1> QED
  BY <1>3, <1>5, <1>7

\* The move array when filterChecked has been through the first n pieces.
Through(b, color, g0, U, n, g) ==
    /\ g \in Gens(b) /\ Holding(b, g) /\ SameCall(g0, g)
    /\ Emptier(b, generated(b, color), g)
    /\ \A id \in ID : Progress(b, g0, g, n, id, U[id])

\* What it starts from.
Unchecked(b, color, g0, U) ==
    /\ g0 \in Gens(b) /\ Lists(b, g0, U) /\ Emptier(b, generated(b, color), g0)
    /\ CheckedAlong(b, color, g0.checkedId, g0.line)
    /\ \A id \in ID : U[id] \subseteq own(b)[id]

\* One more piece.
LEMMA ThroughNext ==
  ASSUME NEW b, BoardOK(b), NEW color \in Color, NEW g0, NEW U, Unchecked(b, color, g0, U),
         NEW n \in 0 .. 31, NEW g, Through(b, color, g0, U, n, g),
         NEW h, h = answering(b, g, n + 1)
  PROVE  Through(b, color, g0, U, n + 1, h)
<1> DEFINE k == n + 1
<1>1. k \in ID /\ ~(k <= n) /\ k <= k
      /\ \A id \in ID : id # k => (id <= k <=> id <= n) /\ (id <= n => id < k)
                                  /\ (~(id <= n) => id > k)
  BY DEF ID
<1>2. /\ g \in Gens(b) /\ Holding(b, g) /\ SameCall(g0, g)
      /\ Emptier(b, generated(b, color), g)
      /\ \A id \in ID : Progress(b, g0, g, n, id, U[id])
  BY DEF Through
<1>3. g.checkedId = g0.checkedId /\ g.line = g0.line
  BY <1>2 DEF SameCall
<1>4. h = answering(b, g, k)
  OBVIOUS
<1> HIDE DEF k
<1>5. CASE k \in {8, 24, g0.checkedId}
  <2>1. h = g
    BY <1>3, <1>4, <1>5 DEF answering
  <2>2. Waits(b, g0, g, k, U[k])
    BY <1>1, <1>2 DEF Progress
  <2>3. PassedBy(b, g0, g, k, U[k])
    BY <2>2 DEF Waits, PassedBy
  <2>4. \A id \in ID : Progress(b, g0, g, k, id, U[id])
    BY <1>1, <1>2, <1>5, <2>3 DEF Progress
  <2> QED
    BY <1>2, <2>1, <2>4 DEF Through, k
<1>6. CASE k \notin {8, 24, g0.checkedId}
  <2>1. h = answered(b, g, k)
    BY <1>3, <1>4, <1>6 DEF answering
  <2>2. Waits(b, g0, g, k, U[k])
    BY <1>1, <1>2 DEF Progress
  <2>3. /\ U[k] \subseteq own(b)[k] /\ TidyAt(b, g0, k, U[k])
        /\ Emptier(b, generated(b, color), g0)
        /\ CheckedAlong(b, color, g.checkedId, g.line)
    BY <1>1, <1>3 DEF Unchecked, Lists
  <2>4. Answers(b, g, k, h) /\ Spares(b, g, k, h) /\ Filtered(b, h, k, U[k])
    BY <1>1, <1>2, <1>6, <2>1, <2>2, <2>3, OwnProgress
  <2>5. /\ h \in Gens(b) /\ Holding(b, h) /\ SameCall(g, h)
        /\ \A s \in Slots(b) : g.moves[s] = NoSquare => h.moves[s] = NoSquare
    BY <2>4 DEF Answers
  <2>6. SameCall(g0, h) /\ Emptier(b, generated(b, color), h)
    BY <1>2, <2>5 DEF SameCall, Emptier
  <2>7. ASSUME NEW id \in ID PROVE Progress(b, g0, h, k, id, U[id])
    <3>1. CASE id = k
      BY <3>1, <1>1, <1>6, <2>4 DEF Progress
    <3>2. CASE id # k
      <4>1. /\ id > k /\ Waits(b, g0, g, id, U[id]) => Waits(b, g0, h, id, U[id])
            /\ id < k /\ PassedBy(b, g0, g, id, U[id]) => PassedBy(b, g0, h, id, U[id])
            /\ id < k /\ Filtered(b, g, id, U[id]) => Filtered(b, h, id, U[id])
        BY <1>1, <1>2, <2>4, <3>2, OthersProgress
      <4>2. Progress(b, g0, g, n, id, U[id])
        BY <1>2
      <4>3. CASE id <= n
        BY <4>1, <4>2, <4>3, <3>2, <1>1 DEF Progress
      <4>4. CASE ~(id <= n)
        BY <4>1, <4>2, <4>4, <3>2, <1>1 DEF Progress
      <4> QED
        BY <4>3, <4>4
    <3> QED
      BY <3>1, <3>2
  <2> QED
    BY <2>5, <2>6, <2>7 DEF Through, k
<1> QED
  BY <1>5, <1>6

\* filterChecked's way through the pieces.
CheckRun(b, color, g0, U, o) ==
    /\ filterChecked(b, g0) = o[32]
    /\ o[0] = g0
    /\ \A n \in 0 .. 31 : o[n + 1] = answering(b, o[n], n + 1)
    /\ \A n \in 0 .. 32 : Through(b, color, g0, U, n, o[n])

\* filterChecked is such a run.
LEMMA CheckRuns ==
  ASSUME NEW b, BoardOK(b), NEW color \in Color, NEW g0, NEW U, Unchecked(b, color, g0, U)
  PROVE  \E o : CheckRun(b, color, g0, U, o)
<1> DEFINE V == Gens(b)
<1> DEFINE step(n, r) == IF answering(b, r, n) \in V THEN answering(b, r, n) ELSE r
<1> DEFINE next == [n \in 1 .. 32 |-> [r \in V |-> step(n, r)]]
<1> DEFINE After(f) == f = [n \in 0 .. 32 |->
                              IF n = 0 THEN g0 ELSE answering(b, f[n - 1], n)]
<1>1. g0 \in V
  BY DEF Unchecked
<1>2. next \in [1 .. 32 -> [V -> V]]
  OBVIOUS
<1>3. \A n \in 1 .. 32, r \in V : answering(b, r, n) \in V => next[n][r] = answering(b, r, n)
  OBVIOUS
<1>4. filterChecked(b, g0) = (CHOOSE f : After(f))[32]
  BY DEF filterChecked
<1> HIDE DEF next, V, step
<1>5. \E f : Iterates(f, 32, V, g0, next)
  BY <1>1, <1>2, Iteration
<1>6. PICK f : /\ f \in [0 .. 32 -> V] /\ f[0] = g0
               /\ \A n \in 1 .. 32 : f[n] = next[n][f[n - 1]]
  BY <1>5 DEF Iterates
<1> DEFINE T == {n \in Nat : n <= 32 => /\ Through(b, color, g0, U, n, f[n])
                                        /\ n > 0 => f[n] = answering(b, f[n - 1], n)}
<1>7. 0 \in T
  <2>1. \A id \in ID : ~(id <= 0)
    BY DEF ID
  <2>2. ASSUME NEW id \in ID PROVE Progress(b, g0, g0, 0, id, U[id])
    <3>1. TidyAt(b, g0, id, U[id])
      BY DEF Unchecked, Lists
    <3>2. Waits(b, g0, g0, id, U[id])
      BY <3>1 DEF Waits, Bared
    <3> QED
      BY <2>1, <3>2 DEF Progress
  <2>3. Through(b, color, g0, U, 0, g0)
    BY <2>2 DEF Through, Unchecked, Lists, SameCall
  <2> QED
    BY <2>3, <1>6
<1>8. ASSUME NEW n \in Nat, n \in T PROVE n + 1 \in T
  <2> SUFFICES ASSUME n + 1 <= 32
               PROVE  /\ Through(b, color, g0, U, n + 1, f[n + 1])
                      /\ f[n + 1] = answering(b, f[n], n + 1)
    <3>1. n + 1 \in Nat /\ (n + 1) - 1 = n
      OBVIOUS
    <3> QED
      BY <3>1
  <2>1. n \in 0 .. 31 /\ n + 1 \in 1 .. 32 /\ (n + 1) - 1 = n
    OBVIOUS
  <2>2. Through(b, color, g0, U, n, f[n])
    BY <1>8
  <2> DEFINE q == answering(b, f[n], n + 1)
  <2>3. Through(b, color, g0, U, n + 1, q)
    BY <2>1, <2>2, ThroughNext
  <2>4. q \in V /\ f[n] \in V
    BY <2>2, <2>3 DEF Through, V
  <2>5. f[n + 1] = next[n + 1][f[n]]
    BY <2>1, <1>6
  <2>6. f[n + 1] = q
    BY <2>1, <2>4, <2>5, <1>3
  <2> QED
    BY <2>3, <2>6
<1>9. \A n \in Nat : n \in T
  <2> HIDE DEF T
  <2> QED
    BY <1>7, <1>8, CountingUp
<1>10. After(f)
  <2>1. \A n \in 0 .. 32 : f[n] = IF n = 0 THEN g0 ELSE answering(b, f[n - 1], n)
    <3> TAKE n \in 0 .. 32
    <3>1. n \in T
      BY <1>9
    <3> QED
      BY <3>1, <1>6
  <2> QED
    BY <2>1, <1>6
<1>11. \A n \in 0 .. 32 : Through(b, color, g0, U, n, f[n])
  <2>1. \A n \in 0 .. 32 : n \in Nat /\ n <= 32 /\ n \in T
    BY <1>9
  <2> QED
    BY <2>1
<1> DEFINE o == CHOOSE q : After(q)
<1>12. After(o)
  BY <1>10
<1> HIDE DEF o, T
<1>13. /\ \A n \in 0 .. 32 : o[n] = IF n = 0 THEN g0 ELSE answering(b, o[n - 1], n)
       /\ \A n \in 0 .. 32 : f[n] = IF n = 0 THEN g0 ELSE answering(b, f[n - 1], n)
  BY <1>10, <1>12
<1>14. /\ o[0] = g0 /\ f[0] = g0
       /\ \A n \in 0 .. 31 : o[n + 1] = answering(b, o[n], n + 1)
       /\ \A n \in 0 .. 31 : f[n + 1] = answering(b, f[n], n + 1)
  <2>1. \A n \in 0 .. 31 : n + 1 \in 0 .. 32 /\ n + 1 # 0 /\ (n + 1) - 1 = n
    OBVIOUS
  <2> QED
    BY <1>13, <2>1
<1>15. \A n \in 0 .. 32 : o[n] = f[n]
  <2>1. \A n \in 0 .. 32 - 1 : n \in 0 .. 31
    OBVIOUS
  <2>2. \A n \in 0 .. 32 - 1 : o[n] = f[n] => o[n + 1] = f[n + 1]
    BY <1>14, <2>1
  <2> QED
    BY <1>14, <2>2, SameRun
<1>16. filterChecked(b, g0) = o[32]
  BY <1>4 DEF o
<1>17. \A n \in 0 .. 32 : Through(b, color, g0, U, n, o[n])
  BY <1>11, <1>15
<1> QED
  BY <1>14, <1>16, <1>17 DEF CheckRun

\* And so filterChecked goes through all.
LEMMA CheckedLists ==
  ASSUME NEW b, BoardOK(b), NEW color \in Color, NEW g0, NEW U, Unchecked(b, color, g0, U),
         NEW h, h = filterChecked(b, g0)
  PROVE  Through(b, color, g0, U, 32, h)
BY CheckRuns DEF CheckRun

-----------------------------------------------------------------------------
(* What genMoves leaves in the lists                                       *)

\* A list that holds moves of S only, and all of them unless filterChecked wrote
\* into it from the list behind it or before it.
Rests(b, g, id, S) ==
    /\ \A i \in 0 .. b.piece[id].reserved - 1 :
          g.moves[b.moveOffset[id] + i] \in S \cup {NoSquare}
    /\ \/ TidyAt(b, g, id, S)
       \/ g.checkedId # EMPTY /\ (behindFull(b, id) \/ Full(b, id))

\* Where the king of the side to move is neither attacked nor on a defended piece.
safe(g) == Square \ (g.attacked \cup g.defended)

\* The pieces whose moves filterChecked goes through.
answersCheck(g, id) == g.checkedId # EMPTY /\ id \notin {8, 24, g.checkedId}

\* What genMoves leaves in the list of a piece.
Listed(b, color, g, id, S) ==
    /\ id = kingOf(color) =>
         /\ \A i \in 0 .. g.movesIdx[id] - 1 : g.moves[b.moveOffset[id] + i] \in safe(g)
         /\ \A i \in 0 .. b.piece[id].reserved - 1 :
               g.moves[b.moveOffset[id] + i] \in S \cup {NoSquare}
         /\ \/ TidyAt(b, g, id, S \cap safe(g))
            \/ g.checkedId # EMPTY /\ (behindFull(b, id) \/ Full(b, id))
    /\ answersCheck(g, id) => Filtered(b, g, id, S)
    /\ id # kingOf(color) /\ ~answersCheck(g, id) => Rests(b, g, id, S)

\* What genMoves leaves in the lists of all pieces.
Outcome(b, color, g) ==
    /\ g \in Gens(b) /\ Holding(b, g) /\ SameCall(generated(b, color), g)
    /\ Emptier(b, generated(b, color), g)
    /\ \A id \in ID : Listed(b, color, g, id, unpinned(b, color)[id])

\* A tidy list holds moves of S only.
LEMMA TidyRests ==
  ASSUME NEW b, BoardOK(b), NEW g, NEW id \in ID, NEW S, TidyAt(b, g, id, S)
  PROVE  /\ Rests(b, g, id, S)
         /\ \A i \in 0 .. b.piece[id].reserved - 1 :
               g.moves[b.moveOffset[id] + i] \in S \cup {NoSquare}
<1> DEFINE o == b.moveOffset[id]
<1> DEFINE res == b.piece[id].reserved
<1> DEFINE N == g.movesIdx[id]
<1>1. Tidy(g.moves, o, N, res, S) /\ res \in 5 .. 27
  BY FieldsOf DEF TidyAt
<1> HIDE DEF o, res, N
<1>2. ASSUME NEW i \in 0 .. res - 1 PROVE g.moves[o + i] \in S \cup {NoSquare}
  <2>1. N \in 0 .. res
    BY <1>1 DEF Tidy
  <2>2. i \in 0 .. N - 1 \/ i \in N .. res - 1
    BY <1>1, <2>1
  <2> QED
    BY <1>1, <2>2 DEF Tidy
<1> QED
  BY <1>2 DEF Rests, o, res

\* What filterChecked passes by.
LEMMA PassedByRests ==
  ASSUME NEW b, BoardOK(b), NEW g0, NEW g, NEW id \in ID, NEW S, TidyAt(b, g0, id, S),
         PassedBy(b, g0, g, id, S), g.checkedId # EMPTY
  PROVE  Rests(b, g, id, S)
<1>1. \A i \in 0 .. b.piece[id].reserved - 1 :
         g0.moves[b.moveOffset[id] + i] \in S \cup {NoSquare}
  BY TidyRests
<1>2. \A i \in 0 .. b.piece[id].reserved - 1 :
         g.moves[b.moveOffset[id] + i] \in S \cup {NoSquare}
  BY <1>1 DEF PassedBy, Bared
<1> QED
  BY <1>2 DEF PassedBy, Rests

\* The king's own filter, which comes last.
LEMMA KingFiltered ==
  ASSUME NEW b, BoardOK(b), NEW color \in Color, NEW g \in Gens(b), Holding(b, g),
         NEW h, h = filterKingMoves(b, color, g)
  PROVE  Sifts(b, g, kingOf(color), safe(g), h) /\ SameCall(g, h)
<1> DEFINE k == kingOf(color)
<1> DEFINE A == safe(g)
<1> DEFINE l == sift(listOf(b, g, k), A)
<1> DEFINE u == g.overrun \/ (g.moves[l.off] # NoSquare /\ l.j < l.idx)
<1>1. h = [g EXCEPT !.moves = l.moves, !.movesIdx[k] = l.j, !.overrun = u]
  BY DEF filterKingMoves, safe
<1>2. k \in ID
  BY KingPlace
<1>3. /\ l.moves \in [Slots(b) -> Place]
      /\ [g.movesIdx EXCEPT ![k] = l.j] \in [ID -> Nat]
  <2> HIDE DEF k, A
  <2> QED
    BY <1>2, SiftedTypes
<1>4. u \in BOOLEAN
  BY DEF Gens
<1>5. h = [g EXCEPT !.moves = l.moves, !.movesIdx = [g.movesIdx EXCEPT ![k] = l.j],
                    !.overrun = u]
  BY <1>1
<1>6. l = sift(listOf(b, g, k), A)
  OBVIOUS
<1> HIDE DEF l, u, A, k
<1>7. /\ h \in Gens(b) /\ SameCall(g, h)
      /\ h.moves = l.moves /\ h.movesIdx = [g.movesIdx EXCEPT ![k] = l.j]
  BY <1>3, <1>4, <1>5 DEF Gens, SameCall
<1>8. Sifts(b, g, k, A, h)
  BY <1>2, <1>6, <1>7, SiftedIn
<1> QED
  BY <1>7, <1>8 DEF k, A

\* The lists that the king's filter finds, and leaves.
LEMMA KingListed ==
  ASSUME NEW b, BoardOK(b), NEW color \in Color, NEW g \in Gens(b), Holding(b, g),
         NEW h, Sifts(b, g, kingOf(color), safe(g), h), SameCall(g, h), NEW id \in ID,
         NEW S \in SUBSET Square,
         answersCheck(g, id) => Filtered(b, g, id, S),
         ~answersCheck(g, id) => Rests(b, g, id, S)
  PROVE  Listed(b, color, h, id, S)
<1> DEFINE k == kingOf(color)
<1>1. k \in ID /\ k \in {8, 24}
  BY KingPlace DEF kingOf
<1>2. safe(h) = safe(g) /\ h.checkedId = g.checkedId /\ h.line = g.line
      /\ (answersCheck(h, id) <=> answersCheck(g, id))
  BY DEF SameCall, safe, answersCheck
<1>3. Sifts(b, g, k, safe(g), h)
  OBVIOUS
<1> HIDE DEF k
<1>4. CASE id = k
  <2>1. ~answersCheck(g, id)
    BY <1>1, <1>4 DEF answersCheck
  <2>2. Rests(b, g, id, S)
    BY <2>1
  <2>3. \A i \in 0 .. h.movesIdx[id] - 1 : h.moves[b.moveOffset[id] + i] \in safe(h)
    BY <1>2, <1>3, <1>4 DEF Sifts
  <2>4. \A i \in 0 .. b.piece[id].reserved - 1 :
               h.moves[b.moveOffset[id] + i] \in S \cup {NoSquare}
    <3>1. \A i \in 0 .. b.piece[id].reserved - 1 :
             h.moves[b.moveOffset[id] + i] # NoSquare =>
               \E e \in 0 .. b.piece[id].reserved - 1 :
                  h.moves[b.moveOffset[id] + i] = g.moves[b.moveOffset[id] + e]
      BY <1>3, <1>4 DEF Sifts
    <3> QED
      BY <2>2, <3>1 DEF Rests
  <2>5. \/ TidyAt(b, h, id, S \cap safe(h))
        \/ h.checkedId # EMPTY /\ (behindFull(b, id) \/ Full(b, id))
    <3>1. TidyAt(b, g, id, S) => TidyAt(b, h, id, S \cap safe(g))
      BY <1>3, <1>4 DEF Sifts
    <3> QED
      BY <1>2, <2>2, <3>1 DEF Rests
  <2> QED
    BY <1>2, <1>4, <2>1, <2>3, <2>4, <2>5 DEF Listed, k
<1>5. CASE id # k
  <2>1. /\ h.movesIdx[id] = g.movesIdx[id]
        /\ \A i \in 0 .. b.piece[id].reserved - 1 :
              h.moves[b.moveOffset[id] + i] = g.moves[b.moveOffset[id] + i]
    BY <1>3, <1>5 DEF Sifts
  <2>2. /\ TidyAt(b, g, id, S) => TidyAt(b, h, id, S)
        /\ Filtered(b, g, id, S) => Filtered(b, h, id, S)
    BY <1>2, <2>1, SameList
  <2>3. Rests(b, g, id, S) => Rests(b, h, id, S)
    BY <1>2, <2>1, <2>2 DEF Rests
  <2> QED
    BY <1>2, <1>5, <2>2, <2>3 DEF Listed, k
<1> QED
  BY <1>4, <1>5

\* What genMoves leaves in the lists, on every board.
LEMMA GenOutcome ==
  ASSUME NEW b, BoardOK(b), NEW color \in Color
  PROVE  Outcome(b, color, genMoves(b, color))
<1> DEFINE gg == generated(b, color)
<1> DEFINE p == filterPinned(b, color, gg)
<1> DEFINE q == IF p.checkedId = EMPTY THEN p ELSE filterChecked(b, p)
<1> DEFINE h == filterKingMoves(b, color, q)
<1> DEFINE U == unpinned(b, color)
<1>1. genMoves(b, color) = h
  BY DEF genMoves
<1>2. /\ gg \in Gens(b)
      /\ gg.checkedId = EMPTY \/ CheckedAlong(b, color, gg.checkedId, gg.line)
  BY GeneratedGens
<1>3. /\ p \in Gens(b) /\ Lists(b, p, U) /\ SameCall(gg, p) /\ Emptier(b, gg, p)
  <2> HIDE DEF p, U
  <2> QED
    BY <1>2, PinnedLists DEF p, U
<1>4. \A id \in ID : U[id] \in SUBSET Square /\ U[id] \subseteq own(b)[id]
  BY OwnSquares DEF unpinned
<1> HIDE DEF p, U
<1>5. /\ q \in Gens(b) /\ Holding(b, q) /\ SameCall(gg, q) /\ Emptier(b, gg, q)
      /\ \A id \in ID : /\ answersCheck(q, id) => Filtered(b, q, id, U[id])
                        /\ ~answersCheck(q, id) => Rests(b, q, id, U[id])
  <2>1. CASE p.checkedId = EMPTY
    <3>1. q = p
      BY <2>1
    <3> HIDE DEF q
    <3>2. \A id \in ID : ~answersCheck(q, id) /\ Rests(b, q, id, U[id])
      BY <2>1, <3>1, <1>3, TidyRests DEF answersCheck, Lists
    <3> QED
      BY <3>1, <3>2, <1>3 DEF Lists
  <2>2. CASE p.checkedId # EMPTY
    <3>1. q = filterChecked(b, p)
      BY <2>2
    <3> HIDE DEF q
    <3>2. Unchecked(b, color, p, U)
      BY <1>2, <1>3, <1>4, <2>2 DEF Unchecked, SameCall
    <3>3. Through(b, color, p, U, 32, q)
      BY <3>1, <3>2, CheckedLists
    <3>4. /\ q \in Gens(b) /\ Holding(b, q) /\ SameCall(p, q) /\ Emptier(b, gg, q)
          /\ \A id \in ID : Progress(b, p, q, 32, id, U[id])
      BY <3>3 DEF Through
    <3>5. q.checkedId = p.checkedId /\ q.checkedId # EMPTY
      BY <2>2, <3>4 DEF SameCall
    <3>6. ASSUME NEW id \in ID
          PROVE  /\ answersCheck(q, id) => Filtered(b, q, id, U[id])
                 /\ ~answersCheck(q, id) => Rests(b, q, id, U[id])
      <4>1. id <= 32
        BY DEF ID
      <4>2. answersCheck(q, id) => Filtered(b, q, id, U[id])
        BY <3>4, <3>5, <4>1 DEF answersCheck, Progress
      <4>3. ~answersCheck(q, id) => PassedBy(b, p, q, id, U[id])
        BY <3>4, <3>5, <4>1 DEF answersCheck, Progress
      <4>4. TidyAt(b, p, id, U[id])
        BY <1>3 DEF Lists
      <4> QED
        BY <3>5, <4>2, <4>3, <4>4, PassedByRests
    <3>7. SameCall(gg, q)
      BY <1>3, <3>4 DEF SameCall
    <3> QED
      BY <3>4, <3>6, <3>7
  <2> QED
    BY <2>1, <2>2
<1> HIDE DEF q
<1>6. Sifts(b, q, kingOf(color), safe(q), h) /\ SameCall(q, h)
  BY <1>5, KingFiltered
<1> HIDE DEF h
<1>7. Emptier(b, q, h) /\ h \in Gens(b) /\ Holding(b, h)
  <2>1. kingOf(color) \in ID
    BY KingPlace
  <2> QED
    BY <1>6, <2>1, SiftEmpties DEF Sifts
<1>8. \A id \in ID : Listed(b, color, h, id, U[id])
  BY <1>4, <1>5, <1>6, KingListed
<1>9. SameCall(gg, h) /\ Emptier(b, gg, h)
  BY <1>5, <1>6, <1>7 DEF SameCall, Emptier
<1> QED
  BY <1>1, <1>7, <1>8, <1>9 DEF Outcome, U

-----------------------------------------------------------------------------
(* Indices outside the array: where no list is full, only W_ROOK1's loop   *)
(* uses one                                                                *)

\* What has been used outside the array, when no list is full: only the slot before
\* the first one, once all the moves of the list that starts there are gone.
Marked(l, list, res) ==
    /\ l.overrun => list.overrun \/ (list.off = 0 /\ l.idx = -1)
    /\ l.idx < list.idx => list.idx > 0
    /\ ~Vacant(l.moves, list.off, l.idx + 1, res - 1) => l.idx = list.idx \/ l.idx + 2 <= list.idx

\* Whether a removal leaves the array.
LEMMA NarrowedFlag ==
  ASSUME NEW M \in Nat, NEW line, NEW res \in Nat, NEW l \in Loops(M)
  PROVE  /\ \/ ~Halted(l, res) /\ l.moves[l.off + l.j] \notin line
            \/ narrowed(l, line, res).overrun = l.overrun
         /\ narrowed(l, line, res).overrun =>
               l.overrun \/ l.off + l.idx <= 0 \/ l.off + l.idx >= M
<1> DEFINE r == narrowed(l, line, res)
<1>1. CASE Halted(l, res)
  BY <1>1 DEF narrowed, Halted
<1>2. CASE ~Halted(l, res) /\ l.moves[l.off + l.j] \in line
  <2>1. r = [l EXCEPT !.j = @ + 1]
    BY <1>2 DEF narrowed, Halted
  <2>2. r.overrun = l.overrun
    BY <2>1 DEF Loops
  <2> QED
    BY <2>2
<1>3. CASE ~Halted(l, res) /\ l.moves[l.off + l.j] \notin line
  <2> DEFINE last == l.off + l.idx - 1
  <2> DEFINE u == l.overrun \/ last < 0 \/ last + 1 \notin DOMAIN l.moves
  <2>1. \E q : r = [l EXCEPT !.moves = q, !.idx = @ - 1, !.overrun = u]
    BY <1>3 DEF narrowed, Halted
  <2>2. r.overrun = u
    BY <2>1 DEF Loops
  <2>3. last \in Int /\ DOMAIN l.moves = 0 .. M - 1 /\ last + 1 = l.off + l.idx
    BY DEF Loops
  <2>4. u => l.overrun \/ l.off + l.idx <= 0 \/ l.off + l.idx >= M
    BY <2>3
  <2> HIDE DEF u, r, last
  <2>5. r.overrun => l.overrun \/ l.off + l.idx <= 0 \/ l.off + l.idx >= M
    BY <2>2, <2>4
  <2> QED
    BY <1>3, <2>5 DEF r
<1> QED
  BY <1>1, <1>2, <1>3

\* One step keeps that.
LEMMA MarkStep ==
  ASSUME NEW M \in Nat, NEW line, NEW res \in Nat, NEW S, NEW list \in Loops(M),
         list.idx \in Nat, list.idx < res, list.off + res <= M, NoSquare \notin line,
         Alone(list, res), NEW l, NarrowInv(l, list, M, line, res),
         Stage(l, list, line, res), Keeping(l, list, line, res, S), Marked(l, list, res)
  PROVE  Marked(narrowed(l, line, res), list, res)
<1> DEFINE o == list.off
<1> DEFINE N == list.idx
<1> DEFINE r == narrowed(l, line, res)
<1> DEFINE q == r.moves
<1> DEFINE a == l.idx
<1> DEFINE j == l.j
<1>1. /\ l \in Loops(M) /\ l.off = o /\ l.overrun \in BOOLEAN
  BY DEF NarrowInv, Loops
<1>2. /\ a \in Int /\ j \in Int /\ o \in Int /\ N \in Int /\ o >= 0 /\ o + res <= M
      /\ 0 <= N /\ N < res /\ 0 <= j /\ j <= res /\ a <= N /\ o + a \in Int
  BY DEF NarrowInv, Loops
<1>3. \/ Halted(l, res) /\ r = l
      \/ /\ ~Halted(l, res) /\ l.moves[o + j] \in line /\ r.j = j + 1 /\ r.idx = a /\ q = l.moves
      \/ ~Halted(l, res) /\ l.moves[o + j] \notin line /\ Removal(l, r, o, M)
  BY <1>1, <1>2, NarrowedBy
<1>4. /\ \/ ~Halted(l, res) /\ l.moves[o + j] \notin line
         \/ r.overrun = l.overrun
      /\ r.overrun => l.overrun \/ o + a <= 0 \/ o + a >= M
  BY <1>1, NarrowedFlag
<1>5. Stage(r, list, line, res)
  BY <1>2, StageStep
<1> SUFFICES Marked(r, list, res)
  OBVIOUS
<1> HIDE DEF r
<1>6. CASE Halted(l, res) /\ r = l
  BY <1>6
<1>7. CASE ~Halted(l, res) /\ l.moves[o + j] \in line /\ r.j = j + 1 /\ r.idx = a /\ q = l.moves
  BY <1>4, <1>7 DEF Marked
<1>8. CASE ~Halted(l, res) /\ l.moves[o + j] \notin line /\ Removal(l, r, o, M)
  <2>1. r.idx = a - 1 /\ r.j = j
    BY <1>8 DEF Removal
  <2>2. j < res /\ l.moves[o + j] # NoSquare
    BY <1>1, <1>2, <1>8 DEF Halted
  <2>3. a = N => N > 0 /\ j < N
    <3> HAVE a = N
    <3>1. Untouched(l, list) \/ FALSE
      BY <1>2 DEF Stage, Untouched, Shrunk, Doubled, Emptied
    <3>2. l.moves = list.moves /\ Vacant(list.moves, o, N, res - 1)
      BY <3>1 DEF Untouched, Alone
    <3>3. ~(j \in N .. res - 1)
      BY <2>2, <3>2 DEF Vacant
    <3> QED
      BY <3>3, <2>2, <1>2
  <2>4. N > 0
    BY <2>3, <1>2 DEF Marked
  <2>5. 0 <= a
    <3>1. CASE Emptied(l, list, res)
      <4>1. j \in 0 .. res - 1 /\ Vacant(l.moves, o, 0, res - 1)
        BY <3>1, <1>2, <2>2 DEF Emptied
      <4> QED
        BY <4>1, <2>2 DEF Vacant
    <3> QED
      BY <3>1, <1>2 DEF Stage, Untouched, Shrunk, Doubled
  <2>6. r.overrun => list.overrun \/ (o = 0 /\ r.idx = -1)
    <3> HAVE r.overrun
    <3>1. CASE l.overrun
      BY <3>1, <2>5, <1>2 DEF Marked
    <3>2. CASE o + a <= 0
      BY <3>2, <2>1, <2>5, <1>2
    <3>3. CASE o + a >= M
      BY <3>3, <1>2
    <3> QED
      BY <3>1, <3>2, <3>3, <1>4
  <2>7. ~Vacant(q, o, r.idx + 1, res - 1) => r.idx = N \/ r.idx + 2 <= N
    <3> HAVE ~Vacant(q, o, r.idx + 1, res - 1)
    <3>1. CASE a < N
      BY <3>1, <2>1, <1>2
    <3>2. CASE a = N
      <4>1. Doubled(r, list, line, res)
        <5>1. r.idx # N
          BY <3>2, <2>1, <1>2
        <5>2. ~Emptied(r, list, res)
          BY DEF Emptied
        <5> QED
          BY <5>1, <5>2, <1>5 DEF Stage, Untouched, Shrunk
      <4>2. j = r.idx + 1 \/ j = r.idx + 2
        BY <4>1, <2>1 DEF Doubled
      <4> QED
        BY <4>2, <3>2, <2>1, <2>3, <1>2
    <3> QED
      BY <3>1, <3>2, <1>2
  <2> QED
    BY <2>4, <2>6, <2>7 DEF Marked
<1> QED
  BY <1>3, <1>6, <1>7, <1>8

\* And so does the loop.
LEMMA NarrowedMarked ==
  ASSUME NEW M \in Nat, NEW line, NEW res \in Nat, 2 <= res, NEW list, Fresh(list, M, res),
         NEW S, Alone(list, res), NoSquare \notin line, list.idx < res,
         \A i \in 0 .. list.idx - 1 : list.moves[list.off + i] \in S
  PROVE  Marked(narrow(list, line, res), list, res)
<1> DEFINE V == {l \in Loops(M) : /\ NarrowInv(l, list, M, line, res)
                                  /\ Stage(l, list, line, res)
                                  /\ Keeping(l, list, line, res, S)
                                  /\ Marked(l, list, res)}
<1>1. list \in Loops(M) /\ list.idx \in Nat /\ list.idx <= res /\ list.j = 0
      /\ list.off + res <= M
  BY DEF Fresh
<1>2. list \in V
  <2>1. list.off \in Nat /\ list.idx \in Nat
    BY <1>1 DEF Loops
  <2>2. \A e \in list.off + list.idx .. list.off - 1 : FALSE
    BY <2>1
  <2>3. NarrowInv(list, list, M, line, res)
    BY <1>1, <2>2 DEF NarrowInv
  <2>4. Stage(list, list, line, res)
    BY <1>1 DEF Stage, Untouched
  <2>5. Keeping(list, list, line, res, S)
    <3>1. \A i \in 0 .. res - 1 : i \in 0 .. list.idx - 1 \/ i \in list.idx .. res - 1
      BY <1>1
    <3>2. \A i \in 0 .. list.idx - 1 : i \in 0 .. res - 1
      BY <1>1
    <3> QED
      BY <3>1, <3>2 DEF Keeping, Alone, Vacant
  <2>6. Marked(list, list, res)
    BY <2>1 DEF Marked
  <2> QED
    BY <1>1, <2>3, <2>4, <2>5, <2>6
<1>3. ASSUME NEW l \in V PROVE narrowed(l, line, res) \in V
  <2>1. /\ NarrowInv(l, list, M, line, res) /\ Stage(l, list, line, res)
        /\ Keeping(l, list, line, res, S) /\ Marked(l, list, res)
    OBVIOUS
  <2>2. NarrowInv(narrowed(l, line, res), list, M, line, res)
    BY <1>1, <2>1, NarrowStep
  <2>3. /\ Stage(narrowed(l, line, res), list, line, res)
        /\ Keeping(narrowed(l, line, res), list, line, res, S)
    BY <1>1, <2>1, StageStep
  <2>4. Marked(narrowed(l, line, res), list, res)
    BY <1>1, <2>1, MarkStep
  <2> QED
    BY <2>2, <2>3, <2>4 DEF NarrowInv
<1>4. V \in SUBSET Loops(M)
  OBVIOUS
<1> HIDE DEF V
<1>5. narrow(list, line, res) \in V
  BY <1>1, <1>2, <1>3, <1>4, NarrowRuns
<1> QED
  BY <1>5 DEF V

\* When a list that is not full is answered with nothing right before it, only
\* W_ROOK1's loop leaves the array, and then no move of it is left.
LEMMA AnsweredFlag ==
  ASSUME NEW b, BoardOK(b), NEW g \in Gens(b), Holding(b, g), NEW id \in ID,
         NEW S, S \subseteq Square, TidyAt(b, g, id, S), Roomy(b, g, id),
         b.moveOffset[id] > 0 => g.moves[b.moveOffset[id] - 1] = NoSquare,
         g.movesIdx[id] < b.piece[id].reserved,
         NEW h, h = answered(b, g, id), h.overrun
  PROVE  \/ g.overrun
         \/ b.moveOffset[id] = 0 /\ g.movesIdx[id] > 0 /\ h.movesIdx[id] = 0
<1> DEFINE list == listOf(b, g, id)
<1> DEFINE res == b.piece[id].reserved
<1> DEFINE o == b.moveOffset[id]
<1> DEFINE N == g.movesIdx[id]
<1> DEFINE l == narrow(list, g.line, res)
<1> DEFINE m == l.moves
<1>1. /\ Fresh(list, b.size, res) /\ b.size \in Nat /\ res \in Nat /\ 2 <= res
      /\ list.off = o /\ list.idx = N /\ list.moves = g.moves /\ list.overrun = g.overrun
      /\ o \in Nat /\ N \in Nat /\ N < res /\ o + res <= b.size
  BY FreshList, ListLoops, FieldsOf, BlocksApart
<1>2. Tidy(g.moves, o, N, res, S)
  BY DEF TidyAt
<1>3. list = listOf(b, g, id) /\ l = narrow(list, g.line, b.piece[id].reserved)
  OBVIOUS
<1>4. Alone(list, res)
  <2> HIDE DEF list, res, o, N
  <2>1. Occupied(g.moves, o, 0, N - 1) /\ Vacant(g.moves, o, N, res - 1)
    BY <1>2, OffBoard DEF Tidy, Occupied, Vacant
  <2> QED
    BY <2>1, <1>1 DEF Alone, o
<1>5. NoSquare \notin g.line
  BY OffBoard DEF Gens
<1>6. \A i \in 0 .. list.idx - 1 : list.moves[list.off + i] \in S
  BY <1>1, <1>2 DEF Tidy
<1>7. /\ Settled(l, list, g.line, res, S)
      /\ NarrowInv(l, list, b.size, g.line, res)
      /\ Marked(l, list, res)
  <2> HIDE DEF list, res, N
  <2> QED
    BY <1>1, <1>4, <1>5, <1>6, NarrowedAlone, Narrowed, NarrowedMarked
<1> DEFINE u == \/ l.overrun
                \/ l.j >= res
                \/ l.j > 1 /\ l.off + l.idx + 1 \notin DOMAIN l.moves
<1>8. h.overrun = u
  <2> DEFINE q == [k \in DOMAIN l.moves |->
                     IF l.j > 1 /\ k = l.off + l.idx + 1 THEN NoSquare ELSE l.moves[k]]
  <2>1. h = [g EXCEPT !.moves = q, !.movesIdx[id] = l.j, !.overrun = u]
    BY DEF answered
  <2>2. g.movesIdx \in [ID -> Nat] /\ g = [g EXCEPT !.overrun = g.overrun]
    BY DEF Gens
  <2> HIDE DEF q, u
  <2> QED
    BY <2>1 DEF Gens
<1> HIDE DEF list, l
<1>9. /\ l \in Loops(b.size) /\ l.off = o /\ l.idx \in Int /\ l.j \in Int
      /\ 0 <= l.j /\ l.j <= res /\ l.idx <= N
      /\ \A i \in 0 .. l.j - 1 : m[o + i] \in g.line \cup {NoSquare}
  BY <1>1, <1>7 DEF NarrowInv, Loops
<1>10. h.movesIdx[id] = l.j
  BY <1>3, <1>9, AnsweredIs
<1> HIDE DEF res, o, N, m
<1>11. /\ l.overrun => g.overrun \/ (o = 0 /\ l.idx = -1)
       /\ l.idx < N => N > 0
       /\ ~Vacant(m, o, l.idx + 1, res - 1) => l.idx = N \/ l.idx + 2 <= N
  BY <1>1, <1>7 DEF Marked, m
<1>12. \/ m = g.moves /\ l.j = N /\ l.idx = N
       \/ 0 <= l.idx /\ l.idx < N /\ l.j = l.idx + 1
       \/ /\ 0 <= l.idx /\ l.idx < N /\ l.j = l.idx + 2 /\ l.idx + 1 < res
          /\ m[o + (l.idx + 1)] # NoSquare
       \/ l.idx = -1 /\ l.j = 0
  <2>1. CASE Untouched(l, list) /\ l.j = list.idx
    BY <2>1, <1>1 DEF Untouched, m
  <2>2. CASE Shrunk(l, list, g.line, res) /\ l.j = l.idx + 1
    BY <2>2, <1>1 DEF Shrunk
  <2>3. CASE Doubled(l, list, g.line, res) /\ l.j = l.idx + 2
    <3>1. l.idx + 1 \in 0 .. l.idx + 1 /\ Occupied(m, o, 0, l.idx + 1)
      BY <2>3, <1>1, <1>9 DEF Doubled, m
    <3> QED
      BY <3>1, <2>3, <1>1 DEF Doubled, Occupied
  <2>4. CASE Emptied(l, list, res)
    BY <2>4 DEF Emptied
  <2> QED
    BY <2>1, <2>2, <2>3, <2>4, <1>7 DEF Settled
<1>13. ~(l.j >= res)
  <2>1. CASE 0 <= l.idx /\ l.idx < N /\ l.j = l.idx + 2 /\ l.idx + 1 < res
             /\ m[o + (l.idx + 1)] # NoSquare
    <3>1. ~Vacant(m, o, l.idx + 1, res - 1)
      <4>1. l.idx + 1 \in l.idx + 1 .. res - 1
        BY <2>1, <1>1, <1>9
      <4> QED
        BY <4>1, <2>1 DEF Vacant
    <3> QED
      BY <3>1, <2>1, <1>1, <1>9, <1>11
  <2> QED
    BY <2>1, <1>1, <1>9, <1>12
<1>14. l.j > 1 => l.off + l.idx + 1 \in DOMAIN l.moves
  <2> HAVE l.j > 1
  <2>1. 0 <= l.idx /\ DOMAIN l.moves = 0 .. b.size - 1
    BY <1>1, <1>9, <1>12 DEF Loops
  <2>2. l.idx + 1 < res
    <3>1. CASE m = g.moves /\ l.j = N /\ l.idx = N
      <4>1. ASSUME NEW i \in 0 .. N - 1, g.moves[o + i] \notin g.line PROVE FALSE
        <5>1. g.moves[o + i] = NoSquare
          BY <3>1, <4>1, <1>9
        <5>2. g.moves[o + i] \in S
          BY <1>2 DEF Tidy
        <5> QED
          BY <5>1, <5>2, OffBoard
      <4>2. N < res - 1
        BY <4>1 DEF Roomy, N, res, o
      <4> QED
        BY <4>2, <3>1, <1>1
    <3> QED
      BY <3>1, <1>1, <1>9, <1>12
  <2> DEFINE k == l.idx
  <2>3. /\ o \in Nat /\ res \in Nat /\ o + res <= b.size /\ b.size \in Nat /\ k \in Int
        /\ 0 <= k /\ k + 1 < res
    BY <2>1, <2>2, <1>1, <1>9
  <2> HIDE DEF k
  <2>4. o + k + 1 \in 0 .. b.size - 1
    BY <2>3
  <2> QED
    BY <2>1, <2>4, <1>9 DEF k
<1>15. l.overrun
  BY <1>8, <1>13, <1>14
<1>16. o = 0 /\ l.idx = -1 => N > 0 /\ l.j = 0
  BY <1>1, <1>9, <1>11, <1>12
<1> QED
  BY <1>10, <1>11, <1>15, <1>16 DEF o, N

\* Where no list is full.
NoneFull(b) == \A id \in ID : ~Full(b, id)

\* What an index outside the array then says.
Explained(g0, g) ==
    g.overrun => g0.checkedId # 1 /\ g0.movesIdx[1] > 0 /\ g.movesIdx[1] = 0

\* A list that is not full has a slot left.
LEMMA SlotLeft ==
  ASSUME NEW b, BoardOK(b), NEW color, NEW g, Emptier(b, generated(b, color), g),
         NEW id \in ID, ~Full(b, id), NEW S, S \subseteq Square, TidyAt(b, g, id, S)
  PROVE  g.movesIdx[id] < b.piece[id].reserved
<1> DEFINE res == b.piece[id].reserved
<1>1. g.movesIdx[id] \in 0 .. res /\ res \in 5 .. 27 /\ b.moveOffset[id] \in Nat
  BY FieldsOf DEF TidyAt, Tidy
<1>2. g.movesIdx[id] # res
  <2> SUFFICES ASSUME g.movesIdx[id] = res PROVE FALSE
    OBVIOUS
  <2>1. g.moves[b.moveOffset[id] + (res - 1)] \in S
    <3> HIDE DEF res
    <3>1. res - 1 \in 0 .. res - 1
      BY <1>1
    <3> QED
      BY <3>1 DEF TidyAt, Tidy
  <2>2. lastSlot(b, id) = b.moveOffset[id] + (res - 1)
    <3>1. lastSlot(b, id) = b.moveOffset[id] + res - 1
      BY DEF lastSlot
    <3> HIDE DEF res
    <3> QED
      BY <1>1, <3>1
  <2>3. g.moves[lastSlot(b, id)] = NoSquare
    BY LastSlotEmpty
  <2> QED
    BY <2>1, <2>2, <2>3, OffBoard
<1> HIDE DEF res
<1>3. g.movesIdx[id] < res
  BY <1>1, <1>2
<1> QED
  BY <1>3 DEF res

\* One more piece.
LEMMA ExplainedNext ==
  ASSUME NEW b, BoardOK(b), NoneFull(b), NEW color \in Color, NEW g0, NEW U,
         Unchecked(b, color, g0, U), NEW n \in 0 .. 31, NEW g, Through(b, color, g0, U, n, g),
         Explained(g0, g), n = 0 => g.overrun = FALSE,
         NEW h, h = answering(b, g, n + 1)
  PROVE  Explained(g0, h)
<1> DEFINE k == n + 1
<1> SUFFICES ASSUME h.overrun
             PROVE  g0.checkedId # 1 /\ g0.movesIdx[1] > 0 /\ h.movesIdx[1] = 0
  BY DEF Explained
<1>1. k \in ID /\ ~(k <= n) /\ k \in Nat /\ (k = 1 => n = 0) /\ k >= 1
  BY DEF ID
<1>2. /\ g \in Gens(b) /\ Holding(b, g) /\ SameCall(g0, g)
      /\ Emptier(b, generated(b, color), g)
      /\ \A id \in ID : Progress(b, g0, g, n, id, U[id])
  BY DEF Through
<1>3. g.checkedId = g0.checkedId /\ g.line = g0.line
  BY <1>2 DEF SameCall
<1>4. h = answering(b, g, k)
  OBVIOUS
<1> HIDE DEF k
<1>5. CASE k \in {8, 24, g0.checkedId}
  <2>1. h = g
    BY <1>3, <1>4, <1>5 DEF answering
  <2> QED
    BY <2>1 DEF Explained
<1>6. CASE k \notin {8, 24, g0.checkedId}
  <2>1. h = answered(b, g, k)
    BY <1>3, <1>4, <1>6 DEF answering
  <2>2. Waits(b, g0, g, k, U[k])
    BY <1>1, <1>2 DEF Progress
  <2>3. ~behindFull(b, k) /\ ~Full(b, k)
    <3>1. k > 1 => k - 1 \in ID
      BY <1>1 DEF ID
    <3> QED
      BY <3>1, <1>1 DEF NoneFull, behindFull
  <2>4. TidyAt(b, g, k, U[k]) /\ g.movesIdx[k] = g0.movesIdx[k]
    BY <2>2, <2>3 DEF Waits, Bared
  <2>5. /\ U[k] \subseteq own(b)[k] /\ U[k] \subseteq Square
        /\ CheckedAlong(b, color, g.checkedId, g.line)
    BY <1>1, <1>3, OwnSquares DEF Unchecked
  <2>6. Roomy(b, g, k)
    BY <1>1, <1>2, <1>6, <2>4, <2>5, RoomyList
  <2>7. b.moveOffset[k] > 0 => g.moves[b.moveOffset[k] - 1] = NoSquare
    BY <1>1, <1>2, <2>3, SlotBefore
  <2>8. g.movesIdx[k] < b.piece[k].reserved
    BY <1>1, <1>2, <2>3, <2>4, <2>5, SlotLeft
  <2>9. \/ g.overrun
        \/ b.moveOffset[k] = 0 /\ g.movesIdx[k] > 0 /\ h.movesIdx[k] = 0
    BY <1>1, <1>2, <2>1, <2>4, <2>5, <2>6, <2>7, <2>8, AnsweredFlag
  <2>10. CASE b.moveOffset[k] = 0 /\ g.movesIdx[k] > 0 /\ h.movesIdx[k] = 0
    <3>1. k = 1
      <4> SUFFICES ASSUME k > 1 PROVE FALSE
        BY <1>1
      <4>1. 1 \in ID
        BY DEF ID
      <4>2. /\ b.moveOffset[1] \in Nat /\ b.piece[1].reserved \in 5 .. 27
            /\ b.moveOffset[1] + b.piece[1].reserved <= b.moveOffset[k]
        BY <1>1, <4>1, FieldsOf, BlocksApart
      <4> QED
        BY <4>2, <2>10
    <3> QED
      BY <3>1, <1>6, <2>4, <2>10
  <2>11. CASE g.overrun
    <3>1. n # 0 /\ 1 # k
      <4>1. n # 0
        BY <2>11
      <4> QED
        BY <4>1, <1>1
    <3>2. Answers(b, g, k, h)
      BY <1>1, <1>2, <2>1, <2>4, <2>5, <2>6, Answered
    <3>3. 1 \in ID \ {k}
      BY <3>1 DEF ID
    <3>4. h.movesIdx[1] = g.movesIdx[1]
      BY <3>2, <3>3 DEF Answers
    <3> QED
      BY <2>11, <3>4 DEF Explained
  <2> QED
    BY <2>9, <2>10, <2>11
<1> QED
  BY <1>5, <1>6

\* filterChecked, over all the lists.
LEMMA CheckedExplained ==
  ASSUME NEW b, BoardOK(b), NoneFull(b), NEW color \in Color, NEW g0, NEW U,
         Unchecked(b, color, g0, U), g0.overrun = FALSE
  PROVE  Explained(g0, filterChecked(b, g0))
<1>1. PICK o : CheckRun(b, color, g0, U, o)
  BY CheckRuns
<1> DEFINE T == {n \in Nat : n <= 32 => Explained(g0, o[n])}
<1>2. 0 \in T
  BY <1>1 DEF CheckRun, Explained
<1>3. ASSUME NEW n \in Nat, n \in T PROVE n + 1 \in T
  <2> SUFFICES ASSUME n + 1 <= 32 PROVE Explained(g0, o[n + 1])
    OBVIOUS
  <2>1. n \in 0 .. 31 /\ n \in 0 .. 32 /\ n <= 32
    OBVIOUS
  <2>2. /\ o[n + 1] = answering(b, o[n], n + 1) /\ Through(b, color, g0, U, n, o[n])
        /\ n = 0 => o[n].overrun = FALSE
    BY <1>1, <2>1 DEF CheckRun
  <2>3. Explained(g0, o[n])
    BY <1>3, <2>1
  <2> QED
    BY <2>1, <2>2, <2>3, ExplainedNext
<1> HIDE DEF T
<1>4. 32 \in T
  BY <1>2, <1>3, CountingUp
<1>5. Explained(g0, o[32])
  BY <1>4 DEF T
<1> QED
  BY <1>1, <1>5 DEF CheckRun

\* The king's filter, on a tidy list.
LEMMA KingFlag ==
  ASSUME NEW b, BoardOK(b), NEW color \in Color, NEW g \in Gens(b), Holding(b, g),
         NEW S \in SUBSET Square, TidyAt(b, g, kingOf(color), S),
         NEW h, h = filterKingMoves(b, color, g)
  PROVE  h.overrun = g.overrun
<1> DEFINE k == kingOf(color)
<1> DEFINE A == safe(g)
<1> DEFINE list == listOf(b, g, k)
<1> DEFINE l == sift(list, A)
<1>1. h = [g EXCEPT !.moves = l.moves, !.movesIdx[k] = l.j,
                    !.overrun = @ \/ (g.moves[l.off] # NoSquare /\ l.j < l.idx)]
  BY DEF filterKingMoves, safe
<1>2. k \in ID
  BY KingPlace
<1> HIDE DEF k, A
<1>3. /\ b.size \in Nat /\ list \in Loops(b.size) /\ list.idx \in Nat
      /\ list.j = 0 /\ list.off + list.idx <= b.size
      /\ list.off = b.moveOffset[k] /\ list.idx = g.movesIdx[k] /\ list.moves = g.moves
  BY <1>2, ListLoops, FieldsOf
<1> HIDE DEF list
<1>4. NoGaps(list)
  <2>1. Tidy(g.moves, b.moveOffset[k], g.movesIdx[k], b.piece[k].reserved, S)
    BY DEF TidyAt, k
  <2> QED
    BY <1>3, <2>1, OffBoard DEF Tidy, NoGaps
<1>5. l.j = l.idx /\ SiftInv(l, list, b.size, A)
  BY <1>3, <1>4, Sifted
<1> HIDE DEF l
<1>6. ~(l.j < l.idx)
  BY <1>3, <1>5 DEF SiftInv, Loops
<1>7. h.overrun = (g.overrun \/ (g.moves[l.off] # NoSquare /\ l.j < l.idx))
  BY <1>1 DEF Gens
<1> QED
  BY <1>6, <1>7 DEF Gens

\* genMoves.
LEMMA GenExplained ==
  ASSUME NEW b, BoardOK(b), NoneFull(b), NEW color \in Color,
         NEW g, g = genMoves(b, color), g.overrun
  PROVE  /\ g.checkedId # EMPTY /\ g.checkedId # 1 /\ g.movesIdx[1] = 0
         /\ addMoves(b, 1) # <<>>
<1> DEFINE gg == generated(b, color)
<1> DEFINE p == filterPinned(b, color, gg)
<1> DEFINE q == IF p.checkedId = EMPTY THEN p ELSE filterChecked(b, p)
<1> DEFINE h == filterKingMoves(b, color, q)
<1> DEFINE U == unpinned(b, color)
<1> DEFINE k == kingOf(color)
<1>1. g = h
  BY DEF genMoves
<1>2. /\ gg \in Gens(b)
      /\ gg.checkedId = EMPTY \/ CheckedAlong(b, color, gg.checkedId, gg.line)
  BY GeneratedGens
<1>3. /\ p \in Gens(b) /\ Lists(b, p, U) /\ SameCall(gg, p) /\ Emptier(b, gg, p)
      /\ p.overrun = FALSE
  <2> HIDE DEF p, U
  <2> QED
    BY <1>2, PinnedLists DEF p, U
<1>4. \A id \in ID : U[id] \in SUBSET Square /\ U[id] \subseteq own(b)[id]
  BY OwnSquares DEF unpinned
<1> HIDE DEF p, U
<1>5. k \in ID /\ k \in {8, 24} /\ k # 1 /\ 1 \in ID
  BY KingPlace DEF kingOf, ID
<1>6. \A id \in ID : ~behindFull(b, id) /\ ~Full(b, id)
  <2> SUFFICES ASSUME NEW id \in ID PROVE ~behindFull(b, id)
    BY DEF NoneFull
  <2>1. id > 1 => id - 1 \in ID
    BY DEF ID
  <2> QED
    BY <2>1 DEF NoneFull, behindFull
<1>7. /\ q \in Gens(b) /\ Holding(b, q) /\ SameCall(p, q) /\ TidyAt(b, q, k, U[k])
      /\ q.overrun =>
            /\ q.checkedId # EMPTY /\ p.checkedId # 1 /\ p.movesIdx[1] > 0
            /\ q.movesIdx[1] = 0
  <2>1. CASE p.checkedId = EMPTY
    <3>1. q = p
      BY <2>1
    <3> HIDE DEF q
    <3> QED
      BY <3>1, <1>3, <1>5 DEF Lists, SameCall
  <2>2. CASE p.checkedId # EMPTY
    <3>1. q = filterChecked(b, p)
      BY <2>2
    <3> HIDE DEF q
    <3>2. Unchecked(b, color, p, U)
      BY <1>2, <1>3, <1>4, <2>2 DEF Unchecked, SameCall
    <3>3. Through(b, color, p, U, 32, q)
      BY <3>1, <3>2, CheckedLists
    <3>4. /\ q \in Gens(b) /\ Holding(b, q) /\ SameCall(p, q)
          /\ \A id \in ID : Progress(b, p, q, 32, id, U[id])
      BY <3>3 DEF Through
    <3>5. TidyAt(b, q, k, U[k])
      <4>1. k <= 32
        BY <1>5
      <4> HIDE DEF k
      <4>2. Progress(b, p, q, 32, k, U[k])
        BY <1>5, <3>4
      <4>3. PassedBy(b, p, q, k, U[k])
        BY <1>5, <4>1, <4>2 DEF Progress
      <4> QED
        BY <1>5, <1>6, <4>3 DEF PassedBy
    <3>6. Explained(p, q)
      BY <1>3, <3>1, <3>2, CheckedExplained
    <3> QED
      BY <2>2, <3>4, <3>5, <3>6 DEF Explained, SameCall
  <2> QED
    BY <2>1, <2>2
<1> HIDE DEF q
<1>8. h.overrun = q.overrun
  BY <1>4, <1>5, <1>7, KingFlag
<1>9. Sifts(b, q, k, safe(q), h) /\ SameCall(q, h)
  BY <1>7, KingFiltered
<1> HIDE DEF h, k
<1>10. h.movesIdx[1] = q.movesIdx[1] /\ h.checkedId = q.checkedId
  BY <1>5, <1>9 DEF Sifts, SameCall
<1>11. /\ q.checkedId # EMPTY /\ p.checkedId # 1 /\ p.movesIdx[1] > 0
       /\ q.movesIdx[1] = 0 /\ q.checkedId = p.checkedId
  BY <1>1, <1>7, <1>8 DEF SameCall
<1>12. addMoves(b, 1) # <<>>
  <2>1. Tidy(p.moves, b.moveOffset[1], p.movesIdx[1], b.piece[1].reserved, U[1])
    BY <1>3, <1>5 DEF Lists, TidyAt
  <2>2. 0 \in 0 .. p.movesIdx[1] - 1
    BY <1>11, <2>1 DEF Tidy
  <2>3. p.moves[b.moveOffset[1] + 0] \in own(b)[1]
    BY <1>4, <1>5, <2>1, <2>2 DEF Tidy
  <2>4. 1 \in inPlay(b)
    BY <1>5, <2>3 DEF own
  <2>5. Enumerates(addMoves(b, 1), own(b)[1])
    BY <2>4, Given
  <2>6. PICK i \in 1 .. Len(addMoves(b, 1)) :
           addMoves(b, 1)[i] = p.moves[b.moveOffset[1] + 0]
    BY <2>3, <2>5 DEF Enumerates
  <2> QED
    BY <2>6
<1> QED
  BY <1>1, <1>10, <1>11, <1>12

\* Without a check.
LEMMA OverrunsInCheck ==
  ASSUME NEW b, BoardOK(b), NEW color \in Color, NEW g, g = genMoves(b, color), g.overrun
  PROVE  g.checkedId # EMPTY
<1> SUFFICES ASSUME g.checkedId = EMPTY PROVE FALSE
  OBVIOUS
<1> DEFINE gg == generated(b, color)
<1> DEFINE p == filterPinned(b, color, gg)
<1> DEFINE U == unpinned(b, color)
<1> DEFINE k == kingOf(color)
<1>1. gg \in Gens(b)
  BY GeneratedGens
<1>2. /\ p \in Gens(b) /\ Lists(b, p, U) /\ SameCall(gg, p) /\ p.overrun = FALSE
  <2> HIDE DEF p, U
  <2> QED
    BY <1>1, PinnedLists DEF p, U
<1>3. gg.checkedId = EMPTY
  BY GenOutcome DEF Outcome, SameCall
<1>4. p.checkedId = EMPTY
  BY <1>2, <1>3 DEF SameCall
<1>5. g = filterKingMoves(b, color, p)
  BY <1>4 DEF genMoves
<1>6. k \in ID /\ U[k] \in SUBSET Square
  <2>1. k \in ID
    BY KingPlace
  <2> QED
    BY <2>1, OwnSquares DEF unpinned
<1> HIDE DEF p, U
<1>7. TidyAt(b, p, k, U[k]) /\ Holding(b, p)
  BY <1>2, <1>6 DEF Lists
<1>8. g.overrun = p.overrun
  BY <1>2, <1>5, <1>6, <1>7, KingFlag
<1> QED
  BY <1>2, <1>8

-----------------------------------------------------------------------------
(* Moves, promotions, new boards, snapshots and restarts keep BoardOK      *)

\* A piece is not offered the square it stands on.
LEMMA TargetsElsewhere ==
  ASSUME NEW b, BoardOK(b), NEW id \in ID, NEW t, t \in own(b)[id]
  PROVE  t \in Square /\ id \in inPlay(b) /\ b.at[t] # id
<1>1. id \in inPlay(b) /\ t \in targets(b, id)
  BY DEF own
<1>2. t \in Square
  BY <1>1, InPlayStanding, AddMovesIs
<1>3. getColor(EMPTY) # getColor(id) /\ getColor(id) # otherColor(getColor(id))
  BY DEF getColor, otherColor, ID, EMPTY
<1>4. b.at[t] = EMPTY \/ getColor(b.at[t]) # getColor(id)
  <2>1. CASE b.piece[id].type = "PAWN"
    BY <1>1, <1>3, <2>1 DEF targets
  <2>2. CASE b.piece[id].type # "PAWN"
    BY <1>1, <2>2 DEF targets
  <2> QED
    BY <2>1, <2>2
<1>5. EMPTY # id
  BY DEF EMPTY, ID
<1> QED
  BY <1>1, <1>2, <1>4, <1>5

\* Nor does genMoves offer it.
LEMMA OfferedElsewhere ==
  ASSUME NEW b, BoardOK(b), NEW color \in Color, NEW g, g = genMoves(b, color),
         NEW id \in inPlay(b), NEW t \in Square, t \in offered(b, g, id)
  PROVE  b.at[t] # id
<1>1. Outcome(b, color, g) /\ id \in ID
  BY GenOutcome, InPlayStanding
<1>2. Listed(b, color, g, id, unpinned(b, color)[id]) /\ g.movesIdx[id] <= b.piece[id].reserved
      /\ g.movesIdx[id] \in Nat /\ b.piece[id].reserved \in Nat
  BY <1>1, FieldsOf DEF Outcome, Holding
<1>3. PICK i \in 0 .. g.movesIdx[id] - 1 : t = g.moves[b.moveOffset[id] + i]
  BY DEF offered
<1>4. i \in 0 .. b.piece[id].reserved - 1
  BY <1>2, <1>3
<1>5. t # NoSquare
  BY OffBoard
<1>6. ASSUME t \in unpinned(b, color)[id] PROVE b.at[t] # id
  <2>1. t \in own(b)[id]
    BY <1>1, <1>6 DEF unpinned
  <2> QED
    BY <1>1, <2>1, TargetsElsewhere
<1>7. CASE id = kingOf(color)
  BY <1>2, <1>3, <1>4, <1>5, <1>6, <1>7 DEF Listed
<1>8. CASE answersCheck(g, id)
  <2>1. g.checkedId # EMPTY /\ id # g.checkedId
    BY <1>8 DEF answersCheck
  <2>2. CheckedAlong(b, color, g.checkedId, g.line)
    BY <1>1, <2>1, GeneratedGens DEF Outcome, SameCall
  <2>3. t \in g.line
    BY <1>2, <1>3, <1>5, <1>8 DEF Listed, Filtered
  <2>4. b.at[t] = g.checkedId \/ b.at[t] = EMPTY
    BY <2>2, <2>3 DEF CheckedAlong
  <2>5. EMPTY # id
    BY <1>1 DEF EMPTY, ID
  <2> QED
    BY <2>1, <2>4, <2>5
<1>9. CASE id # kingOf(color) /\ ~answersCheck(g, id)
  BY <1>2, <1>3, <1>4, <1>5, <1>6, <1>9 DEF Listed, Rests
<1> QED
  BY <1>7, <1>8, <1>9

\* Moving a piece to another square.
LEMMA MovedPieces ==
  ASSUME NEW b, BoardOK(b), NEW id \in inPlay(b), NEW t \in Square, b.at[t] # id
  PROVE  /\ move(b, id, t).piece \in Pieces
         /\ \A i \in ID : /\ move(b, id, t).piece[i].type = b.piece[i].type
                          /\ move(b, id, t).piece[i].reserved = b.piece[i].reserved
                          /\ move(b, id, t).piece[i].position =
                               IF i = id THEN t ELSE IF i = b.at[t] THEN NoSquare
                               ELSE b.piece[i].position
         /\ move(b, id, t).at \in [Square -> ID \cup {EMPTY}]
         /\ \A s \in Square : move(b, id, t).at[s] =
               IF s = b.piece[id].position THEN EMPTY ELSE IF s = t THEN id ELSE b.at[s]
         /\ move(b, id, t).moveOffset = b.moveOffset /\ move(b, id, t).size = b.size
         /\ b.piece[id].position \in Square /\ b.piece[id].position # t
<1> DEFINE p == b.piece
<1> DEFINE taken == b.at[t]
<1> DEFINE lifted == IF taken = EMPTY THEN p ELSE [p EXCEPT ![taken].position = NoSquare]
<1>1. p \in Pieces /\ id \in ID /\ b.at \in [Square -> ID \cup {EMPTY}] /\ EMPTY \notin ID
      /\ t \in Place /\ NoSquare \in Place
  BY DEF BoardOK, Boards, inPlay, EMPTY, ID, Place
<1>2. p[id].position \in Square
  BY <1>1 DEF inPlay, Pieces, Place
<1>3. p[id].position # t
  BY <1>1, <1>2 DEF BoardOK, Agreed
<1>4. lifted \in Pieces /\ \A i \in ID :
         /\ lifted[i].type = p[i].type /\ lifted[i].reserved = p[i].reserved
         /\ lifted[i].position = IF i = taken THEN NoSquare ELSE p[i].position
  BY <1>1 DEF Pieces
<1> HIDE DEF p, taken, lifted
<1> DEFINE q == [lifted EXCEPT ![id].position = t]
<1>5. q \in Pieces /\ \A i \in ID :
         /\ q[i].type = p[i].type /\ q[i].reserved = p[i].reserved
         /\ q[i].position = IF i = id THEN t ELSE lifted[i].position
  BY <1>1, <1>4 DEF Pieces
<1> HIDE DEF q
<1> DEFINE at2 == [[b.at EXCEPT ![t] = id] EXCEPT ![p[id].position] = EMPTY]
<1>6. at2 \in [Square -> ID \cup {EMPTY}] /\ \A s \in Square :
         at2[s] = IF s = p[id].position THEN EMPTY ELSE IF s = t THEN id ELSE b.at[s]
  BY <1>1, <1>2
<1> HIDE DEF at2
<1>7. /\ move(b, id, t).piece = q /\ move(b, id, t).at = at2
      /\ move(b, id, t).moveOffset = b.moveOffset /\ move(b, id, t).size = b.size
  BY DEF move, q, lifted, taken, p, at2, BoardOK, Boards
<1>8. \A i \in ID : /\ q[i].type = p[i].type
                    /\ q[i].reserved = p[i].reserved
                    /\ q[i].position = IF i = id THEN t ELSE IF i = taken THEN NoSquare
                                       ELSE p[i].position
  BY <1>4, <1>5
<1> QED
  BY <1>2, <1>3, <1>5, <1>6, <1>7, <1>8 DEF p, taken

\* A board whose pieces have the slots they had, or fewer.
LEMMA SlotsSuffice ==
  ASSUME NEW b, BoardOK(b), NEW c, c \in Boards, Suited(c.piece), Agreed(c),
         c.moveOffset = b.moveOffset, c.size = b.size,
         \A i \in ID : c.piece[i].reserved <= b.piece[i].reserved
  PROVE  BoardOK(c)
<1>1. b.piece \in Pieces /\ c.piece \in Pieces /\ b.size \in Nat
  BY DEF BoardOK, Boards
<1>2. total(c.piece) <= total(b.piece) /\ total(b.piece) <= b.size
  BY <1>1, OffsetsShrink DEF BoardOK
<1>3. total(c.piece) \in Nat /\ total(b.piece) \in Nat
  <2>1. \A p \in Pieces : genMoveOffsets(p)[32] \in Nat /\ p[32].reserved \in Nat
    BY SMTT(30), OffsetsAre DEF Pieces, ID
  <2> QED
    BY <1>1, <2>1 DEF total
<1>4. total(c.piece) <= c.size
  BY <1>1, <1>2, <1>3
<1>5. ASSUME NEW id \in ID
      PROVE  c.moveOffset[id] + c.piece[id].reserved <= nextOffset(c, id)
  <2>1. nextOffset(c, id) = nextOffset(b, id)
    BY DEF nextOffset
  <2>2. b.moveOffset[id] + b.piece[id].reserved <= nextOffset(b, id)
    BY DEF BoardOK, Spaced
  <2>3. b.moveOffset[id] \in Nat /\ nextOffset(b, id) \in Nat /\ b.piece[id].reserved \in Nat
    BY FieldsOf
  <2>4. c.piece[id].reserved \in Nat
    BY <1>1 DEF Pieces
  <2> QED
    BY <2>1, <2>2, <2>3, <2>4
<1> QED
  BY <1>4, <1>5 DEF BoardOK, Spaced

\* A move keeps a board in order.
LEMMA MovedOK ==
  ASSUME NEW b, BoardOK(b), NEW id \in inPlay(b), NEW t \in Square, b.at[t] # id
  PROVE  BoardOK(move(b, id, t))
<1> DEFINE c == move(b, id, t)
<1> DEFINE s0 == b.piece[id].position
<1>1. b \in Boards /\ id \in ID /\ EMPTY \notin ID
  BY DEF BoardOK, inPlay, ID, EMPTY
<1>2. /\ c.piece \in Pieces
      /\ \A i \in ID : /\ c.piece[i].type = b.piece[i].type
                       /\ c.piece[i].reserved = b.piece[i].reserved
                       /\ c.piece[i].position =
                            IF i = id THEN t ELSE IF i = b.at[t] THEN NoSquare
                            ELSE b.piece[i].position
      /\ c.at \in [Square -> ID \cup {EMPTY}]
      /\ \A s \in Square : c.at[s] = IF s = s0 THEN EMPTY ELSE IF s = t THEN id ELSE b.at[s]
      /\ c.moveOffset = b.moveOffset /\ c.size = b.size
      /\ s0 \in Square /\ s0 # t
  BY MovedPieces
<1>3. c \in Boards
  <2>1. c = [at |-> c.at, piece |-> c.piece, moveOffset |-> c.moveOffset, size |-> c.size]
    <3> DEFINE lifted == IF b.at[t] = EMPTY THEN b.piece
                         ELSE [b.piece EXCEPT ![b.at[t]].position = NoSquare]
    <3> DEFINE q == [lifted EXCEPT ![id].position = t]
    <3> DEFINE at2 == [[b.at EXCEPT ![t] = id] EXCEPT ![b.piece[id].position] = EMPTY]
    <3>1. c = [b EXCEPT !.piece = q, !.at = at2]
      BY DEF move
    <3>2. b = [at |-> b.at, piece |-> b.piece, moveOffset |-> b.moveOffset, size |-> b.size]
      BY <1>1 DEF Boards
    <3> HIDE DEF c, q, at2
    <3> QED
      BY <3>1, <3>2
  <2>2. c.moveOffset \in [ID -> Nat] /\ c.size \in Nat
    BY <1>1, <1>2 DEF Boards
  <2> HIDE DEF c
  <2> QED
    BY <1>2, <2>1, <2>2 DEF Boards
<1> HIDE DEF c
<1>4. Suited(c.piece)
  BY <1>2 DEF BoardOK, Suited
<1>5. ASSUME NEW i \in ID, NEW s \in Square PROVE c.at[s] = i <=> c.piece[i].position = s
  <2>1. b.at[s] = i <=> b.piece[i].position = s
    BY DEF BoardOK, Agreed
  <2>2. b.at[t] = i <=> b.piece[i].position = t
    BY DEF BoardOK, Agreed
  <2>3. b.at[s0] = i <=> b.piece[i].position = s0
    BY <1>2 DEF BoardOK, Agreed
  <2>4. b.at[s0] = id
    BY <1>1, <1>2 DEF BoardOK, Agreed
  <2>5. s # NoSquare /\ i # EMPTY
    BY <1>1, OffBoard
  <2> HIDE DEF s0
  <2>6. CASE i = id
    BY <1>2, <2>1, <2>2, <2>3, <2>4, <2>5, <2>6
  <2>7. CASE i # id
    <3>1. c.piece[i].position = IF i = b.at[t] THEN NoSquare ELSE b.piece[i].position
      BY <1>2, <2>7
    <3>2. c.at[s] = i <=> s # s0 /\ s # t /\ b.at[s] = i
      BY <1>2, <2>5, <2>7
    <3>3. CASE i = b.at[t]
      BY <2>1, <2>2, <2>5, <3>1, <3>2, <3>3
    <3>4. CASE i # b.at[t]
      BY <2>1, <2>2, <2>3, <2>4, <2>7, <3>1, <3>2, <3>4
    <3> QED
      BY <3>3, <3>4
  <2> QED
    BY <2>6, <2>7
<1>6. \A i \in ID : c.piece[i].reserved <= b.piece[i].reserved
  BY <1>1, <1>2 DEF Boards, Pieces
<1>7. Agreed(c)
  BY <1>5 DEF Agreed
<1>8. BoardOK(c)
  BY <1>2, <1>3, <1>4, <1>6, <1>7, SlotsSuffice
<1> QED
  BY <1>8 DEF c

\* The types a pawn is promoted to.
LEMMA PromotedTypes ==
  ASSUME NEW promotion \in promotions \cup {"None"}
  PROVE  /\ toBoardConvention(promotion) \in promotions
         /\ toBoardConvention(promotion) \in Type
         /\ reservedForType[toBoardConvention(promotion)] \in 5 .. 27
         /\ reservedForType["PAWN"] = 5
<1>1. toBoardConvention(promotion) \in promotions
  BY DEF promotions, toBoardConvention
<1>2. promotions \subseteq Type
  BY DEF promotions, Type
<1>3. reservedForType["PAWN"] = 5
  BY DEF reservedForType
<1> QED
  BY <1>1, <1>2, <1>3, ReservedIs

\* A promotion keeps a board in order: the new slots fit.
LEMMA PromotedOK ==
  ASSUME NEW b, BoardOK(b), NEW id \in ID, isPawnPromotable(b, id),
         NEW promotion \in promotions \cup {"None"}
  PROVE  BoardOK(promotePawn(b, id, toBoardConvention(promotion)))
<1> DEFINE type == toBoardConvention(promotion)
<1> DEFINE p == b.piece
<1> DEFINE q == [p EXCEPT ![id].type = type, ![id].reserved = reservedForType[type]]
<1> DEFINE c == promotePawn(b, id, type)
<1>1. type \in promotions /\ type \in Type /\ reservedForType[type] \in 5 .. 27
      /\ reservedForType["PAWN"] = 5
  BY PromotedTypes
<1> HIDE DEF type
<1>2. p \in Pieces /\ b.size \in Nat /\ b \in Boards
  BY DEF BoardOK, Boards
<1>3. homeType[id] = "PAWN" /\ p[id].type = "PAWN" /\ p[id].reserved = 5
  BY <1>1, FieldsOf DEF isPawnPromotable, isPawnId
<1>4. q \in Pieces
  BY <1>1, <1>2 DEF Pieces
<1>5. \A i \in ID : q[i].position = p[i].position
      /\ (i # id => q[i].type = p[i].type /\ q[i].reserved = p[i].reserved)
  BY <1>2 DEF Pieces
<1>6. q[id].type = type /\ q[id].reserved = reservedForType[type]
  BY <1>2 DEF Pieces
<1>7. c = [at |-> b.at, piece |-> q, moveOffset |-> genMoveOffsets(q),
           size |-> b.size - 5 + reservedForType[type]]
  <2>1. c = [b EXCEPT !.piece = q, !.moveOffset = genMoveOffsets(q),
                      !.size = b.size - reservedForType["PAWN"] + reservedForType[type]]
    BY DEF promotePawn
  <2>2. b = [at |-> b.at, piece |-> b.piece, moveOffset |-> b.moveOffset, size |-> b.size]
    BY <1>2 DEF Boards
  <2> HIDE DEF p, q, c
  <2> QED
    BY <1>1, <2>1, <2>2
<1> HIDE DEF p, q, c
<1>8. total(q) = total(p) + q[id].reserved - p[id].reserved
  BY <1>2, <1>4, <1>5, OffsetsShift
<1>9. total(p) \in Nat /\ total(p) <= b.size
  <2>1. genMoveOffsets(p)[32] \in Nat /\ p[32].reserved \in Nat
    BY <1>2, OffsetsAre DEF Pieces, ID
  <2> QED
    BY <2>1 DEF total, BoardOK, p
<1>10. c.size \in Nat /\ total(q) <= c.size
  BY <1>1, <1>2, <1>3, <1>6, <1>7, <1>8, <1>9
<1>11. /\ genMoveOffsets(q) \in [ID -> Nat]
       /\ \A i \in 1 .. 31 : genMoveOffsets(q)[i + 1] = genMoveOffsets(q)[i] + q[i].reserved
  BY <1>4, OffsetsAre
<1>12. c \in Boards
  BY <1>2, <1>4, <1>7, <1>10, <1>11 DEF Boards
<1>13. c.at = b.at /\ c.piece = q /\ c.moveOffset = genMoveOffsets(q)
  BY <1>7
<1>14. Suited(q)
  <2>1. Suited(p)
    BY DEF BoardOK, p
  <2> QED
    BY <1>1, <1>3, <1>5, <1>6, <2>1 DEF Suited
<1>15. Agreed(c)
  BY <1>5, <1>13 DEF BoardOK, Agreed, p
<1>16. ASSUME NEW i \in ID PROVE c.moveOffset[i] + c.piece[i].reserved <= nextOffset(c, i)
  <2>1. CASE i = 32
    BY <1>10, <1>13, <2>1 DEF total, nextOffset
  <2>2. CASE i # 32
    <3>1. i \in 1 .. 31 /\ i \in Int /\ i + 1 \in ID
      BY <2>2 DEF ID
    <3>2. nextOffset(c, i) = c.moveOffset[i + 1]
      BY <2>2 DEF nextOffset
    <3>3. c.moveOffset[i + 1] = c.moveOffset[i] + c.piece[i].reserved
      BY <1>11, <1>13, <3>1
    <3>4. c.moveOffset[i + 1] \in Nat
      BY <1>11, <1>13, <3>1
    <3> QED
      BY <3>2, <3>3, <3>4
  <2> QED
    BY <2>1, <2>2
<1>17. BoardOK(c)
  BY <1>10, <1>12, <1>13, <1>14, <1>15, <1>16 DEF BoardOK, Spaced
<1> QED
  BY <1>17 DEF c, type

\* So does the promotion that may follow a move.
LEMMA PromoteIfDueOK ==
  ASSUME NEW b, BoardOK(b), NEW id \in ID, NEW promotion \in promotions \cup {"None"}
  PROVE  BoardOK(promoteIfDue(b, id, promotion))
BY PromotedOK DEF promoteIfDue

\* A position: pieces on squares of their own.
Position(pos) ==
    /\ DOMAIN pos \subseteq ID
    /\ \A i \in DOMAIN pos : pos[i] \in Square
    /\ \A i, j \in DOMAIN pos : pos[i] = pos[j] => i = j

\* The type that each id begins with.
LEMMA HomeTypes ==
  /\ homeType \in [ID -> Type]
  /\ homeType[1] = "ROOK" /\ homeType[2] = "ROOK" /\ homeType[3] = "KNIGHT"
  /\ homeType[4] = "KNIGHT" /\ homeType[5] = "BISHOP" /\ homeType[6] = "BISHOP"
  /\ homeType[7] = "QUEEN" /\ homeType[8] = "KING"
  /\ \A i \in 9 .. 16 : homeType[i] = "PAWN"
  /\ homeType[17] = "ROOK" /\ homeType[18] = "ROOK" /\ homeType[19] = "KNIGHT"
  /\ homeType[20] = "KNIGHT" /\ homeType[21] = "BISHOP" /\ homeType[22] = "BISHOP"
  /\ homeType[23] = "QUEEN" /\ homeType[24] = "KING"
  /\ \A i \in 25 .. 32 : homeType[i] = "PAWN"
<1> DEFINE rank == <<"ROOK", "ROOK", "KNIGHT", "KNIGHT", "BISHOP", "BISHOP", "QUEEN", "KING">>
<1>1. \A i \in ID : homeType[i] = IF (i - 1) % 16 < 8 THEN rank[((i - 1) % 16) + 1] ELSE "PAWN"
  BY DEF homeType
<1>2. homeType = [i \in ID |-> homeType[i]]
  BY DEF homeType
<1>3. \A i \in 9 .. 16 : homeType[i] = "PAWN"
  BY <1>1 DEF ID
<1>4. \A i \in 25 .. 32 : homeType[i] = "PAWN"
  BY <1>1 DEF ID
<1>5. \A i \in 1 .. 8 : homeType[i] = rank[i]
  BY <1>1 DEF ID
<1>6. \A i \in 17 .. 24 : homeType[i] = rank[i - 16]
  BY <1>1 DEF ID
<1>7. /\ rank[1] = "ROOK" /\ rank[2] = "ROOK" /\ rank[3] = "KNIGHT" /\ rank[4] = "KNIGHT"
      /\ rank[5] = "BISHOP" /\ rank[6] = "BISHOP" /\ rank[7] = "QUEEN" /\ rank[8] = "KING"
  OBVIOUS
<1>8. \A i \in 1 .. 8 : rank[i] \in Type
  BY DEF Type
<1> HIDE DEF rank
<1>9. \A i \in ID : homeType[i] \in Type
  <2>1. ASSUME NEW i \in ID PROVE homeType[i] \in Type
    <3>1. i \in 1 .. 8 \/ i \in 9 .. 16 \/ (i \in 17 .. 24 /\ i - 16 \in 1 .. 8) \/ i \in 25 .. 32
      BY DEF ID
    <3>2. "PAWN" \in Type
      BY DEF Type
    <3> QED
      BY <1>3, <1>4, <1>5, <1>6, <1>8, <3>1, <3>2
  <2> QED
    BY <2>1
<1>10. homeType \in [ID -> Type]
  BY <1>2, <1>9
<1>11. /\ homeType[1] = rank[1] /\ homeType[2] = rank[2] /\ homeType[3] = rank[3]
       /\ homeType[4] = rank[4] /\ homeType[5] = rank[5] /\ homeType[6] = rank[6]
       /\ homeType[7] = rank[7] /\ homeType[8] = rank[8]
  BY <1>5
<1>12. /\ homeType[17] = rank[1] /\ homeType[18] = rank[2] /\ homeType[19] = rank[3]
       /\ homeType[20] = rank[4] /\ homeType[21] = rank[5] /\ homeType[22] = rank[6]
       /\ homeType[23] = rank[7] /\ homeType[24] = rank[8]
  BY <1>6
<1> QED
  BY <1>3, <1>4, <1>7, <1>10, <1>11, <1>12

\* The pieces of a new board.
LEMMA GenPieces ==
  ASSUME NEW pos, Position(pos)
  PROVE  /\ genPieces(pos) \in Pieces /\ Suited(genPieces(pos))
         /\ \A i \in ID :
              /\ genPieces(pos)[i].position = IF i \in DOMAIN pos THEN pos[i] ELSE NoSquare
              /\ genPieces(pos)[i].type = homeType[i]
              /\ genPieces(pos)[i].reserved = reservedForType[homeType[i]]
<1>1. \A i \in ID : homeType[i] \in Type /\ reservedForType[homeType[i]] \in Nat
  <2>1. \A x \in 5 .. 27 : x \in Nat
    OBVIOUS
  <2> QED
    BY <2>1, HomeTypes, ReservedIs
<1>2. \A i \in ID :
         /\ genPieces(pos)[i].position = IF i \in DOMAIN pos THEN pos[i] ELSE NoSquare
         /\ genPieces(pos)[i].type = homeType[i]
         /\ genPieces(pos)[i].reserved = reservedForType[homeType[i]]
  BY DEF genPieces
<1>3. \A i \in ID : (IF i \in DOMAIN pos THEN pos[i] ELSE NoSquare) \in Place
  BY DEF Position, Place
<1>4. genPieces(pos) \in Pieces
  BY <1>1, <1>3 DEF genPieces, Pieces
<1>5. Suited(genPieces(pos))
  BY <1>2 DEF Suited
<1> QED
  BY <1>2, <1>4, <1>5

\* The array of a new board has 290 slots.
LEMMA HomeSlots ==
  ASSUME NEW p \in Pieces, \A i \in ID : p[i].reserved = reservedForType[homeType[i]]
  PROVE  /\ total(p) = 290
         /\ genMoveOffsets(p)[16] = 140 /\ genMoveOffsets(p)[17] = 145
<1> DEFINE o == genMoveOffsets(p)
<1> DEFINE r(i) == p[i].reserved
<1>1. o[1] = 0 /\ \A i \in 1 .. 31 : o[i + 1] = o[i] + r(i)
  BY OffsetsAre
<1>2. /\ reservedForType["PAWN"] = 5 /\ reservedForType["KNIGHT"] = 8
      /\ reservedForType["BISHOP"] = 13 /\ reservedForType["ROOK"] = 14
      /\ reservedForType["QUEEN"] = 27 /\ reservedForType["KING"] = 8
  BY DEF reservedForType
<1>3. /\ r(1) = 14 /\ r(2) = 14 /\ r(3) = 8 /\ r(4) = 8 /\ r(5) = 13 /\ r(6) = 13
      /\ r(7) = 27 /\ r(8) = 8 /\ r(17) = 14 /\ r(18) = 14 /\ r(19) = 8 /\ r(20) = 8
      /\ r(21) = 13 /\ r(22) = 13 /\ r(23) = 27 /\ r(24) = 8
  BY <1>2, HomeTypes DEF ID
<1>4. \A i \in 9 .. 16 : r(i) = 5
  BY <1>2, HomeTypes DEF ID
<1>5. \A i \in 25 .. 32 : r(i) = 5
  BY <1>2, HomeTypes DEF ID
<1> HIDE DEF o, r
<1>6. /\ o[2] = o[1] + r(1) /\ o[3] = o[2] + r(2) /\ o[4] = o[3] + r(3) /\ o[5] = o[4] + r(4)
      /\ o[6] = o[5] + r(5) /\ o[7] = o[6] + r(6) /\ o[8] = o[7] + r(7) /\ o[9] = o[8] + r(8)
  BY <1>1
<1>7. o[9] = 105
  BY <1>1, <1>3, <1>6
<1>8. /\ o[10] = o[9] + r(9) /\ o[11] = o[10] + r(10) /\ o[12] = o[11] + r(11)
      /\ o[13] = o[12] + r(12) /\ o[14] = o[13] + r(13) /\ o[15] = o[14] + r(14)
      /\ o[16] = o[15] + r(15) /\ o[17] = o[16] + r(16)
  BY <1>1
<1>9. o[16] = 140 /\ o[17] = 145
  BY <1>4, <1>7, <1>8
<1>10. /\ o[18] = o[17] + r(17) /\ o[19] = o[18] + r(18) /\ o[20] = o[19] + r(19)
       /\ o[21] = o[20] + r(20) /\ o[22] = o[21] + r(21) /\ o[23] = o[22] + r(22)
       /\ o[24] = o[23] + r(23) /\ o[25] = o[24] + r(24)
  BY <1>1
<1>11. o[25] = 250
  BY <1>3, <1>9, <1>10
<1>12. /\ o[26] = o[25] + r(25) /\ o[27] = o[26] + r(26) /\ o[28] = o[27] + r(27)
       /\ o[29] = o[28] + r(28) /\ o[30] = o[29] + r(29) /\ o[31] = o[30] + r(30)
       /\ o[32] = o[31] + r(31)
  BY <1>1
<1>13. o[32] + r(32) = 290
  BY <1>5, <1>11, <1>12
<1> QED
  BY <1>9, <1>13 DEF total, o, r

\* The squares of a new board.
LEMMA Literal ==
  ASSUME NEW pos, Position(pos)
  PROVE  /\ genBoardLiteral(pos) \in [Square -> ID \cup {EMPTY}]
         /\ \A s \in Square, i \in ID :
              genBoardLiteral(pos)[s] = i <=> i \in DOMAIN pos /\ pos[i] = s
<1>1. ASSUME NEW s \in Square
      PROVE  /\ genBoardLiteral(pos)[s] \in ID \cup {EMPTY}
             /\ \A i \in ID : genBoardLiteral(pos)[s] = i <=> i \in DOMAIN pos /\ pos[i] = s
  <2> DEFINE it == CHOOSE id \in DOMAIN pos : pos[id] = s
  <2>1. genBoardLiteral(pos)[s] =
           IF \E id \in DOMAIN pos : pos[id] = s THEN it ELSE EMPTY
    BY DEF genBoardLiteral
  <2>2. EMPTY \notin ID /\ DOMAIN pos \subseteq ID
    BY DEF EMPTY, ID, Position
  <2>3. CASE \E id \in DOMAIN pos : pos[id] = s
    <3>1. it \in DOMAIN pos /\ pos[it] = s
      BY <2>3
    <3> HIDE DEF it
    <3>2. \A i \in DOMAIN pos : pos[i] = s => i = it
      BY <3>1 DEF Position
    <3> QED
      BY <2>1, <2>2, <2>3, <3>1, <3>2
  <2>4. CASE ~ \E id \in DOMAIN pos : pos[id] = s
    BY <2>1, <2>2, <2>4
  <2> QED
    BY <2>3, <2>4
<1>2. genBoardLiteral(pos) = [s \in Square |-> genBoardLiteral(pos)[s]]
  BY DEF genBoardLiteral
<1> QED
  BY <1>1, <1>2

\* A new board is in order.
LEMMA NewBoardOK ==
  ASSUME NEW pos, Position(pos)
  PROVE  BoardOK(newBoard(pos)) /\ Agreed(newBoard(pos))
<1> DEFINE b == newBoard(pos)
<1> DEFINE p == genPieces(pos)
<1>1. b = [at |-> genBoardLiteral(pos), piece |-> p, moveOffset |-> genMoveOffsets(p),
           size |-> 290]
  BY DEF newBoard, MAX_MOVES
<1> HIDE DEF b
<1>2. /\ p \in Pieces /\ Suited(p)
      /\ \A i \in ID :
              /\ p[i].position = IF i \in DOMAIN pos THEN pos[i] ELSE NoSquare
              /\ p[i].type = homeType[i]
              /\ p[i].reserved = reservedForType[homeType[i]]
  BY GenPieces
<1> HIDE DEF p
<1>3. total(p) = 290
  BY <1>2, HomeSlots
<1>4. /\ genMoveOffsets(p) \in [ID -> Nat]
      /\ \A i \in 1 .. 31 : genMoveOffsets(p)[i + 1] = genMoveOffsets(p)[i] + p[i].reserved
  BY <1>2, OffsetsAre
<1>5. b \in Boards
  BY <1>1, <1>2, <1>4, Literal DEF Boards
<1>6. Agreed(b)
  <2>1. NoSquare \notin Square
    BY OffBoard
  <2> QED
    BY <1>1, <1>2, <2>1, Literal DEF Agreed
<1>7. ASSUME NEW i \in ID PROVE b.moveOffset[i] + b.piece[i].reserved <= nextOffset(b, i)
  <2>1. CASE i = 32
    BY <1>1, <1>3, <2>1 DEF total, nextOffset
  <2>2. CASE i # 32
    <3>1. i \in 1 .. 31 /\ i \in Int /\ i + 1 \in ID
      BY <2>2 DEF ID
    <3>2. nextOffset(b, i) = b.moveOffset[i + 1]
      BY <2>2 DEF nextOffset
    <3>3. b.moveOffset[i + 1] = b.moveOffset[i] + b.piece[i].reserved
      BY <1>1, <1>4, <3>1
    <3>4. b.moveOffset[i + 1] \in Nat
      BY <1>1, <1>4, <3>1
    <3> QED
      BY <3>2, <3>3, <3>4
  <2> QED
    BY <2>1, <2>2
<1>8. total(b.piece) <= b.size
  BY <1>1, <1>3
<1>9. BoardOK(b)
  BY <1>1, <1>2, <1>5, <1>6, <1>7, <1>8 DEF BoardOK, Spaced
<1> QED
  BY <1>6, <1>9 DEF b

\* No piece has fewer slots than it had at first.
LEMMA HomeLeast ==
  ASSUME NEW b, BoardOK(b), NEW id \in ID
  PROVE  /\ reservedForType[homeType[id]] <= b.piece[id].reserved
         /\ reservedForType[homeType[id]] \in Nat
<1>1. b.piece[id].reserved = reservedForType[b.piece[id].type] /\ b.piece[id].reserved \in 5 .. 27
  BY FieldsOf
<1>2. reservedForType[homeType[id]] \in 5 .. 27
  BY HomeTypes, ReservedIs
<1>3. CASE b.piece[id].type = homeType[id]
  BY <1>1, <1>2, <1>3
<1>4. CASE b.piece[id].type # homeType[id]
  <2>1. homeType[id] = "PAWN"
    BY <1>4 DEF BoardOK, Suited
  <2>2. reservedForType["PAWN"] = 5
    BY DEF reservedForType
  <2> QED
    BY <1>1, <2>1, <2>2
<1> QED
  BY <1>3, <1>4

\* c is b after other has been assigned to it.
AssignedTo(b, other, c) ==
    /\ c = [at |-> other.at, piece |-> other.piece, moveOffset |-> b.moveOffset,
            size |-> b.size]
    /\ c.at = other.at /\ c.piece = other.piece
    /\ c.moveOffset = b.moveOffset /\ c.size = b.size

\* What operator= takes over.
LEMMA Assigned ==
  ASSUME NEW b, BoardOK(b), NEW other
  PROVE  AssignedTo(b, other, assign(b, other))
<1>1. b = [at |-> b.at, piece |-> b.piece, moveOffset |-> b.moveOffset, size |-> b.size]
  BY DEF BoardOK, Boards
<1>2. assign(b, other) = [b EXCEPT !.at = other.at, !.piece = other.piece]
  BY DEF assign
<1>3. assign(b, other) = [at |-> other.at, piece |-> other.piece, moveOffset |-> b.moveOffset,
                          size |-> b.size]
  BY <1>1, <1>2
<1> HIDE DEF AssignedTo
<1> QED
  BY <1>3 DEF AssignedTo

\* Another board's pieces may be assigned when they need no more slots.
LEMMA AssignedOK ==
  ASSUME NEW b, BoardOK(b), NEW other,
         other.at \in [Square -> ID \cup {EMPTY}], other.piece \in Pieces,
         Suited(other.piece), Agreed(other),
         \A i \in ID : other.piece[i].reserved <= b.piece[i].reserved
  PROVE  BoardOK(assign(b, other))
<1> DEFINE c == assign(b, other)
<1>1. AssignedTo(b, other, c)
  BY Assigned
<1> HIDE DEF c
<1>2. b.moveOffset \in [ID -> Nat] /\ b.size \in Nat
  BY DEF BoardOK, Boards
<1>3. c \in Boards
  BY <1>1, <1>2 DEF AssignedTo, Boards
<1>4. c.at = other.at /\ c.piece = other.piece /\ c.moveOffset = b.moveOffset
      /\ c.size = b.size
  BY <1>1 DEF AssignedTo
<1>5. Suited(c.piece) /\ Agreed(c)
  BY <1>4 DEF Agreed
<1>6. BoardOK(c)
  BY <1>3, <1>4, <1>5, SlotsSuffice
<1> QED
  BY <1>6 DEF c

\* Where the pieces of a board stand.
places(b) == [id \in inPlay(b) |-> b.piece[id].position]

\* A snapshot's board: the same squares, and the same pieces except that those
\* taken are what they were at first.
Snapshot(b, r) ==
    /\ r.at = b.at
    /\ r.piece \in Pieces /\ Suited(r.piece) /\ Agreed(r)
    /\ \A i \in inPlay(b) : r.piece[i] = b.piece[i]
    /\ \A i \in ID \ inPlay(b) : /\ r.piece[i].position = NoSquare
                                 /\ b.piece[i].position = NoSquare
                                 /\ r.piece[i].type = homeType[i]
    /\ \A i \in ID : r.piece[i].reserved <= b.piece[i].reserved

\* rebuildBoardFromRaw makes such a board.
LEMMA Rebuilt ==
  ASSUME NEW b, BoardOK(b)
  PROVE  Snapshot(b, rebuildBoardFromRaw(b))
<1> DEFINE r == rebuildBoardFromRaw(b)
<1> DEFINE pos == places(b)
<1> DEFINE typed ==
       [id \in ID |-> IF id \in inPlay(b)
                      THEN [position |-> pos[id], type |-> b.piece[id].type,
                            reserved |-> reservedForType[b.piece[id].type]]
                      ELSE genPieces(pos)[id]]
<1>1. r = [newBoard(pos) EXCEPT !.piece = typed]
  BY DEF rebuildBoardFromRaw, places
<1>2. newBoard(pos) = [at |-> genBoardLiteral(pos), piece |-> genPieces(pos),
                       moveOffset |-> genMoveOffsets(genPieces(pos)), size |-> MAX_MOVES]
  BY DEF newBoard
<1>3. r.at = genBoardLiteral(pos) /\ r.piece = typed
  BY <1>1, <1>2
<1> HIDE DEF r, typed
<1>4. DOMAIN pos = inPlay(b) /\ \A i \in inPlay(b) : pos[i] = b.piece[i].position
  BY DEF places
<1> HIDE DEF pos
<1>5. inPlay(b) \subseteq ID /\ b \in Boards
  BY DEF inPlay, BoardOK
<1>6. \A i \in inPlay(b) : b.piece[i].position \in Square
  BY InPlayStanding DEF Standing
<1>7. \A i, j \in inPlay(b) : b.piece[i].position = b.piece[j].position => i = j
  BY <1>5, <1>6 DEF BoardOK, Agreed
<1>8. Position(pos)
  BY <1>4, <1>5, <1>6, <1>7 DEF Position
<1>9. r.at = b.at
  <2>1. b.at \in [Square -> ID \cup {EMPTY}] /\ r.at \in [Square -> ID \cup {EMPTY}]
    BY <1>3, <1>5, <1>8, Literal DEF Boards
  <2>2. ASSUME NEW s \in Square PROVE r.at[s] = b.at[s]
    <3>1. \A i \in ID : r.at[s] = i <=> i \in inPlay(b) /\ b.piece[i].position = s
      BY <1>3, <1>4, <1>8, Literal
    <3>2. \A i \in ID : b.at[s] = i <=> b.piece[i].position = s
      BY DEF BoardOK, Agreed
    <3>3. \A i \in ID : b.piece[i].position = s => i \in inPlay(b)
      BY OffBoard DEF inPlay
    <3> QED
      BY <2>1, <3>1, <3>2, <3>3
  <2> QED
    BY <2>1, <2>2
<1>10. ASSUME NEW i \in inPlay(b) PROVE r.piece[i] = b.piece[i]
  <2>1. r.piece[i] = [position |-> b.piece[i].position, type |-> b.piece[i].type,
                      reserved |-> reservedForType[b.piece[i].type]]
    BY <1>3, <1>4, <1>5 DEF typed
  <2>2. b.piece[i] \in [position : Place, type : Type, reserved : Nat]
    BY <1>5 DEF Boards, Pieces
  <2>3. b.piece[i].reserved = reservedForType[b.piece[i].type]
    BY <1>5, FieldsOf
  <2>4. b.piece[i] = [position |-> b.piece[i].position, type |-> b.piece[i].type,
                      reserved |-> b.piece[i].reserved]
    BY <2>2
  <2> QED
    BY <2>1, <2>3, <2>4
<1>11. ASSUME NEW i \in ID \ inPlay(b)
       PROVE  /\ r.piece[i] = genPieces(pos)[i]
              /\ r.piece[i].position = NoSquare /\ b.piece[i].position = NoSquare
              /\ r.piece[i].type = homeType[i]
              /\ r.piece[i].reserved = reservedForType[homeType[i]]
  <2>1. r.piece[i] = genPieces(pos)[i]
    BY <1>3 DEF typed
  <2>2. genPieces(pos)[i].position = NoSquare /\ genPieces(pos)[i].type = homeType[i]
        /\ genPieces(pos)[i].reserved = reservedForType[homeType[i]]
    BY <1>4, <1>8, GenPieces
  <2> QED
    BY <2>1, <2>2 DEF inPlay
<1>12. r.piece \in Pieces
  <2>1. genPieces(pos) \in Pieces /\ b.piece \in Pieces
    BY <1>5, <1>8, GenPieces DEF Boards
  <2>2. r.piece = [i \in ID |-> r.piece[i]]
    BY <1>3 DEF typed
  <2>3. \A i \in ID : r.piece[i] \in [position : Place, type : Type, reserved : Nat]
    BY <1>10, <1>11, <2>1 DEF Pieces
  <2> QED
    BY <2>2, <2>3 DEF Pieces
<1>13. ASSUME NEW i \in ID PROVE r.piece[i].reserved <= b.piece[i].reserved
  <2>1. b.piece[i].reserved \in Nat
    BY FieldsOf
  <2> QED
    BY <1>10, <1>11, <2>1, HomeLeast
<1>14. Suited(r.piece)
  <2>1. Suited(b.piece)
    BY DEF BoardOK
  <2> QED
    BY <1>10, <1>11, <2>1 DEF Suited
<1>15. Agreed(r)
  <2>1. \A i \in ID : r.piece[i].position = b.piece[i].position
    BY <1>10, <1>11
  <2> QED
    BY <1>9, <2>1 DEF BoardOK, Agreed
<1>16. Snapshot(b, r)
  BY <1>9, <1>10, <1>11, <1>12, <1>13, <1>14, <1>15 DEF Snapshot
<1> QED
  BY <1>16 DEF r

\* A resumed board is in order.
LEMMA ResumedOK ==
  ASSUME NEW b, BoardOK(b)
  PROVE  BoardOK(assign(b, rebuildBoardFromRaw(b)))
<1>1. Snapshot(b, rebuildBoardFromRaw(b)) /\ b.at \in [Square -> ID \cup {EMPTY}]
  BY Rebuilt DEF BoardOK, Boards
<1> QED
  BY <1>1, AssignedOK DEF Snapshot

\* The pieces of a new game stand on squares of their own.
LEMMA InitialPosition ==
  Position(initialPosition)
<1> DEFINE home == <<0, 7, 1, 6, 2, 5, 3, 4>>
<1>1. /\ home[1] = 0 /\ home[2] = 7 /\ home[3] = 1 /\ home[4] = 6 /\ home[5] = 2
      /\ home[6] = 5 /\ home[7] = 3 /\ home[8] = 4
  OBVIOUS
<1>2. DOMAIN initialPosition = ID /\ \A id \in ID : initialPosition[id] =
         CASE id < 9 -> home[id]
           [] id \in 9 .. 16 -> id - 1
           [] id \in 17 .. 24 -> 56 + home[id - 16]
           [] OTHER -> 48 + (id - 25)
  BY DEF initialPosition
<1> HIDE DEF home
<1>3. \A i \in 1 .. 8 : home[i] \in 0 .. 7
  BY <1>1
<1>4. \A i \in 1 .. 8 : \A j \in 1 .. 8 : home[i] = home[j] => i = j
  BY <1>1
<1>5. \A id \in 1 .. 8 : initialPosition[id] = home[id]
  BY <1>2 DEF ID
<1>6. \A id \in 9 .. 16 : initialPosition[id] = id - 1
  BY <1>2 DEF ID
<1>7. \A id \in 17 .. 24 : initialPosition[id] = 56 + home[id - 16] /\ id - 16 \in 1 .. 8
  BY <1>2 DEF ID
<1>8. \A id \in 25 .. 32 : initialPosition[id] = 48 + (id - 25)
  BY <1>2 DEF ID
<1> DEFINE P(id) == initialPosition[id]
<1>9. ASSUME NEW id \in ID
      PROVE  \/ id \in 1 .. 8 /\ P(id) = home[id] /\ P(id) \in 0 .. 7
             \/ id \in 9 .. 16 /\ P(id) = id - 1 /\ P(id) \in 8 .. 15
             \/ id \in 17 .. 24 /\ P(id) = 56 + home[id - 16] /\ P(id) \in 56 .. 63
             \/ id \in 25 .. 32 /\ P(id) = 48 + (id - 25) /\ P(id) \in 48 .. 55
  <2>1. id \in 1 .. 8 \/ id \in 9 .. 16 \/ id \in 17 .. 24 \/ id \in 25 .. 32
    BY DEF ID
  <2> QED
    BY <1>3, <1>5, <1>6, <1>7, <1>8, <2>1
<1>10. \A id \in ID : P(id) \in Square
  BY <1>9 DEF Square
<1>11. ASSUME NEW i \in ID, NEW j \in ID, P(i) = P(j) PROVE i = j
  <2>1. CASE P(i) \in 0 .. 7
    BY <1>4, <1>9, <1>11, <2>1
  <2>2. CASE P(i) \in 8 .. 15
    BY <1>9, <1>11, <2>2
  <2>3. CASE P(i) \in 48 .. 55
    BY <1>9, <1>11, <2>3
  <2>4. CASE P(i) \in 56 .. 63
    <3>1. i \in 17 .. 24 /\ j \in 17 .. 24 /\ 56 + home[i - 16] = 56 + home[j - 16]
      BY <1>9, <1>11, <2>4
    <3>2. i - 16 \in 1 .. 8 /\ j - 16 \in 1 .. 8
      BY <3>1
    <3>3. home[i - 16] = home[j - 16]
      <4>1. home[i - 16] \in 0 .. 7 /\ home[j - 16] \in 0 .. 7
        BY <1>3, <3>2
      <4> QED
        BY <3>1, <4>1
    <3>4. i - 16 = j - 16
      BY <1>4, <3>2, <3>3
    <3> QED
      BY <3>1, <3>4
  <2> QED
    BY <1>9, <2>1, <2>2, <2>3, <2>4
<1> QED
  BY <1>2, <1>10, <1>11 DEF Position

\* A board that a new game is started on is in order.
LEMMA RestartedOK ==
  ASSUME NEW b, BoardOK(b)
  PROVE  BoardOK(assign(b, newBoard(initialPosition)))
<1> DEFINE n == newBoard(initialPosition)
<1>1. BoardOK(n) /\ n.piece = genPieces(initialPosition)
  BY InitialPosition, NewBoardOK DEF newBoard
<1> HIDE DEF n
<1>2. n.at \in [Square -> ID \cup {EMPTY}] /\ n.piece \in Pieces /\ Suited(n.piece) /\ Agreed(n)
  BY <1>1 DEF BoardOK, Boards
<1>3. \A i \in ID : n.piece[i].reserved <= b.piece[i].reserved
  BY <1>1, InitialPosition, GenPieces, HomeLeast
<1>4. BoardOK(assign(b, n))
  BY <1>2, <1>3, AssignedOK
<1> QED
  BY <1>4 DEF n

-----------------------------------------------------------------------------
(* Pieces that were taken do not count: genMoves on a resumed board        *)

\* Two boards that differ in the type and the slots of pieces that were taken.
Alike(b, c) ==
    /\ BoardOK(b) /\ BoardOK(c)
    /\ c.at = b.at /\ c.moveOffset = b.moveOffset /\ c.size = b.size
    /\ \A i \in inPlay(b) : c.piece[i] = b.piece[i]
    /\ \A i \in ID : c.piece[i].position = b.piece[i].position
    /\ inPlay(c) = inPlay(b)

\* A resumed board is alike the one it was taken from.
LEMMA ResumedAlike ==
  ASSUME NEW b, BoardOK(b)
  PROVE  Alike(b, assign(b, rebuildBoardFromRaw(b)))
<1> DEFINE r == rebuildBoardFromRaw(b)
<1> DEFINE c == assign(b, r)
<1>1. Snapshot(b, r) /\ BoardOK(c)
  BY Rebuilt, ResumedOK
<1>2. AssignedTo(b, r, c)
  BY Assigned
<1> HIDE DEF c, r
<1>3. c.at = b.at /\ c.piece = r.piece /\ c.moveOffset = b.moveOffset /\ c.size = b.size
  BY <1>1, <1>2 DEF AssignedTo, Snapshot
<1>4. \A i \in inPlay(b) : c.piece[i] = b.piece[i]
  BY <1>1, <1>3 DEF Snapshot
<1>5. \A i \in ID : c.piece[i].position = b.piece[i].position
  <2>1. \A i \in ID : i \in inPlay(b) \/ i \in ID \ inPlay(b)
    OBVIOUS
  <2> QED
    BY <1>1, <1>3, <2>1 DEF Snapshot
<1>6. inPlay(c) = inPlay(b)
  BY <1>5 DEF inPlay
<1>7. Alike(b, c)
  BY <1>1, <1>3, <1>4, <1>5, <1>6 DEF Alike
<1> QED
  BY <1>7 DEF c, r

\* What stands on a square is in play.
LEMMA AtInPlay ==
  ASSUME NEW b, BoardOK(b), NEW s \in Square, b.at[s] # EMPTY
  PROVE  b.at[s] \in inPlay(b) /\ b.at[s] \in ID
<1>1. b.at[s] \in ID
  BY DEF BoardOK, Boards
<1>2. b.piece[b.at[s]].position = s
  BY <1>1 DEF BoardOK, Agreed
<1> QED
  BY <1>1, <1>2, OffBoard DEF inPlay

\* On alike boards a piece bears on the same squares.
LEMMA AlikeBearing ==
  ASSUME NEW b, NEW c, Alike(b, c), NEW id \in inPlay(b)
  PROVE  /\ bearing(c, id) = bearing(b, id)
         /\ targets(c, id) = targets(b, id)
         /\ addMoves(c, id) = addMoves(b, id)
<1>1. c.at = b.at /\ c.piece[id] = b.piece[id]
  BY DEF Alike
<1>2. bearing(c, id) = bearing(b, id)
  BY <1>1 DEF bearing
<1>3. targets(c, id) = targets(b, id)
  BY <1>1, <1>2 DEF targets
<1> QED
  BY <1>1, <1>2, <1>3 DEF addMoves

\* The kings stand alike.
LEMMA AlikeKing ==
  ASSUME NEW b, NEW c, Alike(b, c), NEW color \in Color
  PROVE  c.piece[kingOf(color)].position = b.piece[kingOf(color)].position
<1>1. kingOf(color) \in ID
  BY DEF kingOf, ID
<1> QED
  BY <1>1 DEF Alike

\* The same check is found.
LEMMA AlikeCheck ==
  ASSUME NEW b, NEW c, Alike(b, c), NEW color \in Color
  PROVE  genChecked(c, color) = genChecked(b, color)
<1>1. c.at = b.at /\ c.piece[kingOf(color)].position = b.piece[kingOf(color)].position
  BY AlikeKing DEF Alike
<1>2. checkLines(c, color) = checkLines(b, color)
  BY <1>1 DEF checkLines
<1>3. ASSUME NEW l PROVE givesCheck(c, color, l) <=> givesCheck(b, color, l)
  <2>1. CASE l.target \in Square /\ b.at[l.target] # EMPTY
    <3>1. c.piece[b.at[l.target]] = b.piece[b.at[l.target]]
      BY <2>1, AtInPlay DEF Alike
    <3> QED
      BY <1>1, <3>1 DEF givesCheck
  <2>2. CASE ~(l.target \in Square /\ b.at[l.target] # EMPTY)
    BY <1>1, <2>2 DEF givesCheck
  <2> QED
    BY <2>1, <2>2
<1>4. checksOn(c, color) = checksOn(b, color)
  BY <1>2, <1>3 DEF checksOn
<1> QED
  BY <1>1, <1>2, <1>4 DEF genChecked

\* The same squares are attacked and defended.
LEMMA AlikeAttacks ==
  ASSUME NEW b, NEW c, Alike(b, c), NEW color
  PROVE  attackedBy(c, color) = attackedBy(b, color)
         /\ defendedSquares(c) = defendedSquares(b)
<1>1. c.at = b.at /\ inPlay(c) = inPlay(b)
  BY DEF Alike
<1>2. \A id \in inPlay(b) : bearing(c, id) = bearing(b, id)
  BY AlikeBearing
<1>3. attackedBy(c, color) = attackedBy(b, color)
  <2>1. ASSUME NEW x PROVE x \in attackedBy(c, color) <=> x \in attackedBy(b, color)
    <3>1. x \in attackedBy(c, color) <=> \E id \in inPlay(b) :
             getColor(id) = color /\ x \in bearing(c, id) /\ getColor(b.at[x]) # color
      BY <1>1 DEF attackedBy
    <3>2. x \in attackedBy(b, color) <=> \E id \in inPlay(b) :
             getColor(id) = color /\ x \in bearing(b, id) /\ getColor(b.at[x]) # color
      BY DEF attackedBy
    <3> QED
      BY <1>2, <3>1, <3>2
  <2> QED
    BY <2>1
<1>4. defendedSquares(c) = defendedSquares(b)
  <2>1. ASSUME NEW x PROVE x \in defendedSquares(c) <=> x \in defendedSquares(b)
    <3>1. x \in defendedSquares(c) <=> \E id \in inPlay(b) :
             x \in bearing(c, id) /\ getColor(b.at[x]) = getColor(id)
      BY <1>1 DEF defendedSquares
    <3>2. x \in defendedSquares(b) <=> \E id \in inPlay(b) :
             x \in bearing(b, id) /\ getColor(b.at[x]) = getColor(id)
      BY DEF defendedSquares
    <3> QED
      BY <1>2, <3>1, <3>2
  <2> QED
    BY <2>1
<1> QED
  BY <1>3, <1>4

\* The lists before the filters are the same.
LEMMA AlikeGenerated ==
  ASSUME NEW b, NEW c, Alike(b, c), NEW color \in Color
  PROVE  generated(c, color) = generated(b, color)
<1>1. inPlay(c) = inPlay(b) /\ c.moveOffset = b.moveOffset /\ c.size = b.size
  BY DEF Alike
<1> DEFINE given(d) == [id \in inPlay(d) |-> addMoves(d, id)]
<1>2. given(c) = given(b)
  BY <1>1, AlikeBearing
<1>3. filledSlots(c, given(b)) = filledSlots(b, given(b))
  <2> HIDE DEF given
  <2>1. \A k : writers(c, given(b), k) = writers(b, given(b), k)
    BY <1>1 DEF writers
  <2> QED
    BY <1>1, <2>1 DEF filledSlots
<1>4. genChecked(c, color) = genChecked(b, color)
  BY AlikeCheck
<1>5. attackedBy(c, otherColor(color)) = attackedBy(b, otherColor(color))
      /\ defendedSquares(c) = defendedSquares(b)
  BY AlikeAttacks
<1>6. [id \in ID |-> IF id \in inPlay(c) THEN Len(given(c)[id]) ELSE 0]
        = [id \in ID |-> IF id \in inPlay(b) THEN Len(given(b)[id]) ELSE 0]
  <2> HIDE DEF given
  <2> QED
    BY <1>1, <1>2
<1>7. \A d : generated(d, color) =
         [moves |-> filledSlots(d, given(d)),
          movesIdx |-> [id \in ID |-> IF id \in inPlay(d) THEN Len(given(d)[id]) ELSE 0],
          checkedId |-> genChecked(d, color).checkedId, line |-> genChecked(d, color).line,
          attacked |-> attackedBy(d, otherColor(color)),
          defended |-> defendedSquares(d), overrun |-> FALSE]
  BY DEF generated
<1> HIDE DEF given
<1> QED
  BY <1>2, <1>3, <1>4, <1>5, <1>6, <1>7

\* The same pieces are pinned.
LEMMA AlikePins ==
  ASSUME NEW b, NEW c, Alike(b, c), NEW color \in Color
  PROVE  /\ pinnedDirections(c, color) = pinnedDirections(b, color)
         /\ \A id \in ID : isPinned(c, color, id) <=> isPinned(b, color, id)
         /\ \A id \in ID : allowed(c, color, id) = allowed(b, color, id)
<1> DEFINE k == b.piece[kingOf(color)].position
<1>1. c.at = b.at /\ c.piece[kingOf(color)].position = k
  BY AlikeKing DEF Alike
<1>2. \A d : shieldOn(c, color, d) = shieldOn(b, color, d)
  BY <1>1 DEF shieldOn
<1>3. \A s \in Square : b.at[s] # EMPTY => c.piece[b.at[s]] = b.piece[b.at[s]]
  BY AtInPlay DEF Alike
<1>4. k \in Place
  BY KingPlace DEF kingPlace, Alike
<1>5. ASSUME NEW d \in Direction PROVE beyondShield(c, color, d) = beyondShield(b, color, d)
  <2> DEFINE Beyond(e, n) ==
         /\ n \in DOMAIN ray[k][d] \ sight(b.at, k, d)
         /\ b.at[ray[k][d][n]] # EMPTY
         /\ \/ getColor(b.at[ray[k][d][n]]) = color
            \/ e.piece[b.at[ray[k][d][n]]].type \in getMatchingSet(d)
  <2>1. \A n : n \in beyondShield(c, color, d) <=> Beyond(c, n)
    BY <1>1 DEF beyondShield
  <2>2. \A n : n \in beyondShield(b, color, d) <=> Beyond(b, n)
    BY DEF beyondShield
  <2>3. \A n \in DOMAIN ray[k][d] : ray[k][d][n] \in Square
    BY <1>4, RayIs
  <2>4. \A n : Beyond(c, n) <=> Beyond(b, n)
    <3>1. ASSUME NEW n \in DOMAIN ray[k][d], b.at[ray[k][d][n]] # EMPTY
          PROVE  c.piece[b.at[ray[k][d][n]]] = b.piece[b.at[ray[k][d][n]]]
      BY <1>3, <2>3, <3>1
    <3> HIDE DEF k
    <3> QED
      BY <3>1
  <2> HIDE DEF Beyond
  <2> QED
    BY <2>1, <2>2, <2>4
<1>6. ASSUME NEW d \in Direction PROVE pinnedOn(c, color, d) <=> pinnedOn(b, color, d)
  BY <1>1, <1>2, <1>5 DEF pinnedOn, pinnerPlace
<1>7. pinnedDirections(c, color) = pinnedDirections(b, color)
  <2>1. \A d \in cardinals \cup diagonals : d \in Direction
    BY DEF Direction
  <2> QED
    BY <1>6, <2>1 DEF pinnedDirections
<1>8. ASSUME NEW d \in Direction, pinnedOn(b, color, d)
      PROVE  pinnedMoves(c, color, d) = pinnedMoves(b, color, d)
  <2> DEFINE t == firstMet(b.at, k, d)
  <2>1. shieldOn(b, color, d) # EMPTY
    BY <1>8 DEF pinnedOn
  <2>2. t \in Square /\ shieldOn(b, color, d) = b.at[t]
    BY <2>1 DEF shieldOn
  <2>3. c.piece[shieldOn(b, color, d)] = b.piece[shieldOn(b, color, d)]
    BY <1>3, <2>1, <2>2
  <2> QED
    BY <1>1, <1>2, <1>5, <2>3 DEF pinnedMoves, pinnerPlace
<1>9. ASSUME NEW id \in ID PROVE isPinned(c, color, id) <=> isPinned(b, color, id)
  BY <1>2, <1>7 DEF isPinned
<1>10. ASSUME NEW id \in ID PROVE allowed(c, color, id) = allowed(b, color, id)
  <2>1. \A x : x \in allowed(c, color, id) <=>
           \E d \in pinnedDirections(b, color) :
              shieldOn(b, color, d) = id /\ x \in pinnedMoves(c, color, d)
    BY <1>2, <1>7 DEF allowed
  <2>2. \A x : x \in allowed(b, color, id) <=>
           \E d \in pinnedDirections(b, color) :
              shieldOn(b, color, d) = id /\ x \in pinnedMoves(b, color, d)
    BY DEF allowed
  <2>3. \A d \in pinnedDirections(b, color) : d \in Direction /\ pinnedOn(b, color, d)
    BY DEF pinnedDirections, Direction
  <2> QED
    BY <1>8, <2>1, <2>2, <2>3
<1> QED
  BY <1>7, <1>9, <1>10

\* filterPinned does the same to one list.
LEMMA AlikeRestrained ==
  ASSUME NEW b, NEW c, Alike(b, c), NEW color \in Color, NEW g, NEW id \in ID
  PROVE  restrained(c, color, g, id) = restrained(b, color, g, id)
<1>1. (isPinned(c, color, id) <=> isPinned(b, color, id))
      /\ allowed(c, color, id) = allowed(b, color, id)
  BY AlikePins
<1>2. c.moveOffset = b.moveOffset
  BY DEF Alike
<1>3. listOf(c, g, id) = listOf(b, g, id)
  BY <1>2 DEF listOf
<1> QED
  BY <1>1, <1>3 DEF restrained

\* The arrays are the same.
LEMMA AlikeGens ==
  ASSUME NEW b, NEW c, Alike(b, c)
  PROVE  Gens(c) = Gens(b) /\ Slots(c) = Slots(b)
<1>1. c.size = b.size
  BY DEF Alike
<1>2. Slots(c) = Slots(b)
  BY <1>1 DEF Slots
<1> QED
  BY <1>2 DEF Gens

\* filterPinned does the same.
LEMMA AlikeFilterPinned ==
  ASSUME NEW b, NEW c, Alike(b, c), NEW color \in Color
  PROVE  filterPinned(c, color, generated(b, color)) = filterPinned(b, color, generated(b, color))
<1> DEFINE g == generated(b, color)
<1>1. generated(c, color) = g /\ BoardOK(b) /\ BoardOK(c)
  BY AlikeGenerated DEF Alike
<1>2. g \in Gens(b) /\ Holding(b, g) /\ g \in Gens(c) /\ Holding(c, g)
  BY <1>1, GeneratedGens, GeneratedLists DEF Lists
<1> HIDE DEF g
<1>3. PICK o : PinRun(b, color, g, o)
  BY <1>1, <1>2, PinRuns
<1>4. PICK p : PinRun(c, color, g, p)
  BY <1>1, <1>2, PinRuns
<1>5. ASSUME NEW n \in 0 .. 32 - 1, o[n] = p[n] PROVE o[n + 1] = p[n + 1]
  <2>1. n \in 0 .. 31 /\ n + 1 \in ID
    BY DEF ID
  <2>2. o[n + 1] = restrained(b, color, o[n], n + 1)
        /\ p[n + 1] = restrained(c, color, p[n], n + 1)
    BY <1>3, <1>4, <2>1 DEF PinRun
  <2>3. restrained(c, color, p[n], n + 1) = restrained(b, color, p[n], n + 1)
    BY <2>1, AlikeRestrained
  <2> QED
    BY <1>5, <2>2, <2>3
<1>6. o[32] = p[32]
  <2>1. o[0] = p[0] /\ 32 \in Nat /\ 32 \in 0 .. 32
    BY <1>3, <1>4 DEF PinRun
  <2>2. \A n \in 0 .. 32 : o[n] = p[n]
    BY <1>5, <2>1, SameRun
  <2> QED
    BY <2>1, <2>2
<1> QED
  BY <1>3, <1>4, <1>6 DEF PinRun, g

\* The filter of checks finds nothing to do for a piece that was taken.
NothingDone(g, id, h) ==
    h = [g EXCEPT !.moves = [k \in DOMAIN g.moves |-> g.moves[k]],
                  !.movesIdx[id] = 0, !.overrun = g.overrun]

\* That is so for every list without a move.
LEMMA NothingToAnswer ==
  ASSUME NEW b, BoardOK(b), NEW g \in Gens(b), Holding(b, g), NEW id \in ID,
         g.moves[b.moveOffset[id]] = NoSquare, g.movesIdx[id] = 0
  PROVE  NothingDone(g, id, answered(b, g, id))
<1> DEFINE res == b.piece[id].reserved
<1> DEFINE list == listOf(b, g, id)
<1> DEFINE l == narrow(list, g.line, res)
<1>1. Fresh(list, b.size, res) /\ b.size \in Nat /\ res \in Nat /\ 2 <= res
  BY FreshList
<1>2. list.moves[list.off] = NoSquare /\ list.j = 0 /\ list.moves = g.moves
      /\ list.overrun = g.overrun
  BY ListLoops
<1>3. l = list
  BY <1>1, <1>2, NarrowedNothing
<1>4. g.overrun \in BOOLEAN
  BY DEF Gens
<1>5. answered(b, g, id) =
        [g EXCEPT !.moves = [k \in DOMAIN l.moves |->
                                IF l.j > 1 /\ k = l.off + l.idx + 1 THEN NoSquare ELSE l.moves[k]],
                  !.movesIdx[id] = l.j,
                  !.overrun = \/ l.overrun
                              \/ l.j >= res
                              \/ l.j > 1 /\ l.off + l.idx + 1 \notin DOMAIN l.moves]
  BY DEF answered
<1> HIDE DEF l, res
<1>6. l.j = 0 /\ l.moves = g.moves /\ l.overrun = g.overrun /\ ~(l.j > 1) /\ ~(l.j >= res)
  BY <1>1, <1>2, <1>3
<1>7. [k \in DOMAIN l.moves |->
          IF l.j > 1 /\ k = l.off + l.idx + 1 THEN NoSquare ELSE l.moves[k]]
        = [k \in DOMAIN g.moves |-> g.moves[k]]
  BY <1>6
<1>8. (l.overrun \/ l.j >= res \/ (l.j > 1 /\ l.off + l.idx + 1 \notin DOMAIN l.moves))
        = g.overrun
  BY <1>4, <1>6
<1>9. answered(b, g, id) =
        [g EXCEPT !.moves = [k \in DOMAIN g.moves |-> g.moves[k]],
                  !.movesIdx[id] = 0, !.overrun = g.overrun]
  BY <1>5, <1>6, <1>7, <1>8
<1> QED
  BY <1>9 DEF NothingDone

\* filterChecked does the same to one list.
LEMMA AlikeAnswering ==
  ASSUME NEW b, NEW c, Alike(b, c), NEW color \in Color, NEW g0, NEW U,
         Unchecked(b, color, g0, U), NEW n \in 0 .. 31, NEW g, Through(b, color, g0, U, n, g),
         Unchecked(c, color, g0, unpinned(c, color)),
         Through(c, color, g0, unpinned(c, color), n, g)
  PROVE  answering(c, g, n + 1) = answering(b, g, n + 1)
<1> DEFINE id == n + 1
<1>1. id \in ID /\ id > n /\ ~(id <= n)
  BY DEF ID
<1>2. BoardOK(b) /\ BoardOK(c) /\ c.moveOffset = b.moveOffset
  BY DEF Alike
<1> HIDE DEF id
<1>3. listOf(c, g, id) = listOf(b, g, id)
  BY <1>2 DEF listOf
<1>4. CASE id \in inPlay(b)
  <2>1. c.piece[id] = b.piece[id]
    BY <1>4 DEF Alike
  <2>2. answered(c, g, id) = answered(b, g, id)
    BY <1>3, <2>1 DEF answered
  <2> QED
    BY <2>2 DEF answering, id
<1>5. CASE id \notin inPlay(b)
  <2>1. own(b)[id] = {}
    BY <1>1, <1>5 DEF own
  <2>2. U[id] = {} /\ TidyAt(b, g0, id, U[id]) /\ Holding(b, g0)
    BY <1>1, <2>1 DEF Unchecked, Lists
  <2>3. b.piece[id].reserved \in 5 .. 27 /\ g0.movesIdx[id] \in Nat /\ b.moveOffset[id] \in Nat
    BY <1>1, <1>2, <2>2, FieldsOf DEF Holding
  <2>4. g0.movesIdx[id] = 0
    <3> DEFINE N == g0.movesIdx[id]
    <3>1. N \in Nat /\ \A i \in 0 .. N - 1 : g0.moves[b.moveOffset[id] + i] \in {}
      BY <2>2, <2>3 DEF TidyAt, Tidy
    <3> HIDE DEF N
    <3>2. N # 0 => 0 \in 0 .. N - 1
      BY <3>1
    <3>3. N = 0
      BY <3>1, <3>2
    <3> QED
      BY <3>3 DEF N
  <2>5. Waits(b, g0, g, id, U[id]) /\ g \in Gens(b) /\ Holding(b, g)
        /\ Emptier(b, generated(b, color), g)
    BY <1>1 DEF Through, Progress
  <2>6. g.movesIdx[id] = 0
    BY <2>4, <2>5 DEF Waits, Bared
  <2>7. g.moves[b.moveOffset[id]] = NoSquare
    <3>1. generated(b, color).moves[b.moveOffset[id] + 0] = NoSquare
      <4>1. TidyAt(b, generated(b, color), id, {})
        BY <1>1, <1>2, <2>1, GeneratedLists DEF Lists
      <4> DEFINE N == generated(b, color).movesIdx[id]
      <4> DEFINE m == generated(b, color).moves
      <4> DEFINE o == b.moveOffset[id]
      <4> DEFINE res == b.piece[id].reserved
      <4>2. Tidy(m, o, N, res, {}) /\ res \in 5 .. 27
        BY <2>3, <4>1 DEF TidyAt
      <4> HIDE DEF N, m, o, res
      <4>3. N = 0
        <5>1. N \in 0 .. res /\ \A i \in 0 .. N - 1 : FALSE
          BY <4>2 DEF Tidy
        <5>2. N # 0 => 0 \in 0 .. N - 1
          BY <4>2, <5>1
        <5> QED
          BY <5>1, <5>2
      <4>4. 0 \in N .. res - 1
        BY <4>2, <4>3
      <4>5. m[o + 0] = NoSquare
        BY <4>2, <4>4 DEF Tidy
      <4> QED
        BY <4>5 DEF m, o
    <3>2. b.moveOffset[id] + 0 = b.moveOffset[id] /\ 0 \in 0 .. b.piece[id].reserved - 1
      BY <2>3
    <3>3. b.moveOffset[id] \in Slots(b)
      BY <1>1, <1>2, <3>2, InSlots
    <3> QED
      BY <2>5, <3>1, <3>2, <3>3 DEF Emptier
  <2>8. g.moves[c.moveOffset[id]] = NoSquare /\ g \in Gens(c) /\ Holding(c, g)
    BY <1>2, <2>7 DEF Through
  <2>9. NothingDone(g, id, answered(b, g, id))
    BY <1>1, <1>2, <2>5, <2>6, <2>7, NothingToAnswer
  <2>10. NothingDone(g, id, answered(c, g, id))
    BY <1>1, <1>2, <2>6, <2>8, NothingToAnswer
  <2>11. answered(c, g, id) = answered(b, g, id)
    BY <2>9, <2>10 DEF NothingDone
  <2> QED
    BY <2>11 DEF answering, id
<1> QED
  BY <1>4, <1>5

\* filterChecked starts from what filterPinned leaves.
LEMMA PinnedUnchecked ==
  ASSUME NEW b, BoardOK(b), NEW color \in Color, NEW g0,
         g0 = filterPinned(b, color, generated(b, color)), g0.checkedId # EMPTY
  PROVE  Unchecked(b, color, g0, unpinned(b, color))
<1> DEFINE gg == generated(b, color)
<1>1. /\ gg \in Gens(b)
      /\ gg.checkedId = EMPTY \/ CheckedAlong(b, color, gg.checkedId, gg.line)
  BY GeneratedGens
<1>2. /\ g0 \in Gens(b) /\ Lists(b, g0, unpinned(b, color)) /\ SameCall(gg, g0)
      /\ Emptier(b, gg, g0)
  BY <1>1, PinnedLists
<1>3. \A id \in ID : unpinned(b, color)[id] \subseteq own(b)[id]
  BY DEF unpinned
<1> QED
  BY <1>1, <1>2, <1>3 DEF Unchecked, SameCall

\* filterChecked does the same.
LEMMA AlikeFilterChecked ==
  ASSUME NEW b, NEW c, Alike(b, c), NEW color \in Color, NEW g0,
         g0 = filterPinned(b, color, generated(b, color)), g0.checkedId # EMPTY
  PROVE  filterChecked(c, g0) = filterChecked(b, g0)
<1>1. BoardOK(b) /\ BoardOK(c)
  BY DEF Alike
<1>2. g0 = filterPinned(c, color, generated(c, color))
  BY AlikeFilterPinned, AlikeGenerated
<1>3. Unchecked(b, color, g0, unpinned(b, color)) /\ Unchecked(c, color, g0, unpinned(c, color))
  BY <1>1, <1>2, PinnedUnchecked
<1>4. PICK o : CheckRun(b, color, g0, unpinned(b, color), o)
  BY <1>1, <1>3, CheckRuns
<1>5. PICK p : CheckRun(c, color, g0, unpinned(c, color), p)
  BY <1>1, <1>3, CheckRuns
<1>6. ASSUME NEW n \in 0 .. 32 - 1, o[n] = p[n] PROVE o[n + 1] = p[n + 1]
  <2>1. n \in 0 .. 31 /\ n \in 0 .. 32
    OBVIOUS
  <2>2. o[n + 1] = answering(b, o[n], n + 1) /\ p[n + 1] = answering(c, p[n], n + 1)
    BY <1>4, <1>5, <2>1 DEF CheckRun
  <2>3. Through(b, color, g0, unpinned(b, color), n, p[n])
        /\ Through(c, color, g0, unpinned(c, color), n, p[n])
    BY <1>4, <1>5, <1>6, <2>1 DEF CheckRun
  <2>4. answering(c, p[n], n + 1) = answering(b, p[n], n + 1)
    BY <1>3, <2>1, <2>3, AlikeAnswering
  <2> QED
    BY <1>6, <2>2, <2>4
<1>7. o[32] = p[32]
  <2>1. o[0] = p[0] /\ 32 \in Nat /\ 32 \in 0 .. 32
    BY <1>4, <1>5 DEF CheckRun
  <2>2. \A n \in 0 .. 32 : o[n] = p[n]
    BY <1>6, <2>1, SameRun
  <2> QED
    BY <2>1, <2>2
<1> QED
  BY <1>4, <1>5, <1>7 DEF CheckRun

\* The king's filter, on a list.
KingSifted(color, g, list) ==
    LET l == sift(list, Square \ (g.attacked \cup g.defended))
    IN  [g EXCEPT !.moves = l.moves, !.movesIdx[kingOf(color)] = l.j,
                  !.overrun = @ \/ (g.moves[l.off] # NoSquare /\ l.j < l.idx)]

\* What a board offers does not depend on the pieces that were taken.
LEMMA AlikeGenMoves ==
  ASSUME NEW b, NEW c, Alike(b, c), NEW color \in Color
  PROVE  genMoves(c, color) = genMoves(b, color)
<1> DEFINE p == filterPinned(b, color, generated(b, color))
<1> DEFINE q == IF p.checkedId = EMPTY THEN p ELSE filterChecked(b, p)
<1>1. filterPinned(c, color, generated(c, color)) = p
  BY AlikeFilterPinned, AlikeGenerated
<1>2. genMoves(b, color) = filterKingMoves(b, color, q)
  BY DEF genMoves
<1>3. genMoves(c, color) =
         filterKingMoves(c, color, IF p.checkedId = EMPTY THEN p ELSE filterChecked(c, p))
  BY <1>1 DEF genMoves
<1> HIDE DEF p
<1>4. p.checkedId # EMPTY => filterChecked(c, p) = filterChecked(b, p)
  BY AlikeFilterChecked DEF p
<1>5. genMoves(c, color) = filterKingMoves(c, color, q)
  BY <1>3, <1>4
<1> HIDE DEF q
<1>6. c.moveOffset = b.moveOffset
  BY DEF Alike
<1>7. \A k : listOf(c, q, k) = listOf(b, q, k)
  BY <1>6 DEF listOf
<1> DEFINE k == kingOf(color)
<1>8. \A d : filterKingMoves(d, color, q) = KingSifted(color, q, listOf(d, q, k))
  BY DEF filterKingMoves, KingSifted
<1>9. filterKingMoves(c, color, q) = filterKingMoves(b, color, q)
  BY <1>7, <1>8
<1> QED
  BY <1>2, <1>5, <1>9

-----------------------------------------------------------------------------
(* The inductive invariant of the game on the board, and what it implies   *)

\* The board is in order, and what is stored about it is what genMoves and the
\* verdict's functions compute from it now.
BoardInv ==
    /\ BoardOK(board)
    /\ turn \in Color
    /\ left \in Nat
    /\ gen = genMoves(board, turn)
    /\ verdict = terminalState(board, gen, turn)

\* The invariant holds at first.
LEMMA BoardInvInit == BoardInit => BoardInv
<1> SUFFICES ASSUME BoardInit PROVE BoardInv
  OBVIOUS
<1>1. PICK p \in Positions :
         /\ board = newBoard(p.pieces)
         /\ turn = p.turn
         /\ gen = genMoves(board, turn)
         /\ verdict = terminalState(board, gen, turn)
         /\ left = p.follow
  BY DEF BoardInit
<1>2. Position(p.pieces) /\ p.turn \in Color /\ p.follow \in Nat
  BY PositionsAssumption DEF Position, Color
<1>3. BoardOK(board)
  BY <1>1, <1>2, NewBoardOK
<1> QED
  BY <1>1, <1>2, <1>3 DEF BoardInv

\* The other side.
LEMMA OtherColor ==
  ASSUME NEW color \in Color
  PROVE  otherColor(color) \in Color /\ otherColor(color) # color
         /\ otherColor(otherColor(color)) = color
BY DEF Color, otherColor

\* What one move does.
Moved(id, to, promotion) ==
    /\ id \in inPlay(board) /\ to \in Square /\ promotion \in promotions \cup {"None"}
    /\ to \in offered(board, gen, id)
    /\ isColor(id, turn)
    /\ board' = promoteIfDue(move(board, id, to), id, promotion)
    /\ turn' = otherColor(turn)
    /\ left > 0 /\ left' = left - 1
    /\ gen' = genMoves(board', turn')
    /\ verdict' = terminalState(board', gen', turn')

\* An accepted move is such a move.
LEMMA MovesMove ==
  ASSUME BoardInv, NEW id \in inPlay(board), NEW to, NEW promotion \in promotions \cup {"None"},
         MovePiece(board.piece[id].position, to, promotion)
  PROVE  Moved(id, to, promotion)
<1>1. board.at[board.piece[id].position] = id
  <2>1. id \in ID /\ board.piece[id].position \in Square
    BY InPlayStanding DEF BoardInv, Standing
  <2> QED
    BY <2>1 DEF BoardInv, BoardOK, Agreed
<1> DEFINE from == board.piece[id].position
<1> HIDE DEF from
<1>2. board.at[from] = id /\ MovePiece(from, to, promotion)
  BY <1>1 DEF from
<1>3. /\ to \in Square /\ isColor(id, turn) /\ isValidMove(board, gen, turn, id, to)
      /\ left > 0 /\ left' = left - 1 /\ turn' = otherColor(turn)
      /\ board' = promoteIfDue(move(board, id, to), id, promotion)
      /\ refresh(board', turn')
  BY <1>2 DEF MovePiece, isAccepted
<1>4. gen' = genMoves(board', turn') /\ verdict' = terminalState(board', gen', turn')
  BY <1>3 DEF refresh, refreshBoardDerivedState
<1> QED
  BY <1>3, <1>4 DEF Moved, isValidMove

\* A move keeps the invariant.
LEMMA MovedKeeps ==
  ASSUME BoardInv, NEW id, NEW to, NEW promotion, Moved(id, to, promotion)
  PROVE  BoardInv'
<1>1. BoardOK(board) /\ turn \in Color /\ gen = genMoves(board, turn) /\ left \in Nat
      /\ id \in inPlay(board) /\ id \in ID
  BY DEF BoardInv, Moved, inPlay
<1>2. board.at[to] # id
  BY <1>1, OfferedElsewhere DEF Moved
<1>3. BoardOK(move(board, id, to))
  BY <1>1, <1>2, MovedOK DEF Moved
<1>4. BoardOK(board')
  BY <1>1, <1>3, PromoteIfDueOK DEF Moved
<1>5. turn' \in Color /\ left' \in Nat
  BY <1>1, OtherColor DEF Moved
<1> QED
  BY <1>4, <1>5 DEF BoardInv, Moved

\* The verdict depends on the lists and the offsets.
LEMMA SameVerdict ==
  ASSUME NEW b, NEW c, c.moveOffset = b.moveOffset, c.size = b.size
  PROVE  \A g, side : terminalState(c, g, side) = terminalState(b, g, side)
<1>1. \A g, side : colorHasMoves(c, g, side) <=> colorHasMoves(b, g, side)
  BY DEF colorHasMoves
<1>2. \A g, side : /\ isCheckmate(c, g, side) <=> isCheckmate(b, g, side)
                   /\ isStalemate(c, g, side) <=> isStalemate(b, g, side)
  BY <1>1 DEF isCheckmate, isStalemate
<1> QED
  BY <1>2 DEF terminalState

\* A resumed game is as it was.
TakenUp ==
    /\ Alike(board, board') /\ gen' = gen /\ turn' = turn /\ verdict' = verdict /\ left' = left
    /\ gen' = genMoves(board', turn') /\ verdict' = terminalState(board', gen', turn')

\* Resuming takes the game up where it was.
LEMMA ResumeResumes ==
  ASSUME BoardInv, ResumeBoard
  PROVE  TakenUp
<1>1. Alike(board, board') /\ turn' = turn /\ verdict' = verdict /\ left' = left
  BY ResumedAlike DEF BoardInv, ResumeBoard
<1>2. gen' = genMoves(board', turn)
  BY DEF ResumeBoard, refreshBoardDerivedState
<1>3. gen' = gen
  BY <1>1, <1>2, AlikeGenMoves DEF BoardInv
<1>4. verdict = terminalState(board', gen', turn')
  BY <1>1, <1>3, SameVerdict DEF BoardInv, Alike
<1> QED
  BY <1>1, <1>2, <1>3, <1>4 DEF TakenUp

\* Starting again keeps the invariant.
LEMMA RestartKeeps ==
  ASSUME BoardInv, StartAgain
  PROVE  BoardInv'
<1>1. BoardOK(board')
  BY RestartedOK DEF BoardInv, StartAgain
<1>2. turn' \in Color /\ left' \in Nat
  BY DEF StartAgain, Color, BoardInv
<1>3. gen' = genMoves(board', turn') /\ verdict' = terminalState(board', gen', turn')
  BY DEF StartAgain, refresh, refreshBoardDerivedState
<1> QED
  BY <1>1, <1>2, <1>3 DEF BoardInv

\* What a step does: the invariant is kept, and every step is one of four.
LEMMA BoardStep ==
  ASSUME BoardInv, [BoardNext]_boardVars
  PROVE  /\ BoardInv'
         /\ \/ \E id, to, promotion : Moved(id, to, promotion)
            \/ TakenUp
            \/ StartAgain
            \/ UNCHANGED boardVars
<1>1. ASSUME NEW id \in inPlay(board), NEW to, NEW promotion \in promotions \cup {"None"},
             MovePiece(board.piece[id].position, to, promotion)
      PROVE  BoardInv' /\ Moved(id, to, promotion)
  BY <1>1, MovesMove, MovedKeeps
<1>2. ASSUME ResumeBoard PROVE BoardInv' /\ TakenUp
  <2>1. TakenUp
    BY <1>2, ResumeResumes
  <2> QED
    BY <2>1 DEF TakenUp, BoardInv, Alike, boardVars
<1>3. ASSUME StartAgain PROVE BoardInv'
  BY <1>3, RestartKeeps
<1>4. ASSUME UNCHANGED boardVars PROVE BoardInv'
  BY <1>4 DEF boardVars, BoardInv
<1>5. ASSUME NEW id \in inPlay(board), NEW to \in offered(board, gen, id),
             NEW promotion \in IF isPawnId(id) /\ row(to) \in {0, 7}
                               THEN promotions \cup {"None"} ELSE {"None"},
             MovePiece(board.piece[id].position, to, promotion)
      PROVE  BoardInv' /\ \E i, t, p : Moved(i, t, p)
  BY <1>1, <1>5
<1>6. BoardNext \/ UNCHANGED boardVars
  OBVIOUS
<1>7. CASE BoardNext
  BY <1>2, <1>3, <1>5, <1>7 DEF BoardNext
<1> QED
  BY <1>4, <1>6, <1>7

\* The invariant holds throughout.
LEMMA BoardInductive == BoardSpec => []BoardInv
<1>1. BoardInv /\ [BoardNext]_boardVars => BoardInv'
  BY BoardStep
<1> QED
  BY <1>1, BoardInvInit, PTL DEF BoardSpec

\* In a state of the game.
LEMMA BoardExplained ==
  ASSUME BoardOK(board), turn \in Color, gen = genMoves(board, turn)
  PROVE  overrunExplained
<1> SUFFICES ASSUME gen.overrun, ~\E id \in ID : listFull(id)
             PROVE  /\ W_ROOK1 # gen.checkedId /\ addMoves(board, W_ROOK1) # <<>>
                    /\ offered(board, gen, W_ROOK1) = {}
  BY OverrunsInCheck DEF overrunExplained, isInCheck
<1>1. NoneFull(board)
  BY DEF NoneFull, Full, listFull
<1>2. gen.checkedId # 1 /\ gen.movesIdx[1] = 0 /\ addMoves(board, 1) # <<>>
  BY <1>1, GenExplained
<1>3. offered(board, gen, 1) = {}
  BY <1>2 DEF offered
<1> QED
  BY <1>2, <1>3 DEF W_ROOK1

\* It implies that the board is coherent.
LEMMA InvIsCoherent == BoardInv => BoardIsCoherent
<1> SUFFICES ASSUME BoardInv PROVE BoardIsCoherent
  OBVIOUS
<1>1. BoardOK(board) /\ Outcome(board, turn, gen)
  BY GenOutcome DEF BoardInv
<1>2. ASSUME NEW id \in ID
      PROVE  /\ \A s \in Square : board.at[s] = id <=> board.piece[id].position = s
             /\ gen.movesIdx[id] <= board.piece[id].reserved
             /\ board.moveOffset[id] + board.piece[id].reserved <=
                  IF id = 32 THEN board.size ELSE board.moveOffset[id + 1]
  BY <1>1 DEF BoardOK, Agreed, Spaced, nextOffset, Outcome, Holding
<1>3. overrunExplained
  BY <1>1, BoardExplained DEF BoardInv
<1> QED
  BY <1>2, <1>3 DEF BoardIsCoherent

\* What stands on a square and where a piece stands agree in every reachable
\* state, after moves, captures, promotions, snapshots and restarts (Board::move,
\* promotePawn and operator=), and no list counts more moves than it has slots.
\* genMoves leaves its array in a check only: from a full list, or for W_ROOK1's.
THEOREM CoherenceHolds == BoardSpec => []BoardIsCoherent
BY BoardInductive, InvIsCoherent, PTL

\* A step that is no move and no restart changes no list.
LEMMA ResumeStep ==
  ASSUME BoardInv, [BoardNext]_boardVars, left' = left
  PROVE  accepted' = accepted
<1>1. CASE TakenUp
  <2>1. /\ inPlay(board') = inPlay(board) /\ board'.moveOffset = board.moveOffset
        /\ gen' = gen /\ turn' = turn
    BY <1>1 DEF TakenUp, Alike
  <2>2. \A id, t : isValidMove(board', gen, turn, id, t) <=> isValidMove(board, gen, turn, id, t)
    BY <2>1 DEF isValidMove, offered
  <2> QED
    BY <2>1, <2>2 DEF accepted, isAccepted
<1>2. CASE UNCHANGED boardVars
  BY <1>2 DEF boardVars, accepted, isAccepted
<1>3. left \in Nat
  BY DEF BoardInv
<1>4. CASE \E id, to, promotion : Moved(id, to, promotion)
  BY <1>3, <1>4 DEF Moved
<1>5. CASE StartAgain
  BY <1>3, <1>5 DEF StartAgain
<1> QED
  BY <1>1, <1>2, <1>4, <1>5, BoardStep

\* A game that is resumed from a snapshot accepts the moves it accepted before
\* (SingleplayerClient::pause and resume, rebuildBoardFromRaw).
THEOREM ResumeHolds == BoardSpec => ResumeKeepsMoves
<1>1. BoardInv /\ [BoardNext]_boardVars => [left' = left => accepted' = accepted]_boardVars
  BY ResumeStep
<1> QED
  BY <1>1, BoardInductive, PTL DEF BoardSpec, ResumeKeepsMoves

-----------------------------------------------------------------------------
(* Where the verdict is wrong                                              *)

\* Nothing stands in a list's slots beyond its moves, unless the list before it was
\* full in a check, or it was full itself and filterChecked left it out.
Astray(b, g, id) ==
    /\ g.checkedId # EMPTY
    /\ behindFull(b, id) \/ (Full(b, id) /\ id \in {8, 24, g.checkedId})

\* Behind a tidy list's moves the slots are empty.
LEMMA TidyVacant ==
  ASSUME NEW b, NEW g, NEW id, NEW S, TidyAt(b, g, id, S)
  PROVE  \A i \in g.movesIdx[id] .. b.piece[id].reserved - 1 :
            g.moves[b.moveOffset[id] + i] = NoSquare
BY DEF TidyAt, Tidy

\* A list that is not led astray counts all the moves that are in its slots.
LEMMA CountedMoves ==
  ASSUME NEW b, BoardOK(b), NEW color \in Color, NEW g, g = genMoves(b, color),
         NEW id \in ID, ~Astray(b, g, id), NEW i \in 0 .. b.piece[id].reserved - 1,
         g.moves[b.moveOffset[id] + i] # NoSquare
  PROVE  /\ i \in 0 .. g.movesIdx[id] - 1
         /\ g.moves[b.moveOffset[id] + i] \in offered(b, g, id) \cap Square
         /\ id \in inPlay(b)
<1>1. Outcome(b, color, g) /\ Listed(b, color, g, id, unpinned(b, color)[id])
      /\ g \in Gens(b) /\ Emptier(b, generated(b, color), g)
  BY GenOutcome DEF Outcome
<1>2. g.movesIdx[id] \in Nat /\ b.piece[id].reserved \in Nat
  BY <1>1, FieldsOf DEF Gens
<1>3. \A e \in g.movesIdx[id] .. b.piece[id].reserved - 1 :
         g.moves[b.moveOffset[id] + e] = NoSquare
  <2>1. CASE answersCheck(g, id)
    <3>1. g.checkedId # EMPTY /\ ~behindFull(b, id)
      BY <2>1 DEF answersCheck, Astray
    <3> QED
      BY <1>1, <2>1, <3>1 DEF Listed, Filtered, Vacant
  <2>2. CASE ~answersCheck(g, id)
    <3>1. ~(g.checkedId # EMPTY /\ (behindFull(b, id) \/ Full(b, id)))
      BY <2>2 DEF answersCheck, Astray
    <3>2. \E S : TidyAt(b, g, id, S)
      <4>1. CASE id = kingOf(color)
        BY <1>1, <3>1, <4>1 DEF Listed
      <4>2. CASE id # kingOf(color)
        BY <1>1, <2>2, <3>1, <4>2 DEF Listed, Rests
      <4> QED
        BY <4>1, <4>2
    <3> QED
      BY <3>2, TidyVacant
  <2> QED
    BY <2>1, <2>2
<1>4. i \in 0 .. g.movesIdx[id] - 1
  BY <1>2, <1>3
<1>5. b.moveOffset[id] + i \in Slots(b)
  BY InSlots
<1>6. g.moves[b.moveOffset[id] + i] \in Square
  BY <1>1, <1>5 DEF Gens, Place
<1>7. id \in inPlay(b)
  <2>1. generated(b, color).moves[b.moveOffset[id] + i] # NoSquare
    BY <1>1, <1>5 DEF Emptier
  <2>2. TidyAt(b, generated(b, color), id, own(b)[id])
    BY GeneratedLists DEF Lists
  <2>3. generated(b, color).moves[b.moveOffset[id] + i] \in own(b)[id]
    BY <2>1, <2>2, TidyRests
  <2> QED
    BY <2>3 DEF own
<1> QED
  BY <1>4, <1>6, <1>7 DEF offered

\* The rules and the proofs call the same lists full.
LEMMA FullIsFull ==
  ASSUME NEW id
  PROVE  listFull(id) <=> Full(board, id)
BY DEF listFull, Full

\* No piece of color is led astray, nor W_PAWN8, where the second way is out.
LEMMA NoneAstray ==
  ASSUME BoardInv, NEW id \in ID, getColor(id) = turn \/ id = W_PAWN8,
         \A e \in ID : ~(borrows(e) /\ (getColor(e) = turn \/ e = W_PAWN8))
  PROVE  ~Astray(board, gen, id)
<1> SUFFICES ASSUME Astray(board, gen, id) PROVE FALSE
  OBVIOUS
<1>1. isInCheck(gen)
  BY DEF isInCheck, Astray
<1>2. \A e \in ID : borrows(e) <=> behindFull(board, e)
  BY <1>1, FullIsFull DEF borrows, behindFull
<1>3. turn \in Color /\ BoardOK(board) /\ Outcome(board, turn, gen)
  BY GenOutcome DEF BoardInv
<1>4. ~behindFull(board, id)
  BY <1>2
<1>5. Full(board, id) /\ id \in {8, 24, gen.checkedId}
  BY <1>4 DEF Astray
<1>6. getColor(gen.checkedId) # turn
  BY <1>1, <1>3, GeneratedGens DEF isInCheck, Outcome, SameCall, CheckedAlong
<1>7. \A e \in ID : getColor(e) = IF e <= 16 THEN "WHITE" ELSE "BLACK"
  BY IdColor
<1>8. id \in {8, 16, 24} /\ (id = 16 => turn = "BLACK")
  <2>1. getColor(16) = "WHITE"
    BY DEF getColor, EMPTY
  <2>2. CASE id \in {8, 24}
    BY <2>2
  <2>3. CASE id = gen.checkedId
    BY <1>3, <1>6, <2>1, <2>3 DEF W_PAWN8, Color
  <2> QED
    BY <1>5, <2>2, <2>3
<1>9. id + 1 \in ID /\ getColor(id + 1) = turn /\ (id + 1) - 1 = id /\ id + 1 > 1
  BY <1>3, <1>7, <1>8 DEF W_PAWN8, Color, ID
<1>10. behindFull(board, id + 1)
  BY <1>5, <1>9 DEF behindFull
<1> QED
  BY <1>2, <1>9, <1>10

\* The slots that colorHasMoves looks at are the white pieces' but W_PAWN8's, or
\* W_PAWN8's and the black pieces'.
LEMMA SidesOf ==
  ASSUME NEW b, BoardOK(b), NEW id \in ID, NEW i \in 0 .. b.piece[id].reserved - 1
  PROVE  /\ b.moveOffset[id] + i \in 0 .. b.moveOffset[16] - 1 <=> id <= 15
         /\ b.moveOffset[id] + i \in b.moveOffset[16] .. b.size - 1 <=> id >= 16
<1>1. b.moveOffset[id] \in Nat /\ b.moveOffset[16] \in Nat /\ b.size \in Nat
      /\ b.piece[id].reserved \in Nat /\ b.piece[16].reserved \in Nat /\ 16 \in ID
  <2>1. 16 \in ID
    BY DEF ID
  <2> QED
    BY <2>1, FieldsOf
<1>2. b.moveOffset[id] + i \in 0 .. b.size - 1
  BY InSlots DEF Slots
<1>3. CASE id <= 15
  <2>1. b.moveOffset[id] + b.piece[id].reserved <= b.moveOffset[16]
    <3>1. id < 16
      BY <1>3 DEF ID
    <3> QED
      BY <1>1, <3>1, BlocksApart
  <2> DEFINE x == b.moveOffset[id] + i
  <2>2. x < b.moveOffset[16] /\ x \in 0 .. b.size - 1 /\ x \in Int
    BY <1>1, <1>2, <2>1
  <2>3. ~(id >= 16)
    BY <1>3 DEF ID
  <2> HIDE DEF x
  <2>4. x \in 0 .. b.moveOffset[16] - 1 /\ x \notin b.moveOffset[16] .. b.size - 1
    BY <1>1, <2>2
  <2> QED
    BY <1>3, <2>3, <2>4 DEF x
<1>4. CASE id >= 16
  <2>1. b.moveOffset[16] <= b.moveOffset[id]
    <3>1. CASE id = 16
      BY <1>1, <3>1
    <3>2. CASE id # 16
      <4>1. b.moveOffset[16] + b.piece[16].reserved <= b.moveOffset[id]
        <5>1. 16 < id
          BY <1>4, <3>2 DEF ID
        <5> QED
          BY <1>1, <5>1, BlocksApart
      <4> QED
        BY <1>1, <4>1
    <3> QED
      BY <3>1, <3>2
  <2> DEFINE x == b.moveOffset[id] + i
  <2>2. b.moveOffset[16] <= x /\ x \in 0 .. b.size - 1 /\ x \in Int
    BY <1>1, <1>2, <2>1
  <2>3. ~(id <= 15)
    BY <1>4 DEF ID
  <2> HIDE DEF x
  <2>4. x \notin 0 .. b.moveOffset[16] - 1 /\ x \in b.moveOffset[16] .. b.size - 1
    BY <1>1, <2>2
  <2> QED
    BY <1>4, <2>3, <2>4 DEF x
<1> QED
  BY <1>3, <1>4 DEF ID

\* The game goes on while a slot of the side's is occupied.
LEMMA VerdictIs ==
  ASSUME BoardInv
  PROVE  verdict = "None" <=> colorHasMoves(board, gen, turn)
BY DEF BoardInv, terminalState, isCheckmate, isStalemate

\* The invariant implies that the verdict errs in two ways only.
LEMMA InvErrs == BoardInv => VerdictErrsInTwoWays
<1> SUFFICES ASSUME BoardInv,
                    ~(W_PAWN8 \in inPlay(board) /\ offered(board, gen, W_PAWN8) # {}),
                    \A id \in ID : ~(borrows(id) /\ (getColor(id) = turn \/ id = W_PAWN8))
             PROVE  colorHasMoves(board, gen, turn) <=> accepted # {}
  BY VerdictIs DEF VerdictErrsInTwoWays
<1>1. turn \in Color /\ BoardOK(board) /\ gen = genMoves(board, turn) /\ gen \in Gens(board)
      /\ Holding(board, gen)
  BY GenOutcome DEF BoardInv, Outcome
<1>2. \A e \in ID : getColor(e) = IF e <= 16 THEN "WHITE" ELSE "BLACK"
  BY IdColor
<1>3. \A id \in ID : getColor(id) = turn \/ id = W_PAWN8 => ~Astray(board, gen, id)
  BY NoneAstray
<1> DEFINE Mine(id) == IF turn = "WHITE" THEN id <= 15 ELSE id >= 16
<1>4. \A id \in ID : Mine(id) => getColor(id) = turn \/ id = W_PAWN8
  BY <1>1, <1>2 DEF Color, W_PAWN8, ID
<1> DEFINE slots == IF turn = "WHITE" THEN 0 .. board.moveOffset[16] - 1
                    ELSE board.moveOffset[16] .. board.size - 1
<1>5. colorHasMoves(board, gen, turn) <=> \E k \in slots : gen.moves[k] # NoSquare
  BY DEF colorHasMoves, W_PAWN8
<1>6. \A id \in ID : \A i \in 0 .. board.piece[id].reserved - 1 :
         board.moveOffset[id] + i \in slots <=> Mine(id)
  BY <1>1, SidesOf
<1>7. slots \subseteq Slots(board)
  <2>1. board.moveOffset[16] \in Nat /\ board.size \in Nat
        /\ board.moveOffset[16] + board.piece[16].reserved <= board.size
        /\ board.piece[16].reserved \in Nat
    <3>1. 16 \in ID
      BY DEF ID
    <3> QED
      BY <1>1, <3>1, FieldsOf, BlocksApart
  <2> QED
    BY <2>1 DEF Slots
<1> HIDE DEF slots
<1>8. ASSUME NEW k \in slots, gen.moves[k] # NoSquare PROVE accepted # {}
  <2>1. PICK id \in ID : k - board.moveOffset[id] \in 0 .. board.piece[id].reserved - 1
    BY <1>1, <1>7, <1>8 DEF Holding, Owned
  <2> DEFINE i == k - board.moveOffset[id]
  <2>2. i \in 0 .. board.piece[id].reserved - 1 /\ board.moveOffset[id] + i = k
    <3>1. board.moveOffset[id] \in Nat /\ k \in Int
      BY <1>1, <1>7, FieldsOf DEF Slots
    <3> QED
      BY <2>1, <3>1
  <2> HIDE DEF i
  <2>3. Mine(id)
    BY <1>6, <2>2
  <2>4. /\ gen.moves[k] \in offered(board, gen, id) \cap Square
        /\ id \in inPlay(board)
    BY <1>1, <1>3, <1>4, <1>8, <2>2, <2>3, CountedMoves
  <2>5. id # 16
    BY <2>4 DEF W_PAWN8
  <2>6. getColor(id) = turn
    BY <1>4, <2>3, <2>5 DEF W_PAWN8
  <2>7. isColor(id, turn)
    BY <2>6 DEF isColor, EMPTY, ID
  <2>8. isValidMove(board, gen, turn, id, gen.moves[k])
    BY <1>2, <2>4, <2>6 DEF isValidMove, ID
  <2>9. <<id, gen.moves[k]>> \in accepted
    BY <2>4, <2>7, <2>8 DEF accepted, isAccepted
  <2> QED
    BY <2>9
<1>9. ASSUME NEW m \in accepted PROVE \E k \in slots : gen.moves[k] # NoSquare
  <2> DEFINE id == m[1]
  <2> DEFINE t == m[2]
  <2>1. id \in inPlay(board) /\ id \in ID /\ isColor(id, turn) /\ t \in Square
        /\ t \in offered(board, gen, id)
    BY DEF accepted, isAccepted, isValidMove, inPlay
  <2> HIDE DEF id, t
  <2>2. PICK i \in 0 .. gen.movesIdx[id] - 1 : t = gen.moves[board.moveOffset[id] + i]
    BY <2>1 DEF offered
  <2>3. i \in 0 .. board.piece[id].reserved - 1
    <3>1. gen.movesIdx[id] \in Nat /\ gen.movesIdx[id] <= board.piece[id].reserved
          /\ board.piece[id].reserved \in Nat
      BY <1>1, <2>1, FieldsOf DEF Holding
    <3> QED
      BY <3>1
  <2>4. id # 16
    BY <2>1 DEF W_PAWN8
  <2>5. Mine(id)
    BY <1>1, <1>2, <2>1, <2>4 DEF isColor, Color, ID
  <2>6. board.moveOffset[id] + i \in slots
    BY <1>6, <2>1, <2>3, <2>5
  <2> QED
    BY <2>1, <2>2, <2>6, OffBoard
<1> QED
  BY <1>5, <1>8, <1>9

\* ChessGame ends a game, or lets it go on, wrongly in two ways at most: because
\* of W_PAWN8's slots, or because of a list behind a full one in a check.
THEOREM VerdictErrsRarely == BoardSpec => []VerdictErrsInTwoWays
BY BoardInductive, InvErrs, PTL

=============================================================================
