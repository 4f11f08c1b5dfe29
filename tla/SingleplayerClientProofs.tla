---------------------- MODULE SingleplayerClientProofs ----------------------
(***************************************************************************)
(* Proofs about the local game, from what ChessGameProofs shows of each    *)
(* operation of a game: the books of a game over its pauses, and whose     *)
(* result is shown.                                                        *)
(*                                                                         *)
(* What is booked while the game is paused is the game that would come out *)
(* of the pause now; the paused game itself has a turn that began long ago *)
(* and says nothing.                                                       *)
(***************************************************************************)
EXTENDS SingleplayerClient, ChessGameProofs

\* The game goes on, or has been recorded.
InPlay ==
    state \in {"INGAME", "RESULT"} =>
        Booked(game, now, used, pauses) /\ Alive(game)

\* The snapshot was taken at some time k of the pause or before it.
Held ==
    state = "PAUSED" =>
        \E k \in 0 .. now :
            /\ game.turnStart <= k
            /\ pausedSnapshot = <<snapshot(game, k)>>
            /\ Booked(resumed(game, k, now), now, used, pauses)
            /\ Alive(resumed(game, k, now))

ClearedGame ==
    state = "IDLE" => game = reset /\ result = NoResult

IInv ==
    /\ TypeOK
    /\ now \in Nat
    /\ InPlay
    /\ Held
    /\ ClearedGame
    /\ ResultIsOfThisGame

\* Whoever loses on time in a local game has used up the time he was due: the
\* pauses neither take time from a side nor give it any that would be missing.
TimeoutsAreFair ==
    state # "IDLE" /\ game.endReason = "Timeout" =>
      LET loser == game.currentTurn
      IN  /\ game.winner = oppositeColor(loser)
          /\ clocks[loser] = 0
          /\ used[loser] >= TicksPerMs *
               (game.clockConfig.initialTime +
                  movesBy(loser) * game.clockConfig.increment)

-----------------------------------------------------------------------------
(* The operations *)

LEMMA Initially == Init => IInv
<1> SUFFICES ASSUME Init PROVE IInv
  OBVIOUS
<1> DEFINE config == [enabled |-> FALSE, initialTime |-> 0, increment |-> 0]
<1>1. config \in ChessClockConfig
  BY DEF ChessClockConfig
<1>2. reset = newGame(config)
  BY DEF reset
<1> HIDE DEF config
<1>3. reset \in ChessGame /\ reset.state = "NotStarted"
  BY <1>1, <1>2, NewBooked DEF Booked
<1>4. /\ state = "IDLE" /\ game = reset /\ pausedSnapshot = NoSnapshot
      /\ result = NoResult /\ now = 0 /\ pauses = 0
      /\ used = [side \in Side |-> 0]
  BY DEF Init
<1>5. TypeOK
  BY <1>3, <1>4, BoundsAssumption
     DEF TypeOK, SingleplayerState, NoResult, ChessGameEndReason
<1>6. ResultIsOfThisGame
  BY <1>3, <1>4 DEF ResultIsOfThisGame
<1> QED
  BY <1>4, <1>5, <1>6 DEF IInv, InPlay, Held, ClearedGame

\* start looks at the clocks: with no time on them the game is over already.
LEMMA Begun ==
  ASSUME IInv, NEW config \in ChessClockConfig, begin(config)
  PROVE  IInv'
<1> DEFINE g == newGame(config)
<1>1. /\ game' = start(g, now) /\ pausedSnapshot' = NoSnapshot
      /\ state' = "INGAME" /\ result' = NoResult
      /\ pauses' = 0 /\ used' = [side \in Side |-> 0] /\ now' = now
  BY DEF begin
<1>2. now \in Nat
  BY DEF IInv
<1>3. Booked(g, now, used', 0) /\ g.state = "NotStarted"
  BY <1>1, <1>2, NewBooked
<1> HIDE DEF g
<1>4. Booked(game', now', used', pauses') /\ Alive(game')
  <2>1. Booked(start(g, now), now, used', 0) /\ Alive(start(g, now))
    BY <1>3, StartKept
  <2> QED
    BY <1>1, <2>1
<1>5. game' \in ChessGame /\ used' \in [Side -> Nat]
  BY <1>4 DEF Booked
<1>6. game'.state = "Finished" => game'.endReason = "Timeout"
  <2> DEFINE b == opened(g, now)
  <2>1. /\ start(g, now) = tick(b, now) /\ Booked(b, now, used', 0)
        /\ b.state = "InProgress"
    BY <1>3, Opened
  <2> HIDE DEF b
  <2>2. tick(b, now) = b \/ tick(b, now).endReason = "Timeout"
    BY <2>1, TickEnds DEF Booked
  <2> QED
    BY <1>1, <2>1, <2>2
<1>7. TypeOK'
  BY <1>1, <1>5, BoundsAssumption
     DEF TypeOK, SingleplayerState, NoResult, ChessGameEndReason
<1>8. ResultIsOfThisGame'
  BY <1>1, <1>6 DEF ResultIsOfThisGame
<1> QED
  BY <1>1, <1>2, <1>4, <1>7, <1>8 DEF IInv, InPlay, Held, ClearedGame

LEMMA GameStopped ==
  ASSUME IInv, Stop
  PROVE  IInv'
<1> DEFINE config == [enabled |-> FALSE, initialTime |-> 0, increment |-> 0]
<1>1. config \in ChessClockConfig
  BY DEF ChessClockConfig
<1>2. reset = newGame(config)
  BY DEF reset
<1> HIDE DEF config
<1>3. reset \in ChessGame /\ reset.state = "NotStarted"
  BY <1>1, <1>2, NewBooked DEF Booked
<1>4. /\ state' = "IDLE" /\ game' = reset /\ pausedSnapshot' = NoSnapshot
      /\ result' = NoResult /\ now' = now /\ pauses' = pauses
      /\ used' = used
  BY DEF Stop
<1>5. TypeOK'
  BY <1>3, <1>4
     DEF IInv, TypeOK, SingleplayerState, NoResult, ChessGameEndReason
<1>6. ResultIsOfThisGame'
  BY <1>3, <1>4 DEF ResultIsOfThisGame
<1>7. now' \in Nat
  BY <1>4 DEF IInv
<1> QED
  BY <1>4, <1>5, <1>6, <1>7 DEF IInv, InPlay, Held, ClearedGame

LEMMA Paused ==
  ASSUME IInv, Pause
  PROVE  IInv'
<1>1. /\ state = "INGAME" /\ state' = "PAUSED"
      /\ pausedSnapshot' = <<snapshot(game, now)>>
      /\ pauses' = pauses + 1 /\ pauses < MaxPauses
      /\ game' = game /\ result' = result /\ now' = now /\ used' = used
  BY DEF Pause
<1>2. /\ Booked(game, now, used, pauses) /\ Alive(game)
      /\ TypeOK /\ now \in Nat /\ pauses \in Nat
  BY <1>1 DEF IInv, InPlay, TypeOK
<1>3. Booked(resumed(game, now, now), now, used, pauses + 1)
      /\ Alive(resumed(game, now, now))
  BY <1>2, PauseKept
<1>4. game.turnStart <= now /\ now \in 0 .. now
  BY <1>2 DEF Booked
<1>5. Held'
  BY <1>1, <1>3, <1>4 DEF Held
<1>6. TypeOK'
  <2>1. pauses' \in 0 .. MaxPauses
    BY <1>1, <1>2, BoundsAssumption
  <2> QED
    BY <1>1, <1>2, <2>1 DEF TypeOK, SingleplayerState, NoSnapshot
<1>7. ResultIsOfThisGame'
  BY <1>1 DEF IInv, ResultIsOfThisGame
<1>8. InPlay' /\ ClearedGame'
  BY <1>1 DEF InPlay, ClearedGame
<1> QED
  BY <1>1, <1>2, <1>5, <1>6, <1>7, <1>8 DEF IInv

LEMMA Continued ==
  ASSUME IInv, Resume
  PROVE  IInv'
<1>1. /\ state = "PAUSED" /\ state' = "INGAME"
      /\ game' = applySnapshot(pausedSnapshot[1], now)
      /\ pausedSnapshot' = NoSnapshot
      /\ result' = result /\ now' = now /\ pauses' = pauses /\ used' = used
  BY DEF Resume
<1>2. PICK k \in 0 .. now :
        /\ game.turnStart <= k
        /\ pausedSnapshot = <<snapshot(game, k)>>
        /\ Booked(resumed(game, k, now), now, used, pauses)
        /\ Alive(resumed(game, k, now))
  BY <1>1 DEF IInv, Held
<1>3. TypeOK /\ game \in ChessGame /\ now \in Nat /\ k \in Nat
  BY DEF IInv, TypeOK
<1>4. game' = resumed(game, k, now)
  BY <1>1, <1>2 DEF resumed
<1>5. game'.state = game.state /\ game'.endReason = game.endReason
  BY <1>2, <1>3, <1>4, Resumed
<1>6. Booked(game', now', used', pauses') /\ Alive(game')
  BY <1>1, <1>2, <1>4
<1>7. TypeOK'
  BY <1>1, <1>3, <1>6 DEF TypeOK, SingleplayerState, Booked
<1>8. ResultIsOfThisGame'
  BY <1>1, <1>5 DEF IInv, ResultIsOfThisGame
<1> QED
  BY <1>1, <1>3, <1>6, <1>7, <1>8 DEF IInv, InPlay, Held, ClearedGame

\* What a command in a game leaves is recorded if it is over.
LEMMA Recorded ==
  ASSUME IInv, state = "INGAME", recordFinishedGame(game'),
         Booked(game', now, used, pauses), Alive(game'),
         UNCHANGED <<pausedSnapshot, now, pauses, used>>
  PROVE  IInv'
<1>1. /\ pausedSnapshot' = pausedSnapshot /\ now' = now
      /\ pauses' = pauses /\ used' = used
  OBVIOUS
<1>2. game' \in ChessGame /\ TypeOK /\ now \in Nat
  BY DEF Booked, IInv
<1>3. CASE game'.state = "Finished"
  <2>1. result' = <<game'.winner, game'.endReason>> /\ state' = "RESULT"
    BY <1>3 DEF recordFinishedGame
  <2>2. game'.winner \in Side \cup {"EMPTY"}
        /\ game'.endReason \in ChessGameEndReason
    BY <1>2 DEF ChessGame
  <2>3. TypeOK'
    BY <1>1, <1>2, <2>1, <2>2 DEF TypeOK, SingleplayerState
  <2>4. ResultIsOfThisGame'
    BY <1>3, <2>1 DEF ResultIsOfThisGame
  <2> QED
    BY <1>1, <1>2, <2>1, <2>3, <2>4 DEF IInv, InPlay, Held, ClearedGame
<1>4. CASE game'.state # "Finished"
  <2>1. state' = state /\ result' = result
    BY <1>4 DEF recordFinishedGame
  <2>2. TypeOK'
    BY <1>1, <1>2, <2>1 DEF TypeOK
  <2>3. ResultIsOfThisGame'
    BY <1>4, <2>1 DEF ResultIsOfThisGame
  <2> QED
    BY <1>1, <1>2, <2>1, <2>2, <2>3 DEF IInv, InPlay, Held, ClearedGame
<1> QED
  BY <1>3, <1>4

LEMMA Ticked ==
  ASSUME IInv, Tick
  PROVE  IInv'
<1>1. /\ state = "INGAME" /\ game' = tick(game, now)
      /\ recordFinishedGame(game')
      /\ UNCHANGED <<pausedSnapshot, now, pauses, used>>
  BY DEF Tick
<1>2. Booked(game, now, used, pauses) /\ Alive(game) /\ pauses \in Nat
  BY <1>1 DEF IInv, InPlay, TypeOK
<1>3. Booked(tick(game, now), now, used, pauses) /\ Alive(tick(game, now))
  BY <1>2, TickKept DEF Alive
<1> QED
  BY <1>1, <1>3, Recorded

LEMMA Resigned ==
  ASSUME IInv, Resign
  PROVE  IInv'
<1>1. /\ state = "INGAME" /\ game' = resign(game, game.currentTurn, now)
      /\ recordFinishedGame(game')
      /\ UNCHANGED <<pausedSnapshot, now, pauses, used>>
  BY DEF Resign
<1>2. /\ Booked(game, now, used, pauses) /\ Alive(game) /\ pauses \in Nat
      /\ game.currentTurn \in Side
  BY <1>1 DEF IInv, InPlay, TypeOK, ChessGame
<1>3. Booked(game', now, used, pauses) /\ Alive(game')
  BY <1>1, <1>2, ResignKept
<1> QED
  BY <1>1, <1>3, Recorded

\* A move that is refused is a tick whose end is not recorded.
LEMMA GameMoved ==
  ASSUME IInv, NEW outcome \in MoveOutcome, TryMove(outcome)
  PROVE  IInv'
<1> DEFINE side == game.currentTurn
<1>1. /\ state = "INGAME"
      /\ game' = submitMove(game, side, outcome, now)
      /\ IF moveAccepted(game, side, outcome, now)
         THEN recordFinishedGame(game')
         ELSE UNCHANGED <<state, result>>
      /\ UNCHANGED <<pausedSnapshot, now, pauses, used>>
  BY DEF TryMove
<1>2. /\ Booked(game, now, used, pauses) /\ Alive(game) /\ pauses \in Nat
      /\ side \in Side /\ game \in ChessGame /\ now \in Nat
      /\ game.turnStart <= now
  BY <1>1 DEF IInv, InPlay, TypeOK, ChessGame, Booked
<1>3. Booked(game', now, used, pauses) /\ Alive(game')
  BY <1>1, <1>2, MoveKept
<1>4. CASE moveAccepted(game, side, outcome, now)
  BY <1>1, <1>3, <1>4, Recorded
<1>5. CASE ~moveAccepted(game, side, outcome, now)
  <2>1. game' = tick(game, now)
    BY <1>1, <1>5 DEF submitMove
  <2>2. /\ state' = state /\ result' = result
        /\ pausedSnapshot' = pausedSnapshot /\ now' = now
        /\ pauses' = pauses /\ used' = used
    BY <1>1, <1>5
  <2>3. game'.state = "Finished" => game'.endReason = "Timeout"
    BY <1>1, <1>2, <2>1, TickEnds DEF IInv, ResultIsOfThisGame
  <2>4. TypeOK'
    BY <1>3, <2>2 DEF IInv, TypeOK, Booked
  <2>5. ResultIsOfThisGame'
    BY <1>1, <2>2, <2>3 DEF ResultIsOfThisGame
  <2> QED
    BY <1>1, <1>2, <1>3, <2>2, <2>4, <2>5 DEF IInv, InPlay, Held, ClearedGame
<1> QED
  BY <1>4, <1>5

\* Time is used in a game that is in play, and in no other.
LEMMA Passed ==
  ASSUME IInv, TimePasses
  PROVE  IInv'
<1>1. /\ now' = now + 1 /\ state' = state /\ game' = game
      /\ pausedSnapshot' = pausedSnapshot /\ result' = result
      /\ pauses' = pauses
      /\ used' = IF state = "INGAME" /\ game.state = "InProgress"
                 THEN [used EXCEPT ![game.currentTurn] = @ + 1] ELSE used
  BY DEF TimePasses
<1>2. /\ TypeOK /\ now \in Nat /\ game \in ChessGame
      /\ pauses \in Nat /\ used \in [Side -> Nat] /\ game.currentTurn \in Side
  BY DEF IInv, TypeOK, ChessGame
<1>3. used' \in [Side -> Nat]
  BY <1>1, <1>2
<1>4. TypeOK'
  BY <1>1, <1>2, <1>3 DEF TypeOK
<1>5. ResultIsOfThisGame'
  BY <1>1 DEF IInv, ResultIsOfThisGame
<1>6. ClearedGame'
  BY <1>1 DEF IInv, ClearedGame
<1>7. InPlay'
  <2>1. CASE state = "INGAME"
    <3>1. Booked(game, now, used, pauses) /\ Alive(game)
      BY <2>1 DEF IInv, InPlay
    <3>2. used' = IF game.state = "InProgress"
                  THEN [used EXCEPT ![game.currentTurn] = @ + 1] ELSE used
      BY <1>1, <2>1
    <3>3. Booked(game, now + 1, used', pauses)
      BY <1>2, <3>1, <3>2, TimeKept
    <3> QED
      BY <1>1, <3>1, <3>3 DEF InPlay
  <2>2. CASE state = "RESULT"
    <3>1. Booked(game, now, used, pauses) /\ Alive(game)
          /\ game.state = "Finished"
      BY <2>2 DEF IInv, InPlay, ResultIsOfThisGame
    <3>2. Booked(game, now + 1, used, pauses)
      BY <1>2, <3>1, TimeKept
    <3> QED
      BY <1>1, <2>2, <3>1, <3>2 DEF InPlay
  <2> QED
    BY <1>1, <2>1, <2>2 DEF InPlay
<1>8. Held'
  <2> SUFFICES ASSUME state = "PAUSED" PROVE Held'
    BY <1>1 DEF Held
  <2>1. PICK k \in 0 .. now :
          /\ game.turnStart <= k
          /\ pausedSnapshot = <<snapshot(game, k)>>
          /\ Booked(resumed(game, k, now), now, used, pauses)
          /\ Alive(resumed(game, k, now))
    BY DEF IInv, Held
  <2>2. k \in Nat /\ k \in 0 .. (now + 1) /\ now + 1 \in Nat
    BY <1>2
  <2>3. Booked(resumed(game, k, now + 1), now + 1, used, pauses)
        /\ Alive(resumed(game, k, now + 1))
    BY <1>2, <2>1, <2>2, PausedKept
  <2> QED
    BY <1>1, <2>1, <2>2, <2>3 DEF Held
<1> QED
  BY <1>1, <1>2, <1>4, <1>5, <1>6, <1>7, <1>8 DEF IInv

-----------------------------------------------------------------------------
(* The theorems *)

LEMMA Preserved == IInv /\ [Next]_vars => IInv'
<1> SUFFICES ASSUME IInv, [Next]_vars PROVE IInv'
  OBVIOUS
<1>1. CASE \E config \in ClockConfigs : Start(config)
  BY <1>1, ConfigsAssumption, Begun DEF Start
<1>2. CASE Restart
  <2>1. game.clockConfig \in ChessClockConfig
    BY DEF IInv, TypeOK, ChessGame
  <2> QED
    BY <1>2, <2>1, Begun DEF Restart
<1>3. CASE Stop
  BY <1>3, GameStopped
<1>4. CASE Pause
  BY <1>4, Paused
<1>5. CASE Resume
  BY <1>5, Continued
<1>6. CASE \E outcome \in MoveOutcome : TryMove(outcome)
  BY <1>6, GameMoved
<1>7. CASE Resign
  BY <1>7, Resigned
<1>8. CASE Tick
  BY <1>8, Ticked
<1>9. CASE TimePasses
  BY <1>9, Passed
<1>10. CASE UNCHANGED vars
  <2>1. /\ state' = state /\ game' = game /\ result' = result
        /\ pausedSnapshot' = pausedSnapshot /\ now' = now
        /\ pauses' = pauses /\ used' = used
    BY <1>10 DEF vars
  <2> QED
    BY <2>1 DEF IInv, TypeOK, InPlay, Held, ClearedGame, ResultIsOfThisGame
<1> QED
  BY <1>1, <1>2, <1>3, <1>4, <1>5, <1>6, <1>7, <1>8, <1>9, <1>10 DEF Next

\* Whatever the user and the clock do, the game in play or the one that would
\* come out of the pause is booked, and what the client shows fits it.
THEOREM InductiveInvariant == Spec => []IInv
<1>1. Init /\ [][Next]_vars => []IInv
  BY Initially, Preserved, PTL
<1> QED
  BY <1>1, PTL DEF Spec

\* The state of the client, the game and the snapshot have their types, and a
\* snapshot is there exactly while the game is paused.
THEOREM TypeCorrect == Spec => []TypeOK
<1>1. IInv => TypeOK
  BY DEF IInv
<1> QED
  BY <1>1, InductiveInvariant, PTL

\* The result that is shown is that of the game just played; a game that is over
\* without one was lost on time, by a move that SingleplayerClient::tryMove
\* returned from too early.
THEOREM ResultsAreTrue == Spec => []ResultIsOfThisGame
<1>1. IInv => ResultIsOfThisGame
  BY DEF IInv
<1> QED
  BY <1>1, InductiveInvariant, PTL

\* The books of any game g that has the clock configuration and the version of
\* the game: the one that is there, or the one that would come out of the pause.
LEMMA Accounted ==
  ASSUME TypeOK, NEW g, Booked(g, now, used, pauses),
         g.state = game.state, g.clockConfig = game.clockConfig,
         g.version = game.version,
         NEW side \in Side, clocks[side] = timeRemaining(g, side, now),
         clocks[side] > 0
  PROVE  used[side] - spent(side) * TicksPerMs \in
            0 .. (movesBy(side) + 1 + pauses) * (TicksPerMs - 1)
<1> DEFINE m == made(g, side)
<1> DEFINE remains == timeRemaining(g, side, now)
<1>1. pauses \in Nat
  BY DEF TypeOK
<1>2. /\ m \in Int /\ remains \in Nat
      /\ g.clockConfig.initialTime \in Nat /\ g.clockConfig.increment \in Nat
      /\ used[side] - (allotted(g, side) - remains) * TicksPerMs
           \in 0 .. (m + 1 + pauses) * (TicksPerMs - 1)
  BY <1>1, ClockShown
<1>3. movesBy(side) = m
  <2>1. g.version \in Nat
    BY DEF Booked, ChessGame
  <2> QED
    BY <2>1 DEF movesBy, made, moves, played
<1>4. spent(side) = allotted(g, side) - remains
  <2> DEFINE init == game.clockConfig.initialTime
  <2> DEFINE inc == game.clockConfig.increment
  <2>1. spent(side) = init + movesBy(side) * inc - remains
    BY DEF spent
  <2>2. allotted(g, side) = init + m * inc
    BY DEF allotted
  <2>3. init \in Nat /\ inc \in Nat
    BY <1>2
  <2> HIDE DEF init, inc, remains, m
  <2> QED
    BY <1>2, <1>3, <2>1, <2>2, <2>3
<1> HIDE DEF m, remains
<1> QED
  BY <1>2, <1>3, <1>4

\* What the client shows of a paused game is what would come out of the pause.
LEMMA ShownWhilePaused ==
  ASSUME IInv, state = "PAUSED"
  PROVE  \E g : /\ Booked(g, now, used, pauses)
                /\ g.state = game.state /\ g.clockConfig = game.clockConfig
                /\ g.version = game.version
                /\ g.currentTurn = game.currentTurn
                /\ g.winner = game.winner /\ g.endReason = game.endReason
                /\ \A side \in Side :
                      /\ clocks[side] = timeRemaining(g, side, now)
                      /\ clocks[side] = g.time[side]
<1>1. PICK k \in 0 .. now :
        /\ game.turnStart <= k
        /\ pausedSnapshot = <<snapshot(game, k)>>
        /\ Booked(resumed(game, k, now), now, used, pauses)
        /\ Alive(resumed(game, k, now))
  BY DEF IInv, Held
<1> DEFINE g == resumed(game, k, now)
<1>2. game \in ChessGame /\ now \in Nat /\ k \in Nat
  BY DEF IInv, TypeOK
<1>3. /\ g \in ChessGame /\ g.state = game.state
      /\ g.currentTurn = game.currentTurn /\ g.winner = game.winner
      /\ g.endReason = game.endReason /\ g.clockConfig = game.clockConfig
      /\ g.version = game.version
      /\ g.time = [side \in Side |-> timeRemaining(game, side, k)]
      /\ g.turnStart = IF game.state = "InProgress" THEN now ELSE 0
      /\ snapshot(game, k).time = g.time
  BY <1>1, <1>2, Resumed
<1>4. clocks = g.time
  BY <1>1, <1>3 DEF clocks
<1> HIDE DEF g
<1>5. ASSUME NEW side \in Side
      PROVE  timeRemaining(g, side, now) = g.time[side]
  <2>1. CASE ~g.clockConfig.enabled
    BY <1>3, <2>1 DEF timeRemaining
  <2>2. CASE g.clockConfig.enabled
    BY <1>2, <1>3, <2>2, TurnJustBegun
  <2> QED
    BY <2>1, <2>2
<1>6. Booked(g, now, used, pauses)
  BY <1>1 DEF g
<1> QED
  BY <1>3, <1>4, <1>5, <1>6

\* However often a game is paused, no clock loses time in which its side was not
\* to move in play; a pause lets less than a millisecond go. That holds of what the
\* client shows while the game runs, while it is paused and when it is over.
THEOREM PausesAccounted == Spec => []PausesAreAccountedFor
<1>1. IInv => PausesAreAccountedFor
  <2> SUFFICES ASSUME IInv, state # "IDLE",
                      NEW side \in Side, clocks[side] > 0
               PROVE  used[side] - spent(side) * TicksPerMs \in
                        0 .. (movesBy(side) + 1 + pauses) * (TicksPerMs - 1)
    BY DEF PausesAreAccountedFor
  <2>1. TypeOK /\ state \in SingleplayerState
    BY DEF IInv, TypeOK
  <2>2. CASE state \in {"INGAME", "RESULT"}
    <3>1. Booked(game, now, used, pauses)
      BY <2>2 DEF IInv, InPlay
    <3>2. clocks[side] = timeRemaining(game, side, now)
      BY <2>2 DEF clocks
    <3> QED
      BY <2>1, <3>1, <3>2, Accounted
  <2>3. CASE state = "PAUSED"
    BY <2>1, <2>3, ShownWhilePaused, Accounted
  <2> QED
    BY <2>1, <2>2, <2>3 DEF SingleplayerState
<1> QED
  BY <1>1, InductiveInvariant, PTL

\* Also in a local game nobody loses on time before all his time is used up,
\* paused as often as one likes.
THEOREM TimeoutsFair == Spec => []TimeoutsAreFair
<1>1. IInv => TimeoutsAreFair
  <2> DEFINE loser == game.currentTurn
  <2> SUFFICES ASSUME IInv, state # "IDLE", game.endReason = "Timeout"
               PROVE  /\ game.winner = oppositeColor(loser)
                      /\ clocks[loser] = 0
                      /\ used[loser] >= TicksPerMs *
                           (game.clockConfig.initialTime +
                              movesBy(loser) * game.clockConfig.increment)
    BY DEF TimeoutsAreFair
  <2>1. game \in ChessGame /\ loser \in Side /\ state \in SingleplayerState
    BY DEF IInv, TypeOK, ChessGame
  <2>2. PICK g : /\ Booked(g, now, used, pauses)
                 /\ g.state = game.state /\ g.clockConfig = game.clockConfig
                 /\ g.version = game.version
                 /\ g.currentTurn = game.currentTurn
                 /\ g.winner = game.winner /\ g.endReason = game.endReason
                 /\ clocks[loser] = timeRemaining(g, loser, now)
    <3>1. CASE state = "PAUSED"
      BY <2>1, <3>1, ShownWhilePaused
    <3>2. CASE state \in {"INGAME", "RESULT"}
      <4>1. Booked(game, now, used, pauses)
        BY <3>2 DEF IInv, InPlay
      <4>2. clocks[loser] = timeRemaining(game, loser, now)
        BY <2>1, <3>2 DEF clocks
      <4> QED
        BY <4>1, <4>2
    <3> QED
      BY <2>1, <3>1, <3>2 DEF SingleplayerState
  <2>3. LostOnTime(g, used) /\ g.state = "Finished" /\ g.version \in Nat
    BY <2>2 DEF Booked, ChessGame
  <2>4. clocks[loser] = 0
    BY <2>2, <2>3 DEF timeRemaining, LostOnTime
  <2>5. movesBy(loser) = IF loser = "WHITE" THEN (g.version - 1) \div 2
                         ELSE (g.version - 2) \div 2
    BY <2>2, <2>3 DEF movesBy
  <2> QED
    BY <2>2, <2>3, <2>4, <2>5 DEF LostOnTime, dueAtEnd, played
<1> QED
  BY <1>1, InductiveInvariant, PTL
=============================================================================
