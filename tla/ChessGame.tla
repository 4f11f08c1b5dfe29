----------------------------- MODULE ChessGame -----------------------------
(***************************************************************************)
(* The chess game with its clocks (ChessGame.cpp), as operators on a       *)
(* record: every operator takes the game before a call and yields the one  *)
(* after it. The board is abstracted to the outcome of a move; module      *)
(* BoardPlay has the board.                                                *)
(*                                                                         *)
(* The steady clock runs in ticks, of which TicksPerMs make a millisecond; *)
(* what the game stores is in whole milliseconds.                          *)
(***************************************************************************)
EXTENDS Integers

CONSTANT TicksPerMs

ASSUME TicksAssumption == TicksPerMs \in Nat \ {0}

Side == {"WHITE", "BLACK"}
ChessGameState == {"NotStarted", "InProgress", "Finished"}
ChessGameEndReason == {"None", "Checkmate", "Draw", "Resign", "Timeout"}

\* What the board says of a move: it refuses it, or takes it and finds the
\* other side able to move, mated or stalemated.
MoveOutcome == {"illegal", "legal", "checkmate", "stalemate"}

ChessClockConfig == [enabled : BOOLEAN, initialTime : Nat, increment : Nat]

ChessGame ==
    [state : ChessGameState, currentTurn : Side,
     winner : Side \cup {"EMPTY"}, endReason : ChessGameEndReason,
     clockConfig : ChessClockConfig, time : [Side -> Nat],
     turnStart : Nat, version : Nat]

newGame(config) ==
    [state |-> "NotStarted", currentTurn |-> "WHITE", winner |-> "EMPTY",
     endReason |-> "None", clockConfig |-> config,
     time |-> [side \in Side |-> 0], turnStart |-> 0, version |-> 0]

\* The clock's epoch stands for the default time_point.
reset == newGame([enabled |-> FALSE, initialTime |-> 0, increment |-> 0])

oppositeColor(side) == IF side = "WHITE" THEN "BLACK" ELSE "WHITE"

positivePart(n) == IF n < 0 THEN 0 ELSE n

\* Mutant: a millisecond that has begun is charged.
startedMilliseconds(game, now) ==
    (now - game.turnStart + TicksPerMs - 1) \div TicksPerMs

\* duration_cast rounds towards zero.
elapsed(game, now) == (now - game.turnStart) \div TicksPerMs

timeRemaining(game, side, now) ==
    IF ~game.clockConfig.enabled THEN 0
    ELSE IF game.state = "InProgress" /\ side = game.currentTurn
    THEN positivePart(game.time[side] - elapsed(game, now))
    ELSE game.time[side]

\* Mutant: the turn's start is kept when its time has been charged.
chargeAgain(game, now) ==
    IF game.clockConfig.enabled /\ game.state = "InProgress"
    THEN [game EXCEPT
            !.time[game.currentTurn] = timeRemaining(game, game.currentTurn, now)]
    ELSE [game EXCEPT !.turnStart = now]

commitElapsedToActiveSide(game, now) ==
    IF game.clockConfig.enabled /\ game.state = "InProgress"
    THEN [game EXCEPT
            !.time[game.currentTurn] = timeRemaining(game, game.currentTurn, now),
            !.turnStart = now]
    ELSE [game EXCEPT !.turnStart = now]

finish(game, winner, reason) ==
    IF game.state = "Finished" THEN game
    ELSE [game EXCEPT !.state = "Finished", !.winner = winner,
                      !.endReason = reason, !.version = @ + 1]

timeIsUp(game, now) ==
    game.clockConfig.enabled /\ timeRemaining(game, game.currentTurn, now) = 0

\* outcome is what the board says of the side to move; the clock comes first.
refreshTerminalStateFromBoard(game, outcome, now) ==
    LET loser == game.currentTurn
    IN  CASE game.state # "InProgress" -> game
          [] game.state = "InProgress" /\ timeIsUp(game, now) ->
               finish(commitElapsedToActiveSide(game, now),
                      oppositeColor(loser), "Timeout")
          [] /\ game.state = "InProgress"
             /\ ~timeIsUp(game, now)
             /\ outcome = "checkmate" ->
               finish(game, oppositeColor(loser), "Checkmate")
          [] /\ game.state = "InProgress"
             /\ ~timeIsUp(game, now)
             /\ outcome = "stalemate" -> finish(game, "EMPTY", "Draw")
          [] OTHER -> game

\* The board of a game in progress has been looked at before, so a tick finds
\* no mate.
tick(game, now) == refreshTerminalStateFromBoard(game, "legal", now)

\* Mutant: the clocks are not looked at when the game starts.
startUnlooked(game, now) ==
    [newGame(game.clockConfig) EXCEPT
       !.state = "InProgress", !.version = 1, !.turnStart = now,
       !.time = [side \in Side |-> game.clockConfig.initialTime]]

start(game, now) ==
    LET initial == IF game.clockConfig.enabled
                   THEN game.clockConfig.initialTime ELSE 0
    IN  refreshTerminalStateFromBoard(
            [newGame(game.clockConfig) EXCEPT
               !.state = "InProgress", !.version = 1, !.turnStart = now,
               !.time = [side \in Side |-> initial]],
            "legal", now)

advanceTurn(game, now) ==
    LET committed == commitElapsedToActiveSide(game, now)
        bonus == IF game.clockConfig.enabled THEN game.clockConfig.increment
                 ELSE 0
    IN  [committed EXCEPT !.time[game.currentTurn] = @ + bonus,
                          !.currentTurn = oppositeColor(@)]

\* submitMove ticks the game first: out of time, a move is refused.
moveAccepted(game, side, outcome, now) ==
    /\ tick(game, now).state = "InProgress"
    /\ side = game.currentTurn
    /\ outcome # "illegal"

submitMove(game, side, outcome, now) ==
    IF moveAccepted(game, side, outcome, now)
    THEN refreshTerminalStateFromBoard(
             advanceTurn([game EXCEPT !.version = @ + 1], now), outcome, now)
    ELSE tick(game, now)

resign(game, side, now) ==
    IF game.state = "InProgress"
    THEN finish(IF game.clockConfig.enabled
                THEN commitElapsedToActiveSide(game, now) ELSE game,
                oppositeColor(side), "Resign")
    ELSE game

\* Mutant: the running turn is not read into the snapshot.
snapshotOfTheTurn(game, now) ==
    [state |-> game.state, currentTurn |-> game.currentTurn,
     winner |-> game.winner, endReason |-> game.endReason,
     clockConfig |-> game.clockConfig, version |-> game.version,
     time |-> game.time]

\* A snapshot is the game without the start of its turn, its clocks read.
snapshot(game, now) ==
    [state |-> game.state, currentTurn |-> game.currentTurn,
     winner |-> game.winner, endReason |-> game.endReason,
     clockConfig |-> game.clockConfig, version |-> game.version,
     time |-> [side \in Side |-> timeRemaining(game, side, now)]]

applySnapshot(s, now) ==
    [state |-> s.state, currentTurn |-> s.currentTurn, winner |-> s.winner,
     endReason |-> s.endReason, clockConfig |-> s.clockConfig,
     version |-> s.version, time |-> s.time,
     turnStart |-> IF s.state = "InProgress" THEN now ELSE 0]
=============================================================================
