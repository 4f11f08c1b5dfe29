------------------------- MODULE SingleplayerClient -------------------------
(***************************************************************************)
(* The local game (SingleplayerClient.cpp): one player moves for both      *)
(* sides of a game with clocks (module ChessGame), may pause it, and sees  *)
(* a result when it is over. GameClient ticks it while a game is on.       *)
(*                                                                         *)
(* pauses and used are history: how often the game was paused, and the     *)
(* time for which each side has really been to move in a game that was not *)
(* paused.                                                                 *)
(***************************************************************************)
EXTENDS ChessGame

CONSTANTS
    ClockConfigs,  \* the clocks that can be chosen
    MaxNow,        \* bound: how long time is followed
    MaxMoves,      \* bound: how many moves of a game are followed
    MaxPauses      \* bound: how often a game is paused

ASSUME ConfigsAssumption == ClockConfigs \subseteq ChessClockConfig
ASSUME BoundsAssumption == {MaxNow, MaxMoves, MaxPauses} \subseteq Nat

SingleplayerState == {"IDLE", "INGAME", "PAUSED", "RESULT"}

\* An optional value is an empty sequence or one of length one.
NoSnapshot == <<>>

NoResult == <<"EMPTY", "Resign">>

VARIABLES
    state, game,
    pausedSnapshot,
    result,         \* the winner and how the game ended
    now,            \* steady_clock::now()
    pauses, used

vars == <<state, game, pausedSnapshot, result, now, pauses, used>>

Init ==
    /\ state = "IDLE"
    /\ game = reset
    /\ pausedSnapshot = NoSnapshot
    /\ result = NoResult
    /\ now = 0
    /\ pauses = 0
    /\ used = [side \in Side |-> 0]

begin(config) ==
    /\ game' = start(newGame(config), now)
    /\ pausedSnapshot' = NoSnapshot
    /\ state' = "INGAME"
    /\ result' = NoResult
    /\ pauses' = 0
    /\ used' = [side \in Side |-> 0]
    /\ UNCHANGED now

Start(config) ==
    /\ state = "IDLE"
    /\ begin(config)

\* stop and start in one call, with the configuration of the last game.
Restart ==
    /\ state = "RESULT"
    /\ begin(game.clockConfig)

Stop ==
    /\ state # "IDLE"
    /\ state' = "IDLE"
    /\ game' = reset
    /\ pausedSnapshot' = NoSnapshot
    /\ result' = NoResult
    /\ UNCHANGED <<now, pauses, used>>

Pause ==
    /\ state = "INGAME"
    /\ pauses < MaxPauses
    /\ pausedSnapshot' = <<snapshot(game, now)>>
    /\ state' = "PAUSED"
    /\ pauses' = pauses + 1
    /\ UNCHANGED <<game, result, now, used>>

Resume ==
    /\ state = "PAUSED"
    /\ game' = applySnapshot(pausedSnapshot[1], now)
    /\ pausedSnapshot' = NoSnapshot
    /\ state' = "INGAME"
    /\ UNCHANGED <<result, now, pauses, used>>

\* Mutant: the result is shown without being set.
showResult(g) ==
    IF g.state = "Finished" /\ state # "RESULT"
    THEN state' = "RESULT" /\ UNCHANGED result
    ELSE UNCHANGED <<state, result>>

recordFinishedGame(g) ==
    IF g.state = "Finished" /\ state # "RESULT"
    THEN /\ result' = <<g.winner, g.endReason>>
         /\ state' = "RESULT"
    ELSE UNCHANGED <<state, result>>

\* A move that is refused returns before the end of the game is recorded: the
\* clock may have run out in it, and the next tick records that.
TryMove(outcome) ==
    LET side == game.currentTurn
    IN  /\ state = "INGAME"
        /\ game.version <= MaxMoves
        /\ game' = submitMove(game, side, outcome, now)
        /\ IF moveAccepted(game, side, outcome, now)
           THEN recordFinishedGame(game')
           ELSE UNCHANGED <<state, result>>
        /\ UNCHANGED <<pausedSnapshot, now, pauses, used>>

Resign ==
    /\ state = "INGAME"
    /\ game.state = "InProgress"
    /\ game' = resign(game, game.currentTurn, now)
    /\ recordFinishedGame(game')
    /\ UNCHANGED <<pausedSnapshot, now, pauses, used>>

\* Mutant: a game that the tick finds over is not recorded.
TickOnly ==
    /\ state = "INGAME"
    /\ game' = tick(game, now)
    /\ UNCHANGED <<state, pausedSnapshot, result, now, pauses, used>>

Tick ==
    /\ state = "INGAME"
    /\ game' = tick(game, now)
    /\ recordFinishedGame(game')
    /\ UNCHANGED <<pausedSnapshot, now, pauses, used>>

TimePasses ==
    /\ now < MaxNow
    /\ now' = now + 1
    /\ used' = IF state = "INGAME" /\ game.state = "InProgress"
               THEN [used EXCEPT ![game.currentTurn] = @ + 1] ELSE used
    /\ UNCHANGED <<state, game, pausedSnapshot, result, pauses>>

Next ==
    \/ \E config \in ClockConfigs : Start(config)
    \/ Restart
    \/ Stop
    \/ Pause
    \/ Resume
    \/ \E outcome \in MoveOutcome : TryMove(outcome)
    \/ Resign
    \/ Tick
    \/ TimePasses

\* The screen of the game has the client ticked while it is not paused.
Spec == Init /\ [][Next]_vars /\ WF_vars(Tick)

-----------------------------------------------------------------------------
TypeOK ==
    /\ state \in SingleplayerState
    /\ game \in ChessGame
    /\ pausedSnapshot # NoSnapshot <=> state = "PAUSED"
    /\ result[1] \in Side \cup {"EMPTY"}
    /\ result[2] \in ChessGameEndReason
    /\ pauses \in 0 .. MaxPauses
    /\ used \in [Side -> Nat]

\* SingleplayerClient::view
clocks ==
    IF state = "PAUSED" THEN pausedSnapshot[1].time
    ELSE [side \in Side |-> timeRemaining(game, side, now)]

\* The moves a side has made in this game.
movesBy(side) ==
    LET moves == game.version - (IF game.state = "Finished" THEN 2 ELSE 1)
    IN  IF side = "WHITE" THEN (moves + 1) \div 2 ELSE moves \div 2

spent(side) ==
    game.clockConfig.initialTime + movesBy(side) * game.clockConfig.increment
      - clocks[side]

\* Over any number of pauses the clock that is shown, of a game that runs, is
\* paused or is over, has lost the time for which its side was to move in play,
\* up to the part of a millisecond that every turn and every pause drops: a pause
\* costs nothing and gives nothing beyond that, and the end of a game charges the
\* turn that it ends once.
PausesAreAccountedFor ==
    state # "IDLE" =>
      \A side \in Side :
         clocks[side] > 0 =>
           used[side] - spent(side) * TicksPerMs \in
             0 .. (movesBy(side) + 1 + pauses) * (TicksPerMs - 1)

\* A result is shown exactly when it is that of the game just played. A game
\* that is over without one was lost on time in a move that was refused.
ResultIsOfThisGame ==
    /\ state = "RESULT" =>
          game.state = "Finished" /\ result = <<game.winner, game.endReason>>
    /\ game.state = "Finished" /\ state # "RESULT" =>
          game.endReason = "Timeout"

\* Also the game that was lost on time in a refused move comes to its result,
\* unless it is paused or given up: the ticks go on while it is in play.
EndsAreRecorded ==
    game.state = "Finished" /\ state = "INGAME" ~> state # "INGAME"
=============================================================================
