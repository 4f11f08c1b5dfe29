----------------------------- MODULE GameClock -----------------------------
(***************************************************************************)
(* A server room's game (module ChessGame) while real time passes: the     *)
(* room starts it once, ticks it whenever the manager does, submits moves  *)
(* and resigns for a player who leaves.                                    *)
(*                                                                         *)
(* used is history: the time for which each side has really been to move.  *)
(***************************************************************************)
EXTENDS ChessGame

CONSTANTS
    ClockConfigs,  \* the configurations the rooms ask for
    MaxNow,        \* bound: how long time is followed
    MaxMoves       \* bound: how many moves are followed

ASSUME ConfigsAssumption == ClockConfigs \subseteq ChessClockConfig
ASSUME BoundsAssumption == MaxNow \in Nat /\ MaxMoves \in Nat

VARIABLES
    game,  \* GameRoom::m_game
    now,   \* steady_clock::now()
    used

vars == <<game, now, used>>

TypeOK ==
    /\ game \in ChessGame
    /\ now \in Nat
    /\ used \in [Side -> Nat]

Init ==
    /\ \E config \in ClockConfigs : game = newGame(config)
    /\ now = 0
    /\ used = [side \in Side |-> 0]

Start ==
    /\ game.state = "NotStarted"
    /\ game' = start(game, now)
    /\ UNCHANGED <<now, used>>

Tick ==
    /\ game' = tick(game, now)
    /\ UNCHANGED <<now, used>>

SubmitMove(side, outcome) ==
    /\ game.version <= MaxMoves
    /\ game' = submitMove(game, side, outcome, now)
    /\ UNCHANGED <<now, used>>

Resign(side) ==
    /\ game' = resign(game, side, now)
    /\ UNCHANGED <<now, used>>

TimePasses ==
    /\ now < MaxNow
    /\ now' = now + 1
    /\ used' = IF game.state = "InProgress"
               THEN [used EXCEPT ![game.currentTurn] = @ + 1] ELSE used
    /\ UNCHANGED game

Next ==
    \/ Start
    \/ Tick
    \/ \E side \in Side, outcome \in MoveOutcome : SubmitMove(side, outcome)
    \/ \E side \in Side : Resign(side)
    \/ TimePasses

Spec == Init /\ [][Next]_vars

-----------------------------------------------------------------------------
(* Safety *)

\* The moves a side has made, by the version: it counts the start, the moves
\* and the end of the game.
movesBy(side) ==
    LET moves == game.version - (IF game.state = "Finished" THEN 2 ELSE 1)
    IN  IF side = "WHITE" THEN (moves + 1) \div 2 ELSE moves \div 2

spent(side) ==
    game.clockConfig.initialTime + movesBy(side) * game.clockConfig.increment
      - timeRemaining(game, side, now)

\* What a clock has taken from a side is the time that side was to move, up to
\* the fraction of a millisecond that is dropped at the end of every turn: no
\* side pays for its opponent's time, for the time before a tick, or twice, while
\* the game runs and when it is over, however it ended.
TimeIsAccountedFor ==
    game.clockConfig.enabled =>
      \A side \in Side :
         timeRemaining(game, side, now) > 0 =>
           used[side] - spent(side) * TicksPerMs \in
             0 .. (movesBy(side) + 1) * (TicksPerMs - 1)

\* Nobody loses on time before his time is used up: whatever was dropped was
\* dropped in his favour.
TimeoutsAreFair ==
    game.endReason = "Timeout" =>
      LET loser == game.currentTurn
      IN  /\ game.winner = oppositeColor(loser)
          /\ game.time[loser] = 0
          /\ used[loser] >= TicksPerMs *
               (game.clockConfig.initialTime +
                  movesBy(loser) * game.clockConfig.increment)

\* The game with clocks does what GameRoom says of a game.
roomGame ==
    [state |-> game.state, currentTurn |-> game.currentTurn,
     winner |-> game.winner, endReason |-> game.endReason,
     version |-> game.version,
     flagged |-> game.state = "InProgress" /\ timeIsUp(game, now)]

Room == INSTANCE RoomGame WITH game <- roomGame, SessionID <- {},
                               NoSession <- "None", Configs <- {}

\* Every step of the game with its clocks is one GameRoom's game may make: the
\* clock that has run out and was not noticed yet is GameRoom's flag.
ImplementsRoomGame == Room!RoomGameSpec
=============================================================================
