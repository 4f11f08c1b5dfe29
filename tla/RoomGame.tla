------------------------------ MODULE RoomGame ------------------------------
(***************************************************************************)
(* The game as a match room sees it: GameRoom's operators on a game whose  *)
(* clocks are reduced to whether the side to move has run out of time. It  *)
(* is the specification that the game with clocks implements.              *)
(***************************************************************************)
EXTENDS GameRoom

VARIABLE game

Start(clock) == game.state = "NotStarted" /\ game' = gameStart(clock)

Tick == game' = gameTick(game)

SubmitMove(side, outcome) ==
    LET ticked == gameTick(game)
    IN  game' = IF moveRejected(ticked, side, outcome) THEN ticked
                ELSE afterMove(ticked, outcome)

Resign(side) == game' = gameResign(game, side)

\* The clock of the side to move runs out.
Flag ==
    /\ game.state = "InProgress"
    /\ game' = [game EXCEPT !.flagged = TRUE]

RoomGameInit == game = newGame

RoomGameNext ==
    \/ \E clock \in ClockKind : Start(clock)
    \/ Tick
    \/ \E side \in {"WHITE", "BLACK"}, outcome \in MoveOutcome :
          SubmitMove(side, outcome)
    \/ \E side \in {"WHITE", "BLACK"} : Resign(side)
    \/ Flag

RoomGameSpec == RoomGameInit /\ [][RoomGameNext]_game
=============================================================================
