------------------------------ MODULE GameRoom ------------------------------
(***************************************************************************)
(* One match room of the server (GameRoom.cpp) and the chess game it owns  *)
(* (ChessGame.cpp), as operators on records: every operator below takes    *)
(* the room (or game) before a call and yields the one after it.           *)
(*                                                                         *)
(* The board and the clocks are abstracted to what a room can tell apart.  *)
(* A submitted move is illegal, legal, a mating or a stalemating one       *)
(* (MoveOutcome), and the clock of the side to move has run out or has not *)
(* (game.flagged), which the game only notices when it is ticked.          *)
(***************************************************************************)
EXTENDS Integers, FiniteSets

CONSTANTS
    SessionID,  \* the sessions that may sit in a room
    NoSession,  \* session id 0, the empty seat
    Configs     \* the room configurations the clients ask for

\* "zero" is an enabled clock whose initial time is 0.
ClockKind == {"disabled", "enabled", "zero"}

\* maxSpectators = 0 means no limit; password says that one is needed.
RoomCreateConfig ==
    [clock : ClockKind, password : BOOLEAN, allowSpectators : BOOLEAN,
     allowMidgameJoin : BOOLEAN, maxSpectators : Nat,
     spectatorsCanChat : BOOLEAN, visibleInLobby : BOOLEAN]

ASSUME SessionAssumption == NoSession \notin SessionID
ASSUME ConfigsAssumption == Configs \subseteq RoomCreateConfig

COLOR == {"WHITE", "BLACK", "EMPTY"}
Seats == SessionID \cup {NoSession}

(***************************************************************************)
(* The chess game                                                          *)
(***************************************************************************)
ChessGameState == {"NotStarted", "InProgress", "Finished"}
EndReason == {"None", "Checkmate", "Draw", "Resign", "Timeout"}
MoveOutcome == {"illegal", "legal", "checkmate", "stalemate"}

ChessGame ==
    [state : ChessGameState, currentTurn : {"WHITE", "BLACK"},
     winner : COLOR, endReason : EndReason, version : Nat,
     flagged : BOOLEAN]

newGame ==
    [state |-> "NotStarted", currentTurn |-> "WHITE", winner |-> "EMPTY",
     endReason |-> "None", version |-> 0, flagged |-> FALSE]

oppositeColor(side) == IF side = "WHITE" THEN "BLACK" ELSE "WHITE"

finish(game, winner, reason) ==
    IF game.state = "Finished" THEN game
    ELSE [game EXCEPT !.state = "Finished", !.winner = winner,
                      !.endReason = reason, !.version = @ + 1,
                      !.flagged = FALSE]

\* Mutant: the side that ran out of time wins.
flaggedSideWins(game) ==
    IF game.state = "InProgress" /\ game.flagged
    THEN finish(game, game.currentTurn, "Timeout")
    ELSE game

\* A game in progress whose side to move has no time left is lost by it.
gameTick(game) ==
    IF game.state = "InProgress" /\ game.flagged
    THEN finish(game, oppositeColor(game.currentTurn), "Timeout")
    ELSE game

gameStart(clock) ==
    gameTick([newGame EXCEPT !.state = "InProgress", !.version = 1,
                             !.flagged = (clock = "zero")])

moveRejected(game, side, outcome) ==
    \/ game.state # "InProgress"
    \/ side # game.currentTurn
    \/ outcome = "illegal"

\* The board after the move: the turn has passed, and mate or stalemate of
\* the side that is now to move ends the game.
afterMove(game, outcome) ==
    LET moved == [game EXCEPT !.version = @ + 1,
                              !.currentTurn = oppositeColor(@)]
    IN  CASE outcome = "checkmate" ->
               finish(moved, oppositeColor(moved.currentTurn), "Checkmate")
          [] outcome = "stalemate" -> finish(moved, "EMPTY", "Draw")
          [] OTHER -> moved

gameResign(game, side) ==
    IF game.state # "InProgress" THEN game
    ELSE finish(game, oppositeColor(side), "Resign")

(***************************************************************************)
(* The room                                                                *)
(***************************************************************************)
RoomState == {"WaitingForPlayers", "InProgress", "GameOver"}

Room ==
    [config : Configs, state : RoomState, roomVersion : Nat,
     player1 : Seats, player2 : Seats, spectators : SUBSET SessionID,
     game : ChessGame]

newRoom(creator, config) ==
    [config |-> config, state |-> "WaitingForPlayers", roomVersion |-> 0,
     player1 |-> creator, player2 |-> NoSession, spectators |-> {},
     game |-> newGame]

roleOf(room, s) ==
    CASE s = room.player1 -> "Player1"
      [] s # room.player1 /\ s = room.player2 -> "Player2"
      [] s # room.player1 /\ s # room.player2 /\ s \in room.spectators ->
           "Spectator"
      [] OTHER -> "None"

colorOf(room, s) ==
    IF s = room.player1 THEN "WHITE"
    ELSE IF s = room.player2 THEN "BLACK" ELSE "EMPTY"

contains(room, s) == roleOf(room, s) # "None"

allSessionIDs(room) ==
    room.spectators \cup ({room.player1, room.player2} \ {NoSession})

empty(room) == allSessionIDs(room) = {}

roomStateOf(game) ==
    CASE game.state = "Finished" -> "GameOver"
      [] game.state = "InProgress" -> "InProgress"
      [] OTHER -> "WaitingForPlayers"

\* Mutant: the room's state is not refreshed.
keepRoomState(room) == room

updateRoomStateFromGame(room) ==
    [room EXCEPT !.state = roomStateOf(room.game)]

\* Mutant: a game starts with one player.
canStartAlone(room) ==
    room.state = "WaitingForPlayers" /\ room.player1 # NoSession

canStartGame(room) ==
    /\ room.state = "WaitingForPlayers"
    /\ room.player1 # NoSession
    /\ room.player2 # NoSession
    /\ room.game.state = "NotStarted"

startGameIfReady(room) ==
    IF canStartGame(room)
    THEN [room EXCEPT !.game = gameStart(room.config.clock)]
    ELSE room

seatPlayer(room, s) ==
    IF room.player1 = NoSession THEN [room EXCEPT !.player1 = s]
    ELSE [room EXCEPT !.player2 = s]

\* Mutant: a free seat is given away after the game.
joinAnyFreeSeat(room, s) ==
    CASE contains(room, s) -> "AlreadyInRoom"
      [] /\ ~contains(room, s)
         /\ NoSession \notin {room.player1, room.player2} -> "RoomFull"
      [] OTHER -> "JoinedAsPlayer"

joinPlayerResult(room, s) ==
    CASE contains(room, s) -> "AlreadyInRoom"
      [] ~contains(room, s) /\ room.state = "GameOver" -> "InvalidState"
      [] /\ ~contains(room, s)
         /\ room.state # "GameOver"
         /\ NoSession \notin {room.player1, room.player2} -> "RoomFull"
      [] OTHER -> "JoinedAsPlayer"

\* The room after a joinPlayer that succeeded.
joinPlayer(room, s) ==
    updateRoomStateFromGame(
        startGameIfReady([seatPlayer(room, s) EXCEPT !.roomVersion = @ + 1]))

joinSpectatorResult(room, s) ==
    CASE contains(room, s) -> "AlreadyInRoom"
      [] ~contains(room, s) /\ room.state = "GameOver" -> "InvalidState"
      [] OTHER -> "JoinedAsSpectator"

\* The room after a joinSpectator that succeeded.
joinSpectator(room, s) ==
    [room EXCEPT !.spectators = @ \cup {s}, !.roomVersion = @ + 1]

\* A player who leaves a game in progress resigns it with his own colour.
leavePlayer1(room) ==
    updateRoomStateFromGame(
        [room EXCEPT !.game = gameResign(@, "WHITE"),
                     !.player1 = NoSession, !.roomVersion = @ + 1])

leavePlayer2(room) ==
    updateRoomStateFromGame(
        [room EXCEPT !.game = gameResign(@, "BLACK"),
                     !.player2 = NoSession, !.roomVersion = @ + 1])

\* Mutant: a spectator who left is kept.
keepSpectator(room, s) == [room EXCEPT !.roomVersion = @ + 1]

leaveSpectator(room, s) ==
    [room EXCEPT !.spectators = @ \ {s}, !.roomVersion = @ + 1]

leave(room, s) ==
    CASE roleOf(room, s) = "Player1" -> leavePlayer1(room)
      [] roleOf(room, s) = "Player2" -> leavePlayer2(room)
      [] roleOf(room, s) = "Spectator" -> leaveSpectator(room, s)
      [] OTHER -> room

submitMoveStatus(room, s, outcome) ==
    CASE roleOf(room, s) = "None" -> "NotInRoom"
      [] roleOf(room, s) = "Spectator" -> "SpectatorCannotMove"
      [] /\ roleOf(room, s) \in {"Player1", "Player2"}
         /\ moveRejected(gameTick(room.game), colorOf(room, s), outcome) ->
           "GameRejected"
      [] OTHER -> "Success"

\* The game is ticked before the move is judged, so a rejected move still
\* leaves a game that has run out of time finished.
submitMove(room, s, outcome) ==
    LET ticked == gameTick(room.game)
    IN  CASE submitMoveStatus(room, s, outcome) = "Success" ->
               updateRoomStateFromGame(
                   [room EXCEPT !.game = afterMove(ticked, outcome)])
          [] submitMoveStatus(room, s, outcome) = "GameRejected" ->
               updateRoomStateFromGame([room EXCEPT !.game = ticked])
          [] OTHER -> room

\* Mutant: a tick does not look at the clocks.
ignoreClocks(room) == room

roomTick(room) ==
    updateRoomStateFromGame([room EXCEPT !.game = gameTick(@)])

-----------------------------------------------------------------------------
(* What is true of a room between two calls *)

\* A session holds at most one place in a room.
OnePlace(room) ==
    /\ room.player1 # NoSession => room.player1 # room.player2
    /\ {room.player1, room.player2} \cap room.spectators = {}

\* The room's own state is the one of its game (updateRoomStateFromGame is
\* called wherever the game may have changed); a room with both seats taken
\* has started its game, and a game in progress has both its players.
RoomFollowsGame(room) ==
    /\ room.state = roomStateOf(room.game)
    /\ room.state = "WaitingForPlayers" =>
          NoSession \in {room.player1, room.player2}
    /\ room.state = "InProgress" =>
          NoSession \notin {room.player1, room.player2}

\* The seat of the side that lost.
loserSeat(room) ==
    IF room.game.winner = "BLACK" THEN room.player1 ELSE room.player2

\* How a game ended agrees with who won it and with who is still seated: a
\* mated or flagged side is the one to move and loses, a draw has no winner, a
\* flag falls only where clocks run, and a game ends by resignation only when
\* the loser has left his seat, which nobody takes again.
VerdictIsSound(room) ==
    LET game == room.game
    IN  /\ game.state = "Finished" <=> game.endReason # "None"
        /\ game.endReason \in {"None", "Draw"} <=> game.winner = "EMPTY"
        /\ game.endReason \in {"Checkmate", "Timeout"} =>
              game.winner = oppositeColor(game.currentTurn)
        /\ game.endReason = "Timeout" => room.config.clock # "disabled"
        /\ game.endReason = "Resign" => loserSeat(room) = NoSession
=============================================================================
