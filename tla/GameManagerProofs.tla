------------------------- MODULE GameManagerProofs -------------------------
(***************************************************************************)
(* Proofs about the game manager, for every set of sessions, every room    *)
(* configuration and every bound, in four parts: what each call of a game  *)
(* and of a room preserves; the invariant of the manager, split in what    *)
(* the maps satisfy (MapsInv, which the requests and the tick have to      *)
(* keep) and what the lifecycle satisfies (LifeInv, kept by start, stop    *)
(* and the timer); how games end and what the members of a room are told;  *)
(* and that the manager implements the lobby.                              *)
(***************************************************************************)
EXTENDS GameManager, TLAPS

(*************************************************************************)
(* Part 1: the calls of a game and of a room                             *)
(*************************************************************************)

\* oppositeColor names one of the two sides.
LEMMA OppositeIsASide ==
    ASSUME NEW side PROVE oppositeColor(side) \in {"WHITE", "BLACK"}
  BY DEF oppositeColor

\* A finished game is a game.
LEMMA FinishType ==
    ASSUME NEW game \in ChessGame, NEW winner \in COLOR,
           NEW reason \in EndReason
    PROVE  /\ finish(game, winner, reason) \in ChessGame
           /\ finish(game, winner, reason).state = "Finished"
  <1>1. game.version + 1 \in Nat
    BY DEF ChessGame
  <1> QED
    BY <1>1, Zenon DEF finish, ChessGame, ChessGameState

\* A tick leaves a game or ends it by timeout.
LEMMA TickType ==
    ASSUME NEW game \in ChessGame
    PROVE  /\ gameTick(game) \in ChessGame
           /\ gameTick(game).state = "NotStarted" <=>
                game.state = "NotStarted"
           /\ gameTick(game).state = "InProgress" =>
                game.state = "InProgress"
           /\ game.state = "Finished" => gameTick(game) = game
  BY OppositeIsASide, FinishType
     DEF gameTick, ChessGame, ChessGameState, COLOR, EndReason

\* Starting a game always starts it.
LEMMA StartType ==
    ASSUME NEW clock
    PROVE  /\ gameStart(clock) \in ChessGame
           /\ gameStart(clock).state # "NotStarted"
  <1> DEFINE g == [newGame EXCEPT !.state = "InProgress", !.version = 1,
                                  !.flagged = (clock = "zero")]
  <1>1. g \in ChessGame /\ g.state = "InProgress"
    BY Zenon DEF newGame, ChessGame, ChessGameState, COLOR, EndReason
  <1>2. gameStart(clock) = gameTick(g)
    BY DEF gameStart
  <1> QED
    BY <1>1, <1>2, TickType

\* A move that was accepted leaves a game that has started.
LEMMA MoveType ==
    ASSUME NEW game \in ChessGame, game.state = "InProgress", NEW outcome
    PROVE  /\ afterMove(game, outcome) \in ChessGame
           /\ afterMove(game, outcome).state # "NotStarted"
  <1> DEFINE moved == [game EXCEPT !.version = @ + 1,
                                   !.currentTurn = oppositeColor(@)]
  <1>1. moved \in ChessGame /\ moved.state = "InProgress"
    <2>1. game.version + 1 \in Nat
      BY DEF ChessGame
    <2> QED
      BY <2>1, OppositeIsASide, Zenon DEF ChessGame
  <1>2. finish(moved, oppositeColor(moved.currentTurn), "Checkmate")
            \in ChessGame
        /\ finish(moved, oppositeColor(moved.currentTurn), "Checkmate").state
            = "Finished"
    BY <1>1, OppositeIsASide, FinishType DEF COLOR, EndReason
  <1>3. finish(moved, "EMPTY", "Draw") \in ChessGame
        /\ finish(moved, "EMPTY", "Draw").state = "Finished"
    BY <1>1, FinishType DEF COLOR, EndReason
  <1> QED
    BY <1>1, <1>2, <1>3 DEF afterMove

\* Resigning ends a game in progress and leaves any other alone.
LEMMA ResignType ==
    ASSUME NEW game \in ChessGame, NEW side
    PROVE  /\ gameResign(game, side) \in ChessGame
           /\ game.state = "InProgress" =>
                gameResign(game, side).state = "Finished"
           /\ game.state # "InProgress" => gameResign(game, side) = game
  BY OppositeIsASide, FinishType DEF gameResign, COLOR, EndReason

-----------------------------------------------------------------------------
(* The room *)

GoodRoom(room) == room \in Room /\ OnePlace(room) /\ RoomFollowsGame(room)

\* Storing a game in a room and refreshing the room's state from it.
LEMMA WithGame ==
    ASSUME NEW room \in Room, NEW g \in ChessGame,
           NEW after, after = updateRoomStateFromGame([room EXCEPT !.game = g])
    PROVE  /\ after \in Room
           /\ after.state = roomStateOf(g)
           /\ after.game = g
           /\ after.player1 = room.player1
           /\ after.player2 = room.player2
           /\ after.spectators = room.spectators
           /\ after.config = room.config
  <1>1. roomStateOf(g) \in RoomState
    BY DEF roomStateOf, RoomState
  <1>2. [room EXCEPT !.game = g] \in Room
    BY Zenon DEF Room
  <1>3. after = [[room EXCEPT !.game = g] EXCEPT !.state = roomStateOf(g)]
    BY Zenon DEF updateRoomStateFromGame, Room
  <1>4. after \in Room
    BY <1>1, <1>2, <1>3, Zenon DEF Room
  <1> QED
    BY <1>1, <1>2, <1>3, <1>4 DEF Room

\* A fresh room has its creator in it.
LEMMA NewRoom ==
    ASSUME NEW s \in SessionID, NEW config \in Configs
    PROVE  /\ GoodRoom(newRoom(s, config))
           /\ allSessionIDs(newRoom(s, config)) = {s}
  <1>1. newGame \in ChessGame
    BY Zenon DEF newGame, ChessGame, ChessGameState, COLOR, EndReason
  <1>2. newRoom(s, config) \in Room
    BY <1>1, Zenon DEF newRoom, Room, RoomState, Seats
  <1>3. /\ OnePlace(newRoom(s, config))
        /\ RoomFollowsGame(newRoom(s, config))
    BY SessionAssumption
       DEF newRoom, newGame, OnePlace, RoomFollowsGame, roomStateOf
  <1>4. allSessionIDs(newRoom(s, config)) = {s}
    BY SessionAssumption DEF newRoom, allSessionIDs
  <1> QED
    BY <1>2, <1>3, <1>4 DEF GoodRoom

\* A spectator who may join is added to the members of the room.
LEMMA JoinSpectator ==
    ASSUME NEW room, GoodRoom(room), NEW s \in SessionID,
           joinSpectatorResult(room, s) = "JoinedAsSpectator"
    PROVE  /\ GoodRoom(joinSpectator(room, s))
           /\ allSessionIDs(joinSpectator(room, s))
                = allSessionIDs(room) \cup {s}
  <1> DEFINE after == joinSpectator(room, s)
  <1>1. /\ s # room.player1 /\ s # room.player2
        /\ room.state # "GameOver"
    BY DEF joinSpectatorResult, contains, roleOf
  <1>2. room.roomVersion + 1 \in Nat
    BY DEF GoodRoom, Room
  <1>3. after \in Room
    BY <1>2, Zenon DEF joinSpectator, GoodRoom, Room
  <1>4. /\ after.player1 = room.player1
        /\ after.player2 = room.player2
        /\ after.state = room.state
        /\ after.game = room.game
        /\ after.spectators = room.spectators \cup {s}
    BY Zenon DEF joinSpectator, GoodRoom, Room
  <1>5. OnePlace(after) /\ RoomFollowsGame(after)
    BY <1>1, <1>4 DEF GoodRoom, OnePlace, RoomFollowsGame
  <1>6. allSessionIDs(after) = allSessionIDs(room) \cup {s}
    BY <1>4 DEF allSessionIDs
  <1> QED
    BY <1>3, <1>5, <1>6 DEF GoodRoom

\* A player who may join takes the free seat; if that fills the room its game
\* starts.
LEMMA JoinPlayer ==
    ASSUME NEW room, GoodRoom(room), NEW s \in SessionID,
           joinPlayerResult(room, s) = "JoinedAsPlayer"
    PROVE  /\ GoodRoom(joinPlayer(room, s))
           /\ allSessionIDs(joinPlayer(room, s))
                = allSessionIDs(room) \cup {s}
  <1> DEFINE seated == [seatPlayer(room, s) EXCEPT !.roomVersion = @ + 1]
             after == joinPlayer(room, s)
  <1>1. /\ s # room.player1 /\ s # room.player2 /\ s \notin room.spectators
        /\ room.state # "GameOver"
        /\ NoSession \in {room.player1, room.player2}
    BY DEF joinPlayerResult, contains, roleOf
  <1>2. room.state = "WaitingForPlayers" /\ room.game.state = "NotStarted"
    BY <1>1 DEF GoodRoom, RoomFollowsGame, roomStateOf, Room, ChessGame,
                RoomState, ChessGameState
  <1>3. room.roomVersion + 1 \in Nat /\ s \in Seats
    BY DEF GoodRoom, Room, Seats
  <1>4. seatPlayer(room, s) \in Room
    BY <1>3, Zenon DEF seatPlayer, GoodRoom, Room
  <1>5. seatPlayer(room, s).roomVersion = room.roomVersion
    BY Zenon DEF seatPlayer, GoodRoom, Room
  <1>6. seated \in Room
    BY <1>3, <1>4, <1>5, Zenon DEF Room
  <1>7. /\ seated.state = "WaitingForPlayers"
        /\ seated.game = room.game
        /\ seated.spectators = room.spectators
        /\ seated.player1 = IF room.player1 = NoSession THEN s
                            ELSE room.player1
        /\ seated.player2 = IF room.player1 = NoSession THEN room.player2
                            ELSE s
    BY <1>2 DEF seatPlayer, GoodRoom, Room
  <1>8. OnePlace(seated)
    BY <1>1, <1>7, SessionAssumption DEF GoodRoom, OnePlace
  <1>9. allSessionIDs(seated) = allSessionIDs(room) \cup {s}
    BY <1>1, <1>7, SessionAssumption DEF allSessionIDs
  <1>10. CASE canStartGame(seated)
    <2> DEFINE g == gameStart(seated.config.clock)
    <2>1. g \in ChessGame /\ g.state # "NotStarted"
      BY StartType
    <2>2. after = updateRoomStateFromGame([seated EXCEPT !.game = g])
      BY <1>10 DEF joinPlayer, startGameIfReady
    <2> HIDE DEF g, seated, after
    <2>3. /\ after \in Room
          /\ after.state = roomStateOf(g)
          /\ after.game = g
          /\ after.player1 = seated.player1
          /\ after.player2 = seated.player2
          /\ after.spectators = seated.spectators
      BY <1>6, <2>1, <2>2, WithGame
    <2>4. OnePlace(after) /\ allSessionIDs(after) = allSessionIDs(seated)
      BY <1>8, <2>3 DEF OnePlace, allSessionIDs
    <2>5. RoomFollowsGame(after)
      BY <1>10, <2>1, <2>3
         DEF RoomFollowsGame, roomStateOf, canStartGame, ChessGame,
             ChessGameState
    <2> QED
      BY <1>9, <2>3, <2>4, <2>5 DEF GoodRoom, after
  <1>11. CASE ~canStartGame(seated)
    <2>1. after = [seated EXCEPT !.state = roomStateOf(room.game)]
      BY <1>7, <1>11 DEF joinPlayer, startGameIfReady,
                         updateRoomStateFromGame
    <2>2. roomStateOf(room.game) = "WaitingForPlayers"
      BY <1>2 DEF roomStateOf
    <2> HIDE DEF seated, after
    <2>3. after \in Room
      BY <1>6, <2>1, <2>2, Zenon DEF Room, RoomState
    <2>4. /\ after.state = "WaitingForPlayers"
          /\ after.game = room.game
          /\ after.player1 = seated.player1
          /\ after.player2 = seated.player2
          /\ after.spectators = seated.spectators
      BY <1>6, <1>7, <2>1, <2>2 DEF Room
    <2>5. OnePlace(after) /\ allSessionIDs(after) = allSessionIDs(seated)
      BY <1>8, <2>4 DEF OnePlace, allSessionIDs
    <2>6. NoSession \in {seated.player1, seated.player2}
      BY <1>2, <1>7, <1>11 DEF canStartGame
    <2>7. RoomFollowsGame(after)
      BY <2>2, <2>4, <2>6 DEF RoomFollowsGame
    <2> QED
      BY <1>9, <2>3, <2>5, <2>7 DEF GoodRoom, after
  <1> QED
    BY <1>10, <1>11

\* Whoever leaves is out of the room, a player's game being given up first.
LEMMA Leave ==
    ASSUME NEW room, GoodRoom(room), NEW s \in SessionID, contains(room, s)
    PROVE  /\ GoodRoom(leave(room, s))
           /\ allSessionIDs(leave(room, s)) = allSessionIDs(room) \ {s}
  <1> DEFINE after == leave(room, s)
  <1>1. room.roomVersion + 1 \in Nat /\ NoSession \in Seats
    BY DEF GoodRoom, Room, Seats
  <1>2. room.game \in ChessGame
    BY DEF GoodRoom, Room
  <1>3. CASE s = room.player1
    <2> DEFINE g == gameResign(room.game, "WHITE")
               gone == [room EXCEPT !.player1 = NoSession, !.roomVersion = @ + 1]
    <2>1. after = updateRoomStateFromGame(
                      [room EXCEPT !.game = g, !.player1 = NoSession,
                                   !.roomVersion = @ + 1])
      BY <1>3, Zenon DEF leave, roleOf, leavePlayer1
    <2>2. g \in ChessGame
      BY <1>2, ResignType
    <2>3. gone \in Room
      BY <1>1, Zenon DEF GoodRoom, Room
    <2>4. [room EXCEPT !.game = g, !.player1 = NoSession,
                       !.roomVersion = @ + 1] = [gone EXCEPT !.game = g]
      BY Zenon DEF GoodRoom, Room
    <2>5. /\ gone.player1 = NoSession
          /\ gone.player2 = room.player2
          /\ gone.spectators = room.spectators
      BY Zenon DEF GoodRoom, Room
    <2>6. /\ g.state = "InProgress" => FALSE
          /\ g.state = "NotStarted" => room.game.state = "NotStarted"
      BY <1>2, ResignType DEF ChessGame, ChessGameState
    <2> HIDE DEF g, gone, after
    <2>7. /\ after \in Room
          /\ after.state = roomStateOf(g)
          /\ after.game = g
          /\ after.player1 = NoSession
          /\ after.player2 = room.player2
          /\ after.spectators = room.spectators
      BY <2>1, <2>2, <2>3, <2>4, <2>5, WithGame
    <2>8. OnePlace(after)
      BY <2>7, SessionAssumption DEF OnePlace, GoodRoom, Room
    <2>9. RoomFollowsGame(after)
      BY <2>2, <2>6, <2>7
         DEF RoomFollowsGame, roomStateOf, ChessGame, ChessGameState
    <2>10. allSessionIDs(after) = allSessionIDs(room) \ {s}
      BY <1>3, <2>7, SessionAssumption DEF allSessionIDs, GoodRoom, OnePlace
    <2> QED
      BY <2>7, <2>8, <2>9, <2>10 DEF GoodRoom, after
  <1>4. CASE s # room.player1 /\ s = room.player2
    <2> DEFINE g == gameResign(room.game, "BLACK")
               gone == [room EXCEPT !.player2 = NoSession, !.roomVersion = @ + 1]
    <2>1. after = updateRoomStateFromGame(
                      [room EXCEPT !.game = g, !.player2 = NoSession,
                                   !.roomVersion = @ + 1])
      BY <1>4, Zenon DEF leave, roleOf, leavePlayer2
    <2>2. g \in ChessGame
      BY <1>2, ResignType
    <2>3. gone \in Room
      BY <1>1, Zenon DEF GoodRoom, Room
    <2>4. [room EXCEPT !.game = g, !.player2 = NoSession,
                       !.roomVersion = @ + 1] = [gone EXCEPT !.game = g]
      BY Zenon DEF GoodRoom, Room
    <2>5. /\ gone.player1 = room.player1
          /\ gone.player2 = NoSession
          /\ gone.spectators = room.spectators
      BY Zenon DEF GoodRoom, Room
    <2>6. /\ g.state = "InProgress" => FALSE
          /\ g.state = "NotStarted" => room.game.state = "NotStarted"
      BY <1>2, ResignType DEF ChessGame, ChessGameState
    <2> HIDE DEF g, gone, after
    <2>7. /\ after \in Room
          /\ after.state = roomStateOf(g)
          /\ after.game = g
          /\ after.player1 = room.player1
          /\ after.player2 = NoSession
          /\ after.spectators = room.spectators
      BY <2>1, <2>2, <2>3, <2>4, <2>5, WithGame
    <2>8. OnePlace(after)
      BY <2>7, SessionAssumption DEF OnePlace, GoodRoom, Room
    <2>9. RoomFollowsGame(after)
      BY <2>2, <2>6, <2>7
         DEF RoomFollowsGame, roomStateOf, ChessGame, ChessGameState
    <2>10. allSessionIDs(after) = allSessionIDs(room) \ {s}
      BY <1>4, <2>7, SessionAssumption DEF allSessionIDs, GoodRoom, OnePlace
    <2> QED
      BY <2>7, <2>8, <2>9, <2>10 DEF GoodRoom, after
  <1>5. CASE s # room.player1 /\ s # room.player2
    <2>1. s \in room.spectators /\ after = leaveSpectator(room, s)
      BY <1>5 DEF contains, roleOf, leave
    <2>2. after \in Room
      BY <1>1, <2>1, Zenon DEF leaveSpectator, GoodRoom, Room
    <2>3. /\ after.player1 = room.player1
          /\ after.player2 = room.player2
          /\ after.state = room.state
          /\ after.game = room.game
          /\ after.spectators = room.spectators \ {s}
      BY <2>1, Zenon DEF leaveSpectator, GoodRoom, Room
    <2>4. OnePlace(after) /\ RoomFollowsGame(after)
      BY <2>3 DEF GoodRoom, OnePlace, RoomFollowsGame
    <2>5. allSessionIDs(after) = allSessionIDs(room) \ {s}
      BY <1>5, <2>3 DEF allSessionIDs
    <2> QED
      BY <2>2, <2>4, <2>5 DEF GoodRoom
  <1> QED
    BY <1>3, <1>4, <1>5

\* Storing a game that has not lost its start keeps a room good, and moves
\* nobody.
LEMMA ReplaceGame ==
    ASSUME NEW room, GoodRoom(room), NEW g \in ChessGame,
           g.state = "InProgress" => room.game.state = "InProgress",
           g.state = "NotStarted" => room.game.state = "NotStarted",
           NEW after, after = updateRoomStateFromGame([room EXCEPT !.game = g])
    PROVE  GoodRoom(after) /\ allSessionIDs(after) = allSessionIDs(room)
  <1>1. /\ after \in Room
        /\ after.state = roomStateOf(g)
        /\ after.game = g
        /\ after.player1 = room.player1
        /\ after.player2 = room.player2
        /\ after.spectators = room.spectators
    BY WithGame DEF GoodRoom
  <1>2. OnePlace(after) /\ allSessionIDs(after) = allSessionIDs(room)
    BY <1>1 DEF GoodRoom, OnePlace, allSessionIDs
  <1>3. RoomFollowsGame(after)
    BY <1>1 DEF GoodRoom, RoomFollowsGame, roomStateOf, ChessGame,
                ChessGameState
  <1> QED
    BY <1>1, <1>2, <1>3 DEF GoodRoom

\* A submitted move, whatever becomes of it, keeps a room good.
LEMMA SubmitMove ==
    ASSUME NEW room, GoodRoom(room), NEW s, NEW outcome
    PROVE  /\ GoodRoom(submitMove(room, s, outcome))
           /\ allSessionIDs(submitMove(room, s, outcome))
                = allSessionIDs(room)
  <1> DEFINE ticked == gameTick(room.game)
             status == submitMoveStatus(room, s, outcome)
  <1>1. room.game \in ChessGame
    BY DEF GoodRoom, Room
  <1>2. /\ ticked \in ChessGame
        /\ ticked.state = "InProgress" => room.game.state = "InProgress"
        /\ ticked.state = "NotStarted" => room.game.state = "NotStarted"
    BY <1>1, TickType
  <1>3. CASE status = "Success"
    <2>1. ticked.state = "InProgress"
      BY <1>3 DEF submitMoveStatus, moveRejected, roleOf
    <2>2. /\ afterMove(ticked, outcome) \in ChessGame
          /\ afterMove(ticked, outcome).state # "NotStarted"
      BY <1>2, <2>1, MoveType
    <2>3. submitMove(room, s, outcome) = updateRoomStateFromGame(
              [room EXCEPT !.game = afterMove(ticked, outcome)])
      BY <1>3 DEF submitMove
    <2> QED
      BY <1>2, <2>1, <2>2, <2>3, ReplaceGame
  <1>4. CASE status = "GameRejected"
    <2>1. submitMove(room, s, outcome) = updateRoomStateFromGame(
              [room EXCEPT !.game = ticked])
      BY <1>4 DEF submitMove
    <2> QED
      BY <1>2, <2>1, ReplaceGame
  <1>5. CASE status \notin {"Success", "GameRejected"}
    BY <1>5 DEF submitMove
  <1> QED
    BY <1>3, <1>4, <1>5

\* The tick of a room keeps it good.
LEMMA RoomTick ==
    ASSUME NEW room, GoodRoom(room)
    PROVE  /\ GoodRoom(roomTick(room))
           /\ allSessionIDs(roomTick(room)) = allSessionIDs(room)
  <1>1. room.game \in ChessGame
    BY DEF GoodRoom, Room
  <1>2. roomTick(room) = updateRoomStateFromGame(
            [room EXCEPT !.game = gameTick(room.game)])
    BY DEF roomTick
  <1> QED
    BY <1>1, <1>2, TickType, ReplaceGame

\* So does a clock that runs out.
LEMMA RunOut ==
    ASSUME NEW room, GoodRoom(room)
    PROVE  /\ GoodRoom([room EXCEPT !.game.flagged = TRUE])
           /\ allSessionIDs([room EXCEPT !.game.flagged = TRUE])
                = allSessionIDs(room)
  <1> DEFINE g == [room.game EXCEPT !.flagged = TRUE]
             after == [room EXCEPT !.game = g]
  <1>1. [room EXCEPT !.game.flagged = TRUE] = after
    OBVIOUS
  <1>2. g \in ChessGame
    BY Zenon DEF GoodRoom, Room, ChessGame
  <1>3. g.state = room.game.state
    BY DEF GoodRoom, Room, ChessGame
  <1>4. after \in Room
    BY <1>2, Zenon DEF GoodRoom, Room
  <1>5. /\ after.player1 = room.player1
        /\ after.player2 = room.player2
        /\ after.spectators = room.spectators
        /\ after.state = room.state
        /\ after.game = g
    BY Zenon DEF GoodRoom, Room
  <1> HIDE DEF g, after
  <1>6. OnePlace(after) /\ allSessionIDs(after) = allSessionIDs(room)
    BY <1>5 DEF GoodRoom, OnePlace, allSessionIDs
  <1>7. RoomFollowsGame(after)
    BY <1>3, <1>5 DEF GoodRoom, RoomFollowsGame, roomStateOf
  <1> QED
    BY <1>1, <1>4, <1>6, <1>7 DEF GoodRoom

(*************************************************************************)
(* Part 2: the maps and the lifecycle                                    *)
(*************************************************************************)

goodRooms ==
    /\ DOMAIN m_roomIDToRoom \subseteq RoomID
    /\ m_roomIDToRoom = [r \in DOMAIN m_roomIDToRoom |-> m_roomIDToRoom[r]]
    /\ \A r \in DOMAIN m_roomIDToRoom :
          GoodRoom(m_roomIDToRoom[r]) /\ ~empty(m_roomIDToRoom[r])

bindings ==
    /\ \A s \in SessionID :
          \/ m_sessionIDToRoomID[s] = NoRoom
          \/ /\ m_sessionIDToRoomID[s] \in DOMAIN m_roomIDToRoom
             /\ s \in allSessionIDs(m_roomIDToRoom[m_sessionIDToRoomID[s]])
    /\ \A r \in DOMAIN m_roomIDToRoom :
          \A s \in allSessionIDs(m_roomIDToRoom[r]) :
              m_sessionIDToRoomID[s] = r

MapsInv ==
    /\ m_sessionIDToRoomID \in [SessionID -> Nat]
    /\ m_nextRoomID \in RoomID
    /\ goodRooms
    /\ bindings
    /\ IDsBelowCounter

LifeInv ==
    /\ m_state \in LifecycleState
    /\ starter \in {"idle", "clearing", "scheduling"}
    /\ tickPending \in BOOLEAN
    /\ ticksReady \in Nat
    /\ NothingToClear
    /\ NextTickIsOnItsWay
    /\ StarterFollowsState

\* The two halves and the types of what is sent are the inductive invariant.
LEMMA Halves ==
    IInv <=> MapsInv /\ LifeInv /\ reply \in Reply /\ updates \subseteq RoomID
  <1>1. (m_roomIDToRoom \in [DOMAIN m_roomIDToRoom -> Room]
            /\ RoomsFollowGames /\ NoEmptyRooms
            /\ DOMAIN m_roomIDToRoom \subseteq RoomID)
          <=> goodRooms
    BY DEF goodRooms, RoomsFollowGames, NoEmptyRooms, GoodRoom
  <1>2. BindingMatchesMembership <=> bindings
    BY DEF BindingMatchesMembership, bindings, sessionAlreadyInRoom, hasRoom,
           roomBySession
  <1> QED
    BY <1>1, <1>2 DEF IInv, TypeOK, MapsInv, LifeInv

-----------------------------------------------------------------------------
(* The maps *)

\* The members of a room are sessions.
LEMMA MembersAreSessions ==
    ASSUME NEW room \in Room
    PROVE  allSessionIDs(room) \subseteq SessionID
  BY DEF allSessionIDs, Room, Seats

\* Storing a good room with the same members under its id keeps the maps.
LEMMA StoreRoom ==
    ASSUME MapsInv, NEW roomID \in DOMAIN m_roomIDToRoom, NEW room,
           GoodRoom(room),
           allSessionIDs(room) = allSessionIDs(m_roomIDToRoom[roomID]),
           m_roomIDToRoom' = withRoom(roomID, room),
           UNCHANGED <<m_sessionIDToRoomID, m_nextRoomID>>
    PROVE  MapsInv'
  <1>1. /\ DOMAIN m_roomIDToRoom' = DOMAIN m_roomIDToRoom
        /\ \A r \in DOMAIN m_roomIDToRoom :
              m_roomIDToRoom'[r] =
                  IF r = roomID THEN room ELSE m_roomIDToRoom[r]
        /\ m_roomIDToRoom' =
              [r \in DOMAIN m_roomIDToRoom' |-> m_roomIDToRoom'[r]]
    BY DEF withRoom
  <1>2. goodRooms'
    BY <1>1 DEF MapsInv, goodRooms, empty
  <1>3. bindings'
    BY <1>1 DEF MapsInv, bindings
  <1>4. IDsBelowCounter'
    BY <1>1 DEF MapsInv, IDsBelowCounter
  <1> QED
    BY <1>2, <1>3, <1>4 DEF MapsInv

\* Storing a good room with one more member, who was nowhere and is bound to
\* it, keeps the maps.
LEMMA AddMember ==
    ASSUME MapsInv, NEW roomID \in RoomID, NEW room, GoodRoom(room),
           NEW s \in SessionID, m_sessionIDToRoomID[s] = NoRoom,
           \/ /\ roomID \in DOMAIN m_roomIDToRoom
              /\ allSessionIDs(room) =
                     allSessionIDs(m_roomIDToRoom[roomID]) \cup {s}
              /\ m_nextRoomID' = m_nextRoomID
           \/ /\ roomID = m_nextRoomID
              /\ allSessionIDs(room) = {s}
              /\ m_nextRoomID' = m_nextRoomID + 1,
           m_roomIDToRoom' = withRoom(roomID, room),
           bindSessionToRoom(s, roomID)
    PROVE  MapsInv'
  <1>1. /\ DOMAIN m_roomIDToRoom' = DOMAIN m_roomIDToRoom \cup {roomID}
        /\ \A r \in DOMAIN m_roomIDToRoom' :
              m_roomIDToRoom'[r] =
                  IF r = roomID THEN room ELSE m_roomIDToRoom[r]
        /\ m_roomIDToRoom' =
              [r \in DOMAIN m_roomIDToRoom' |-> m_roomIDToRoom'[r]]
    BY DEF withRoom
  <1>2. /\ m_sessionIDToRoomID' \in [SessionID -> Nat]
        /\ m_sessionIDToRoomID'[s] = roomID
        /\ \A t \in SessionID \ {s} :
              m_sessionIDToRoomID'[t] = m_sessionIDToRoomID[t]
    BY DEF MapsInv, bindSessionToRoom, RoomID
  <1>3. /\ m_nextRoomID \in Nat /\ m_nextRoomID' \in RoomID
        /\ m_nextRoomID <= m_nextRoomID' /\ roomID < m_nextRoomID'
        /\ \A r \in DOMAIN m_roomIDToRoom : r < m_nextRoomID'
    BY DEF MapsInv, goodRooms, IDsBelowCounter, RoomID
  <1>4. /\ goodRooms'
        /\ IDsBelowCounter'
    <2>1. s \in allSessionIDs(room)
      OBVIOUS
    <2> QED
      BY <1>1, <1>3, <2>1 DEF MapsInv, goodRooms, IDsBelowCounter, empty
  <1>5. bindings'
    <2>1. ASSUME NEW t \in SessionID
          PROVE  \/ m_sessionIDToRoomID'[t] = NoRoom
                 \/ /\ m_sessionIDToRoomID'[t] \in DOMAIN m_roomIDToRoom'
                    /\ t \in allSessionIDs(
                                m_roomIDToRoom'[m_sessionIDToRoomID'[t]])
      <3>1. CASE t = s
        BY <1>1, <1>2, <3>1
      <3>2. CASE t # s
        BY <1>1, <1>2, <3>2
           DEF MapsInv, bindings, goodRooms, IDsBelowCounter, RoomID
      <3> QED
        BY <3>1, <3>2
    <2>2. ASSUME NEW r \in DOMAIN m_roomIDToRoom',
                 NEW t \in allSessionIDs(m_roomIDToRoom'[r])
          PROVE  m_sessionIDToRoomID'[t] = r
      <3>1. t \in SessionID
        BY <1>4, MembersAreSessions DEF goodRooms, GoodRoom
      <3>2. CASE r = roomID
        BY <1>1, <1>2, <3>1, <3>2 DEF MapsInv, bindings
      <3>3. CASE r # roomID
        <4>1. /\ r \in DOMAIN m_roomIDToRoom
              /\ m_sessionIDToRoomID[t] = r
          BY <1>1, <3>3 DEF MapsInv, bindings
        <4>2. t # s
          BY <4>1 DEF MapsInv, goodRooms, RoomID, NoRoom
        <4> QED
          BY <1>2, <3>1, <4>1, <4>2
      <3> QED
        BY <3>2, <3>3
    <2> QED
      BY <2>1, <2>2 DEF bindings
  <1> QED
    BY <1>2, <1>3, <1>4, <1>5 DEF MapsInv

\* Empty maps satisfy what the maps satisfy.
LEMMA EmptyMaps ==
    ASSUME m_nextRoomID \in RoomID, m_nextRoomID' = m_nextRoomID,
           m_roomIDToRoom' = noRooms, m_sessionIDToRoomID' = noBindings
    PROVE  MapsInv'
  <1>1. DOMAIN m_roomIDToRoom' = {}
        /\ m_roomIDToRoom' = [r \in {} |-> m_roomIDToRoom'[r]]
    BY DEF noRooms
  <1>2. \A s \in SessionID : m_sessionIDToRoomID'[s] = NoRoom
    BY DEF noBindings
  <1>3. m_sessionIDToRoomID' \in [SessionID -> Nat]
    BY DEF noBindings, NoRoom
  <1> QED
    BY <1>1, <1>2, <1>3
       DEF MapsInv, goodRooms, bindings, IDsBelowCounter

\* Whoever leaves is unbound, and his room goes when nobody is left in it.
LEMMA RemoveMember ==
    ASSUME MapsInv, NEW s \in SessionID, hasRoom(s),
           contains(roomBySession(s), s),
           m_roomIDToRoom' = withRoomUnlessEmpty(m_sessionIDToRoomID[s],
                                                 leave(roomBySession(s), s)),
           unbindSessionFromRoom(s), UNCHANGED m_nextRoomID
    PROVE  MapsInv'
  <1> DEFINE roomID == m_sessionIDToRoomID[s]
             room == leave(roomBySession(s), s)
             old == m_roomIDToRoom[roomID]
  <1>1. roomID \in DOMAIN m_roomIDToRoom /\ GoodRoom(old)
        /\ roomBySession(s) = old
    BY DEF hasRoom, roomBySession, MapsInv, goodRooms
  <1>2. GoodRoom(room) /\ allSessionIDs(room) = allSessionIDs(old) \ {s}
    BY <1>1, Leave
  <1>3. /\ m_sessionIDToRoomID' \in [SessionID -> Nat]
        /\ m_sessionIDToRoomID'[s] = NoRoom
        /\ \A t \in SessionID \ {s} :
              m_sessionIDToRoomID'[t] = m_sessionIDToRoomID[t]
    BY DEF MapsInv, unbindSessionFromRoom, bindSessionToRoom, NoRoom
  <1>4. ASSUME NEW t \in SessionID, t # s, m_sessionIDToRoomID[t] = roomID
        PROVE  t \in allSessionIDs(room)
    BY <1>1, <1>2, <1>4 DEF MapsInv, bindings, goodRooms, RoomID, NoRoom
  <1>5. ASSUME NEW r \in DOMAIN m_roomIDToRoom, r # roomID
        PROVE  s \notin allSessionIDs(m_roomIDToRoom[r])
    BY <1>5 DEF MapsInv, bindings
  <1> HIDE DEF roomID, room, old
  <1>6. CASE empty(room)
    <2>1. /\ DOMAIN m_roomIDToRoom' = DOMAIN m_roomIDToRoom \ {roomID}
          /\ \A r \in DOMAIN m_roomIDToRoom' :
                m_roomIDToRoom'[r] = m_roomIDToRoom[r]
          /\ m_roomIDToRoom' =
                [r \in DOMAIN m_roomIDToRoom' |-> m_roomIDToRoom'[r]]
      BY <1>6 DEF withRoomUnlessEmpty, room, roomID
    <2>2. goodRooms' /\ IDsBelowCounter'
      BY <2>1 DEF MapsInv, goodRooms, IDsBelowCounter, empty
    <2>3. \A t \in SessionID : t # s => m_sessionIDToRoomID[t] # roomID
      BY <1>4, <1>6 DEF empty
    <2>4. ASSUME NEW t \in SessionID
          PROVE  \/ m_sessionIDToRoomID'[t] = NoRoom
                 \/ /\ m_sessionIDToRoomID'[t] \in DOMAIN m_roomIDToRoom'
                    /\ t \in allSessionIDs(
                                m_roomIDToRoom'[m_sessionIDToRoomID'[t]])
      BY <1>3, <2>1, <2>3 DEF MapsInv, bindings
    <2>5. ASSUME NEW r \in DOMAIN m_roomIDToRoom',
                 NEW t \in allSessionIDs(m_roomIDToRoom'[r])
          PROVE  m_sessionIDToRoomID'[t] = r
      <3>1. t \in SessionID /\ t # s
        BY <1>5, <2>1, MembersAreSessions DEF MapsInv, goodRooms, GoodRoom
      <3> QED
        BY <1>3, <2>1, <3>1 DEF MapsInv, bindings
    <2> QED
      BY <1>3, <2>2, <2>4, <2>5 DEF MapsInv, bindings
  <1>7. CASE ~empty(room)
    <2>1. /\ DOMAIN m_roomIDToRoom' = DOMAIN m_roomIDToRoom
          /\ \A r \in DOMAIN m_roomIDToRoom :
                m_roomIDToRoom'[r] =
                    IF r = roomID THEN room ELSE m_roomIDToRoom[r]
          /\ m_roomIDToRoom' =
                [r \in DOMAIN m_roomIDToRoom' |-> m_roomIDToRoom'[r]]
      BY <1>1, <1>7 DEF withRoomUnlessEmpty, withRoom, room, roomID
    <2>2. goodRooms' /\ IDsBelowCounter'
      BY <1>2, <1>7, <2>1 DEF MapsInv, goodRooms, IDsBelowCounter, empty
    <2>3. ASSUME NEW t \in SessionID
          PROVE  \/ m_sessionIDToRoomID'[t] = NoRoom
                 \/ /\ m_sessionIDToRoomID'[t] \in DOMAIN m_roomIDToRoom'
                    /\ t \in allSessionIDs(
                                m_roomIDToRoom'[m_sessionIDToRoomID'[t]])
      BY <1>3, <1>4, <2>1 DEF MapsInv, bindings
    <2>4. ASSUME NEW r \in DOMAIN m_roomIDToRoom',
                 NEW t \in allSessionIDs(m_roomIDToRoom'[r])
          PROVE  m_sessionIDToRoomID'[t] = r
      <3>1. CASE r = roomID
        <4>1. t \in allSessionIDs(old) /\ t # s
          BY <1>2, <2>1, <3>1
        <4>2. t \in SessionID
          BY <1>1, <4>1, MembersAreSessions DEF GoodRoom
        <4> QED
          BY <1>1, <1>3, <3>1, <4>1, <4>2 DEF MapsInv, bindings, old
      <3>2. CASE r # roomID
        <4>1. t \in SessionID /\ t # s
          BY <1>5, <2>1, <3>2, MembersAreSessions
             DEF MapsInv, goodRooms, GoodRoom
        <4> QED
          BY <1>3, <2>1, <3>2, <4>1 DEF MapsInv, bindings
      <3> QED
        BY <3>1, <3>2
    <2> QED
      BY <1>3, <2>2, <2>3, <2>4 DEF MapsInv, bindings
  <1> QED
    BY <1>6, <1>7

-----------------------------------------------------------------------------
(* The steps *)

Sound == MapsInv /\ LifeInv /\ reply \in Reply /\ updates \subseteq RoomID

\* What response builds is an answer.
LEMMA ResponseType ==
    ASSUME NEW type \in ReplyType, NEW s \in Seats, NEW success \in BOOLEAN,
           NEW roomID \in Nat, NEW color \in COLOR
    PROVE  response(type, s, success, roomID, color) \in Reply
  BY DEF response, Reply

\* Sending nothing is one of the things a handler may do.
LEMMA NothingSentType ==
    ASSUME nothingSent
    PROVE  reply' \in Reply /\ updates' \subseteq RoomID
  BY DEF nothingSent, NoReply, Reply, ReplyType, Seats, COLOR, NoRoom

\* A request that is refused leaves the maps alone.
LEMMA RefuseStep ==
    ASSUME MapsInv, NEW type \in ReplyType, NEW s \in SessionID,
           NEW roomID \in Nat, refuse(type, s, roomID)
    PROVE  MapsInv' /\ reply' \in Reply /\ updates' \subseteq RoomID
  <1>1. reply' \in Reply
    BY ResponseType DEF refuse, Seats, COLOR
  <1>2. MapsInv'
    BY DEF refuse, rooms, MapsInv, goodRooms, bindings, IDsBelowCounter
  <1> QED
    BY <1>1, <1>2 DEF refuse

\* Requests and clocks leave the lifecycle and the timer alone.
LEMMA LifeOnStrand ==
    ASSUME LifeInv, m_state = "RUNNING", UNCHANGED <<lifecycle, timer>>
    PROVE  LifeInv'
  BY DEF LifeInv, lifecycle, timer, NothingToClear, NextTickIsOnItsWay,
         StarterFollowsState

\* A room and its first member are added, or the request is refused.
LEMMA CreateStep ==
    ASSUME Sound, NEW s \in SessionID, NEW config \in Configs,
           doRequestCreateRoom(s, config)
    PROVE  Sound'
  <1>1. LifeInv'
    BY LifeOnStrand DEF Sound, doRequestCreateRoom, onStrand
  <1>2. CASE refuse("CreateRoomResponse", s, NoRoom)
    BY <1>1, <1>2, RefuseStep DEF Sound, ReplyType, NoRoom
  <1>3. CASE /\ ~sessionAlreadyInRoom(s)
             /\ m_nextRoomID' = m_nextRoomID + 1
             /\ m_roomIDToRoom' = withRoom(m_nextRoomID, newRoom(s, config))
             /\ bindSessionToRoom(s, m_nextRoomID)
             /\ reply' = response("CreateRoomResponse", s, TRUE,
                                  m_nextRoomID, "WHITE")
             /\ updates' = {m_nextRoomID}
    <2>1. m_nextRoomID \in RoomID /\ m_sessionIDToRoomID[s] = NoRoom
      BY <1>3 DEF Sound, MapsInv, sessionAlreadyInRoom
    <2>2. MapsInv'
      BY <1>3, <2>1, NewRoom, AddMember DEF Sound
    <2>3. reply' \in Reply /\ updates' \subseteq RoomID
      BY <1>3, <2>1, ResponseType DEF ReplyType, Seats, COLOR, RoomID
    <2> QED
      BY <1>1, <2>2, <2>3 DEF Sound
  <1> QED
    BY <1>2, <1>3 DEF doRequestCreateRoom

\* A member is added to a room the checks let him into, or refused.
LEMMA JoinStep ==
    ASSUME Sound, NEW s \in SessionID, NEW roomID \in Nat,
           NEW spectator \in BOOLEAN, NEW password \in BOOLEAN,
           doRequestJoinRoom(s, roomID, spectator, password)
    PROVE  Sound'
  <1> DEFINE old == m_roomIDToRoom[roomID]
             room == joinAs(old, s, spectator)
  <1>1. LifeInv'
    BY LifeOnStrand DEF Sound, doRequestJoinRoom, onStrand
  <1>2. CASE refuse("JoinRoomResponse", s, roomID)
    BY <1>1, <1>2, RefuseStep DEF Sound, ReplyType
  <1>3. CASE /\ joins(s, roomID, spectator, password)
             /\ m_roomIDToRoom' = withRoom(roomID, room)
             /\ reply' = response("JoinRoomResponse", s, TRUE, roomID,
                                  colorOf(room, s))
             /\ bindSessionToRoom(s, roomID)
             /\ updates' = {roomID}
             /\ m_nextRoomID' = m_nextRoomID
    <2>1. /\ roomID \in DOMAIN m_roomIDToRoom
          /\ m_sessionIDToRoomID[s] = NoRoom
          /\ joinResult(old, s, spectator)
                 \in {"JoinedAsPlayer", "JoinedAsSpectator"}
      BY <1>3 DEF joins, joinAllowed, sessionAlreadyInRoom
    <2>2. GoodRoom(old) /\ roomID \in RoomID
      BY <2>1 DEF Sound, MapsInv, goodRooms
    <2>3. /\ GoodRoom(room)
          /\ allSessionIDs(room) = allSessionIDs(old) \cup {s}
      <3>1. CASE spectator
        <4>1. joinSpectatorResult(old, s) = "JoinedAsSpectator"
          BY <2>1, <3>1 DEF joinResult, joinSpectatorResult
        <4> QED
          BY <2>2, <3>1, <4>1, JoinSpectator DEF joinAs
      <3>2. CASE ~spectator
        <4>1. joinPlayerResult(old, s) = "JoinedAsPlayer"
          BY <2>1, <3>2 DEF joinResult, joinPlayerResult
        <4> QED
          BY <2>2, <3>2, <4>1, JoinPlayer DEF joinAs
      <3> QED
        BY <3>1, <3>2
    <2>4. colorOf(room, s) \in COLOR
      BY DEF colorOf, COLOR
    <2> HIDE DEF room
    <2>5. MapsInv'
      BY <1>3, <2>1, <2>2, <2>3, AddMember DEF Sound
    <2>6. reply' \in Reply /\ updates' \subseteq RoomID
      BY <1>3, <2>2, <2>4, ResponseType DEF ReplyType, Seats, RoomID
    <2> QED
      BY <1>1, <2>5, <2>6 DEF Sound
  <1> QED
    BY <1>2, <1>3 DEF doRequestJoinRoom

\* Listing the rooms changes none.
LEMMA ListStep ==
    ASSUME Sound, NEW s \in SessionID, doRequestListRooms(s)
    PROVE  Sound'
  <1>1. LifeInv'
    BY LifeOnStrand DEF Sound, doRequestListRooms, onStrand
  <1>2. MapsInv'
    BY DEF doRequestListRooms, rooms, Sound, MapsInv, goodRooms, bindings,
           IDsBelowCounter
  <1>3. response("ListRoomsResponse", s, TRUE, NoRoom, "EMPTY") \in Reply
    BY ResponseType DEF ReplyType, Seats, COLOR, NoRoom
  <1>4. reply' \in Reply /\ updates' \subseteq RoomID
    BY <1>3 DEF doRequestListRooms, Reply, Sound, MapsInv, goodRooms
  <1> QED
    BY <1>1, <1>2, <1>4 DEF Sound

\* A member is removed from his room, or the request is refused.
LEMMA LeaveStep ==
    ASSUME Sound, NEW s \in SessionID, doRequestLeaveRoom(s)
    PROVE  Sound'
  <1>1. LifeInv'
    BY LifeOnStrand DEF Sound, doRequestLeaveRoom, onStrand
  <1>2. m_sessionIDToRoomID[s] \in Nat
    BY DEF Sound, MapsInv
  <1>3. CASE refuse("LeaveRoomResponse", s,
                    IF hasRoom(s) THEN m_sessionIDToRoomID[s] ELSE NoRoom)
    <2>1. (IF hasRoom(s) THEN m_sessionIDToRoomID[s] ELSE NoRoom) \in Nat
      BY <1>2 DEF NoRoom
    <2> QED
      BY <1>1, <1>3, <2>1, RefuseStep DEF Sound, ReplyType
  <1>4. CASE ~refuse("LeaveRoomResponse", s,
                    IF hasRoom(s) THEN m_sessionIDToRoomID[s] ELSE NoRoom)
    <2>1. /\ hasRoom(s)
          /\ contains(roomBySession(s), s)
          /\ m_roomIDToRoom' = withRoomUnlessEmpty(m_sessionIDToRoomID[s],
                                   leave(roomBySession(s), s))
          /\ reply' = response("LeaveRoomResponse", s, TRUE,
                               m_sessionIDToRoomID[s], "EMPTY")
          /\ updates' = IF empty(leave(roomBySession(s), s)) THEN {}
                        ELSE {m_sessionIDToRoomID[s]}
          /\ unbindSessionFromRoom(s)
          /\ UNCHANGED m_nextRoomID
      BY <1>4 DEF doRequestLeaveRoom
    <2>2. MapsInv'
      BY <2>1, RemoveMember DEF Sound
    <2>3. m_sessionIDToRoomID[s] \in RoomID
      BY <2>1 DEF hasRoom, Sound, MapsInv, goodRooms
    <2>4. reply' \in Reply /\ updates' \subseteq RoomID
      BY <2>1, <2>3, ResponseType DEF ReplyType, Seats, COLOR, RoomID
    <2> QED
      BY <1>1, <2>2, <2>4 DEF Sound
  <1> QED
    BY <1>3, <1>4

\* A move changes the game of the mover's room and nothing else.
LEMMA MoveStep ==
    ASSUME Sound, NEW s \in SessionID, NEW outcome, doRequestMove(s, outcome)
    PROVE  Sound'
  <1> DEFINE roomID == m_sessionIDToRoomID[s]
             room == submitMove(roomBySession(s), s, outcome)
  <1>1. LifeInv'
    BY LifeOnStrand DEF Sound, doRequestMove, onStrand
  <1>2. CASE refuse("ErrorMessage", s, NoRoom)
    BY <1>1, <1>2, RefuseStep DEF Sound, ReplyType, NoRoom
  <1>3. CASE /\ hasRoom(s)
             /\ m_roomIDToRoom' = withRoom(roomID, room)
             /\ \/ reply' = NoReply /\ updates' = {roomID}
                \/ /\ reply' = response("ErrorMessage", s, FALSE, NoRoom,
                                        "EMPTY")
                   /\ updates' = {}
             /\ UNCHANGED <<m_sessionIDToRoomID, m_nextRoomID>>
    <2>1. /\ roomID \in DOMAIN m_roomIDToRoom
          /\ roomID \in RoomID
          /\ GoodRoom(roomBySession(s))
          /\ roomBySession(s) = m_roomIDToRoom[roomID]
      BY <1>3 DEF hasRoom, roomBySession, Sound, MapsInv, goodRooms
    <2>2. /\ GoodRoom(room)
          /\ allSessionIDs(room) = allSessionIDs(m_roomIDToRoom[roomID])
      BY <2>1, SubmitMove
    <2> HIDE DEF room, roomID
    <2>3. MapsInv'
      BY <1>3, <2>1, <2>2, StoreRoom DEF Sound
    <2>4. NoReply \in Reply
      BY DEF NoReply, Reply, ReplyType, Seats, COLOR, NoRoom
    <2>5. response("ErrorMessage", s, FALSE, NoRoom, "EMPTY") \in Reply
      BY ResponseType DEF ReplyType, Seats, COLOR, NoRoom
    <2>6. reply' \in Reply /\ updates' \subseteq RoomID
      BY <1>3, <2>1, <2>4, <2>5
    <2> QED
      BY <1>1, <2>3, <2>6 DEF Sound
  <1>4. \/ refuse("ErrorMessage", s, NoRoom)
        \/ /\ hasRoom(s)
           /\ m_roomIDToRoom' = withRoom(roomID, room)
           /\ \/ reply' = NoReply /\ updates' = {roomID}
              \/ /\ reply' = response("ErrorMessage", s, FALSE, NoRoom,
                                      "EMPTY")
                 /\ updates' = {}
           /\ UNCHANGED <<m_sessionIDToRoomID, m_nextRoomID>>
    BY Zenon DEF doRequestMove
  <1> QED
    BY <1>2, <1>3, <1>4

\* A chat changes no room.
LEMMA ChatStep ==
    ASSUME Sound, NEW s \in SessionID, doRequestGameChat(s)
    PROVE  Sound'
  <1>1. LifeInv'
    BY LifeOnStrand DEF Sound, doRequestGameChat, onStrand
  <1>2. CASE refuse("ErrorMessage", s, NoRoom)
    BY <1>1, <1>2, RefuseStep DEF Sound, ReplyType, NoRoom
  <1>3. CASE /\ reply' = response("Chat", s, TRUE, m_sessionIDToRoomID[s],
                                  "EMPTY")
             /\ updates' = {}
             /\ UNCHANGED rooms
    <2>1. MapsInv'
      BY <1>3 DEF rooms, Sound, MapsInv, goodRooms, bindings, IDsBelowCounter
    <2>2. reply' \in Reply
      BY <1>3, ResponseType DEF Sound, MapsInv, ReplyType, Seats, COLOR
    <2> QED
      BY <1>1, <1>3, <2>1, <2>2 DEF Sound
  <1> QED
    BY <1>2, <1>3 DEF doRequestGameChat

\* A clock that runs out is recorded in its game.
LEMMA ClockStep ==
    ASSUME Sound, NEW roomID \in Nat, ClockRunsOut(roomID)
    PROVE  Sound'
  <1> DEFINE room == [m_roomIDToRoom[roomID] EXCEPT !.game.flagged = TRUE]
  <1>1. /\ roomID \in DOMAIN m_roomIDToRoom
        /\ m_roomIDToRoom' = withRoom(roomID, room)
        /\ UNCHANGED <<lifecycle, timer, m_sessionIDToRoomID, m_nextRoomID>>
        /\ nothingSent
    BY DEF ClockRunsOut
  <1>2. /\ GoodRoom(room)
        /\ allSessionIDs(room) = allSessionIDs(m_roomIDToRoom[roomID])
    BY <1>1, RunOut DEF Sound, MapsInv, goodRooms
  <1> HIDE DEF room
  <1>3. MapsInv'
    BY <1>1, <1>2, StoreRoom DEF Sound
  <1>4. LifeInv'
    <2>1. m_state \notin {"STOPPED", "STARTING"}
      BY <1>1 DEF Sound, LifeInv, NothingToClear
    <2> QED
      BY <1>1, <2>1
         DEF Sound, LifeInv, lifecycle, timer, NothingToClear,
             NextTickIsOnItsWay, StarterFollowsState
  <1> QED
    BY <1>1, <1>3, <1>4, NothingSentType DEF Sound

\* The timer moves its wait to the strand.
LEMMA ExpireStep ==
    ASSUME Sound, TickExpires
    PROVE  Sound'
  <1>1. MapsInv'
    BY DEF TickExpires, rooms, Sound, MapsInv, goodRooms, bindings,
           IDsBelowCounter
  <1>2. tickPending' = FALSE /\ ticksReady' \in Nat /\ ticksReady' > 0
    BY DEF TickExpires, Sound, LifeInv
  <1>3. UNCHANGED <<m_state, starter, m_roomIDToRoom, m_sessionIDToRoomID>>
    BY DEF TickExpires, lifecycle, rooms
  <1>4. NothingToClear'
    BY <1>3 DEF NothingToClear, noBindings, Sound, LifeInv
  <1>5. LifeInv'
    BY <1>2, <1>3, <1>4
       DEF Sound, LifeInv, NextTickIsOnItsWay, StarterFollowsState
  <1> QED
    BY <1>1, <1>5, NothingSentType DEF Sound, TickExpires

\* A tick may end games in several rooms at once.
LEMMA TickStep ==
    ASSUME Sound, onTick
    PROVE  Sound'
  <1>1. NoReply \in Reply
    BY DEF NoReply, Reply, ReplyType, Seats, COLOR, NoRoom
  <1>2. CASE m_state # "RUNNING"
    <2>1. /\ UNCHANGED <<m_roomIDToRoom, m_sessionIDToRoomID, m_nextRoomID>>
          /\ UNCHANGED <<lifecycle, tickPending>>
          /\ ticksReady > 0 /\ ticksReady' = ticksReady - 1
          /\ reply' = NoReply /\ updates' = {}
      BY <1>2 DEF onTick
    <2>2. MapsInv'
      BY <2>1 DEF Sound, MapsInv, goodRooms, bindings, IDsBelowCounter
    <2>3. LifeInv'
      BY <1>2, <2>1
         DEF Sound, LifeInv, lifecycle, NothingToClear, NextTickIsOnItsWay,
             StarterFollowsState
    <2> QED
      BY <1>1, <2>1, <2>2, <2>3 DEF Sound
  <1>3. CASE m_state = "RUNNING"
    <2>1. /\ UNCHANGED <<m_sessionIDToRoomID, m_nextRoomID, lifecycle>>
          /\ m_roomIDToRoom' = [r \in DOMAIN m_roomIDToRoom |->
                                   roomTick(m_roomIDToRoom[r])]
          /\ ticksReady > 0 /\ ticksReady' = ticksReady - 1
          /\ tickPending' = TRUE
          /\ reply' = NoReply /\ updates' \subseteq DOMAIN m_roomIDToRoom
      BY <1>3 DEF onTick
    <2>2. ASSUME NEW r \in DOMAIN m_roomIDToRoom
          PROVE  /\ GoodRoom(roomTick(m_roomIDToRoom[r]))
                 /\ allSessionIDs(roomTick(m_roomIDToRoom[r]))
                      = allSessionIDs(m_roomIDToRoom[r])
      BY RoomTick DEF Sound, MapsInv, goodRooms
    <2>3. /\ DOMAIN m_roomIDToRoom' = DOMAIN m_roomIDToRoom
          /\ m_roomIDToRoom' =
                [r \in DOMAIN m_roomIDToRoom' |-> m_roomIDToRoom'[r]]
          /\ \A r \in DOMAIN m_roomIDToRoom :
                /\ GoodRoom(m_roomIDToRoom'[r])
                /\ allSessionIDs(m_roomIDToRoom'[r])
                     = allSessionIDs(m_roomIDToRoom[r])
      BY <2>1, <2>2
    <2>4. MapsInv'
      BY <2>1, <2>3
         DEF Sound, MapsInv, goodRooms, bindings, IDsBelowCounter, empty
    <2>5. LifeInv'
      BY <1>3, <2>1
         DEF Sound, LifeInv, lifecycle, NothingToClear, NextTickIsOnItsWay,
             StarterFollowsState
    <2>6. updates' \subseteq RoomID
      BY <2>1 DEF Sound, MapsInv, goodRooms
    <2> QED
      BY <1>1, <2>1, <2>4, <2>5, <2>6 DEF Sound
  <1> QED
    BY <1>2, <1>3

\* The steps of start and stop keep the maps or empty them.
LEMMA LifecycleStep ==
    ASSUME Sound, start \/ startClear \/ startSchedule \/ stop \/ doStop
    PROVE  Sound'
  <1>1. nothingSent
    BY DEF start, startClear, startSchedule, stop, doStop
  <1>2. ASSUME UNCHANGED rooms PROVE MapsInv'
    BY <1>2 DEF rooms, Sound, MapsInv, goodRooms, bindings, IDsBelowCounter
  <1>3. ASSUME m_roomIDToRoom' = noRooms, m_sessionIDToRoomID' = noBindings,
               m_nextRoomID' = m_nextRoomID
        PROVE  MapsInv' /\ NothingToClear'
    <2>1. MapsInv'
      BY <1>3, EmptyMaps DEF Sound, MapsInv
    <2>2. DOMAIN m_roomIDToRoom' = {} /\ m_sessionIDToRoomID' = noBindings
      BY <1>3 DEF noRooms
    <2> QED
      BY <2>1, <2>2 DEF NothingToClear, noBindings
  <1>4. CASE start
    <2>1. LifeInv'
      BY <1>4 DEF start, rooms, timer, Sound, LifeInv, LifecycleState,
                  NothingToClear, NextTickIsOnItsWay, StarterFollowsState,
                  noBindings
    <2> QED
      BY <1>1, <1>2, <1>4, <2>1, NothingSentType DEF Sound, start
  <1>5. CASE startClear
    <2>1. LifeInv'
      BY <1>5 DEF startClear, timer, Sound, LifeInv, LifecycleState,
                  NothingToClear, NextTickIsOnItsWay, StarterFollowsState
    <2> QED
      BY <1>1, <1>3, <1>5, <2>1, NothingSentType DEF Sound, startClear
  <1>6. CASE startSchedule
    <2>1. LifeInv'
      BY <1>6 DEF startSchedule, rooms, Sound, LifeInv, LifecycleState,
                  NothingToClear, NextTickIsOnItsWay, StarterFollowsState
    <2> QED
      BY <1>1, <1>2, <1>6, <2>1, NothingSentType DEF Sound, startSchedule
  <1>7. CASE stop
    <2>1. LifeInv'
      BY <1>7 DEF stop, timer, Sound, LifeInv, LifecycleState,
                  NothingToClear, NextTickIsOnItsWay, StarterFollowsState
    <2> QED
      BY <1>1, <1>2, <1>7, <2>1, NothingSentType DEF Sound, stop
  <1>8. CASE doStop
    <2>1. NothingToClear' /\ MapsInv'
      BY <1>3, <1>8 DEF doStop
    <2>2. /\ m_state = "STOPPING" /\ m_state' = "STOPPED"
          /\ starter' = starter /\ ticksReady' = ticksReady
          /\ tickPending' = FALSE
      BY <1>8 DEF doStop
    <2>3. LifeInv'
      BY <2>1, <2>2 DEF Sound, LifeInv, LifecycleState, NextTickIsOnItsWay,
                  StarterFollowsState
    <2> QED
      BY <1>1, <2>1, <2>3, NothingSentType DEF Sound
  <1> QED
    BY <1>4, <1>5, <1>6, <1>7, <1>8

-----------------------------------------------------------------------------
(* The invariant and what it implies *)

\* The manager starts sound.
LEMMA InitSound == Init => Sound
  <1> SUFFICES ASSUME Init PROVE Sound
    OBVIOUS
  <1>1. DOMAIN m_roomIDToRoom = {}
        /\ m_roomIDToRoom = [r \in {} |-> m_roomIDToRoom[r]]
    BY DEF Init, noRooms
  <1>2. /\ \A s \in SessionID : m_sessionIDToRoomID[s] = NoRoom
        /\ m_sessionIDToRoomID \in [SessionID -> Nat]
    BY DEF Init, noBindings, NoRoom
  <1>3. MapsInv
    BY <1>1, <1>2
       DEF Init, MapsInv, goodRooms, bindings, IDsBelowCounter, RoomID
  <1>4. LifeInv
    BY <1>1 DEF Init, LifeInv, LifecycleState, NothingToClear,
                NextTickIsOnItsWay, StarterFollowsState
  <1>5. reply \in Reply /\ updates \subseteq RoomID
    BY DEF Init, NoReply, Reply, ReplyType, Seats, COLOR, NoRoom
  <1> QED
    BY <1>3, <1>4, <1>5 DEF Sound

\* Every step keeps the manager sound.
LEMMA NextSound == Sound /\ [Next]_vars => Sound'
  <1> SUFFICES ASSUME Sound, [Next]_vars PROVE Sound'
    OBVIOUS
  <1>1. CASE Requests
    <2> PICK s \in SessionID :
            \/ \E config \in Configs : doRequestCreateRoom(s, config)
            \/ \E r \in 1..MaxRooms, spectator, password \in BOOLEAN :
                   doRequestJoinRoom(s, r, spectator, password)
            \/ doRequestListRooms(s)
            \/ doRequestLeaveRoom(s)
            \/ \E outcome \in MoveOutcome : doRequestMove(s, outcome)
            \/ doRequestGameChat(s)
      BY <1>1 DEF Requests
    <2>1. CASE \E config \in Configs : doRequestCreateRoom(s, config)
      BY <2>1, CreateStep
    <2>2. CASE \E r \in 1..MaxRooms, spectator, password \in BOOLEAN :
                  doRequestJoinRoom(s, r, spectator, password)
      BY <2>2, JoinStep, BoundsAssumption
    <2>3. CASE doRequestListRooms(s)
      BY <2>3, ListStep
    <2>4. CASE doRequestLeaveRoom(s)
      BY <2>4, LeaveStep
    <2>5. CASE \E outcome \in MoveOutcome : doRequestMove(s, outcome)
      BY <2>5, MoveStep
    <2>6. CASE doRequestGameChat(s)
      BY <2>6, ChatStep
    <2> QED
      BY <2>1, <2>2, <2>3, <2>4, <2>5, <2>6
  <1>2. CASE \E r \in 1..MaxRooms : ClockRunsOut(r)
    BY <1>2, ClockStep, BoundsAssumption DEF ClockRunsOut
  <1>3. CASE TickExpires
    BY <1>3, ExpireStep
  <1>4. CASE onTick
    BY <1>4, TickStep
  <1>5. CASE start \/ startClear \/ startSchedule \/ stop \/ doStop
    BY <1>5, LifecycleStep
  <1>6. CASE UNCHANGED vars
    BY <1>6 DEF vars, lifecycle, rooms, timer, sent, Sound, MapsInv,
                goodRooms, bindings, IDsBelowCounter, LifeInv,
                NothingToClear, NextTickIsOnItsWay, StarterFollowsState,
                noBindings
  <1> QED
    BY <1>1, <1>2, <1>3, <1>4, <1>5, <1>6 DEF Next

\* IInv holds in every state of every behaviour of the manager.
THEOREM InductiveInvariant == Spec => []IInv
  <1>1. Init => Sound
    BY InitSound
  <1>2. Sound /\ [Next]_vars => Sound'
    BY NextSound
  <1>3. Sound => IInv
    BY Halves DEF Sound
  <1> QED
    BY <1>1, <1>2, <1>3, PTL DEF Spec

\* The manager's variables always have their types: a room id is positive, a
\* room only seats sessions, an answer names a session or nobody.
THEOREM TypeCorrect == Spec => []TypeOK
  <1>1. IInv => TypeOK
    BY DEF IInv
  <1> QED
    BY <1>1, InductiveInvariant, PTL

\* The map of rooms and the map of sessions always agree: a session is bound
\* to a room exactly when it sits or watches there (GameManager.cpp:485-495).
THEOREM BindingsAgree == Spec => []BindingMatchesMembership
  <1>1. IInv => BindingMatchesMembership
    BY DEF IInv
  <1> QED
    BY <1>1, InductiveInvariant, PTL

\* No room outlives its last member (GameManager.cpp:497-512).
THEOREM RoomsAreCollected == Spec => []NoEmptyRooms
  <1>1. IInv => NoEmptyRooms
    BY DEF IInv
  <1> QED
    BY <1>1, InductiveInvariant, PTL

\* The state a room shows is the one of its game, and it is played exactly
\* while both seats are taken (GameRoom.cpp:232-255).
THEOREM RoomStatesFollow == Spec => []RoomsFollowGames
  <1>1. IInv => RoomsFollowGames
    BY DEF IInv
  <1> QED
    BY <1>1, InductiveInvariant, PTL

\* Clearing the maps off the strand in start() never loses a room
\* (GameManager.cpp:84-85).
THEOREM ClearIsHarmless == Spec => []NothingToClear
  <1>1. IInv => NothingToClear
    BY DEF IInv
  <1> QED
    BY <1>1, InductiveInvariant, PTL

\* A running manager never loses its tick, whatever stops and starts came
\* before (GameManager.cpp:320-334).
THEOREM TickSurvivesRestarts == Spec => []NextTickIsOnItsWay
  <1>1. IInv => NextTickIsOnItsWay
    BY DEF IInv
  <1> QED
    BY <1>1, InductiveInvariant, PTL

(*************************************************************************)
(* Part 3: verdicts that fit clocks and seats, broadcasts of every change*)
(*************************************************************************)

\* What is true of a game whatever room it is in, and at any time.
GameJudged(game, clock) ==
    /\ game.state = "Finished" <=> game.endReason # "None"
    /\ game.endReason \in {"None", "Draw"} <=> game.winner = "EMPTY"
    /\ game.endReason \in {"Checkmate", "Timeout"} =>
          game.winner = oppositeColor(game.currentTurn)
    /\ game.endReason = "Timeout" => clock # "disabled"
    /\ game.flagged => clock # "disabled"

\* Only who has left has resigned.
Vacated(room) == room.game.endReason = "Resign" => loserSeat(room) = NoSession

Judged(room) == GameJudged(room.game, room.config.clock) /\ Vacated(room)

LEMMA JudgedRooms ==
    ASSUME NEW room, Judged(room)
    PROVE  VerdictIsSound(room)
  BY DEF Judged, GameJudged, Vacated, VerdictIsSound

-----------------------------------------------------------------------------
(* Games *)

\* A game that has not ended may end in each of these ways.
LEMMA FinishJudged ==
    ASSUME NEW game \in ChessGame, NEW clock, GameJudged(game, clock),
           game.state # "Finished", NEW winner \in COLOR, NEW reason,
           \/ reason = "Draw" /\ winner = "EMPTY"
           \/ /\ reason \in {"Checkmate", "Timeout"}
              /\ winner = oppositeColor(game.currentTurn)
              /\ reason = "Timeout" => clock # "disabled"
           \/ reason = "Resign" /\ winner # "EMPTY"
    PROVE  GameJudged(finish(game, winner, reason), clock)
  <1> DEFINE after == finish(game, winner, reason)
  <1>1. /\ after.state = "Finished"
        /\ after.winner = winner
        /\ after.endReason = reason
        /\ after.currentTurn = game.currentTurn
        /\ after.flagged = FALSE
    BY DEF finish, ChessGame
  <1>2. oppositeColor(game.currentTurn) # "EMPTY"
    BY OppositeIsASide
  <1> HIDE DEF after
  <1>3. reason # "None"
    OBVIOUS
  <1>4. reason \in {"None", "Draw"} <=> winner = "EMPTY"
    BY <1>2
  <1> QED
    BY <1>1, <1>3, <1>4 DEF GameJudged, after

LEMMA TickJudged ==
    ASSUME NEW game \in ChessGame, NEW clock, GameJudged(game, clock)
    PROVE  GameJudged(gameTick(game), clock)
  <1>1. CASE game.state = "InProgress" /\ game.flagged
    <2>1. oppositeColor(game.currentTurn) \in COLOR
      BY OppositeIsASide DEF COLOR
    <2>2. clock # "disabled"
      BY <1>1 DEF GameJudged
    <2>3. gameTick(game)
            = finish(game, oppositeColor(game.currentTurn), "Timeout")
      BY <1>1 DEF gameTick
    <2> QED
      BY <1>1, <2>1, <2>2, <2>3, FinishJudged
  <1>2. CASE ~(game.state = "InProgress" /\ game.flagged)
    BY <1>2 DEF gameTick
  <1> QED
    BY <1>1, <1>2

LEMMA StartJudged ==
    ASSUME NEW clock
    PROVE  /\ GameJudged(gameStart(clock), clock)
           /\ gameStart(clock).endReason # "Resign"
  <1> DEFINE g == [newGame EXCEPT !.state = "InProgress", !.version = 1,
                                  !.flagged = (clock = "zero")]
  <1>1. /\ g \in ChessGame
        /\ g.state = "InProgress"
        /\ g.endReason = "None"
        /\ g.winner = "EMPTY"
        /\ g.flagged => clock # "disabled"
    BY Zenon DEF newGame, ChessGame, ChessGameState, COLOR, EndReason
  <1>2. gameStart(clock) = gameTick(g)
    BY DEF gameStart
  <1> HIDE DEF g
  <1>3. GameJudged(g, clock)
    BY <1>1 DEF GameJudged
  <1>4. gameTick(g).endReason # "Resign"
    BY <1>1 DEF gameTick, finish, ChessGame
  <1> QED
    BY <1>1, <1>2, <1>3, <1>4, TickJudged

LEMMA MoveJudged ==
    ASSUME NEW game \in ChessGame, NEW clock, GameJudged(game, clock),
           game.state = "InProgress", NEW outcome
    PROVE  /\ GameJudged(afterMove(game, outcome), clock)
           /\ afterMove(game, outcome).endReason # "Resign"
  <1> DEFINE moved == [game EXCEPT !.version = @ + 1,
                                   !.currentTurn = oppositeColor(@)]
  <1>1. /\ moved \in ChessGame
        /\ moved.state = "InProgress"
        /\ moved.endReason = game.endReason
        /\ moved.winner = game.winner
        /\ moved.flagged = game.flagged
    <2>1. game.version + 1 \in Nat
      BY DEF ChessGame
    <2> QED
      BY <2>1, OppositeIsASide, Zenon DEF ChessGame
  <1>2. game.endReason = "None" /\ game.winner = "EMPTY"
    BY DEF GameJudged
  <1>3. afterMove(game, outcome) =
          CASE outcome = "checkmate" ->
                 finish(moved, oppositeColor(moved.currentTurn), "Checkmate")
            [] outcome = "stalemate" -> finish(moved, "EMPTY", "Draw")
            [] OTHER -> moved
    BY DEF afterMove
  <1> HIDE DEF moved
  <1>4. GameJudged(moved, clock)
    BY <1>1, <1>2 DEF GameJudged
  <1>5. oppositeColor(moved.currentTurn) \in COLOR /\ "EMPTY" \in COLOR
    BY OppositeIsASide DEF COLOR
  <1>6. CASE outcome = "checkmate"
    <2>1. afterMove(game, outcome)
            = finish(moved, oppositeColor(moved.currentTurn), "Checkmate")
      BY <1>3, <1>6
    <2>2. finish(moved, oppositeColor(moved.currentTurn),
                 "Checkmate").endReason = "Checkmate"
      BY <1>1 DEF finish, ChessGame
    <2> QED
      BY <1>1, <1>4, <1>5, <2>1, <2>2, FinishJudged
  <1>7. CASE outcome = "stalemate"
    <2>1. afterMove(game, outcome) = finish(moved, "EMPTY", "Draw")
      BY <1>3, <1>7
    <2>2. finish(moved, "EMPTY", "Draw").endReason = "Draw"
      BY <1>1 DEF finish, ChessGame
    <2> QED
      BY <1>1, <1>4, <1>5, <2>1, <2>2, FinishJudged
  <1>8. CASE outcome \notin {"checkmate", "stalemate"}
    BY <1>1, <1>2, <1>3, <1>4, <1>8
  <1> QED
    BY <1>6, <1>7, <1>8

LEMMA ResignJudged ==
    ASSUME NEW game \in ChessGame, NEW clock, GameJudged(game, clock),
           NEW side \in {"WHITE", "BLACK"}
    PROVE  /\ GameJudged(gameResign(game, side), clock)
           /\ game.state = "InProgress" =>
                gameResign(game, side).winner = oppositeColor(side)
           /\ game.state # "InProgress" => gameResign(game, side) = game
  <1>1. CASE game.state = "InProgress"
    <2>1. gameResign(game, side) = finish(game, oppositeColor(side), "Resign")
      BY <1>1 DEF gameResign
    <2>2. oppositeColor(side) \in COLOR /\ oppositeColor(side) # "EMPTY"
      BY OppositeIsASide DEF COLOR
    <2>3. finish(game, oppositeColor(side), "Resign").winner
            = oppositeColor(side)
      BY <1>1 DEF finish, ChessGame
    <2> QED
      BY <1>1, <2>1, <2>2, <2>3, FinishJudged
  <1>2. CASE game.state # "InProgress"
    BY <1>2 DEF gameResign
  <1> QED
    BY <1>1, <1>2

-----------------------------------------------------------------------------
(* Rooms *)

\* A room that shows its game's end shows it for good.
Final(before, after) ==
    before.state = "GameOver" =>
        /\ after.game = before.game
        /\ allSessionIDs(after) \subseteq allSessionIDs(before)

LEMMA Shown ==
    ASSUME NEW room, GoodRoom(room)
    PROVE  /\ room.game \in ChessGame
           /\ room.state = "GameOver" <=> room.game.state = "Finished"
           /\ room.state = "InProgress" <=> room.game.state = "InProgress"
  BY DEF GoodRoom, Room, RoomFollowsGame, roomStateOf

\* A game that replaces another one, with nobody coming or going.
LEMMA Replaced ==
    ASSUME NEW room, GoodRoom(room), Judged(room), NEW g \in ChessGame,
           GameJudged(g, room.config.clock),
           g.endReason = "Resign" => g = room.game,
           room.game.state = "Finished" => g = room.game,
           NEW after, after = updateRoomStateFromGame([room EXCEPT !.game = g])
    PROVE  Judged(after) /\ Final(room, after)
  <1>1. /\ after.game = g
        /\ after.player1 = room.player1
        /\ after.player2 = room.player2
        /\ after.spectators = room.spectators
        /\ after.config = room.config
    BY WithGame DEF GoodRoom
  <1>2. Vacated(after)
    BY <1>1 DEF Judged, Vacated, loserSeat
  <1>3. allSessionIDs(after) = allSessionIDs(room)
    BY <1>1 DEF allSessionIDs
  <1> QED
    BY <1>1, <1>2, <1>3, Shown DEF Judged, Final

LEMMA NewRoomJudged ==
    ASSUME NEW s \in SessionID, NEW config \in Configs
    PROVE  Judged(newRoom(s, config))
  <1>1. newRoom(s, config).game = newGame
    BY DEF newRoom
  <1>2. /\ newGame.state = "NotStarted"
        /\ newGame.endReason = "None"
        /\ newGame.winner = "EMPTY"
        /\ newGame.flagged = FALSE
    BY DEF newGame
  <1> QED
    BY <1>1, <1>2 DEF Judged, GameJudged, Vacated

LEMMA JoinSpectatorJudged ==
    ASSUME NEW room, GoodRoom(room), Judged(room), NEW s \in SessionID,
           joinSpectatorResult(room, s) = "JoinedAsSpectator"
    PROVE  Judged(joinSpectator(room, s)) /\ Final(room, joinSpectator(room, s))
  <1> DEFINE after == joinSpectator(room, s)
  <1>1. /\ after.player1 = room.player1
        /\ after.player2 = room.player2
        /\ after.game = room.game
        /\ after.config = room.config
    BY Zenon DEF joinSpectator, GoodRoom, Room
  <1>2. room.state # "GameOver"
    BY DEF joinSpectatorResult
  <1> HIDE DEF after
  <1>3. Judged(after)
    BY <1>1 DEF Judged, Vacated, loserSeat
  <1> QED
    BY <1>2, <1>3 DEF Final, after

LEMMA JoinPlayerJudged ==
    ASSUME NEW room, GoodRoom(room), Judged(room), NEW s \in SessionID,
           joinPlayerResult(room, s) = "JoinedAsPlayer"
    PROVE  Judged(joinPlayer(room, s)) /\ Final(room, joinPlayer(room, s))
  <1> DEFINE seated == [seatPlayer(room, s) EXCEPT !.roomVersion = @ + 1]
             after == joinPlayer(room, s)
  <1>1. room.state # "GameOver"
    BY DEF joinPlayerResult, contains
  <1>2. room.game.endReason = "None"
    BY <1>1, Shown DEF Judged, GameJudged
  <1>3. /\ seated \in Room
        /\ seated.game = room.game
        /\ seated.config = room.config
    <2>1. room.roomVersion + 1 \in Nat /\ s \in Seats
      BY DEF GoodRoom, Room, Seats
    <2>2. /\ seatPlayer(room, s) \in Room
          /\ seatPlayer(room, s).roomVersion = room.roomVersion
          /\ seatPlayer(room, s).game = room.game
          /\ seatPlayer(room, s).config = room.config
      BY <2>1, Zenon DEF seatPlayer, GoodRoom, Room
    <2> QED
      BY <2>1, <2>2, Zenon DEF Room
  <1>4. after = updateRoomStateFromGame(startGameIfReady(seated))
    BY DEF joinPlayer
  <1> HIDE DEF seated, after
  <1>5. CASE canStartGame(seated)
    <2> DEFINE g == gameStart(seated.config.clock)
    <2>1. g \in ChessGame
      BY StartType
    <2>2. GameJudged(g, seated.config.clock) /\ g.endReason # "Resign"
      BY StartJudged
    <2>3. after = updateRoomStateFromGame([seated EXCEPT !.game = g])
      BY <1>4, <1>5 DEF startGameIfReady
    <2> HIDE DEF g
    <2>4. after.game = g /\ after.config = seated.config
      BY <1>3, <2>1, <2>3, WithGame
    <2> QED
      BY <1>1, <2>2, <2>4 DEF Judged, Vacated, Final, after
  <1>6. CASE ~canStartGame(seated)
    <2>1. after = updateRoomStateFromGame(seated)
      BY <1>4, <1>6 DEF startGameIfReady
    <2>2. after.game = seated.game /\ after.config = seated.config
      BY <1>3, <2>1, Zenon DEF updateRoomStateFromGame, Room
    <2> QED
      BY <1>1, <1>2, <1>3, <2>2 DEF Judged, Vacated, Final, after
  <1> QED
    BY <1>5, <1>6

\* Leaving a game in progress resigns it and empties the loser's seat.
LEMMA LeaveJudged ==
    ASSUME NEW room, GoodRoom(room), Judged(room), NEW s \in SessionID,
           contains(room, s)
    PROVE  Judged(leave(room, s)) /\ Final(room, leave(room, s))
  <1> DEFINE after == leave(room, s)
  <1>1. room.roomVersion + 1 \in Nat /\ NoSession \in Seats
    BY DEF GoodRoom, Room, Seats
  <1>2. room.game \in ChessGame /\ room \in Room
    BY DEF GoodRoom, Room
  <1>3. allSessionIDs(after) \subseteq allSessionIDs(room)
    BY Leave
  <1>4. CASE s = room.player1
    <2> DEFINE g == gameResign(room.game, "WHITE")
               gone == [room EXCEPT !.player1 = NoSession, !.roomVersion = @ + 1]
    <2>1. after = updateRoomStateFromGame(
                      [room EXCEPT !.game = g, !.player1 = NoSession,
                                   !.roomVersion = @ + 1])
      BY <1>4, Zenon DEF leave, roleOf, leavePlayer1
    <2>2. g \in ChessGame
      BY <1>2, ResignType
    <2>3. /\ GameJudged(g, room.config.clock)
          /\ room.game.state = "InProgress" => g.winner = oppositeColor("WHITE")
          /\ room.game.state # "InProgress" => g = room.game
      BY <1>2, ResignJudged DEF Judged
    <2>4. gone \in Room
      BY <1>1, Zenon DEF GoodRoom, Room
    <2>5. [room EXCEPT !.game = g, !.player1 = NoSession,
                       !.roomVersion = @ + 1] = [gone EXCEPT !.game = g]
      BY Zenon DEF GoodRoom, Room
    <2>6. /\ gone.player1 = NoSession
          /\ gone.player2 = room.player2
          /\ gone.config = room.config
      BY Zenon DEF GoodRoom, Room
    <2> HIDE DEF g, gone, after
    <2>7. /\ after.game = g
          /\ after.player1 = NoSession
          /\ after.player2 = room.player2
          /\ after.config = room.config
      BY <2>1, <2>2, <2>4, <2>5, <2>6, WithGame
    <2>8. Vacated(after)
      BY <2>3, <2>7 DEF Judged, Vacated, loserSeat, oppositeColor
    <2>9. room.state = "GameOver" => g = room.game
      BY <2>3, Shown
    <2> QED
      BY <1>3, <2>3, <2>7, <2>8, <2>9 DEF Judged, Final, after
  <1>5. CASE s # room.player1 /\ s = room.player2
    <2> DEFINE g == gameResign(room.game, "BLACK")
               gone == [room EXCEPT !.player2 = NoSession, !.roomVersion = @ + 1]
    <2>1. after = updateRoomStateFromGame(
                      [room EXCEPT !.game = g, !.player2 = NoSession,
                                   !.roomVersion = @ + 1])
      BY <1>5, Zenon DEF leave, roleOf, leavePlayer2
    <2>2. g \in ChessGame
      BY <1>2, ResignType
    <2>3. /\ GameJudged(g, room.config.clock)
          /\ room.game.state = "InProgress" => g.winner = oppositeColor("BLACK")
          /\ room.game.state # "InProgress" => g = room.game
      BY <1>2, ResignJudged DEF Judged
    <2>4. gone \in Room
      BY <1>1, Zenon DEF GoodRoom, Room
    <2>5. [room EXCEPT !.game = g, !.player2 = NoSession,
                       !.roomVersion = @ + 1] = [gone EXCEPT !.game = g]
      BY Zenon DEF GoodRoom, Room
    <2>6. /\ gone.player2 = NoSession
          /\ gone.player1 = room.player1
          /\ gone.config = room.config
      BY Zenon DEF GoodRoom, Room
    <2> HIDE DEF g, gone, after
    <2>7. /\ after.game = g
          /\ after.player2 = NoSession
          /\ after.player1 = room.player1
          /\ after.config = room.config
      BY <2>1, <2>2, <2>4, <2>5, <2>6, WithGame
    <2>8. Vacated(after)
      BY <2>3, <2>7 DEF Judged, Vacated, loserSeat, oppositeColor
    <2>9. room.state = "GameOver" => g = room.game
      BY <2>3, Shown
    <2> QED
      BY <1>3, <2>3, <2>7, <2>8, <2>9 DEF Judged, Final, after
  <1>6. CASE s # room.player1 /\ s # room.player2
    <2>1. after = leaveSpectator(room, s)
      BY <1>6 DEF contains, roleOf, leave
    <2>2. /\ after.player1 = room.player1
          /\ after.player2 = room.player2
          /\ after.game = room.game
          /\ after.config = room.config
      BY <2>1, Zenon DEF leaveSpectator, GoodRoom, Room
    <2> HIDE DEF after
    <2>3. Judged(after)
      BY <2>2 DEF Judged, Vacated, loserSeat
    <2> QED
      BY <1>3, <2>2, <2>3 DEF Final, after
  <1> QED
    BY <1>4, <1>5, <1>6

LEMMA SubmitMoveJudged ==
    ASSUME NEW room, GoodRoom(room), Judged(room), NEW s, NEW outcome
    PROVE  /\ Judged(submitMove(room, s, outcome))
           /\ Final(room, submitMove(room, s, outcome))
  <1> DEFINE ticked == gameTick(room.game)
             status == submitMoveStatus(room, s, outcome)
  <1>1. room.game \in ChessGame /\ GameJudged(room.game, room.config.clock)
    BY DEF GoodRoom, Room, Judged
  <1>2. /\ ticked \in ChessGame
        /\ ticked.state = "InProgress" => room.game.state = "InProgress"
        /\ room.game.state = "Finished" => ticked = room.game
        /\ GameJudged(ticked, room.config.clock)
    BY <1>1, TickType, TickJudged
  <1>3. ticked.endReason = "Resign" => ticked = room.game
    BY <1>1 DEF gameTick, finish, ChessGame
  <1>4. CASE status = "Success"
    <2>1. ticked.state = "InProgress"
      BY <1>4 DEF submitMoveStatus, moveRejected, roleOf
    <2>2. /\ afterMove(ticked, outcome) \in ChessGame
          /\ GameJudged(afterMove(ticked, outcome), room.config.clock)
          /\ afterMove(ticked, outcome).endReason # "Resign"
      BY <1>2, <2>1, MoveType, MoveJudged
    <2>3. submitMove(room, s, outcome) = updateRoomStateFromGame(
              [room EXCEPT !.game = afterMove(ticked, outcome)])
      BY <1>4 DEF submitMove
    <2>4. room.game.state # "Finished"
      BY <1>2, <2>1
    <2> QED
      BY <2>2, <2>3, <2>4, Replaced
  <1>5. CASE status = "GameRejected"
    <2>1. submitMove(room, s, outcome) = updateRoomStateFromGame(
              [room EXCEPT !.game = ticked])
      BY <1>5 DEF submitMove
    <2> QED
      BY <1>2, <1>3, <2>1, Replaced
  <1>6. CASE status \notin {"Success", "GameRejected"}
    <2>1. submitMove(room, s, outcome) = room
      BY <1>6 DEF submitMove
    <2> QED
      BY <2>1 DEF Final
  <1> QED
    BY <1>4, <1>5, <1>6

LEMMA RoomTickJudged ==
    ASSUME NEW room, GoodRoom(room), Judged(room)
    PROVE  Judged(roomTick(room)) /\ Final(room, roomTick(room))
  <1> DEFINE ticked == gameTick(room.game)
  <1>1. room.game \in ChessGame /\ GameJudged(room.game, room.config.clock)
    BY DEF GoodRoom, Room, Judged
  <1>2. /\ ticked \in ChessGame
        /\ room.game.state = "Finished" => ticked = room.game
        /\ GameJudged(ticked, room.config.clock)
    BY <1>1, TickType, TickJudged
  <1>3. ticked.endReason = "Resign" => ticked = room.game
    BY <1>1 DEF gameTick, finish, ChessGame
  <1>4. roomTick(room) = updateRoomStateFromGame([room EXCEPT !.game = ticked])
    BY DEF roomTick
  <1> QED
    BY <1>2, <1>3, <1>4, Replaced

LEMMA RunOutJudged ==
    ASSUME NEW room, GoodRoom(room), Judged(room),
           room.config.clock # "disabled", room.game.state = "InProgress",
           NEW after, after = [room EXCEPT !.game.flagged = TRUE]
    PROVE  Judged(after) /\ Final(room, after)
  <1> DEFINE g == [room.game EXCEPT !.flagged = TRUE]
  <1>1. /\ after.game = g
        /\ after.player1 = room.player1
        /\ after.player2 = room.player2
        /\ after.config = room.config
    BY Zenon DEF GoodRoom, Room
  <1>2. /\ g.state = room.game.state
        /\ g.endReason = room.game.endReason
        /\ g.winner = room.game.winner
        /\ g.currentTurn = room.game.currentTurn
    BY Zenon DEF GoodRoom, Room, ChessGame
  <1> HIDE DEF g
  <1>3. GameJudged(g, room.config.clock) /\ Vacated(after)
    BY <1>1, <1>2 DEF Judged, GameJudged, Vacated, loserSeat
  <1> QED
    BY <1>1, <1>3, Shown DEF Judged, Final

-----------------------------------------------------------------------------
(* The steps of the manager *)

AllJudged == \A r \in DOMAIN m_roomIDToRoom : Judged(m_roomIDToRoom[r])

\* A step has done this to the room, if it is still there.
Kept(r) ==
    /\ Judged(m_roomIDToRoom'[r])
    /\ r \in DOMAIN m_roomIDToRoom =>
          Final(m_roomIDToRoom[r], m_roomIDToRoom'[r])

AllKept == \A r \in DOMAIN m_roomIDToRoom' : Kept(r)

\* Rooms that are left alone.
LEMMA Untouched ==
    ASSUME AllJudged, UNCHANGED m_roomIDToRoom
    PROVE  AllKept
  BY DEF AllJudged, AllKept, Kept, Final

\* One room is stored, the others are left alone.
LEMMA Stored ==
    ASSUME AllJudged, NEW roomID, NEW room, Judged(room),
           roomID \in DOMAIN m_roomIDToRoom =>
               Final(m_roomIDToRoom[roomID], room),
           m_roomIDToRoom' = withRoom(roomID, room)
    PROVE  AllKept
  <1>1. /\ DOMAIN m_roomIDToRoom' = DOMAIN m_roomIDToRoom \cup {roomID}
        /\ \A r \in DOMAIN m_roomIDToRoom' :
              m_roomIDToRoom'[r] =
                  IF r = roomID THEN room ELSE m_roomIDToRoom[r]
    BY DEF withRoom
  <1> QED
    BY <1>1 DEF AllJudged, AllKept, Kept, Final

\* The rooms of a sound manager are good.
LEMMA GoodRooms ==
    ASSUME Sound, AllJudged, NEW r \in DOMAIN m_roomIDToRoom
    PROVE  GoodRoom(m_roomIDToRoom[r]) /\ Judged(m_roomIDToRoom[r])
  BY DEF Sound, MapsInv, goodRooms, AllJudged

LEMMA CreateKeeps ==
    ASSUME Sound, AllJudged, NEW s \in SessionID, NEW config \in Configs,
           doRequestCreateRoom(s, config)
    PROVE  AllKept
  <1>1. CASE UNCHANGED rooms
    BY <1>1, Untouched DEF rooms
  <1>2. CASE m_roomIDToRoom' = withRoom(m_nextRoomID, newRoom(s, config))
    <2>1. m_nextRoomID \notin DOMAIN m_roomIDToRoom
      BY DEF Sound, MapsInv, goodRooms, IDsBelowCounter, RoomID
    <2> QED
      BY <1>2, <2>1, NewRoomJudged, Stored
  <1> QED
    BY <1>1, <1>2 DEF doRequestCreateRoom, refuse

LEMMA JoinKeeps ==
    ASSUME Sound, AllJudged, NEW s \in SessionID, NEW roomID \in Nat,
           NEW spectator \in BOOLEAN, NEW password \in BOOLEAN,
           doRequestJoinRoom(s, roomID, spectator, password)
    PROVE  AllKept
  <1> DEFINE old == m_roomIDToRoom[roomID]
             room == joinAs(old, s, spectator)
  <1>1. CASE UNCHANGED rooms
    BY <1>1, Untouched DEF rooms
  <1>2. CASE /\ joins(s, roomID, spectator, password)
             /\ m_roomIDToRoom' = withRoom(roomID, room)
    <2>1. /\ roomID \in DOMAIN m_roomIDToRoom
          /\ joinResult(old, s, spectator)
                 \in {"JoinedAsPlayer", "JoinedAsSpectator"}
      BY <1>2 DEF joins, joinAllowed
    <2>2. GoodRoom(old) /\ Judged(old)
      BY <2>1, GoodRooms
    <2>3. Judged(room) /\ Final(old, room)
      <3>1. CASE spectator
        <4>1. joinSpectatorResult(old, s) = "JoinedAsSpectator"
          BY <2>1, <3>1 DEF joinResult, joinSpectatorResult
        <4> QED
          BY <2>2, <3>1, <4>1, JoinSpectatorJudged DEF joinAs
      <3>2. CASE ~spectator
        <4>1. joinPlayerResult(old, s) = "JoinedAsPlayer"
          BY <2>1, <3>2 DEF joinResult, joinPlayerResult
        <4> QED
          BY <2>2, <3>2, <4>1, JoinPlayerJudged DEF joinAs
      <3> QED
        BY <3>1, <3>2
    <2> HIDE DEF room
    <2> QED
      BY <1>2, <2>3, Stored
  <1> QED
    BY <1>1, <1>2 DEF doRequestJoinRoom, refuse

LEMMA LeaveKeeps ==
    ASSUME Sound, AllJudged, NEW s \in SessionID, doRequestLeaveRoom(s)
    PROVE  AllKept
  <1> DEFINE roomID == m_sessionIDToRoomID[s]
             room == leave(roomBySession(s), s)
  <1>1. CASE UNCHANGED rooms
    BY <1>1, Untouched DEF rooms
  <1>2. CASE /\ hasRoom(s)
             /\ contains(roomBySession(s), s)
             /\ m_roomIDToRoom' = withRoomUnlessEmpty(roomID, room)
    <2>1. /\ roomID \in DOMAIN m_roomIDToRoom
          /\ roomBySession(s) = m_roomIDToRoom[roomID]
      BY <1>2 DEF hasRoom, roomBySession
    <2>2. Judged(room) /\ Final(m_roomIDToRoom[roomID], room)
      BY <1>2, <2>1, GoodRooms, LeaveJudged
    <2> HIDE DEF room
    <2>3. CASE empty(room)
      BY <1>2, <2>3 DEF withRoomUnlessEmpty, AllJudged, AllKept, Kept, Final
    <2>4. CASE ~empty(room)
      BY <1>2, <2>2, <2>4, Stored DEF withRoomUnlessEmpty
    <2> QED
      BY <2>3, <2>4
  <1> QED
    BY <1>1, <1>2 DEF doRequestLeaveRoom, refuse

LEMMA MoveKeeps ==
    ASSUME Sound, AllJudged, NEW s \in SessionID, NEW outcome,
           doRequestMove(s, outcome)
    PROVE  AllKept
  <1> DEFINE roomID == m_sessionIDToRoomID[s]
             room == submitMove(roomBySession(s), s, outcome)
  <1>1. CASE UNCHANGED rooms
    BY <1>1, Untouched DEF rooms
  <1>2. CASE hasRoom(s) /\ m_roomIDToRoom' = withRoom(roomID, room)
    <2>1. /\ roomID \in DOMAIN m_roomIDToRoom
          /\ roomBySession(s) = m_roomIDToRoom[roomID]
      BY <1>2 DEF hasRoom, roomBySession
    <2>2. Judged(room) /\ Final(m_roomIDToRoom[roomID], room)
      BY <2>1, GoodRooms, SubmitMoveJudged
    <2> HIDE DEF room
    <2> QED
      BY <1>2, <2>2, Stored
  <1>3. UNCHANGED rooms
        \/ (hasRoom(s) /\ m_roomIDToRoom' = withRoom(roomID, room))
    BY Zenon DEF doRequestMove, refuse
  <1> QED
    BY <1>1, <1>2, <1>3

LEMMA ClockKeeps ==
    ASSUME Sound, AllJudged, NEW roomID \in Nat, ClockRunsOut(roomID)
    PROVE  AllKept
  <1> DEFINE old == m_roomIDToRoom[roomID]
             room == [old EXCEPT !.game.flagged = TRUE]
  <1>1. /\ roomID \in DOMAIN m_roomIDToRoom
        /\ old.config.clock # "disabled"
        /\ old.game.state = "InProgress"
        /\ m_roomIDToRoom' = withRoom(roomID, room)
    BY DEF ClockRunsOut
  <1>2. Judged(room) /\ Final(old, room)
    BY <1>1, GoodRooms, RunOutJudged
  <1> HIDE DEF room
  <1> QED
    BY <1>1, <1>2, Stored

LEMMA TickKeeps ==
    ASSUME Sound, AllJudged, onTick
    PROVE  AllKept
  <1>1. CASE UNCHANGED m_roomIDToRoom
    BY <1>1, Untouched
  <1>2. CASE m_roomIDToRoom' = [r \in DOMAIN m_roomIDToRoom |->
                                   roomTick(m_roomIDToRoom[r])]
    <2>1. ASSUME NEW r \in DOMAIN m_roomIDToRoom
          PROVE  /\ Judged(roomTick(m_roomIDToRoom[r]))
                 /\ Final(m_roomIDToRoom[r], roomTick(m_roomIDToRoom[r]))
      BY GoodRooms, RoomTickJudged
    <2> QED
      BY <1>2, <2>1 DEF AllKept, Kept
  <1> QED
    BY <1>1, <1>2 DEF onTick

LEMMA NextKeeps ==
    ASSUME Sound, AllJudged, [Next]_vars
    PROVE  AllKept
  <1>1. CASE Requests
    <2> PICK s \in SessionID :
            \/ \E config \in Configs : doRequestCreateRoom(s, config)
            \/ \E r \in 1..MaxRooms, spectator, password \in BOOLEAN :
                   doRequestJoinRoom(s, r, spectator, password)
            \/ doRequestListRooms(s)
            \/ doRequestLeaveRoom(s)
            \/ \E outcome \in MoveOutcome : doRequestMove(s, outcome)
            \/ doRequestGameChat(s)
      BY <1>1 DEF Requests
    <2>1. CASE \E config \in Configs : doRequestCreateRoom(s, config)
      BY <2>1, CreateKeeps
    <2>2. CASE \E r \in 1..MaxRooms, spectator, password \in BOOLEAN :
                  doRequestJoinRoom(s, r, spectator, password)
      BY <2>2, JoinKeeps, BoundsAssumption
    <2>3. CASE doRequestListRooms(s)
      BY <2>3, Untouched DEF doRequestListRooms, rooms
    <2>4. CASE doRequestLeaveRoom(s)
      BY <2>4, LeaveKeeps
    <2>5. CASE \E outcome \in MoveOutcome : doRequestMove(s, outcome)
      BY <2>5, MoveKeeps
    <2>6. CASE doRequestGameChat(s)
      BY <2>6, Untouched DEF doRequestGameChat, refuse, rooms
    <2> QED
      BY <2>1, <2>2, <2>3, <2>4, <2>5, <2>6
  <1>2. CASE \E r \in 1..MaxRooms : ClockRunsOut(r)
    BY <1>2, ClockKeeps, BoundsAssumption
  <1>3. CASE onTick
    BY <1>3, TickKeeps
  <1>4. CASE TickExpires \/ start \/ startSchedule \/ stop \/ UNCHANGED vars
    BY <1>4, Untouched
       DEF TickExpires, start, startSchedule, stop, vars, rooms
  <1>5. CASE startClear \/ doStop
    BY <1>5 DEF startClear, doStop, noRooms, AllKept
  <1> QED
    BY <1>1, <1>2, <1>3, <1>4, <1>5 DEF Next

-----------------------------------------------------------------------------
LEMMA JudgedAlways == Spec => [](Sound /\ AllJudged)
  <1>1. Init => Sound /\ AllJudged
    BY InitSound DEF Init, noRooms, AllJudged
  <1>2. Sound /\ AllJudged /\ [Next]_vars => (Sound /\ AllJudged)'
    BY NextSound, NextKeeps DEF AllKept, Kept, AllJudged
  <1> QED
    BY <1>1, <1>2, PTL DEF Spec

\* Whatever the players and their clocks do in whatever order, how a match ended
\* fits who won it, the clocks it was played with and the seat of who gave it up
\* (ChessGame.cpp:271-286, 407-441 under GameRoom.cpp:156-226).
THEOREM VerdictsHold == Spec => []VerdictsAreSound
  <1>1. AllJudged => VerdictsAreSound
    BY JudgedRooms DEF AllJudged, VerdictsAreSound
  <1> QED
    BY <1>1, JudgedAlways, PTL

\* No request and no tick changes the result of a match, or lets anybody into a
\* room whose match is over.
THEOREM ResultsStay == Spec => ResultIsFinal
  <1>1. Sound /\ AllJudged /\ [Next]_vars =>
          [\A r \in DOMAIN m_roomIDToRoom \cap DOMAIN m_roomIDToRoom' :
              m_roomIDToRoom[r].state = "GameOver" =>
                  /\ m_roomIDToRoom'[r].game = m_roomIDToRoom[r].game
                  /\ allSessionIDs(m_roomIDToRoom'[r])
                         \subseteq allSessionIDs(m_roomIDToRoom[r])]_vars
    BY NextKeeps DEF AllKept, Kept, Final
  <1> QED
    BY <1>1, JudgedAlways, PTL DEF Spec, ResultIsFinal

-----------------------------------------------------------------------------
(* What the members of a room are told *)

\* How the step tells of what it does to a room that was there and stays.
Told(r) ==
    shown(m_roomIDToRoom'[r]) # shown(m_roomIDToRoom[r]) =>
        \/ r \in updates'
        \/ /\ reply'.type = "ErrorMessage"
           /\ m_roomIDToRoom[r].game.flagged
           /\ m_roomIDToRoom'[r] = roomTick(m_roomIDToRoom[r])

AllTold == \A r \in DOMAIN m_roomIDToRoom \cap DOMAIN m_roomIDToRoom' : Told(r)

\* Who is sent an update of the room knows that he is in it.
Informed(r) ==
    /\ r \in DOMAIN m_roomIDToRoom'
    /\ \A s \in allSessionIDs(m_roomIDToRoom'[r]) :
          \/ m_sessionIDToRoomID[s] = r
          \/ /\ reply'.type \in {"CreateRoomResponse", "JoinRoomResponse"}
             /\ reply'.to = s
             /\ reply'.success
             /\ reply'.roomID = r
             /\ reply'.color = colorOf(m_roomIDToRoom'[r], s)

AllInformed == \A r \in updates' : Informed(r)

LEMMA Silent ==
    ASSUME UNCHANGED m_roomIDToRoom, updates' = {}
    PROVE  AllTold /\ AllInformed
  BY DEF AllTold, Told, AllInformed

\* The one room that is stored, or goes, is the one that is told of.
LEMMA OthersUntouched ==
    ASSUME NEW roomID, NEW room,
           m_roomIDToRoom' \in {withRoom(roomID, room),
                                withRoomUnlessEmpty(roomID, room)}
    PROVE  \A r \in DOMAIN m_roomIDToRoom \cap DOMAIN m_roomIDToRoom' :
              r # roomID => m_roomIDToRoom'[r] = m_roomIDToRoom[r]
  BY DEF withRoom, withRoomUnlessEmpty

LEMMA ToldOfOne ==
    ASSUME NEW roomID, NEW room,
           m_roomIDToRoom' \in {withRoom(roomID, room),
                                withRoomUnlessEmpty(roomID, room)},
           roomID \in DOMAIN m_roomIDToRoom \cap DOMAIN m_roomIDToRoom' =>
               Told(roomID)
    PROVE  AllTold
  BY OthersUntouched DEF AllTold, Told

\* The members a room had are bound to it.
LEMMA MembersAreBound ==
    ASSUME Sound, NEW r \in DOMAIN m_roomIDToRoom,
           NEW s \in allSessionIDs(m_roomIDToRoom[r])
    PROVE  m_sessionIDToRoomID[s] = r
  BY DEF Sound, MapsInv, bindings

\* A tick that ends no game leaves the room as it is.
LEMMA IdleTick ==
    ASSUME NEW room, GoodRoom(room)
    PROVE  /\ gameTick(room.game) = room.game => roomTick(room) = room
           /\ ~room.game.flagged => roomTick(room) = room
           /\ ~announced(room, roomTick(room)) => roomTick(room) = room
  <1>1. /\ room \in Room
        /\ room.game \in ChessGame
        /\ room.state = roomStateOf(room.game)
    BY DEF GoodRoom, Room, RoomFollowsGame
  <1>2. ASSUME gameTick(room.game) = room.game PROVE roomTick(room) = room
    <2>1. [room EXCEPT !.game = gameTick(@)] = room
      BY <1>1, <1>2, Zenon DEF Room
    <2> QED
      BY <1>1, <2>1, Zenon DEF roomTick, updateRoomStateFromGame, Room
  <1>3. ~room.game.flagged => gameTick(room.game) = room.game
    BY DEF gameTick
  <1>4. ASSUME ~announced(room, roomTick(room))
        PROVE  gameTick(room.game) = room.game
    <2>1. roomTick(room).game = gameTick(room.game)
      BY <1>1, TickType, WithGame DEF roomTick
    <2>2. gameTick(room.game).version = room.game.version
      BY <1>4, <2>1 DEF announced
    <2>3. gameTick(room.game).version # room.game.version
            \/ gameTick(room.game) = room.game
      BY <1>1 DEF gameTick, finish, ChessGame
    <2> QED
      BY <2>2, <2>3
  <1> QED
    BY <1>2, <1>3, <1>4

LEMMA CreateTells ==
    ASSUME Sound, NEW s \in SessionID, NEW config \in Configs,
           doRequestCreateRoom(s, config)
    PROVE  AllTold /\ AllInformed
  <1> DEFINE room == newRoom(s, config)
             roomID == m_nextRoomID
  <1>1. CASE UNCHANGED rooms /\ updates' = {}
    BY <1>1, Silent DEF rooms
  <1>2. CASE /\ m_roomIDToRoom' = withRoom(roomID, room)
             /\ reply' = response("CreateRoomResponse", s, TRUE, roomID,
                                  "WHITE")
             /\ updates' = {roomID}
    <2>1. roomID \notin DOMAIN m_roomIDToRoom
      BY DEF Sound, MapsInv, goodRooms, IDsBelowCounter, RoomID
    <2>2. roomID \in DOMAIN m_roomIDToRoom' /\ m_roomIDToRoom'[roomID] = room
      BY <1>2 DEF withRoom
    <2>3. allSessionIDs(room) = {s} /\ colorOf(room, s) = "WHITE"
      BY NewRoom DEF newRoom, colorOf
    <2> HIDE DEF room, roomID
    <2>4. Informed(roomID)
      <3>1. /\ reply'.type = "CreateRoomResponse"
            /\ reply'.to = s
            /\ reply'.success
            /\ reply'.roomID = roomID
            /\ reply'.color = "WHITE"
        BY <1>2 DEF response
      <3> QED
        BY <2>2, <2>3, <3>1 DEF Informed
    <2>5. AllTold
      BY <1>2, <2>1, ToldOfOne
    <2> QED
      BY <1>2, <2>4, <2>5 DEF AllInformed
  <1> QED
    BY <1>1, <1>2 DEF doRequestCreateRoom, refuse

LEMMA JoinTells ==
    ASSUME Sound, NEW s \in SessionID, NEW roomID \in Nat,
           NEW spectator \in BOOLEAN, NEW password \in BOOLEAN,
           doRequestJoinRoom(s, roomID, spectator, password)
    PROVE  AllTold /\ AllInformed
  <1> DEFINE old == m_roomIDToRoom[roomID]
             room == joinAs(old, s, spectator)
  <1>1. CASE UNCHANGED rooms /\ updates' = {}
    BY <1>1, Silent DEF rooms
  <1>2. CASE /\ joins(s, roomID, spectator, password)
             /\ m_roomIDToRoom' = withRoom(roomID, room)
             /\ reply' = response("JoinRoomResponse", s, TRUE, roomID,
                                  colorOf(room, s))
             /\ updates' = {roomID}
    <2>1. /\ roomID \in DOMAIN m_roomIDToRoom
          /\ joinResult(old, s, spectator)
                 \in {"JoinedAsPlayer", "JoinedAsSpectator"}
      BY <1>2 DEF joins, joinAllowed
    <2>2. GoodRoom(old)
      BY <2>1 DEF Sound, MapsInv, goodRooms
    <2>3. allSessionIDs(room) = allSessionIDs(old) \cup {s}
      <3>1. CASE spectator
        <4>1. joinSpectatorResult(old, s) = "JoinedAsSpectator"
          BY <2>1, <3>1 DEF joinResult, joinSpectatorResult
        <4> QED
          BY <2>2, <3>1, <4>1, JoinSpectator DEF joinAs
      <3>2. CASE ~spectator
        <4>1. joinPlayerResult(old, s) = "JoinedAsPlayer"
          BY <2>1, <3>2 DEF joinResult, joinPlayerResult
        <4> QED
          BY <2>2, <3>2, <4>1, JoinPlayer DEF joinAs
      <3> QED
        BY <3>1, <3>2
    <2>4. roomID \in DOMAIN m_roomIDToRoom' /\ m_roomIDToRoom'[roomID] = room
      BY <1>2 DEF withRoom
    <2> HIDE DEF room
    <2>5. Informed(roomID)
      <3>1. /\ reply'.type = "JoinRoomResponse"
            /\ reply'.to = s
            /\ reply'.success
            /\ reply'.roomID = roomID
            /\ reply'.color = colorOf(room, s)
        BY <1>2 DEF response
      <3>2. \A t \in allSessionIDs(old) : m_sessionIDToRoomID[t] = roomID
        BY <2>1, MembersAreBound
      <3> QED
        BY <2>3, <2>4, <3>1, <3>2 DEF Informed
    <2>6. Told(roomID)
      BY <1>2 DEF Told
    <2>7. AllTold
      BY <1>2, <2>6, ToldOfOne
    <2> QED
      BY <1>2, <2>5, <2>7 DEF AllInformed
  <1> QED
    BY <1>1, <1>2 DEF doRequestJoinRoom, refuse

LEMMA LeaveTells ==
    ASSUME Sound, NEW s \in SessionID, doRequestLeaveRoom(s)
    PROVE  AllTold /\ AllInformed
  <1> DEFINE roomID == m_sessionIDToRoomID[s]
             room == leave(roomBySession(s), s)
  <1>1. CASE UNCHANGED rooms /\ updates' = {}
    BY <1>1, Silent DEF rooms
  <1>2. CASE /\ hasRoom(s)
             /\ contains(roomBySession(s), s)
             /\ m_roomIDToRoom' = withRoomUnlessEmpty(roomID, room)
             /\ updates' = IF empty(room) THEN {} ELSE {roomID}
    <2>1. /\ roomID \in DOMAIN m_roomIDToRoom
          /\ roomBySession(s) = m_roomIDToRoom[roomID]
      BY <1>2 DEF hasRoom, roomBySession
    <2>2. allSessionIDs(room) \subseteq allSessionIDs(m_roomIDToRoom[roomID])
      BY <1>2, <2>1, Leave DEF Sound, MapsInv, goodRooms
    <2> HIDE DEF room, roomID
    <2>3. CASE empty(room)
      <3>1. roomID \notin DOMAIN m_roomIDToRoom'
        BY <1>2, <2>3 DEF withRoomUnlessEmpty
      <3> QED
        BY <1>2, <2>3, <3>1, ToldOfOne DEF AllInformed
    <2>4. CASE ~empty(room)
      <3>1. /\ roomID \in DOMAIN m_roomIDToRoom'
            /\ m_roomIDToRoom'[roomID] = room
            /\ updates' = {roomID}
        BY <1>2, <2>4 DEF withRoomUnlessEmpty, withRoom
      <3>2. Informed(roomID)
        BY <2>1, <2>2, <3>1, MembersAreBound DEF Informed
      <3>3. AllTold
        BY <1>2, <3>1, ToldOfOne DEF Told
      <3> QED
        BY <3>1, <3>2, <3>3 DEF AllInformed
    <2> QED
      BY <2>3, <2>4
  <1> QED
    BY <1>1, <1>2 DEF doRequestLeaveRoom, refuse

\* A refused move that finds a fallen flag is the exception.
LEMMA MoveTells ==
    ASSUME Sound, NEW s \in SessionID, NEW outcome, doRequestMove(s, outcome)
    PROVE  AllTold /\ AllInformed
  <1> DEFINE roomID == m_sessionIDToRoomID[s]
             old == roomBySession(s)
             room == submitMove(old, s, outcome)
             status == submitMoveStatus(old, s, outcome)
  <1>1. CASE UNCHANGED rooms /\ updates' = {}
    BY <1>1, Silent DEF rooms
  <1>2. ASSUME hasRoom(s), m_roomIDToRoom' = withRoom(roomID, room)
        PROVE  /\ roomID \in DOMAIN m_roomIDToRoom
               /\ old = m_roomIDToRoom[roomID]
               /\ GoodRoom(old)
               /\ allSessionIDs(room) = allSessionIDs(old)
               /\ roomID \in DOMAIN m_roomIDToRoom'
               /\ m_roomIDToRoom'[roomID] = room
    <2>1. /\ roomID \in DOMAIN m_roomIDToRoom
          /\ old = m_roomIDToRoom[roomID]
      BY <1>2 DEF hasRoom, roomBySession
    <2>2. GoodRoom(old)
      BY <2>1 DEF Sound, MapsInv, goodRooms
    <2>3. allSessionIDs(room) = allSessionIDs(old)
      BY <2>2, SubmitMove
    <2> QED
      BY <1>2, <2>1, <2>2, <2>3 DEF withRoom
  <1>3. CASE /\ hasRoom(s)
             /\ m_roomIDToRoom' = withRoom(roomID, room)
             /\ status = "Success"
             /\ updates' = {roomID}
    <2> HIDE DEF room, roomID, old
    <2>1. Informed(roomID)
      BY <1>2, <1>3, MembersAreBound DEF Informed
    <2>2. AllTold
      BY <1>3, ToldOfOne DEF Told
    <2> QED
      BY <1>3, <2>1, <2>2 DEF AllInformed
  <1>4. CASE /\ hasRoom(s)
             /\ m_roomIDToRoom' = withRoom(roomID, room)
             /\ status # "Success"
             /\ reply' = response("ErrorMessage", s, FALSE, NoRoom, "EMPTY")
             /\ updates' = {}
    <2>1. room \in {old, roomTick(old)}
      BY <1>4 DEF submitMove, roomTick
    <2>2. ~old.game.flagged => room = old
      BY <1>2, <1>4, <2>1, IdleTick
    <2>3. reply'.type = "ErrorMessage"
      BY <1>4 DEF response
    <2> HIDE DEF room, roomID, old
    <2>4. Told(roomID)
      BY <1>2, <1>4, <2>1, <2>2, <2>3 DEF Told
    <2> QED
      BY <1>4, <2>4, ToldOfOne DEF AllInformed
  <1>5. \/ UNCHANGED rooms /\ updates' = {}
        \/ /\ hasRoom(s)
           /\ m_roomIDToRoom' = withRoom(roomID, room)
           /\ \/ status = "Success" /\ updates' = {roomID}
              \/ /\ status # "Success"
                 /\ reply' = response("ErrorMessage", s, FALSE, NoRoom,
                                      "EMPTY")
                 /\ updates' = {}
    BY Zenon DEF doRequestMove, refuse
  <1> QED
    BY <1>1, <1>3, <1>4, <1>5

LEMMA ClockTells ==
    ASSUME Sound, NEW roomID \in Nat, ClockRunsOut(roomID)
    PROVE  AllTold /\ AllInformed
  <1> DEFINE old == m_roomIDToRoom[roomID]
             room == [old EXCEPT !.game.flagged = TRUE]
  <1>1. /\ roomID \in DOMAIN m_roomIDToRoom
        /\ m_roomIDToRoom' = withRoom(roomID, room)
        /\ updates' = {}
    BY DEF ClockRunsOut, nothingSent
  <1>2. GoodRoom(old)
    BY <1>1 DEF Sound, MapsInv, goodRooms
  <1>3. shown(room) = shown(old)
    BY <1>2, Zenon DEF shown, GoodRoom, Room, ChessGame
  <1>4. m_roomIDToRoom'[roomID] = room
    BY <1>1 DEF withRoom
  <1> HIDE DEF room
  <1>5. Told(roomID)
    BY <1>3, <1>4 DEF Told
  <1> QED
    BY <1>1, <1>5, ToldOfOne DEF AllInformed

LEMMA TickTells ==
    ASSUME Sound, onTick
    PROVE  AllTold /\ AllInformed
  <1>1. CASE UNCHANGED m_roomIDToRoom /\ updates' = {}
    BY <1>1, Silent
  <1>2. CASE /\ m_roomIDToRoom' = [r \in DOMAIN m_roomIDToRoom |->
                                      roomTick(m_roomIDToRoom[r])]
             /\ updates' = {r \in DOMAIN m_roomIDToRoom :
                              announced(m_roomIDToRoom[r],
                                        roomTick(m_roomIDToRoom[r]))}
    <2>1. ASSUME NEW r \in DOMAIN m_roomIDToRoom
          PROVE  /\ GoodRoom(m_roomIDToRoom[r])
                 /\ m_roomIDToRoom'[r] = roomTick(m_roomIDToRoom[r])
                 /\ allSessionIDs(m_roomIDToRoom'[r])
                      = allSessionIDs(m_roomIDToRoom[r])
      BY <1>2, RoomTick DEF Sound, MapsInv, goodRooms
    <2>2. AllTold
      BY <1>2, <2>1, IdleTick DEF AllTold, Told
    <2>3. AllInformed
      BY <1>2, <2>1, MembersAreBound DEF AllInformed, Informed
    <2> QED
      BY <2>2, <2>3
  <1> QED
    BY <1>1, <1>2 DEF onTick

LEMMA NextTells ==
    ASSUME Sound, Next
    PROVE  AllTold /\ AllInformed
  <1>1. CASE Requests
    <2> PICK s \in SessionID :
            \/ \E config \in Configs : doRequestCreateRoom(s, config)
            \/ \E r \in 1..MaxRooms, spectator, password \in BOOLEAN :
                   doRequestJoinRoom(s, r, spectator, password)
            \/ doRequestListRooms(s)
            \/ doRequestLeaveRoom(s)
            \/ \E outcome \in MoveOutcome : doRequestMove(s, outcome)
            \/ doRequestGameChat(s)
      BY <1>1 DEF Requests
    <2>1. CASE \E config \in Configs : doRequestCreateRoom(s, config)
      BY <2>1, CreateTells
    <2>2. CASE \E r \in 1..MaxRooms, spectator, password \in BOOLEAN :
                  doRequestJoinRoom(s, r, spectator, password)
      BY <2>2, JoinTells, BoundsAssumption
    <2>3. CASE doRequestListRooms(s)
      BY <2>3, Silent DEF doRequestListRooms, rooms
    <2>4. CASE doRequestLeaveRoom(s)
      BY <2>4, LeaveTells
    <2>5. CASE \E outcome \in MoveOutcome : doRequestMove(s, outcome)
      BY <2>5, MoveTells
    <2>6. CASE doRequestGameChat(s)
      BY <2>6, Silent DEF doRequestGameChat, refuse, rooms
    <2> QED
      BY <2>1, <2>2, <2>3, <2>4, <2>5, <2>6
  <1>2. CASE \E r \in 1..MaxRooms : ClockRunsOut(r)
    BY <1>2, ClockTells, BoundsAssumption
  <1>3. CASE onTick
    BY <1>3, TickTells
  <1>4. CASE TickExpires \/ start \/ startSchedule \/ stop
    BY <1>4, Silent
       DEF TickExpires, start, startSchedule, stop, rooms, nothingSent
  <1>5. CASE startClear \/ doStop
    BY <1>5 DEF startClear, doStop, noRooms, nothingSent, AllTold, AllInformed
  <1> QED
    BY <1>1, <1>2, <1>3, <1>4, <1>5 DEF Next

\* Whatever changes in a room is told to those in it by the handler that changed
\* it, but for a timeout that a refused move finds (GameManager.cpp:295-297).
THEOREM ChangesAreTold == Spec => ChangesAreBroadcast
  <1>1. Sound /\ AllJudged /\ [Next]_vars =>
          [\A r \in DOMAIN m_roomIDToRoom \cap DOMAIN m_roomIDToRoom' :
              shown(m_roomIDToRoom'[r]) # shown(m_roomIDToRoom[r]) =>
                  \/ r \in updates'
                  \/ /\ reply'.type = "ErrorMessage"
                     /\ m_roomIDToRoom[r].game.flagged
                     /\ m_roomIDToRoom'[r] = roomTick(m_roomIDToRoom[r])]_vars
    BY NextTells DEF AllTold, Told
  <1> QED
    BY <1>1, JudgedAlways, PTL DEF Spec, ChangesAreBroadcast

\* Nobody is sent an update of a room he does not know to be in, which would make
\* his client drop the connection (MultiplayerClient.cpp:917-920).
THEOREM OnlyTheInformed == Spec => UpdatesReachTheInformed
  <1>1. Sound /\ AllJudged /\ [Next]_vars =>
          [\A r \in updates' :
              /\ r \in DOMAIN m_roomIDToRoom'
              /\ \A s \in allSessionIDs(m_roomIDToRoom'[r]) :
                    \/ m_sessionIDToRoomID[s] = r
                    \/ /\ reply'.type \in {"CreateRoomResponse",
                                           "JoinRoomResponse"}
                       /\ reply'.to = s
                       /\ reply'.success
                       /\ reply'.roomID = r
                       /\ reply'.color = colorOf(m_roomIDToRoom'[r], s)]_vars
    BY NextTells DEF AllInformed, Informed
  <1> QED
    BY <1>1, JudgedAlways, PTL DEF Spec, UpdatesReachTheInformed

(*************************************************************************)
(* Part 4: the manager implements the lobby                              *)
(*************************************************************************)

\* What the lobby sees.
Place == [s \in SessionID |-> lobbyPlace(s)]
Phases == [r \in 1..MaxRooms |-> lobbyPhase(r)]
Results == [r \in 1..MaxRooms |-> lobbyResult(r)]

\* The lobby has a room for every id the manager gives.
Numbered == m_nextRoomID <= MaxRooms + 1

Seen == Sound /\ AllJudged /\ Numbered

phaseOf(room) ==
    CASE room.state = "WaitingForPlayers" -> "waiting"
      [] room.state = "InProgress" -> "playing"
      [] room.state = "GameOver" -> "over"

LEMMA Facts ==
    ASSUME Seen
    PROVE  /\ MaxRooms \in Nat
           /\ m_nextRoomID \in Nat \ {0}
           /\ \A r \in DOMAIN m_roomIDToRoom :
                /\ r \in 1..MaxRooms
                /\ r < m_nextRoomID
                /\ GoodRoom(m_roomIDToRoom[r])
                /\ Judged(m_roomIDToRoom[r])
           /\ NoRoom \notin DOMAIN m_roomIDToRoom
           /\ \A s \in SessionID : hasRoom(s) <=> sessionAlreadyInRoom(s)
  <1>1. MaxRooms \in Nat
    BY BoundsAssumption
  <1>2. m_nextRoomID \in Nat \ {0}
    BY DEF Seen, Sound, MapsInv, RoomID
  <1>3. ASSUME NEW r \in DOMAIN m_roomIDToRoom
        PROVE  /\ r \in Nat \ {0}
               /\ r < m_nextRoomID
               /\ GoodRoom(m_roomIDToRoom[r])
               /\ Judged(m_roomIDToRoom[r])
    BY DEF Seen, Sound, MapsInv, goodRooms, IDsBelowCounter, RoomID, AllJudged
  <1>4. ASSUME NEW r \in DOMAIN m_roomIDToRoom PROVE r \in 1..MaxRooms
    BY <1>1, <1>2, <1>3 DEF Seen, Numbered
  <1>5. ASSUME NEW s \in SessionID
        PROVE  hasRoom(s) <=> sessionAlreadyInRoom(s)
    BY <1>3 DEF Seen, Sound, MapsInv, bindings, hasRoom, sessionAlreadyInRoom,
                NoRoom
  <1> QED
    BY <1>1, <1>2, <1>3, <1>4, <1>5 DEF NoRoom

\* A session in a room has the place it has there.
LEMMA Bound ==
    ASSUME Seen, NEW s \in SessionID, NEW r \in DOMAIN m_roomIDToRoom,
           s \in allSessionIDs(m_roomIDToRoom[r])
    PROVE  /\ m_sessionIDToRoomID[s] = r
           /\ Place[s] = [room |-> r, seat |-> roleOf(m_roomIDToRoom[r], s)]
           /\ roleOf(m_roomIDToRoom[r], s) # "None"
  <1>1. m_sessionIDToRoomID[s] = r
    BY MembersAreBound DEF Seen
  <1>2. roleOf(m_roomIDToRoom[r], s) # "None"
    BY DEF roleOf, allSessionIDs
  <1> QED
    BY <1>1, <1>2 DEF Place, lobbyPlace, hasRoom, roomBySession

LEMMA Unbound ==
    ASSUME Seen, NEW s \in SessionID, ~sessionAlreadyInRoom(s)
    PROVE  Place[s] = TheLobby!Nowhere
  BY Facts DEF Place, lobbyPlace, TheLobby!Nowhere, NoRoom

LEMMA At ==
    ASSUME Seen, NEW r \in DOMAIN m_roomIDToRoom
    PROVE  TheLobby!at(r) = allSessionIDs(m_roomIDToRoom[r])
  <1>1. ASSUME NEW s \in SessionID, Place[s].room = r
        PROVE  s \in allSessionIDs(m_roomIDToRoom[r])
    <2>1. hasRoom(s) /\ m_sessionIDToRoomID[s] = r
      BY <1>1, Facts DEF Place, lobbyPlace
    <2> QED
      BY <2>1, Facts
         DEF Seen, Sound, MapsInv, bindings, hasRoom, sessionAlreadyInRoom
  <1>2. ASSUME NEW s \in allSessionIDs(m_roomIDToRoom[r])
        PROVE  s \in SessionID /\ Place[s].room = r
    <2>1. s \in SessionID
      BY Facts, MembersAreSessions DEF GoodRoom
    <2>2. Place[s] = [room |-> r, seat |-> roleOf(m_roomIDToRoom[r], s)]
      BY <2>1, Bound
    <2> QED
      BY <2>1, <2>2
  <1> QED
    BY <1>1, <1>2 DEF TheLobby!at, Place

LEMMA Taken ==
    ASSUME Seen, NEW r \in DOMAIN m_roomIDToRoom
    PROVE  /\ TheLobby!taken(r, "Player1") <=>
                m_roomIDToRoom[r].player1 # NoSession
           /\ TheLobby!taken(r, "Player2") <=>
                m_roomIDToRoom[r].player2 # NoSession
  <1> DEFINE room == m_roomIDToRoom[r]
  <1>1. /\ room.player1 \in Seats
        /\ room.player2 \in Seats
        /\ room.player1 # NoSession => room.player1 # room.player2
    BY Facts DEF GoodRoom, Room, OnePlace
  <1>2. ASSUME NEW s \in allSessionIDs(room)
        PROVE  /\ s \in SessionID
               /\ Place[s].seat = roleOf(room, s)
    <2>1. s \in SessionID
      BY Facts, MembersAreSessions DEF GoodRoom
    <2>2. Place[s] = [room |-> r, seat |-> roleOf(room, s)]
      BY <2>1, Bound
    <2> QED
      BY <2>1, <2>2
  <1>3. \A seat : TheLobby!taken(r, seat) <=>
                    \E s \in allSessionIDs(room) : roleOf(room, s) = seat
    BY <1>2, At DEF TheLobby!taken, Place
  <1>4. NoSession \notin allSessionIDs(room)
    BY <1>2, SessionAssumption
  <1> HIDE DEF room
  <1>5. (\E s \in allSessionIDs(room) : roleOf(room, s) = "Player1")
          <=> room.player1 # NoSession
    BY <1>1, <1>4 DEF roleOf, allSessionIDs
  <1>6. (\E s \in allSessionIDs(room) : roleOf(room, s) = "Player2")
          <=> room.player2 # NoSession
    BY <1>1, <1>4 DEF roleOf, allSessionIDs
  <1> QED
    BY <1>3, <1>5, <1>6 DEF room

LEMMA PhaseOf ==
    ASSUME Seen, NEW r \in DOMAIN m_roomIDToRoom
    PROVE  /\ Phases[r] = phaseOf(m_roomIDToRoom[r])
           /\ Results[r] = m_roomIDToRoom[r].game.winner
  BY Facts DEF Phases, Results, lobbyPhase, lobbyResult, phaseOf

-----------------------------------------------------------------------------
(* What the lobby sees of a step *)

\* Whoever keeps his binding and his role stays where he is.
LEMMA Elsewhere ==
    ASSUME Seen, Seen', NEW t \in SessionID,
           m_sessionIDToRoomID'[t] = m_sessionIDToRoomID[t],
           sessionAlreadyInRoom(t) =>
               roleOf(m_roomIDToRoom'[m_sessionIDToRoomID[t]], t)
                 = roleOf(m_roomIDToRoom[m_sessionIDToRoomID[t]], t)
    PROVE  lobbyPlace(t)' = lobbyPlace(t)
  <1>1. hasRoom(t) <=> sessionAlreadyInRoom(t)
    BY Facts
  <1>2. hasRoom(t)' <=> sessionAlreadyInRoom(t)'
    BY DEF Seen, Sound, MapsInv, goodRooms, bindings, RoomID, NoRoom, hasRoom,
           sessionAlreadyInRoom
  <1>3. sessionAlreadyInRoom(t)' <=> sessionAlreadyInRoom(t)
    BY DEF sessionAlreadyInRoom
  <1> QED
    BY <1>1, <1>2, <1>3 DEF lobbyPlace, roomBySession

LEMMA Moved ==
    ASSUME NEW s \in SessionID, NEW place, lobbyPlace(s)' = place,
           \A t \in SessionID \ {s} : lobbyPlace(t)' = lobbyPlace(t)
    PROVE  Place' = [Place EXCEPT ![s] = place]
  BY DEF Place

\* A room that is stored shows its state and its winner.
LEMMA OneStored ==
    ASSUME Seen, NEW roomID \in DOMAIN m_roomIDToRoom,
           NEW room, room.state \in RoomState,
           m_roomIDToRoom' = withRoom(roomID, room),
           m_nextRoomID' = m_nextRoomID
    PROVE  /\ Phases' = [Phases EXCEPT ![roomID] = phaseOf(room)]
           /\ Results' = [Results EXCEPT ![roomID] = room.game.winner]
  <1>1. /\ DOMAIN m_roomIDToRoom' = DOMAIN m_roomIDToRoom
        /\ \A r \in DOMAIN m_roomIDToRoom :
              m_roomIDToRoom'[r] =
                  IF r = roomID THEN room ELSE m_roomIDToRoom[r]
    BY DEF withRoom
  <1>2. ASSUME NEW r \in 1..MaxRooms
        PROVE  /\ lobbyPhase(r)' = IF r = roomID THEN phaseOf(room)
                                   ELSE lobbyPhase(r)
               /\ lobbyResult(r)' = IF r = roomID THEN room.game.winner
                                    ELSE lobbyResult(r)
    <2>1. CASE r = roomID
      BY <1>1, <2>1 DEF lobbyPhase, lobbyResult, phaseOf, RoomState
    <2>2. CASE r # roomID /\ r \in DOMAIN m_roomIDToRoom
      <3>1. m_roomIDToRoom[r].state \in RoomState
        BY <2>2, Facts DEF GoodRoom, Room
      <3> QED
        BY <1>1, <2>2, <3>1 DEF lobbyPhase, lobbyResult, RoomState
    <2>3. CASE r # roomID /\ r \notin DOMAIN m_roomIDToRoom
      BY <1>1, <2>3 DEF lobbyPhase, lobbyResult
    <2> QED
      BY <2>1, <2>2, <2>3
  <1> QED
    BY <1>2 DEF Phases, Results

LEMMA Stutter ==
    ASSUME UNCHANGED rooms
    PROVE  UNCHANGED <<Place, Phases, Results>>
  BY DEF rooms, Place, Phases, Results, lobbyPlace, lobbyPhase, lobbyResult,
         hasRoom, roomBySession

-----------------------------------------------------------------------------
(* What the calls of a room do to roles, states and winners *)

LEMMA CreatorRole ==
    ASSUME NEW s \in SessionID, NEW config \in Configs
    PROVE  /\ roleOf(newRoom(s, config), s) = "Player1"
           /\ newRoom(s, config).state = "WaitingForPlayers"
           /\ newRoom(s, config).game.winner = "EMPTY"
  BY DEF newRoom, newGame, roleOf

LEMMA SpectatorRole ==
    ASSUME NEW room, GoodRoom(room), NEW s \in SessionID,
           joinSpectatorResult(room, s) = "JoinedAsSpectator",
           NEW after, after = joinSpectator(room, s)
    PROVE  /\ room.state # "GameOver"
           /\ after.state = room.state
           /\ after.game = room.game
           /\ roleOf(after, s) = "Spectator"
           /\ \A t \in SessionID \ {s} : roleOf(after, t) = roleOf(room, t)
  <1>1. /\ room.state # "GameOver"
        /\ s # room.player1 /\ s # room.player2
    BY DEF joinSpectatorResult, contains, roleOf
  <1>2. /\ after.state = room.state
        /\ after.game = room.game
        /\ after.player1 = room.player1
        /\ after.player2 = room.player2
        /\ after.spectators = room.spectators \cup {s}
    BY Zenon DEF joinSpectator, GoodRoom, Room
  <1> QED
    BY <1>1, <1>2 DEF roleOf

\* The first to sit down waits, the second starts the match; without time to
\* play, Black wins it at once.
LEMMA PlayerRole ==
    ASSUME NEW room, GoodRoom(room), NEW s \in SessionID,
           joinPlayerResult(room, s) = "JoinedAsPlayer",
           NEW after, after = joinPlayer(room, s)
    PROVE  /\ room.state = "WaitingForPlayers"
           /\ roleOf(after, s) = IF room.player1 = NoSession THEN "Player1"
                                 ELSE "Player2"
           /\ room.player1 # NoSession => room.player2 = NoSession
           /\ \A t \in SessionID \ {s} : roleOf(after, t) = roleOf(room, t)
           /\ IF room.player1 = NoSession /\ room.player2 = NoSession
              THEN after.state = room.state /\ after.game = room.game
              ELSE \/ after.state = "InProgress" /\ after.game.winner = "EMPTY"
                   \/ after.state = "GameOver" /\ after.game.winner = "BLACK"
  <1> DEFINE seated == [seatPlayer(room, s) EXCEPT !.roomVersion = @ + 1]
  <1>1. /\ s # room.player1 /\ s # room.player2 /\ s \notin room.spectators
        /\ room.state # "GameOver"
        /\ NoSession \in {room.player1, room.player2}
        /\ s # NoSession
    BY SessionAssumption DEF joinPlayerResult, contains, roleOf
  <1>2. room.state = "WaitingForPlayers" /\ room.game.state = "NotStarted"
    BY <1>1 DEF GoodRoom, RoomFollowsGame, roomStateOf, Room, ChessGame,
                RoomState, ChessGameState
  <1>3. /\ seated \in Room
        /\ seated.state = "WaitingForPlayers"
        /\ seated.game = room.game
        /\ seated.spectators = room.spectators
        /\ seated.player1 = IF room.player1 = NoSession THEN s
                            ELSE room.player1
        /\ seated.player2 = IF room.player1 = NoSession THEN room.player2
                            ELSE s
    <2>1. room.roomVersion + 1 \in Nat /\ s \in Seats
      BY DEF GoodRoom, Room, Seats
    <2>2. /\ seatPlayer(room, s) \in Room
          /\ seatPlayer(room, s).roomVersion = room.roomVersion
      BY <2>1, Zenon DEF seatPlayer, GoodRoom, Room
    <2>3. seated \in Room
      BY <2>1, <2>2, Zenon DEF Room
    <2> QED
      BY <1>2, <2>3 DEF seatPlayer, GoodRoom, Room
  <1>4. after = updateRoomStateFromGame(startGameIfReady(seated))
    BY DEF joinPlayer
  <1>5. \A t \in SessionID \ {s} : roleOf(seated, t) = roleOf(room, t)
    BY <1>1, <1>3, SessionAssumption DEF roleOf
  <1>6. roleOf(seated, s) = IF room.player1 = NoSession THEN "Player1"
                            ELSE "Player2"
    BY <1>1, <1>3 DEF roleOf
  <1> HIDE DEF seated
  <1>7. canStartGame(seated)
          <=> ~(room.player1 = NoSession /\ room.player2 = NoSession)
    BY <1>1, <1>2, <1>3 DEF canStartGame
  <1>8. CASE canStartGame(seated)
    <2> DEFINE g == gameStart(seated.config.clock)
    <2>1. /\ g \in ChessGame
          /\ \/ g.state = "InProgress" /\ g.winner = "EMPTY"
             \/ g.state = "Finished" /\ g.winner = "BLACK"
      <3>1. g \in ChessGame
        BY StartType
      <3> DEFINE fresh == [newGame EXCEPT !.state = "InProgress",
                               !.version = 1,
                               !.flagged = (seated.config.clock = "zero")]
      <3>2. /\ fresh.state = "InProgress"
            /\ fresh.winner = "EMPTY"
            /\ fresh.currentTurn = "WHITE"
            /\ fresh \in ChessGame
        BY Zenon DEF newGame, ChessGame, ChessGameState, COLOR, EndReason
      <3>3. g = gameTick(fresh)
        BY DEF gameStart
      <3> HIDE DEF fresh
      <3> QED
        BY <3>1, <3>2, <3>3 DEF gameTick, finish, oppositeColor, ChessGame
    <2>2. after = updateRoomStateFromGame([seated EXCEPT !.game = g])
      BY <1>4, <1>8 DEF startGameIfReady
    <2> HIDE DEF g
    <2>3. /\ after.state = roomStateOf(g)
          /\ after.game = g
          /\ after.player1 = seated.player1
          /\ after.player2 = seated.player2
          /\ after.spectators = seated.spectators
      BY <1>3, <2>1, <2>2, WithGame
    <2>4. \A t : roleOf(after, t) = roleOf(seated, t)
      BY <2>3 DEF roleOf
    <2>5. \/ after.state = "InProgress" /\ after.game.winner = "EMPTY"
          \/ after.state = "GameOver" /\ after.game.winner = "BLACK"
      BY <2>1, <2>3 DEF roomStateOf
    <2> QED
      BY <1>1, <1>2, <1>5, <1>6, <1>7, <1>8, <2>4, <2>5
  <1>9. CASE ~canStartGame(seated)
    <2>1. after = [seated EXCEPT !.state = roomStateOf(room.game)]
      BY <1>3, <1>4, <1>9 DEF startGameIfReady, updateRoomStateFromGame
    <2>2. roomStateOf(room.game) = "WaitingForPlayers"
      BY <1>2 DEF roomStateOf
    <2>3. /\ after.state = "WaitingForPlayers"
          /\ after.game = room.game
          /\ after.player1 = seated.player1
          /\ after.player2 = seated.player2
          /\ after.spectators = seated.spectators
      BY <1>3, <2>1, <2>2 DEF Room
    <2>4. \A t : roleOf(after, t) = roleOf(seated, t)
      BY <2>3 DEF roleOf
    <2> QED
      BY <1>1, <1>2, <1>5, <1>6, <1>7, <1>9, <2>3, <2>4
  <1> QED
    BY <1>8, <1>9

\* A player who leaves a match gives it to his opponent.
LEMMA LeaverRole ==
    ASSUME NEW room, GoodRoom(room), NEW s \in SessionID, contains(room, s),
           NEW after, after = leave(room, s)
    PROVE  /\ \A t \in SessionID \ {s} : roleOf(after, t) = roleOf(room, t)
           /\ IF room.state = "InProgress" /\ roleOf(room, s) # "Spectator"
              THEN /\ after.state = "GameOver"
                   /\ after.game.winner =
                          TheLobby!opponentColor(roleOf(room, s))
              ELSE /\ after.state = room.state
                   /\ after.game.winner = room.game.winner
  <1>1. /\ room \in Room
        /\ room.game \in ChessGame
        /\ room.roomVersion + 1 \in Nat
        /\ NoSession \in Seats
        /\ room.state = roomStateOf(room.game)
        /\ room.player1 # NoSession => room.player1 # room.player2
        /\ room.player1 \notin room.spectators
        /\ room.player2 \notin room.spectators
    BY DEF GoodRoom, Room, Seats, OnePlace, RoomFollowsGame
  <1>2. /\ room.state = "InProgress" <=> room.game.state = "InProgress"
        /\ s # NoSession
    BY <1>1, SessionAssumption DEF roomStateOf
  <1>3. ASSUME NEW color \in {"WHITE", "BLACK"}
        PROVE  IF room.game.state = "InProgress"
               THEN /\ gameResign(room.game, color).state = "Finished"
                    /\ gameResign(room.game, color).winner
                         = oppositeColor(color)
               ELSE gameResign(room.game, color) = room.game
    BY <1>1 DEF gameResign, finish, ChessGame
  <1>4. CASE s = room.player1
    <2> DEFINE g == gameResign(room.game, "WHITE")
               gone == [room EXCEPT !.player1 = NoSession, !.roomVersion = @ + 1]
    <2>1. after = updateRoomStateFromGame(
                      [room EXCEPT !.game = g, !.player1 = NoSession,
                                   !.roomVersion = @ + 1])
      BY <1>4, Zenon DEF leave, roleOf, leavePlayer1
    <2>2. g \in ChessGame
      BY <1>1, ResignType
    <2>3. gone \in Room
      BY <1>1, Zenon DEF Room
    <2>4. [room EXCEPT !.game = g, !.player1 = NoSession,
                       !.roomVersion = @ + 1] = [gone EXCEPT !.game = g]
      BY <1>1, Zenon DEF Room
    <2>5. /\ gone.player1 = NoSession
          /\ gone.player2 = room.player2
          /\ gone.spectators = room.spectators
      BY <1>1, Zenon DEF Room
    <2>6. IF room.game.state = "InProgress"
          THEN g.state = "Finished" /\ g.winner = "BLACK"
          ELSE g = room.game
      BY <1>3 DEF oppositeColor
    <2> HIDE DEF g, gone
    <2>7. /\ after.state = roomStateOf(g)
          /\ after.game = g
          /\ after.player1 = NoSession
          /\ after.player2 = room.player2
          /\ after.spectators = room.spectators
      BY <2>1, <2>2, <2>3, <2>4, <2>5, WithGame
    <2>8. \A t \in SessionID \ {s} : roleOf(after, t) = roleOf(room, t)
      BY <1>1, <1>4, <2>7, SessionAssumption DEF roleOf
    <2>9. roleOf(room, s) = "Player1"
      BY <1>4 DEF roleOf
    <2>10. IF room.game.state = "InProgress"
           THEN after.state = "GameOver" /\ after.game.winner = "BLACK"
           ELSE after.state = room.state /\ after.game = room.game
      BY <1>1, <2>6, <2>7 DEF roomStateOf
    <2> QED
      BY <1>2, <2>8, <2>9, <2>10 DEF TheLobby!opponentColor
  <1>5. CASE s # room.player1 /\ s = room.player2
    <2> DEFINE g == gameResign(room.game, "BLACK")
               gone == [room EXCEPT !.player2 = NoSession, !.roomVersion = @ + 1]
    <2>1. after = updateRoomStateFromGame(
                      [room EXCEPT !.game = g, !.player2 = NoSession,
                                   !.roomVersion = @ + 1])
      BY <1>5, Zenon DEF leave, roleOf, leavePlayer2
    <2>2. g \in ChessGame
      BY <1>1, ResignType
    <2>3. gone \in Room
      BY <1>1, Zenon DEF Room
    <2>4. [room EXCEPT !.game = g, !.player2 = NoSession,
                       !.roomVersion = @ + 1] = [gone EXCEPT !.game = g]
      BY <1>1, Zenon DEF Room
    <2>5. /\ gone.player1 = room.player1
          /\ gone.player2 = NoSession
          /\ gone.spectators = room.spectators
      BY <1>1, Zenon DEF Room
    <2>6. IF room.game.state = "InProgress"
          THEN g.state = "Finished" /\ g.winner = "WHITE"
          ELSE g = room.game
      BY <1>3 DEF oppositeColor
    <2> HIDE DEF g, gone
    <2>7. /\ after.state = roomStateOf(g)
          /\ after.game = g
          /\ after.player1 = room.player1
          /\ after.player2 = NoSession
          /\ after.spectators = room.spectators
      BY <2>1, <2>2, <2>3, <2>4, <2>5, WithGame
    <2>8. \A t \in SessionID \ {s} : roleOf(after, t) = roleOf(room, t)
      BY <1>1, <1>5, <2>7, SessionAssumption DEF roleOf
    <2>9. roleOf(room, s) = "Player2"
      BY <1>5 DEF roleOf
    <2>10. IF room.game.state = "InProgress"
           THEN after.state = "GameOver" /\ after.game.winner = "WHITE"
           ELSE after.state = room.state /\ after.game = room.game
      BY <1>1, <2>6, <2>7 DEF roomStateOf
    <2> QED
      BY <1>2, <2>8, <2>9, <2>10 DEF TheLobby!opponentColor
  <1>6. CASE s # room.player1 /\ s # room.player2
    <2>1. roleOf(room, s) = "Spectator" /\ after = leaveSpectator(room, s)
      BY <1>6 DEF contains, roleOf, leave
    <2>2. /\ after.player1 = room.player1
          /\ after.player2 = room.player2
          /\ after.state = room.state
          /\ after.game = room.game
          /\ after.spectators = room.spectators \ {s}
      BY <1>1, <2>1, Zenon DEF leaveSpectator, Room
    <2>3. \A t \in SessionID \ {s} : roleOf(after, t) = roleOf(room, t)
      BY <2>2 DEF roleOf
    <2> QED
      BY <2>1, <2>2, <2>3
  <1> QED
    BY <1>4, <1>5, <1>6

\* A game that goes on in its room, or ends there.
Plays(room, after) ==
    /\ after.player1 = room.player1
    /\ after.player2 = room.player2
    /\ after.spectators = room.spectators
    /\ after.state = "WaitingForPlayers" <=> room.state = "WaitingForPlayers"

LEMMA PlaysOn ==
    ASSUME NEW room, GoodRoom(room), NEW g \in ChessGame,
           g.state = "NotStarted" <=> room.game.state = "NotStarted",
           NEW after, after = updateRoomStateFromGame([room EXCEPT !.game = g])
    PROVE  Plays(room, after)
  <1>1. /\ after.state = roomStateOf(g)
        /\ after.player1 = room.player1
        /\ after.player2 = room.player2
        /\ after.spectators = room.spectators
    BY WithGame DEF GoodRoom
  <1>2. room.state = roomStateOf(room.game) /\ room.game \in ChessGame
    BY DEF GoodRoom, Room, RoomFollowsGame
  <1> QED
    BY <1>1, <1>2 DEF Plays, roomStateOf, ChessGame, ChessGameState

LEMMA MovePlays ==
    ASSUME NEW room, GoodRoom(room), NEW s, NEW outcome
    PROVE  Plays(room, submitMove(room, s, outcome))
  <1> DEFINE ticked == gameTick(room.game)
             status == submitMoveStatus(room, s, outcome)
  <1>1. room.game \in ChessGame
    BY DEF GoodRoom, Room
  <1>2. /\ ticked \in ChessGame
        /\ ticked.state = "InProgress" => room.game.state = "InProgress"
        /\ ticked.state = "NotStarted" <=> room.game.state = "NotStarted"
    BY <1>1, TickType
  <1>3. CASE status = "Success"
    <2>1. ticked.state = "InProgress"
      BY <1>3 DEF submitMoveStatus, moveRejected, roleOf
    <2>2. /\ afterMove(ticked, outcome) \in ChessGame
          /\ afterMove(ticked, outcome).state # "NotStarted"
      BY <1>2, <2>1, MoveType
    <2>3. submitMove(room, s, outcome) = updateRoomStateFromGame(
              [room EXCEPT !.game = afterMove(ticked, outcome)])
      BY <1>3 DEF submitMove
    <2>4. room.game.state # "NotStarted"
      BY <1>2, <2>1
    <2> QED
      BY <2>2, <2>3, <2>4, PlaysOn
  <1>4. CASE status = "GameRejected"
    <2>1. submitMove(room, s, outcome) = updateRoomStateFromGame(
              [room EXCEPT !.game = ticked])
      BY <1>4 DEF submitMove
    <2> QED
      BY <1>2, <2>1, PlaysOn
  <1>5. CASE status \notin {"Success", "GameRejected"}
    BY <1>5 DEF submitMove, Plays
  <1> QED
    BY <1>3, <1>4, <1>5

LEMMA TickPlays ==
    ASSUME NEW room, GoodRoom(room)
    PROVE  Plays(room, roomTick(room))
  <1> DEFINE ticked == gameTick(room.game)
  <1>1. room.game \in ChessGame
    BY DEF GoodRoom, Room
  <1>2. /\ ticked \in ChessGame
        /\ ticked.state = "NotStarted" <=> room.game.state = "NotStarted"
    BY <1>1, TickType
  <1>3. roomTick(room) = updateRoomStateFromGame([room EXCEPT !.game = ticked])
    BY DEF roomTick
  <1> QED
    BY <1>2, <1>3, PlaysOn

LEMMA RunOutPlays ==
    ASSUME NEW room, GoodRoom(room),
           NEW after, after = [room EXCEPT !.game.flagged = TRUE]
    PROVE  Plays(room, after)
  <1>1. /\ after.state = room.state
        /\ after.player1 = room.player1
        /\ after.player2 = room.player2
        /\ after.spectators = room.spectators
    BY Zenon DEF GoodRoom, Room
  <1> QED
    BY <1>1 DEF Plays

-----------------------------------------------------------------------------
(* What the lobby's steps ask, in the manager's terms *)

LEMMA OpenMeans ==
    ASSUME NEW g, NEW r,
           Place[g] = TheLobby!Nowhere,
           Phases[r] = "unused",
           Place' = [Place EXCEPT ![g] = [room |-> r, seat |-> "Player1"]],
           Phases' = [Phases EXCEPT ![r] = "waiting"],
           Results' = Results
    PROVE  TheLobby!Open(g, r)
  BY DEF TheLobby!Open, Place, Phases, Results

LEMMA WatchMeans ==
    ASSUME NEW g, NEW r,
           Place[g] = TheLobby!Nowhere,
           Phases[r] \in {"waiting", "playing"},
           Place' = [Place EXCEPT ![g] = [room |-> r, seat |-> "Spectator"]],
           Phases' = Phases,
           Results' = Results
    PROVE  TheLobby!Watch(g, r)
  BY DEF TheLobby!Watch, Place, Phases, Results

LEMMA SitDownMeans ==
    ASSUME NEW g, NEW r, NEW seat,
           Place[g] = TheLobby!Nowhere,
           Phases[r] = "waiting",
           ~TheLobby!taken(r, seat),
           Place' = [Place EXCEPT ![g] = [room |-> r, seat |-> seat]],
           \/ /\ ~TheLobby!taken(r, "Player1")
              /\ ~TheLobby!taken(r, "Player2")
              /\ Phases' = Phases
              /\ Results' = Results
           \/ /\ TheLobby!taken(r, "Player1") \/ TheLobby!taken(r, "Player2")
              /\ \/ /\ Phases' = [Phases EXCEPT ![r] = "playing"]
                    /\ Results' = Results
                 \/ /\ Phases' = [Phases EXCEPT ![r] = "over"]
                    /\ Results' = [Results EXCEPT ![r] = "BLACK"]
    PROVE  TheLobby!SitDown(g, r, seat)
  BY DEF TheLobby!SitDown, Place, Phases, Results

LEMMA EndMeans ==
    ASSUME NEW over, NEW winner,
           \A r \in over : Phases[r] = "playing",
           Phases' = [r \in 1..MaxRooms |->
                         IF r \in over THEN "over" ELSE Phases[r]],
           Results' = [r \in 1..MaxRooms |->
                          IF r \in over THEN winner[r] ELSE Results[r]],
           Place' = Place
    PROVE  TheLobby!End(over, winner)
  BY DEF TheLobby!End, Place, Phases, Results

LEMMA LeaveMeans ==
    ASSUME NEW g, NEW r, NEW seat,
           Place[g] = [room |-> r, seat |-> seat],
           Place[g] # TheLobby!Nowhere,
           Place' = [Place EXCEPT ![g] = TheLobby!Nowhere],
           Phases' = [Phases EXCEPT ![r] =
                         IF TheLobby!at(r) = {g} THEN "closed"
                         ELSE IF Phases[r] = "playing" /\ seat # "Spectator"
                              THEN "over" ELSE Phases[r]],
           Results' = [Results EXCEPT ![r] =
                          IF TheLobby!at(r) = {g} THEN "EMPTY"
                          ELSE IF Phases[r] = "playing" /\ seat # "Spectator"
                               THEN TheLobby!opponentColor(seat)
                               ELSE Results[r]]
    PROVE  TheLobby!Leave(g)
  <1>1. Place[g].room = r /\ Place[g].seat = seat
    OBVIOUS
  <1>2. Phases' = [Phases EXCEPT ![Place[g].room] =
                      IF TheLobby!at(Place[g].room) = {g} THEN "closed"
                      ELSE IF /\ Phases[Place[g].room] = "playing"
                              /\ Place[g].seat # "Spectator"
                           THEN "over" ELSE @]
    BY <1>1
  <1>3. Results' = [Results EXCEPT ![Place[g].room] =
                       IF TheLobby!at(Place[g].room) = {g} THEN "EMPTY"
                       ELSE IF /\ Phases[Place[g].room] = "playing"
                               /\ Place[g].seat # "Spectator"
                            THEN TheLobby!opponentColor(Place[g].seat) ELSE @]
    BY <1>1
  <1> QED
    BY <1>2, <1>3, Zenon DEF TheLobby!Leave, Place, Phases, Results

LEMMA ShutdownMeans ==
    ASSUME Place' = [s \in SessionID |-> TheLobby!Nowhere],
           Phases' = [r \in 1..MaxRooms |->
                         IF Phases[r] = "unused" THEN "unused" ELSE "closed"],
           Results' = [r \in 1..MaxRooms |-> "EMPTY"]
    PROVE  TheLobby!Shutdown
  BY DEF TheLobby!Shutdown, Place, Phases, Results

LEMMA NothingMeans ==
    ASSUME Place' = Place, Phases' = Phases, Results' = Results
    PROVE  UNCHANGED TheLobby!lobbyVars
  BY DEF TheLobby!lobbyVars, Place, Phases, Results

-----------------------------------------------------------------------------
(* The steps of the manager are steps of the lobby *)

LobbyStep == [TheLobby!LobbyNext]_(TheLobby!lobbyVars)

LEMMA Stutters ==
    ASSUME UNCHANGED rooms
    PROVE  LobbyStep
  BY Stutter, NothingMeans DEF LobbyStep

\* Who joins a room is in it, with the role it gives him; everybody else stays
\* where he is.
LEMMA Joined ==
    ASSUME Seen, Seen', NEW s \in SessionID, ~sessionAlreadyInRoom(s),
           NEW roomID \in DOMAIN m_roomIDToRoom,
           NEW room, room.state \in RoomState, s \in allSessionIDs(room),
           \A t \in SessionID \ {s} :
               roleOf(room, t) = roleOf(m_roomIDToRoom[roomID], t),
           m_roomIDToRoom' = withRoom(roomID, room),
           bindSessionToRoom(s, roomID), UNCHANGED m_nextRoomID
    PROVE  /\ Place[s] = TheLobby!Nowhere
           /\ Place' = [Place EXCEPT ![s] = [room |-> roomID,
                                             seat |-> roleOf(room, s)]]
           /\ Phases' = [Phases EXCEPT ![roomID] = phaseOf(room)]
           /\ Results' = [Results EXCEPT ![roomID] = room.game.winner]
  <1>1. /\ DOMAIN m_roomIDToRoom' = DOMAIN m_roomIDToRoom
        /\ \A r \in DOMAIN m_roomIDToRoom :
              m_roomIDToRoom'[r] =
                  IF r = roomID THEN room ELSE m_roomIDToRoom[r]
    BY DEF withRoom
  <1>2. /\ m_sessionIDToRoomID'[s] = roomID
        /\ \A t \in SessionID \ {s} :
              m_sessionIDToRoomID'[t] = m_sessionIDToRoomID[t]
    BY DEF Seen, Sound, MapsInv, bindSessionToRoom
  <1>3. lobbyPlace(s)' = [room |-> roomID, seat |-> roleOf(room, s)]
    BY <1>1, <1>2 DEF lobbyPlace, hasRoom, roomBySession
  <1>4. ASSUME NEW t \in SessionID \ {s}
        PROVE  lobbyPlace(t)' = lobbyPlace(t)
    <2>1. ASSUME sessionAlreadyInRoom(t)
          PROVE  m_sessionIDToRoomID[t] \in DOMAIN m_roomIDToRoom
      BY <2>1, Facts DEF hasRoom
    <2>2. sessionAlreadyInRoom(t) =>
              roleOf(m_roomIDToRoom'[m_sessionIDToRoomID[t]], t)
                = roleOf(m_roomIDToRoom[m_sessionIDToRoomID[t]], t)
      BY <1>1, <2>1
    <2> QED
      BY <1>2, <2>2, Elsewhere
  <1>5. Place' = [Place EXCEPT ![s] = [room |-> roomID,
                                       seat |-> roleOf(room, s)]]
    BY <1>3, <1>4, Moved
  <1> QED
    BY <1>5, Unbound, OneStored

LEMMA CreateIsOpen ==
    ASSUME Seen, Seen', NEW s \in SessionID, NEW config \in Configs,
           doRequestCreateRoom(s, config)
    PROVE  LobbyStep
  <1>1. CASE UNCHANGED rooms
    BY <1>1, Stutters
  <1>2. CASE /\ ~sessionAlreadyInRoom(s)
             /\ m_nextRoomID <= MaxRooms
             /\ m_nextRoomID' = m_nextRoomID + 1
             /\ m_roomIDToRoom' = withRoom(m_nextRoomID, newRoom(s, config))
             /\ bindSessionToRoom(s, m_nextRoomID)
    <2> DEFINE roomID == m_nextRoomID
               room == newRoom(s, config)
    <2>1. /\ roomID \in 1..MaxRooms
          /\ roomID \notin DOMAIN m_roomIDToRoom
          /\ roomID \in Nat
      BY <1>2, Facts
    <2>2. /\ DOMAIN m_roomIDToRoom' = DOMAIN m_roomIDToRoom \cup {roomID}
          /\ \A r \in DOMAIN m_roomIDToRoom' :
                m_roomIDToRoom'[r] =
                    IF r = roomID THEN room ELSE m_roomIDToRoom[r]
      BY <1>2 DEF withRoom
    <2>3. /\ m_sessionIDToRoomID'[s] = roomID
          /\ \A t \in SessionID \ {s} :
                m_sessionIDToRoomID'[t] = m_sessionIDToRoomID[t]
      BY <1>2 DEF Seen, Sound, MapsInv, bindSessionToRoom
    <2>4. lobbyPlace(s)' = [room |-> roomID, seat |-> "Player1"]
      <3>1. hasRoom(s)' /\ roomBySession(s)' = room
        BY <2>2, <2>3 DEF hasRoom, roomBySession
      <3> HIDE DEF room
      <3>2. roleOf(room, s) = "Player1"
        BY CreatorRole DEF room
      <3> QED
        BY <2>3, <3>1, <3>2 DEF lobbyPlace
    <2>5. ASSUME NEW t \in SessionID \ {s}
          PROVE  lobbyPlace(t)' = lobbyPlace(t)
      <3>1. ASSUME sessionAlreadyInRoom(t)
            PROVE  m_sessionIDToRoomID[t] \in DOMAIN m_roomIDToRoom
        BY <3>1, Facts DEF hasRoom
      <3>2. sessionAlreadyInRoom(t) =>
                roleOf(m_roomIDToRoom'[m_sessionIDToRoomID[t]], t)
                  = roleOf(m_roomIDToRoom[m_sessionIDToRoomID[t]], t)
        BY <2>1, <2>2, <3>1
      <3> QED
        BY <2>3, <3>2, Elsewhere
    <2>6. Place' = [Place EXCEPT ![s] = [room |-> roomID, seat |-> "Player1"]]
      BY <2>4, <2>5, Moved
    <2>7. ASSUME NEW r \in 1..MaxRooms
          PROVE  /\ lobbyPhase(r)' = IF r = roomID THEN "waiting"
                                     ELSE lobbyPhase(r)
                 /\ lobbyResult(r)' = lobbyResult(r)
      <3>1. CASE r = roomID
        <4>1. r \in DOMAIN m_roomIDToRoom' /\ m_roomIDToRoom'[r] = room
          BY <2>2, <3>1
        <4> HIDE DEF room
        <4>2. room.state = "WaitingForPlayers" /\ room.game.winner = "EMPTY"
          BY CreatorRole DEF room
        <4> QED
          BY <2>1, <3>1, <4>1, <4>2 DEF lobbyPhase, lobbyResult
      <3>2. CASE r # roomID /\ r \in DOMAIN m_roomIDToRoom
        <4>1. m_roomIDToRoom[r].state \in RoomState
          BY <3>2, Facts DEF GoodRoom, Room
        <4>2. r \in DOMAIN m_roomIDToRoom'
              /\ m_roomIDToRoom'[r] = m_roomIDToRoom[r]
          BY <2>2, <3>2
        <4> QED
          BY <3>2, <4>1, <4>2 DEF lobbyPhase, lobbyResult, RoomState
      <3>3. CASE r # roomID /\ r \notin DOMAIN m_roomIDToRoom
        <4>1. r \notin DOMAIN m_roomIDToRoom'
          BY <2>2, <3>3
        <4>2. r < m_nextRoomID' <=> r < m_nextRoomID
          BY <1>2, <2>1, <3>3
        <4> QED
          BY <3>3, <4>1, <4>2 DEF lobbyPhase, lobbyResult
      <3> QED
        BY <3>1, <3>2, <3>3
    <2>8. Phases' = [Phases EXCEPT ![roomID] = "waiting"]
      BY <2>1, <2>7 DEF Phases
    <2>9. Results' = Results
      BY <2>7 DEF Results
    <2>10. Place[s] = TheLobby!Nowhere /\ Phases[roomID] = "unused"
      BY <1>2, <2>1, Unbound DEF Phases, lobbyPhase
    <2>11. TheLobby!Open(s, roomID)
      BY <2>6, <2>8, <2>9, <2>10, OpenMeans
    <2> QED
      BY <2>1, <2>11 DEF LobbyStep, TheLobby!LobbyNext
  <1> QED
    BY <1>1, <1>2 DEF doRequestCreateRoom, refuse

LEMMA JoinIsWatchOrSitDown ==
    ASSUME Seen, Seen', NEW s \in SessionID, NEW roomID \in Nat,
           NEW spectator \in BOOLEAN, NEW password \in BOOLEAN,
           doRequestJoinRoom(s, roomID, spectator, password)
    PROVE  LobbyStep
  <1> DEFINE old == m_roomIDToRoom[roomID]
             room == joinAs(old, s, spectator)
  <1>1. CASE UNCHANGED rooms
    BY <1>1, Stutters
  <1>2. CASE /\ joins(s, roomID, spectator, password)
             /\ m_roomIDToRoom' = withRoom(roomID, room)
             /\ bindSessionToRoom(s, roomID)
             /\ UNCHANGED m_nextRoomID
    <2>1. /\ roomID \in DOMAIN m_roomIDToRoom
          /\ ~sessionAlreadyInRoom(s)
          /\ joinResult(old, s, spectator)
                 \in {"JoinedAsPlayer", "JoinedAsSpectator"}
      BY <1>2 DEF joins, joinAllowed
    <2>2. /\ roomID \in 1..MaxRooms
          /\ GoodRoom(old)
          /\ Judged(old)
      BY <2>1, Facts
    <2>3. Phases[roomID] = phaseOf(old) /\ Results[roomID] = old.game.winner
      BY <2>1, PhaseOf
    <2>4. /\ Phases = [Phases EXCEPT ![roomID] = Phases[roomID]]
          /\ Results = [Results EXCEPT ![roomID] = Results[roomID]]
      BY DEF Phases, Results
    <2>5. ASSUME room.state \in RoomState, s \in allSessionIDs(room),
                 \A t \in SessionID \ {s} : roleOf(room, t) = roleOf(old, t)
          PROVE  /\ Place[s] = TheLobby!Nowhere
                 /\ Place' = [Place EXCEPT ![s] = [room |-> roomID,
                                                   seat |-> roleOf(room, s)]]
                 /\ Phases' = [Phases EXCEPT ![roomID] = phaseOf(room)]
                 /\ Results' = [Results EXCEPT ![roomID] = room.game.winner]
      <3> HIDE DEF room
      <3> QED
        BY <1>2, <2>1, <2>5, Joined
    <2>6. CASE spectator
      <3>1. joinSpectatorResult(old, s) = "JoinedAsSpectator"
        BY <2>1, <2>6 DEF joinResult, joinSpectatorResult
      <3>2. room = joinSpectator(old, s)
        BY <2>6 DEF joinAs
      <3> HIDE DEF room
      <3>3. /\ old.state # "GameOver"
            /\ room.state = old.state
            /\ room.game = old.game
            /\ roleOf(room, s) = "Spectator"
            /\ \A t \in SessionID \ {s} : roleOf(room, t) = roleOf(old, t)
        BY <2>2, <3>1, <3>2, SpectatorRole
      <3>4. old.state \in {"WaitingForPlayers", "InProgress"}
        BY <2>2, <3>3 DEF GoodRoom, Room, RoomState
      <3>5. s \in allSessionIDs(room)
        BY <2>2, <3>1, <3>2, JoinSpectator
      <3>6. phaseOf(room) = phaseOf(old)
            /\ phaseOf(old) \in {"waiting", "playing"}
        BY <3>3, <3>4 DEF phaseOf
      <3>7. /\ Place[s] = TheLobby!Nowhere
            /\ Place' = [Place EXCEPT ![s] = [room |-> roomID,
                                              seat |-> "Spectator"]]
            /\ Phases' = [Phases EXCEPT ![roomID] = phaseOf(room)]
            /\ Results' = [Results EXCEPT ![roomID] = room.game.winner]
        BY <2>5, <3>3, <3>4, <3>5 DEF RoomState
      <3>8. Phases' = Phases /\ Results' = Results
        BY <2>3, <2>4, <3>3, <3>6, <3>7
      <3>9. TheLobby!Watch(s, roomID)
        BY <2>3, <3>6, <3>7, <3>8, WatchMeans
      <3> QED
        BY <2>2, <3>9 DEF LobbyStep, TheLobby!LobbyNext
    <2>7. CASE ~spectator
      <3> DEFINE seat == roleOf(room, s)
      <3>1. joinPlayerResult(old, s) = "JoinedAsPlayer"
        BY <2>1, <2>7 DEF joinResult, joinPlayerResult
      <3>2. room = joinPlayer(old, s)
        BY <2>7 DEF joinAs
      <3> HIDE DEF room
      <3>3. /\ old.state = "WaitingForPlayers"
            /\ seat = IF old.player1 = NoSession THEN "Player1" ELSE "Player2"
            /\ old.player1 # NoSession => old.player2 = NoSession
            /\ \A t \in SessionID \ {s} : roleOf(room, t) = roleOf(old, t)
            /\ IF old.player1 = NoSession /\ old.player2 = NoSession
               THEN room.state = old.state /\ room.game = old.game
               ELSE \/ room.state = "InProgress" /\ room.game.winner = "EMPTY"
                    \/ room.state = "GameOver" /\ room.game.winner = "BLACK"
        BY <2>2, <3>1, <3>2, PlayerRole
      <3>4. old.game.winner = "EMPTY"
        BY <2>2, <3>3, Shown DEF Judged, GameJudged
      <3>5. s \in allSessionIDs(room)
        BY <2>2, <3>1, <3>2, JoinPlayer
      <3>6. /\ TheLobby!taken(roomID, "Player1") <=> old.player1 # NoSession
            /\ TheLobby!taken(roomID, "Player2") <=> old.player2 # NoSession
        BY <2>1, Taken
      <3>7. phaseOf(old) = "waiting"
        BY <3>3 DEF phaseOf
      <3>8. /\ Place[s] = TheLobby!Nowhere
            /\ Place' = [Place EXCEPT ![s] = [room |-> roomID,
                                              seat |-> seat]]
            /\ Phases' = [Phases EXCEPT ![roomID] = phaseOf(room)]
            /\ Results' = [Results EXCEPT ![roomID] = room.game.winner]
        BY <2>5, <3>3, <3>5 DEF RoomState
      <3>9. CASE old.player1 = NoSession /\ old.player2 = NoSession
        <4>1. phaseOf(room) = phaseOf(old)
          BY <3>3, <3>9 DEF phaseOf
        <4>2. Phases' = Phases /\ Results' = Results
          BY <2>3, <2>4, <3>3, <3>8, <3>9, <4>1
        <4>3. /\ ~TheLobby!taken(roomID, "Player1")
              /\ ~TheLobby!taken(roomID, "Player2")
          BY <3>6, <3>9
        <4>4. seat = "Player1" /\ Phases[roomID] = "waiting"
          BY <2>3, <3>3, <3>7, <3>9
        <4> HIDE DEF seat
        <4>5. TheLobby!SitDown(s, roomID, seat)
          BY <3>8, <4>2, <4>3, <4>4, SitDownMeans
        <4> QED
          BY <2>2, <4>4, <4>5 DEF LobbyStep, TheLobby!LobbyNext
      <3>10. CASE ~(old.player1 = NoSession /\ old.player2 = NoSession)
        <4>1. \/ /\ phaseOf(room) = "playing"
                 /\ room.game.winner = Results[roomID]
              \/ phaseOf(room) = "over" /\ room.game.winner = "BLACK"
          BY <2>3, <3>3, <3>4, <3>10 DEF phaseOf
        <4>2. \/ /\ Phases' = [Phases EXCEPT ![roomID] = "playing"]
                 /\ Results' = Results
              \/ /\ Phases' = [Phases EXCEPT ![roomID] = "over"]
                 /\ Results' = [Results EXCEPT ![roomID] = "BLACK"]
          BY <2>4, <3>8, <4>1
        <4>3. ~TheLobby!taken(roomID, seat)
          BY <3>3, <3>6
        <4>4. TheLobby!taken(roomID, "Player1")
                \/ TheLobby!taken(roomID, "Player2")
          BY <3>6, <3>10
        <4> HIDE DEF seat
        <4>5. Phases[roomID] = "waiting"
          BY <2>3, <3>7
        <4>6. TheLobby!SitDown(s, roomID, seat)
          BY <3>8, <4>2, <4>3, <4>4, <4>5, SitDownMeans
        <4>7. seat \in {"Player1", "Player2"}
          BY <3>3
        <4> QED
          BY <2>2, <4>6, <4>7 DEF LobbyStep, TheLobby!LobbyNext
      <3> QED
        BY <3>9, <3>10
    <2> QED
      BY <2>6, <2>7
  <1> QED
    BY <1>1, <1>2 DEF doRequestJoinRoom, refuse

LEMMA LeaveIsLeave ==
    ASSUME Seen, Seen', NEW s \in SessionID, doRequestLeaveRoom(s)
    PROVE  LobbyStep
  <1> DEFINE roomID == m_sessionIDToRoomID[s]
             old == m_roomIDToRoom[roomID]
             room == leave(old, s)
             seat == roleOf(old, s)
  <1>1. CASE UNCHANGED rooms
    BY <1>1, Stutters
  <1>2. CASE /\ hasRoom(s)
             /\ contains(roomBySession(s), s)
             /\ m_roomIDToRoom' =
                    withRoomUnlessEmpty(roomID, leave(roomBySession(s), s))
             /\ unbindSessionFromRoom(s)
             /\ UNCHANGED m_nextRoomID
    <2>1. /\ roomID \in DOMAIN m_roomIDToRoom
          /\ contains(old, s)
          /\ m_roomIDToRoom' = withRoomUnlessEmpty(roomID, room)
      BY <1>2 DEF hasRoom, roomBySession
    <2>2. GoodRoom(old) /\ roomID \in 1..MaxRooms /\ roomID < m_nextRoomID
      BY <2>1, Facts
    <2>3. GoodRoom(room) /\ allSessionIDs(room) = allSessionIDs(old) \ {s}
      BY <2>1, <2>2, Leave
    <2>4. s \in allSessionIDs(old)
      BY <2>1, <2>2, SessionAssumption DEF contains, roleOf, allSessionIDs
    <2>5. /\ TheLobby!at(roomID) = allSessionIDs(old)
          /\ Place[s] = [room |-> roomID, seat |-> seat]
          /\ seat # "None"
      BY <2>1, <2>4, At, Bound
    <2>6. Place[s] # TheLobby!Nowhere
      BY <2>5 DEF TheLobby!Nowhere
    <2>7. /\ m_sessionIDToRoomID'[s] = NoRoom
          /\ \A t \in SessionID \ {s} :
                m_sessionIDToRoomID'[t] = m_sessionIDToRoomID[t]
      BY <1>2 DEF Seen, Sound, MapsInv, unbindSessionFromRoom,
                  bindSessionToRoom
    <2>8. IF old.state = "InProgress" /\ seat # "Spectator"
          THEN /\ room.state = "GameOver"
               /\ room.game.winner = TheLobby!opponentColor(seat)
          ELSE /\ room.state = old.state
               /\ room.game.winner = old.game.winner
      BY <2>1, <2>2, LeaverRole
    <2>9. \A t \in SessionID \ {s} : roleOf(room, t) = roleOf(old, t)
      BY <2>1, <2>2, LeaverRole
    <2>10. Phases[roomID] = phaseOf(old) /\ Results[roomID] = old.game.winner
      BY <2>1, PhaseOf
    <2>11. empty(room) <=> TheLobby!at(roomID) = {s}
      BY <2>3, <2>4, <2>5 DEF empty
    <2> HIDE DEF room, seat
    <2>12. CASE empty(room)
      <3>1. /\ DOMAIN m_roomIDToRoom' = DOMAIN m_roomIDToRoom \ {roomID}
            /\ \A r \in DOMAIN m_roomIDToRoom' :
                  m_roomIDToRoom'[r] = m_roomIDToRoom[r]
        BY <2>1, <2>12 DEF withRoomUnlessEmpty
      <3>2. lobbyPlace(s)' = TheLobby!Nowhere
        BY <2>7, <3>1, Facts DEF lobbyPlace, hasRoom, TheLobby!Nowhere,
                               NoRoom
      <3>3. ASSUME NEW t \in SessionID \ {s}
            PROVE  lobbyPlace(t)' = lobbyPlace(t)
        <4>1. ASSUME sessionAlreadyInRoom(t)
              PROVE  /\ m_sessionIDToRoomID[t] \in DOMAIN m_roomIDToRoom
                     /\ m_sessionIDToRoomID[t] # roomID
          BY <2>3, <2>12, <4>1
             DEF Seen, Sound, MapsInv, bindings, sessionAlreadyInRoom, empty
        <4>2. sessionAlreadyInRoom(t) =>
                  roleOf(m_roomIDToRoom'[m_sessionIDToRoomID[t]], t)
                    = roleOf(m_roomIDToRoom[m_sessionIDToRoomID[t]], t)
          BY <3>1, <4>1
        <4> QED
          BY <2>7, <4>2, Elsewhere
      <3>4. Place' = [Place EXCEPT ![s] = TheLobby!Nowhere]
        BY <3>2, <3>3, Moved
      <3>5. ASSUME NEW r \in 1..MaxRooms
            PROVE  /\ lobbyPhase(r)' = IF r = roomID THEN "closed"
                                       ELSE lobbyPhase(r)
                   /\ lobbyResult(r)' = IF r = roomID THEN "EMPTY"
                                        ELSE lobbyResult(r)
        <4>1. CASE r = roomID
          BY <1>2, <2>2, <3>1, <4>1 DEF lobbyPhase, lobbyResult
        <4>2. CASE r # roomID /\ r \in DOMAIN m_roomIDToRoom
          <5>1. m_roomIDToRoom[r].state \in RoomState
            BY <4>2, Facts DEF GoodRoom, Room
          <5> QED
            BY <3>1, <4>2, <5>1 DEF lobbyPhase, lobbyResult, RoomState
        <4>3. CASE r # roomID /\ r \notin DOMAIN m_roomIDToRoom
          BY <1>2, <3>1, <4>3 DEF lobbyPhase, lobbyResult
        <4> QED
          BY <4>1, <4>2, <4>3
      <3>6. /\ Phases' = [Phases EXCEPT ![roomID] = "closed"]
            /\ Results' = [Results EXCEPT ![roomID] = "EMPTY"]
        BY <3>5 DEF Phases, Results
      <3>7. TheLobby!Leave(s)
        BY <2>5, <2>6, <2>11, <2>12, <3>4, <3>6, LeaveMeans
      <3> QED
        BY <3>7 DEF LobbyStep, TheLobby!LobbyNext
    <2>13. CASE ~empty(room)
      <3>1. m_roomIDToRoom' = withRoom(roomID, room)
        BY <2>1, <2>13 DEF withRoomUnlessEmpty
      <3>2. /\ DOMAIN m_roomIDToRoom' = DOMAIN m_roomIDToRoom
            /\ \A r \in DOMAIN m_roomIDToRoom :
                  m_roomIDToRoom'[r] =
                      IF r = roomID THEN room ELSE m_roomIDToRoom[r]
        BY <2>1, <3>1 DEF withRoom
      <3>3. lobbyPlace(s)' = TheLobby!Nowhere
        BY <2>7, <3>2, Facts DEF lobbyPlace, hasRoom, TheLobby!Nowhere,
                               NoRoom
      <3>4. ASSUME NEW t \in SessionID \ {s}
            PROVE  lobbyPlace(t)' = lobbyPlace(t)
        <4>1. ASSUME sessionAlreadyInRoom(t)
              PROVE  m_sessionIDToRoomID[t] \in DOMAIN m_roomIDToRoom
          BY <4>1, Facts DEF hasRoom
        <4>2. sessionAlreadyInRoom(t) =>
                  roleOf(m_roomIDToRoom'[m_sessionIDToRoomID[t]], t)
                    = roleOf(m_roomIDToRoom[m_sessionIDToRoomID[t]], t)
          BY <2>9, <3>2, <4>1
        <4> QED
          BY <2>7, <4>2, Elsewhere
      <3>5. Place' = [Place EXCEPT ![s] = TheLobby!Nowhere]
        BY <3>3, <3>4, Moved
      <3>6. room.state \in RoomState /\ old.state \in RoomState
        BY <2>2, <2>3 DEF GoodRoom, Room
      <3>7. /\ Phases' = [Phases EXCEPT ![roomID] = phaseOf(room)]
            /\ Results' = [Results EXCEPT ![roomID] = room.game.winner]
        BY <1>2, <2>1, <3>1, <3>6, OneStored
      <3>8. phaseOf(old) = "playing" <=> old.state = "InProgress"
        BY <3>6 DEF phaseOf, RoomState
      <3>9. phaseOf(room) =
                IF phaseOf(old) = "playing" /\ seat # "Spectator" THEN "over"
                ELSE phaseOf(old)
        BY <2>8, <3>6, <3>8 DEF phaseOf, RoomState
      <3>10. room.game.winner =
                 IF phaseOf(old) = "playing" /\ seat # "Spectator"
                 THEN TheLobby!opponentColor(seat) ELSE old.game.winner
        BY <2>8, <3>8
      <3>11. TheLobby!Leave(s)
        BY <2>5, <2>6, <2>10, <2>11, <2>13, <3>5, <3>7, <3>9, <3>10, LeaveMeans
      <3> QED
        BY <3>11 DEF LobbyStep, TheLobby!LobbyNext
    <2> QED
      BY <2>12, <2>13
  <1> QED
    BY <1>1, <1>2 DEF doRequestLeaveRoom, refuse

\* Games that go on or end are the lobby's matches that do.
LEMMA PlayIsEnd ==
    ASSUME Seen, Sound', AllKept,
           UNCHANGED <<m_sessionIDToRoomID, m_nextRoomID>>,
           DOMAIN m_roomIDToRoom' = DOMAIN m_roomIDToRoom,
           \A r \in DOMAIN m_roomIDToRoom :
               Plays(m_roomIDToRoom[r], m_roomIDToRoom'[r])
    PROVE  LobbyStep
  <1>1. ASSUME NEW s \in SessionID
        PROVE  lobbyPlace(s)' = lobbyPlace(s)
    BY DEF lobbyPlace, hasRoom, roomBySession, roleOf, Plays
  <1>2. Place' = Place
    BY <1>1 DEF Place
  <1>3. ASSUME NEW r \in DOMAIN m_roomIDToRoom
        PROVE  LET old == m_roomIDToRoom[r]
                   new == m_roomIDToRoom'[r]
               IN  /\ {old.state, new.state} \subseteq RoomState
                   /\ {old.game.winner, new.game.winner} \subseteq COLOR
                   /\ old.state = "GameOver" =>
                         new.state = "GameOver" /\ new.game = old.game
                   /\ old.state # "GameOver" => old.game.winner = "EMPTY"
                   /\ new.state # "GameOver" => new.game.winner = "EMPTY"
                   /\ new.state = "WaitingForPlayers"
                         <=> old.state = "WaitingForPlayers"
    <2> DEFINE old == m_roomIDToRoom[r]
               new == m_roomIDToRoom'[r]
    <2>1. GoodRoom(old) /\ Judged(old)
      BY Facts
    <2>2. GoodRoom(new) /\ Judged(new) /\ Final(old, new)
      BY DEF Sound, MapsInv, goodRooms, AllKept, Kept
    <2>3. Plays(old, new)
      OBVIOUS
    <2> HIDE DEF old, new
    <2>4. /\ {old.state, new.state} \subseteq RoomState
          /\ {old.game.winner, new.game.winner} \subseteq COLOR
      BY <2>1, <2>2 DEF GoodRoom, Room, ChessGame
    <2>5. old.state = "GameOver" =>
              new.state = "GameOver" /\ new.game = old.game
      BY <2>1, <2>2, Shown DEF Final
    <2>6. /\ old.state # "GameOver" => old.game.winner = "EMPTY"
          /\ new.state # "GameOver" => new.game.winner = "EMPTY"
      BY <2>1, <2>2, Shown DEF Judged, GameJudged
    <2> QED
      BY <2>3, <2>4, <2>5, <2>6 DEF Plays, old, new
  <1>4. ASSUME NEW r \in 1..MaxRooms
        PROVE  \/ lobbyPhase(r)' = lobbyPhase(r)
                  /\ lobbyResult(r)' = lobbyResult(r)
               \/ /\ lobbyPhase(r) = "playing"
                  /\ lobbyPhase(r)' = "over"
                  /\ lobbyResult(r)' \in COLOR
    <2>1. CASE r \in DOMAIN m_roomIDToRoom
      <3> DEFINE old == m_roomIDToRoom[r]
                 new == m_roomIDToRoom'[r]
      <3>1. /\ old.state \in RoomState
            /\ new.state \in RoomState
            /\ new.game.winner \in COLOR
            /\ \/ new.state = old.state /\ new.game.winner = old.game.winner
               \/ old.state = "InProgress" /\ new.state = "GameOver"
        BY <1>3, <2>1 DEF RoomState
      <3>2. /\ lobbyPhase(r) = phaseOf(old)
            /\ lobbyPhase(r)' = phaseOf(new)
            /\ lobbyResult(r) = old.game.winner
            /\ lobbyResult(r)' = new.game.winner
        BY <2>1, <3>1 DEF lobbyPhase, lobbyResult, phaseOf, RoomState
      <3> HIDE DEF old, new
      <3> QED
        BY <3>1, <3>2 DEF phaseOf, RoomState
    <2>2. CASE r \notin DOMAIN m_roomIDToRoom
      BY <2>2 DEF lobbyPhase, lobbyResult
    <2> QED
      BY <2>1, <2>2
  <1> DEFINE ended == {r \in 1..MaxRooms : lobbyPhase(r) = "playing"
                                              /\ lobbyPhase(r)' = "over"}
  <1>5. PICK over : over = ended
    OBVIOUS
  <1>6. PICK winner : winner = [r \in over |-> lobbyResult(r)']
    OBVIOUS
  <1>7. /\ over \in SUBSET (1..MaxRooms)
        /\ winner \in [over -> {"WHITE", "BLACK", "EMPTY"}]
    <2>1. ASSUME NEW r \in over
          PROVE  lobbyResult(r)' \in {"WHITE", "BLACK", "EMPTY"}
      <3>1. /\ r \in 1..MaxRooms
            /\ lobbyPhase(r) = "playing"
            /\ lobbyPhase(r)' = "over"
        BY <1>5, <2>1
      <3>2. r \in DOMAIN m_roomIDToRoom
        BY <3>1 DEF lobbyPhase
      <3> QED
        BY <1>3, <3>2 DEF lobbyResult, COLOR
    <2>2. winner \in [over -> {"WHITE", "BLACK", "EMPTY"}]
      BY <1>6, <2>1
    <2> QED
      BY <1>5, <2>2
  <1>8. ASSUME NEW r \in 1..MaxRooms
        PROVE  /\ r \in over => lobbyPhase(r) = "playing"
               /\ lobbyPhase(r)' = IF r \in over THEN "over" ELSE lobbyPhase(r)
               /\ lobbyResult(r)' = IF r \in over THEN winner[r]
                                    ELSE lobbyResult(r)
    BY <1>4, <1>5, <1>6
  <1> HIDE DEF ended
  <1>9. /\ \A r \in over : Phases[r] = "playing"
        /\ Phases' = [r \in 1..MaxRooms |->
                         IF r \in over THEN "over" ELSE Phases[r]]
        /\ Results' = [r \in 1..MaxRooms |->
                          IF r \in over THEN winner[r] ELSE Results[r]]
    BY <1>7, <1>8 DEF Phases, Results
  <1>10. TheLobby!End(over, winner)
    BY <1>2, <1>9, EndMeans
  <1> QED
    BY <1>7, <1>10 DEF LobbyStep, TheLobby!LobbyNext

LEMMA MoveIsEnd ==
    ASSUME Seen, Sound', AllKept, NEW s \in SessionID, NEW outcome,
           doRequestMove(s, outcome)
    PROVE  LobbyStep
  <1> DEFINE roomID == m_sessionIDToRoomID[s]
             room == submitMove(roomBySession(s), s, outcome)
  <1>1. CASE UNCHANGED rooms
    BY <1>1, Stutters
  <1>2. CASE /\ hasRoom(s)
             /\ m_roomIDToRoom' = withRoom(roomID, room)
             /\ UNCHANGED <<m_sessionIDToRoomID, m_nextRoomID>>
    <2>1. /\ roomID \in DOMAIN m_roomIDToRoom
          /\ roomBySession(s) = m_roomIDToRoom[roomID]
      BY <1>2 DEF hasRoom, roomBySession
    <2>2. Plays(m_roomIDToRoom[roomID], room)
      BY <2>1, Facts, MovePlays
    <2> HIDE DEF room
    <2>3. /\ DOMAIN m_roomIDToRoom' = DOMAIN m_roomIDToRoom
          /\ \A r \in DOMAIN m_roomIDToRoom :
                m_roomIDToRoom'[r] =
                    IF r = roomID THEN room ELSE m_roomIDToRoom[r]
      BY <1>2, <2>1 DEF withRoom
    <2>4. \A r \in DOMAIN m_roomIDToRoom :
              Plays(m_roomIDToRoom[r], m_roomIDToRoom'[r])
      BY <2>2, <2>3 DEF Plays
    <2> QED
      BY <1>2, <2>3, <2>4, PlayIsEnd
  <1>3. \/ UNCHANGED rooms
        \/ /\ hasRoom(s)
           /\ m_roomIDToRoom' = withRoom(roomID, room)
           /\ UNCHANGED <<m_sessionIDToRoomID, m_nextRoomID>>
    BY Zenon DEF doRequestMove, refuse
  <1> QED
    BY <1>1, <1>2, <1>3

LEMMA ClockIsEnd ==
    ASSUME Seen, Sound', AllKept, NEW roomID \in Nat, ClockRunsOut(roomID)
    PROVE  LobbyStep
  <1> DEFINE old == m_roomIDToRoom[roomID]
             room == [old EXCEPT !.game.flagged = TRUE]
  <1>1. /\ roomID \in DOMAIN m_roomIDToRoom
        /\ m_roomIDToRoom' = withRoom(roomID, room)
        /\ UNCHANGED <<m_sessionIDToRoomID, m_nextRoomID>>
    BY DEF ClockRunsOut
  <1>2. Plays(old, room)
    BY <1>1, Facts, RunOutPlays
  <1> HIDE DEF room
  <1>3. /\ DOMAIN m_roomIDToRoom' = DOMAIN m_roomIDToRoom
        /\ \A r \in DOMAIN m_roomIDToRoom :
              m_roomIDToRoom'[r] =
                  IF r = roomID THEN room ELSE m_roomIDToRoom[r]
    BY <1>1 DEF withRoom
  <1>4. \A r \in DOMAIN m_roomIDToRoom :
            Plays(m_roomIDToRoom[r], m_roomIDToRoom'[r])
    BY <1>2, <1>3 DEF Plays
  <1> QED
    BY <1>1, <1>3, <1>4, PlayIsEnd

LEMMA TickIsEnd ==
    ASSUME Seen, Sound', AllKept, onTick
    PROVE  LobbyStep
  <1>1. UNCHANGED <<m_sessionIDToRoomID, m_nextRoomID>>
    BY DEF onTick
  <1>2. CASE UNCHANGED m_roomIDToRoom
    BY <1>1, <1>2, Stutters DEF rooms
  <1>3. CASE m_roomIDToRoom' = [r \in DOMAIN m_roomIDToRoom |->
                                   roomTick(m_roomIDToRoom[r])]
    <2>1. ASSUME NEW r \in DOMAIN m_roomIDToRoom
          PROVE  Plays(m_roomIDToRoom[r], roomTick(m_roomIDToRoom[r]))
      BY Facts, TickPlays
    <2>2. /\ DOMAIN m_roomIDToRoom' = DOMAIN m_roomIDToRoom
          /\ \A r \in DOMAIN m_roomIDToRoom :
                Plays(m_roomIDToRoom[r], m_roomIDToRoom'[r])
      BY <1>3, <2>1
    <2> QED
      BY <1>1, <2>2, PlayIsEnd
  <1> QED
    BY <1>2, <1>3 DEF onTick

\* The maps that start() clears are empty already.
LEMMA ClearIsNothing ==
    ASSUME Seen, startClear
    PROVE  LobbyStep
  <1>1. DOMAIN m_roomIDToRoom = {} /\ m_sessionIDToRoomID = noBindings
    BY DEF startClear, Seen, Sound, LifeInv, StarterFollowsState,
           NothingToClear
  <1>2. /\ m_roomIDToRoom' = m_roomIDToRoom
        /\ m_sessionIDToRoomID' = m_sessionIDToRoomID
        /\ m_nextRoomID' = m_nextRoomID
    <2>1. m_roomIDToRoom = [r \in {} |-> m_roomIDToRoom[r]]
      BY <1>1 DEF Seen, Sound, MapsInv, goodRooms
    <2>2. m_roomIDToRoom' = [r \in {} |-> newGame]
      BY DEF startClear, noRooms
    <2> QED
      BY <1>1, <2>1, <2>2 DEF startClear
  <1> QED
    BY <1>2, Stutters DEF rooms

LEMMA StopIsShutdown ==
    ASSUME Seen, doStop
    PROVE  LobbyStep
  <1>1. /\ DOMAIN m_roomIDToRoom' = {}
        /\ m_nextRoomID' = m_nextRoomID
    BY DEF doStop, noRooms
  <1>2. Place' = [s \in SessionID |-> TheLobby!Nowhere]
    BY <1>1 DEF Place, lobbyPlace, hasRoom, NoRoom, TheLobby!Nowhere
  <1>3. ASSUME NEW r \in 1..MaxRooms
        PROVE  /\ lobbyPhase(r)' = IF lobbyPhase(r) = "unused" THEN "unused"
                                   ELSE "closed"
               /\ lobbyResult(r)' = "EMPTY"
    <2>1. CASE r \in DOMAIN m_roomIDToRoom
      <3>1. r < m_nextRoomID /\ m_roomIDToRoom[r].state \in RoomState
        BY <2>1, Facts DEF GoodRoom, Room
      <3> QED
        BY <1>1, <2>1, <3>1 DEF lobbyPhase, lobbyResult, RoomState
    <2>2. CASE r \notin DOMAIN m_roomIDToRoom
      BY <1>1, <2>2 DEF lobbyPhase, lobbyResult
    <2> QED
      BY <2>1, <2>2
  <1>4. /\ Phases' = [r \in 1..MaxRooms |->
                         IF Phases[r] = "unused" THEN "unused" ELSE "closed"]
        /\ Results' = [r \in 1..MaxRooms |-> "EMPTY"]
    BY <1>3 DEF Phases, Results
  <1>5. TheLobby!Shutdown
    BY <1>2, <1>4, ShutdownMeans
  <1> QED
    BY <1>5 DEF LobbyStep, TheLobby!LobbyNext

LEMMA NextSeen ==
    ASSUME Seen, [Next]_vars
    PROVE  Seen'
  <1>1. Sound'
    BY NextSound DEF Seen
  <1>2. AllJudged'
    BY NextKeeps DEF Seen, AllKept, Kept, AllJudged
  <1>3. m_nextRoomID' = m_nextRoomID
          \/ (m_nextRoomID <= MaxRooms /\ m_nextRoomID' = m_nextRoomID + 1)
    BY DEF Next, Requests, doRequestCreateRoom, doRequestJoinRoom,
           doRequestListRooms, doRequestLeaveRoom, doRequestMove,
           doRequestGameChat, refuse, ClockRunsOut, TickExpires, onTick,
           start, startClear, startSchedule, stop, doStop, vars, rooms
  <1>4. Numbered'
    BY <1>3, Facts DEF Seen, Numbered
  <1> QED
    BY <1>1, <1>2, <1>4 DEF Seen

LEMMA NextIsLobbyStep ==
    ASSUME Seen, [Next]_vars
    PROVE  LobbyStep
  <1>1. Seen' /\ Sound' /\ AllKept
    BY NextSeen, NextKeeps DEF Seen
  <1>2. CASE Requests
    <2> PICK s \in SessionID :
            \/ \E config \in Configs : doRequestCreateRoom(s, config)
            \/ \E r \in 1..MaxRooms, spectator, password \in BOOLEAN :
                   doRequestJoinRoom(s, r, spectator, password)
            \/ doRequestListRooms(s)
            \/ doRequestLeaveRoom(s)
            \/ \E outcome \in MoveOutcome : doRequestMove(s, outcome)
            \/ doRequestGameChat(s)
      BY <1>2 DEF Requests
    <2>1. CASE \E config \in Configs : doRequestCreateRoom(s, config)
      BY <1>1, <2>1, CreateIsOpen
    <2>2. CASE \E r \in 1..MaxRooms, spectator, password \in BOOLEAN :
                  doRequestJoinRoom(s, r, spectator, password)
      BY <1>1, <2>2, JoinIsWatchOrSitDown, BoundsAssumption
    <2>3. CASE doRequestListRooms(s)
      BY <2>3, Stutters DEF doRequestListRooms
    <2>4. CASE doRequestLeaveRoom(s)
      BY <1>1, <2>4, LeaveIsLeave
    <2>5. CASE \E outcome \in MoveOutcome : doRequestMove(s, outcome)
      BY <1>1, <2>5, MoveIsEnd
    <2>6. CASE doRequestGameChat(s)
      BY <2>6, Stutters DEF doRequestGameChat, refuse
    <2> QED
      BY <2>1, <2>2, <2>3, <2>4, <2>5, <2>6
  <1>3. CASE \E r \in 1..MaxRooms : ClockRunsOut(r)
    BY <1>1, <1>3, ClockIsEnd, BoundsAssumption
  <1>4. CASE onTick
    BY <1>1, <1>4, TickIsEnd
  <1>5. CASE TickExpires \/ start \/ startSchedule \/ stop \/ UNCHANGED vars
    BY <1>5, Stutters DEF TickExpires, start, startSchedule, stop, vars
  <1>6. CASE startClear
    BY <1>6, ClearIsNothing
  <1>7. CASE doStop
    BY <1>7, StopIsShutdown
  <1> QED
    BY <1>2, <1>3, <1>4, <1>5, <1>6, <1>7 DEF Next

LEMMA InitIsLobbyInit ==
    ASSUME Init
    PROVE  Seen /\ TheLobby!LobbyInit
  <1>1. DOMAIN m_roomIDToRoom = {} /\ m_nextRoomID = 1
    BY DEF Init, noRooms
  <1>2. Seen
    BY <1>1, InitSound, BoundsAssumption DEF Seen, AllJudged, Numbered
  <1>3. /\ \A s \in SessionID : lobbyPlace(s) = TheLobby!Nowhere
        /\ \A r \in 1..MaxRooms : /\ lobbyPhase(r) = "unused"
                                  /\ lobbyResult(r) = "EMPTY"
    BY <1>1, BoundsAssumption
       DEF lobbyPlace, lobbyPhase, lobbyResult, hasRoom, NoRoom,
           TheLobby!Nowhere
  <1> QED
    BY <1>2, <1>3 DEF TheLobby!LobbyInit

\* The manager's maps, requests, clocks, ticks, starts and stops are a lobby:
\* everybody is in one place at a time, a match starts with its second player,
\* ends once with a winner the lobby allows, and a closed room stays closed
\* (GameManager.cpp:76-383).
THEOREM ImplementsTheLobby == Spec => ImplementsLobby
  <1>1. Init => Seen /\ TheLobby!LobbyInit
    BY InitIsLobbyInit
  <1>2. Seen /\ [Next]_vars => Seen'
    BY NextSeen
  <1>3. Seen /\ [Next]_vars => [TheLobby!LobbyNext]_(TheLobby!lobbyVars)
    BY NextIsLobbyStep DEF LobbyStep
  <1> QED
    BY <1>1, <1>2, <1>3, PTL DEF Spec, ImplementsLobby, TheLobby!LobbySpec
===========================================================================
