---------------------------- MODULE GameManager ----------------------------
(***************************************************************************)
(* The server's game manager (GameManager.cpp): the two maps it keeps, the *)
(* requests it serves, its 250 ms tick and its start and stop.             *)
(*                                                                         *)
(* Every doRequest* handler, onTick and the body of stop run on one asio   *)
(* strand, so each is one atomic step.  start and the first half of stop   *)
(* run on the caller's thread and interleave with the strand.  A request   *)
(* may come from any session at any time: sessions post them from their    *)
(* own strands, before, between and after the manager's starts and stops.  *)
(* A handler that finds the manager not RUNNING returns at once; that      *)
(* changes nothing and is the stuttering step.                             *)
(*                                                                         *)
(* What a handler sends is left in reply and updates: it first answers the *)
(* session that asked, then broadcasts a GameUpdate to the members of each *)
(* room in updates, built from the state the step ends in.                 *)
(***************************************************************************)
EXTENDS GameRoom

CONSTANTS
    MaxRooms,        \* bound: rooms created over a behaviour
    MaxRoomVersion,  \* bound: a room this old accepts no more joins
    MaxGameVersion,  \* bound: a game this old is sent no more moves
    MaxReadyTicks    \* bound: expired ticks waiting for the strand

ASSUME BoundsAssumption ==
    {MaxRooms, MaxRoomVersion, MaxGameVersion, MaxReadyTicks} \subseteq Nat

VARIABLES
    m_state,              \* LifecycleState of the manager
    starter,              \* how far the thread in start() has got
    m_roomIDToRoom,       \* the rooms, a function on the ids in use
    m_sessionIDToRoomID,  \* the room a session is bound to, NoRoom for none
    m_nextRoomID,
    tickPending,          \* the tick timer has an async_wait outstanding
    ticksReady,           \* expired waits whose handler is on the strand
    reply,                \* the answer the last handler sent, or NoReply
    updates               \* the rooms the last handler sent a GameUpdate of

rooms == <<m_roomIDToRoom, m_sessionIDToRoomID, m_nextRoomID>>
timer == <<tickPending, ticksReady>>
lifecycle == <<m_state, starter>>
sent == <<reply, updates>>
vars == <<lifecycle, rooms, timer, sent>>

RoomID == Nat \ {0}
NoRoom == 0

LifecycleState == {"STOPPED", "STARTING", "RUNNING", "STOPPING"}
ReplyType ==
    {"None", "CreateRoomResponse", "JoinRoomResponse", "ListRoomsResponse",
     "LeaveRoomResponse", "ErrorMessage", "Chat"}

\* A chat is sent to every member of the room roomID, the rest to one session.
\* rooms lists what a ListRoomsResponse shows.
Reply ==
    [type : ReplyType, to : Seats, success : BOOLEAN, roomID : Nat,
     color : COLOR, rooms : SUBSET RoomID]

NoReply ==
    [type |-> "None", to |-> NoSession, success |-> FALSE,
     roomID |-> NoRoom, color |-> "EMPTY", rooms |-> {}]

response(type, s, success, roomID, color) ==
    [type |-> type, to |-> s, success |-> success, roomID |-> roomID,
     color |-> color, rooms |-> {}]

noRooms == [r \in {} |-> newGame]
noBindings == [s \in SessionID |-> NoRoom]

Init ==
    /\ m_state = "STOPPED"
    /\ starter = "idle"
    /\ m_roomIDToRoom = noRooms
    /\ m_sessionIDToRoomID = noBindings
    /\ m_nextRoomID = 1
    /\ tickPending = FALSE
    /\ ticksReady = 0
    /\ reply = NoReply
    /\ updates = {}

-----------------------------------------------------------------------------
(* Room and ID helpers *)

sessionAlreadyInRoom(s) == m_sessionIDToRoomID[s] # NoRoom

\* roomBySession returns nullptr unless this holds.
hasRoom(s) == m_sessionIDToRoomID[s] \in DOMAIN m_roomIDToRoom

roomBySession(s) == m_roomIDToRoom[m_sessionIDToRoomID[s]]

bindSessionToRoom(s, roomID) ==
    m_sessionIDToRoomID' = [m_sessionIDToRoomID EXCEPT ![s] = roomID]

\* Mutant: whoever leaves stays bound.
stayBound(s) == UNCHANGED m_sessionIDToRoomID

unbindSessionFromRoom(s) == bindSessionToRoom(s, NoRoom)

\* The map with room stored under roomID.
withRoom(roomID, room) ==
    [r \in DOMAIN m_roomIDToRoom \cup {roomID} |->
        IF r = roomID THEN room ELSE m_roomIDToRoom[r]]

\* withRoom, followed by removeRoomIfEmpty.
withRoomUnlessEmpty(roomID, room) ==
    IF empty(room)
    THEN [r \in DOMAIN m_roomIDToRoom \ {roomID} |-> m_roomIDToRoom[r]]
    ELSE withRoom(roomID, room)

nothingSent == reply' = NoReply /\ updates' = {}

refuse(type, s, roomID) ==
    /\ reply' = response(type, s, FALSE, roomID, "EMPTY")
    /\ updates' = {}
    /\ UNCHANGED rooms

\* Mutant: handlers do not look at the state.
anyState == UNCHANGED <<lifecycle, timer>>

onStrand ==
    /\ m_state = "RUNNING"
    /\ UNCHANGED <<lifecycle, timer>>

-----------------------------------------------------------------------------
(* Requests *)

doRequestCreateRoom(s, config) ==
    /\ onStrand
    /\ \/ /\ sessionAlreadyInRoom(s)
          /\ refuse("CreateRoomResponse", s, NoRoom)
       \/ /\ ~sessionAlreadyInRoom(s)
          /\ m_nextRoomID <= MaxRooms
          /\ m_nextRoomID' = m_nextRoomID + 1
          /\ m_roomIDToRoom' = withRoom(m_nextRoomID, newRoom(s, config))
          /\ bindSessionToRoom(s, m_nextRoomID)
          /\ reply' = response("CreateRoomResponse", s, TRUE, m_nextRoomID,
                               "WHITE")
          /\ updates' = {m_nextRoomID}

\* The checks doRequestJoinRoom makes before it asks the room; password tells
\* whether the one the client sent is the room's.
joinAllowed(s, roomID, spectator, password) ==
    /\ ~sessionAlreadyInRoom(s)
    /\ roomID \in DOMAIN m_roomIDToRoom
    /\ LET room == m_roomIDToRoom[roomID]
       IN  /\ room.config.password => password
           /\ spectator =>
                 /\ room.config.allowSpectators
                 /\ \/ room.config.allowMidgameJoin
                    \/ room.state # "InProgress"
                 /\ \/ room.config.maxSpectators = 0
                    \/ Cardinality(room.spectators)
                           < room.config.maxSpectators

joinAs(room, s, spectator) ==
    IF spectator THEN joinSpectator(room, s) ELSE joinPlayer(room, s)

joinResult(room, s, spectator) ==
    IF spectator THEN joinSpectatorResult(room, s)
    ELSE joinPlayerResult(room, s)

joins(s, roomID, spectator, password) ==
    /\ joinAllowed(s, roomID, spectator, password)
    /\ joinResult(m_roomIDToRoom[roomID], s, spectator)
           \in {"JoinedAsPlayer", "JoinedAsSpectator"}

doRequestJoinRoom(s, roomID, spectator, password) ==
    /\ onStrand
    /\ \/ /\ ~joins(s, roomID, spectator, password)
          /\ refuse("JoinRoomResponse", s, roomID)
       \/ /\ joins(s, roomID, spectator, password)
          /\ m_roomIDToRoom[roomID].roomVersion < MaxRoomVersion
          /\ LET room == joinAs(m_roomIDToRoom[roomID], s, spectator)
             IN  /\ m_roomIDToRoom' = withRoom(roomID, room)
                 /\ reply' = response("JoinRoomResponse", s, TRUE, roomID,
                                      colorOf(room, s))
          /\ bindSessionToRoom(s, roomID)
          /\ updates' = {roomID}
          /\ UNCHANGED m_nextRoomID

doRequestListRooms(s) ==
    /\ onStrand
    /\ reply' = [response("ListRoomsResponse", s, TRUE, NoRoom, "EMPTY")
                    EXCEPT !.rooms =
                        {r \in DOMAIN m_roomIDToRoom :
                            /\ m_roomIDToRoom[r].config.visibleInLobby
                            /\ m_roomIDToRoom[r].state # "GameOver"}]
    /\ updates' = {}
    /\ UNCHANGED rooms

doRequestLeaveRoom(s) ==
    /\ onStrand
    /\ \/ /\ hasRoom(s) => ~contains(roomBySession(s), s)
          /\ refuse("LeaveRoomResponse", s,
                    IF hasRoom(s) THEN m_sessionIDToRoomID[s] ELSE NoRoom)
       \/ /\ hasRoom(s)
          /\ contains(roomBySession(s), s)
          /\ LET roomID == m_sessionIDToRoomID[s]
                 room == leave(roomBySession(s), s)
             IN  /\ m_roomIDToRoom' = withRoomUnlessEmpty(roomID, room)
                 /\ reply' = response("LeaveRoomResponse", s, TRUE, roomID,
                                      "EMPTY")
                 /\ updates' = IF empty(room) THEN {} ELSE {roomID}
          /\ unbindSessionFromRoom(s)
          /\ UNCHANGED m_nextRoomID

\* A refused move stores the room too: it may have ticked its game.
doRequestMove(s, outcome) ==
    /\ onStrand
    /\ \/ /\ ~hasRoom(s)
          /\ refuse("ErrorMessage", s, NoRoom)
       \/ /\ hasRoom(s)
          /\ roomBySession(s).game.version < MaxGameVersion
          /\ LET roomID == m_sessionIDToRoomID[s]
                 room == roomBySession(s)
             IN  /\ m_roomIDToRoom' =
                        withRoom(roomID, submitMove(room, s, outcome))
                 /\ IF submitMoveStatus(room, s, outcome) = "Success"
                    THEN reply' = NoReply /\ updates' = {roomID}
                    ELSE /\ reply' = response("ErrorMessage", s, FALSE,
                                              NoRoom, "EMPTY")
                         /\ updates' = {}
          /\ UNCHANGED <<m_sessionIDToRoomID, m_nextRoomID>>

doRequestGameChat(s) ==
    /\ onStrand
    /\ \/ /\ ~hasRoom(s)
          /\ refuse("ErrorMessage", s, NoRoom)
       \/ /\ hasRoom(s)
          /\ roleOf(roomBySession(s), s) = "Spectator"
          /\ ~roomBySession(s).config.spectatorsCanChat
          /\ refuse("ErrorMessage", s, NoRoom)
       \/ /\ hasRoom(s)
          /\ \/ roleOf(roomBySession(s), s) # "Spectator"
             \/ roomBySession(s).config.spectatorsCanChat
          /\ reply' = response("Chat", s, TRUE, m_sessionIDToRoomID[s],
                               "EMPTY")
          /\ updates' = {}
          /\ UNCHANGED rooms

-----------------------------------------------------------------------------
(* Time *)

\* External: the clock of the side to move runs out.
ClockRunsOut(roomID) ==
    /\ roomID \in DOMAIN m_roomIDToRoom
    /\ LET room == m_roomIDToRoom[roomID]
       IN  /\ room.config.clock # "disabled"
           /\ room.game.state = "InProgress"
           /\ ~room.game.flagged
           /\ m_roomIDToRoom' =
                  withRoom(roomID, [room EXCEPT !.game.flagged = TRUE])
    /\ nothingSent
    /\ UNCHANGED <<lifecycle, timer, m_sessionIDToRoomID, m_nextRoomID>>

\* External: TICK_INTERVAL has passed, asio posts the wait's handler.
TickExpires ==
    /\ tickPending
    /\ ticksReady < MaxReadyTicks
    /\ tickPending' = FALSE
    /\ ticksReady' = ticksReady + 1
    /\ nothingSent
    /\ UNCHANGED <<lifecycle, rooms>>

\* Mutant: the tick compares the version of the seats.
seatsChanged(before, after) == after.roomVersion # before.roomVersion

\* What onTick compares to decide whether to broadcast a room.
announced(before, after) ==
    \/ after.game.version # before.game.version
    \/ after.state # before.state

\* scheduleTick: expires_after cancels a wait still outstanding, so there is
\* one wait afterwards whatever there was before.
onTick ==
    /\ ticksReady > 0
    /\ ticksReady' = ticksReady - 1
    /\ reply' = NoReply
    /\ \/ /\ m_state # "RUNNING"
          /\ updates' = {}
          /\ UNCHANGED <<tickPending, m_roomIDToRoom>>
       \/ /\ m_state = "RUNNING"
          /\ tickPending' = TRUE
          /\ m_roomIDToRoom' = [r \in DOMAIN m_roomIDToRoom |->
                                   roomTick(m_roomIDToRoom[r])]
          /\ updates' = {r \in DOMAIN m_roomIDToRoom :
                            announced(m_roomIDToRoom[r],
                                      roomTick(m_roomIDToRoom[r]))}
    /\ UNCHANGED <<lifecycle, m_sessionIDToRoomID, m_nextRoomID>>

-----------------------------------------------------------------------------
(* Lifecycle.  start and stop are called by one thread, one after another. *)

start ==
    /\ starter = "idle"
    /\ m_state = "STOPPED"
    /\ m_state' = "STARTING"
    /\ starter' = "clearing"
    /\ nothingSent
    /\ UNCHANGED <<rooms, timer>>

startClear ==
    /\ starter = "clearing"
    /\ m_roomIDToRoom' = noRooms
    /\ m_sessionIDToRoomID' = noBindings
    /\ m_state' = "RUNNING"
    /\ starter' = "scheduling"
    /\ nothingSent
    /\ UNCHANGED <<m_nextRoomID, timer>>

\* Mutant: a start relies on the tick of the run before it.
startWithoutTick ==
    /\ starter = "scheduling"
    /\ starter' = "idle"
    /\ nothingSent
    /\ UNCHANGED <<m_state, rooms, timer>>

startSchedule ==
    /\ starter = "scheduling"
    /\ tickPending' = (tickPending \/ m_state = "RUNNING")
    /\ starter' = "idle"
    /\ nothingSent
    /\ UNCHANGED <<m_state, rooms, ticksReady>>

stop ==
    /\ starter = "idle"
    /\ m_state = "RUNNING"
    /\ m_state' = "STOPPING"
    /\ nothingSent
    /\ UNCHANGED <<starter, rooms, timer>>

\* The part of stop that is dispatched to the strand.
doStop ==
    /\ m_state = "STOPPING"
    /\ m_state' = "STOPPED"
    /\ tickPending' = FALSE
    /\ m_roomIDToRoom' = noRooms
    /\ m_sessionIDToRoomID' = noBindings
    /\ nothingSent
    /\ UNCHANGED <<starter, m_nextRoomID, ticksReady>>

-----------------------------------------------------------------------------
Requests ==
    \E s \in SessionID :
        \/ \E config \in Configs : doRequestCreateRoom(s, config)
        \/ \E r \in 1..MaxRooms, spectator, password \in BOOLEAN :
               doRequestJoinRoom(s, r, spectator, password)
        \/ doRequestListRooms(s)
        \/ doRequestLeaveRoom(s)
        \/ \E outcome \in MoveOutcome : doRequestMove(s, outcome)
        \/ doRequestGameChat(s)

Next ==
    \/ Requests
    \/ \E r \in 1..MaxRooms : ClockRunsOut(r)
    \/ TickExpires
    \/ onTick
    \/ start
    \/ startClear
    \/ startSchedule
    \/ stop
    \/ doStop

Spec == Init /\ [][Next]_vars

\* The io threads keep running what is posted to the strand and expiring
\* timers, and a thread inside start() returns.  Nobody has to send a request,
\* let a clock run out, or start or stop the manager.
Fairness ==
    /\ WF_vars(TickExpires)
    /\ WF_vars(onTick)
    /\ WF_vars(doStop)
    /\ WF_vars(startClear)
    /\ WF_vars(startSchedule)

FairSpec == Spec /\ Fairness

-----------------------------------------------------------------------------
(* Properties *)

TypeOK ==
    /\ m_state \in LifecycleState
    /\ starter \in {"idle", "clearing", "scheduling"}
    /\ DOMAIN m_roomIDToRoom \subseteq RoomID
    /\ m_roomIDToRoom \in [DOMAIN m_roomIDToRoom -> Room]
    /\ m_sessionIDToRoomID \in [SessionID -> Nat]
    /\ m_nextRoomID \in RoomID
    /\ tickPending \in BOOLEAN
    /\ ticksReady \in Nat
    /\ reply \in Reply
    /\ updates \subseteq RoomID

\* The two maps agree: a session is bound to a room exactly when it sits or
\* watches in it.  So a session is in one room at most, no room keeps a member
\* that the manager has forgotten, and roomBySession never returns nullptr for
\* a bound session (GameManager.cpp:477-495 against GameRoom.cpp:128-183).
BindingMatchesMembership ==
    /\ \A s \in SessionID :
          sessionAlreadyInRoom(s) =>
              hasRoom(s) /\ s \in allSessionIDs(roomBySession(s))
    /\ \A r \in DOMAIN m_roomIDToRoom :
          \A s \in allSessionIDs(m_roomIDToRoom[r]) :
              m_sessionIDToRoomID[s] = r

\* A room whose last member left is gone (removeRoomIfEmpty), so rooms do not
\* pile up in a server whose players come and go.
NoEmptyRooms == \A r \in DOMAIN m_roomIDToRoom : ~empty(m_roomIDToRoom[r])

\* In every room a session holds one place, the state the room shows is the
\* one of its game, and the game is played exactly while both seats are taken:
\* it starts with the second player and never outlives the leaving of one
\* (GameRoom.cpp:128-183, 232-255).
RoomsFollowGames ==
    \A r \in DOMAIN m_roomIDToRoom :
        /\ OnePlace(m_roomIDToRoom[r])
        /\ RoomFollowsGame(m_roomIDToRoom[r])

\* In every room, how the game ended agrees with who won it and with who still
\* sits there: the mated or flagged side loses, a draw has no winner, no flag
\* falls in a game without clocks, and the seat of a player who resigned stays
\* empty (ChessGame.cpp:271-286, 407-441 under GameRoom.cpp:156-226).
VerdictsAreSound ==
    \A r \in DOMAIN m_roomIDToRoom : VerdictIsSound(m_roomIDToRoom[r])

\* The maps are empty whenever start() clears them from outside the strand
\* (GameManager.cpp:84-85, maps marked "Strand Owned" at GameManager.hpp:108):
\* the clear loses no room, and no handler is using what it clears.
NothingToClear ==
    m_state \in {"STOPPED", "STARTING"} =>
        DOMAIN m_roomIDToRoom = {} /\ m_sessionIDToRoomID = noBindings

\* Once start() has returned, a running manager always has its next tick on
\* the way, through stops and restarts that overtake a tick already expired.
NextTickIsOnItsWay ==
    m_state = "RUNNING" /\ starter = "idle" => tickPending \/ ticksReady > 0

\* The result of a finished game is final: no request and no tick changes its
\* winner, reason or version, and nobody sits down in its room again.
ResultIsFinal ==
    [][\A r \in DOMAIN m_roomIDToRoom \cap DOMAIN m_roomIDToRoom' :
          m_roomIDToRoom[r].state = "GameOver" =>
              /\ m_roomIDToRoom'[r].game = m_roomIDToRoom[r].game
              /\ allSessionIDs(m_roomIDToRoom'[r])
                     \subseteq allSessionIDs(m_roomIDToRoom[r])]_vars

\* What a GameUpdate shows of a room.
shown(room) == [room EXCEPT !.game.flagged = FALSE]

\* Whatever changes in a room is broadcast to its members by the handler that
\* changed it, with one exception: a timeout found while a move is refused.
\* The mover then gets an error (GameManager.cpp:295-297 ignores stateChanged)
\* and onTick, which compares against the version already raised, sends
\* nothing either.
ChangesAreBroadcast ==
    [][\A r \in DOMAIN m_roomIDToRoom \cap DOMAIN m_roomIDToRoom' :
          shown(m_roomIDToRoom'[r]) # shown(m_roomIDToRoom[r]) =>
              \/ r \in updates'
              \/ /\ reply'.type = "ErrorMessage"
                 /\ m_roomIDToRoom[r].game.flagged
                 /\ m_roomIDToRoom'[r] = roomTick(m_roomIDToRoom[r])]_vars

\* A GameUpdate only goes to sessions that already know they are in its room:
\* bound to it before the step, or told so by the answer sent just before.  A
\* client that gets one for another room drops its connection
\* (MultiplayerClient.cpp:917-920).
UpdatesReachTheInformed ==
    [][\A r \in updates' :
          /\ r \in DOMAIN m_roomIDToRoom'
          /\ \A s \in allSessionIDs(m_roomIDToRoom'[r]) :
                \/ m_sessionIDToRoomID[s] = r
                \/ /\ reply'.type \in {"CreateRoomResponse",
                                       "JoinRoomResponse"}
                   /\ reply'.to = s
                   /\ reply'.success
                   /\ reply'.roomID = r
                   /\ reply'.color = colorOf(m_roomIDToRoom'[r], s)]_vars

\* A player whose time has run out loses at the latest at a later tick, unless
\* the game ends or its room or the manager goes away before.
flaggedGame(r) ==
    /\ r \in DOMAIN m_roomIDToRoom
    /\ m_roomIDToRoom[r].state = "InProgress"
    /\ m_roomIDToRoom[r].game.flagged

TimeoutsAreEnforced ==
    \A r \in 1..MaxRooms : flaggedGame(r) ~> ~flaggedGame(r)

(* The inductive invariant the safety proofs rest on: the properties above    *)
(* need each other, room ids below the counter, and how the two threads that  *)
(* move m_state follow each other.                                            *)

IDsBelowCounter == \A r \in DOMAIN m_roomIDToRoom : r < m_nextRoomID

StarterFollowsState ==
    /\ starter = "clearing" <=> m_state = "STARTING"
    /\ starter = "scheduling" => m_state = "RUNNING"

IInv ==
    /\ TypeOK
    /\ BindingMatchesMembership
    /\ NoEmptyRooms
    /\ RoomsFollowGames
    /\ NothingToClear
    /\ NextTickIsOnItsWay
    /\ IDsBelowCounter
    /\ StarterFollowsState

-----------------------------------------------------------------------------
(* The manager implements the lobby.  Where a guest is comes from the binding *)
(* and from the room's seats together, so the two maps must agree for a step  *)
(* of one to be a step of the other.                                          *)

lobbyPlace(s) ==
    IF hasRoom(s)
    THEN [room |-> m_sessionIDToRoomID[s], seat |-> roleOf(roomBySession(s), s)]
    ELSE [room |-> NoRoom, seat |-> "None"]

lobbyPhase(r) ==
    IF r \in DOMAIN m_roomIDToRoom
    THEN CASE m_roomIDToRoom[r].state = "WaitingForPlayers" -> "waiting"
           [] m_roomIDToRoom[r].state = "InProgress" -> "playing"
           [] m_roomIDToRoom[r].state = "GameOver" -> "over"
    ELSE IF r < m_nextRoomID THEN "closed" ELSE "unused"

lobbyResult(r) ==
    IF r \in DOMAIN m_roomIDToRoom THEN m_roomIDToRoom[r].game.winner
    ELSE "EMPTY"

TheLobby == INSTANCE Lobby WITH
    Guests <- SessionID,
    Rooms <- 1..MaxRooms,
    place <- [s \in SessionID |-> lobbyPlace(s)],
    phase <- [r \in 1..MaxRooms |-> lobbyPhase(r)],
    result <- [r \in 1..MaxRooms |-> lobbyResult(r)]

\* Every behaviour of the manager is one of the lobby: sessions are never in
\* two rooms, matches start with their second player, end once with a winner
\* the lobby allows, and closed rooms stay closed.
ImplementsLobby == TheLobby!LobbySpec
=============================================================================
