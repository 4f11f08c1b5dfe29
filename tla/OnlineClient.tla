---------------------------- MODULE OnlineClient ----------------------------
(***************************************************************************)
(* A client that plays online: the UI thread with the client's state       *)
(* machine (GameClient.cpp) and the screens of the server list, the lobby  *)
(* and the game, the strand of the connection (module MultiplayerClient),  *)
(* the one io thread under it, and a server.                               *)
(*                                                                         *)
(* The UI thread posts requests to the strand and looks at the events that *)
(* have come when a tick is taken. An operation on the socket that has     *)
(* completed waits for the io thread, which hands its handler over to the  *)
(* strand: it may run after the transport it belongs to has been closed.   *)
(*                                                                         *)
(* The server (modules Session and GameManager) is external to the client: *)
(* it answers what it has received in order, tells a member of a room of   *)
(* its changes, and a connection may fail at any time. It may also fall    *)
(* silent: nothing on either side then tells the client.                   *)
(***************************************************************************)
EXTENDS MultiplayerClient, SequencesExt

CONSTANTS
    MaxAttempts,   \* bound: how often the user connects
    MaxPosted,     \* bound: what waits for the strand, requests of the user
    MaxAnswers,    \* bound: messages on their way from the server
    MaxEvents      \* bound: events that wait when something new is begun

ASSUME BoundsAssumption == {MaxAttempts, MaxPosted, MaxAnswers, MaxEvents} \subseteq Nat

\* The states of a local game are one here, Singleplayer.
isMultiplayerState(state) ==
    state \in {"MultiplayerSetup", "MultiplayerConnecting", "MultiplayerLobby",
               "MultiplayerInGame"}

screenForState(state) ==
    CASE state = "Idle" -> "MainMenu"
      [] state = "Singleplayer" -> "Singleplayer"
      [] state \in {"MultiplayerSetup", "MultiplayerConnecting"} -> "Multiplayer_Select"
      [] state = "MultiplayerLobby" -> "Multiplayer_Lobby"
      [] state = "MultiplayerInGame" -> "Multiplayer_Game"

VARIABLES
    client,     \* GameClient::m_state
    screen,     \* the screen shown, that of an earlier state until it changes
    events,     \* m_eventQueue
    connection, \* the strand's state
    strand,     \* handlers that wait for the strand
    ready,      \* completions that wait for the io thread
    server      \* the server's end of the connection

vars == <<client, screen, events, connection, strand, ready, server>>
ui == <<client, screen>>

\* The server's end: the room the client is in and what it has sent.
Unconnected == [up |-> FALSE, room |-> NoRoom, sent |-> <<>>]

Init ==
    /\ client = "Idle"
    /\ screen = "MainMenu"
    /\ events = <<>>
    /\ connection = Disconnected
    /\ strand = <<>>
    /\ ready = <<>>
    /\ server = Unconnected

-----------------------------------------------------------------------------
(* The UI thread: GameClient::handleEvent *)

\* What an event makes of the client's state. Success of a login or of a request
\* about a room is taken at its word in every state.
handleEvent(state, event) ==
    CASE event = "loginAccepted" -> "MultiplayerLobby"
      [] event \in {"connectFailed", "loginFailed", "disconnected"} ->
           IF isMultiplayerState(state) THEN "MultiplayerSetup" ELSE state
      [] event = "roomEntered" -> "MultiplayerInGame"
      [] event = "roomLeft" -> "MultiplayerLobby"
      [] event = "gameSync" ->
           IF state = "MultiplayerLobby" /\ connection.room # NoRoom
           THEN "MultiplayerInGame" ELSE state

\* GameClient::tick. The main menu has no ticks; one that was posted before it
\* was shown finds the same as a tick just before.
Tick ==
    /\ screen # "MainMenu"
    /\ events # <<>>
    /\ client' = LET after[i \in 0 .. Len(events)] ==
                       IF i = 0 THEN client ELSE handleEvent(after[i - 1], events[i])
                 IN  after[Len(events)]
    /\ events' = <<>>
    /\ UNCHANGED <<screen, connection, strand, ready, server>>

post(handler) == strand' = Append(strand, [type |-> handler])

\* The task that a change of state posts. The lobby asks for the rooms.
ShowState ==
    /\ screen # screenForState(client)
    /\ screen' = screenForState(client)
    /\ IF client = "MultiplayerLobby" /\ connection.state = "Connected"
       THEN post("tell") ELSE UNCHANGED strand
    /\ UNCHANGED <<client, events, connection, ready, server>>

-----------------------------------------------------------------------------
(* The UI thread: the user. GameClient checks its own state and looks at that *)
(* of the connection, which may have other handlers waiting.                  *)

canPost == Len(strand) < MaxPosted /\ Len(events) < MaxEvents

LeaveMenu(state) ==
    /\ screen = "MainMenu"
    /\ client = "Idle"
    /\ client' = state
    /\ UNCHANGED <<screen, events, connection, strand, ready, server>>

\* MultiplayerClient::requestDisconnect
requestDisconnect ==
    IF connection.state = "Idle" THEN UNCHANGED strand ELSE post("disconnect")

\* GameClient::returnToIdle from a local game or the list of servers, where there
\* is no way out while the client connects.
ReturnToIdle ==
    /\ canPost
    /\ \/ screen = "Singleplayer"
       \/ screen = "Multiplayer_Select" /\ client # "MultiplayerConnecting"
    /\ client # "Idle"
    /\ client' = "Idle"
    /\ IF isMultiplayerState(client) THEN requestDisconnect ELSE UNCHANGED strand
    /\ UNCHANGED <<screen, events, connection, ready, server>>

Connect ==
    /\ canPost
    /\ connection.attempt < MaxAttempts
    /\ client = "MultiplayerSetup"
    /\ connection.state = "Idle"
    /\ client' = "MultiplayerConnecting"
    /\ post("connect")
    /\ UNCHANGED <<screen, events, connection, ready, server>>

\* The exit of the lobby: the state changes when the event has come.
Disconnect ==
    /\ canPost
    /\ screen = "Multiplayer_Lobby"
    /\ isMultiplayerState(client)
    /\ requestDisconnect
    /\ strand' # strand
    /\ UNCHANGED <<ui, events, connection, ready, server>>

RequestInState(request) ==
    CASE request = "enter" -> screen = "Multiplayer_Lobby" /\ client = "MultiplayerLobby"
      [] request = "leave" -> screen = "Multiplayer_Game" /\ client = "MultiplayerInGame"
      [] request = "tell" -> /\ screen \in {"Multiplayer_Lobby", "Multiplayer_Game"}
                             /\ client \in {"MultiplayerLobby", "MultiplayerInGame"}

Ask(request) ==
    /\ canPost
    /\ RequestInState(request)
    /\ connection.state = "Connected"
    /\ post(request)
    /\ UNCHANGED <<ui, events, connection, ready, server>>

-----------------------------------------------------------------------------
(* The network and the server *)

complete(completion) == ready' = Append(ready, completion)

ConnectCompletes ==
    /\ connection.connecting
    /\ \E ok \in BOOLEAN :
         /\ complete([type |-> "connected", ok |-> ok, attempt |-> connection.attempt])
         /\ connection' = [connection EXCEPT !.connecting = FALSE,
                             !.socket = IF ok THEN "connected" ELSE @]
         /\ server' = [Unconnected EXCEPT !.up = ok]
    /\ UNCHANGED <<client, screen, events, strand>>

answer(type, room) == [type |-> type, room |-> room]
news == answer("news", NoRoom)

\* What the server may do with a message: the room it leaves the client in and
\* what it sends. A member of a room gets an update after the answer.
serverAnswers(message) ==
    CASE message = "login" ->
           {<<NoRoom, <<answer("loginAccepted", NoRoom)>>>>,
            <<NoRoom, <<answer("loginRejected", NoRoom)>>>>}
      [] message = "tell" -> {<<server.room, <<>>>>, <<server.room, <<news>>>>}
      [] message = "enter" ->
           {<<server.room, <<news>>>>} \cup
             (IF server.room = NoRoom
              THEN {<<room, <<answer("roomEntered", room), answer("gameUpdate", room)>>>> :
                      room \in RoomID}
              ELSE {})
      [] message = "leave" ->
           IF server.room = NoRoom THEN {<<NoRoom, <<news>>>>}
           ELSE {<<NoRoom, <<answer("roomLeft", NoRoom)>>>>}

WriteCompletes ==
    /\ connection.writing # NoMessage
    /\ connection' = [connection EXCEPT !.writing = NoMessage]
    /\ \E ok \in BOOLEAN :
         /\ ok => connection.socket = "connected"
         /\ complete([type |-> "written", ok |-> ok, attempt |-> connection.attempt])
         /\ IF ok /\ server.up
            THEN \E reply \in serverAnswers(connection.writing) :
                   /\ Len(server.sent) < MaxAnswers
                   /\ server' = [server EXCEPT !.room = reply[1],
                                               !.sent = @ \o reply[2]]
            ELSE UNCHANGED server
    /\ UNCHANGED <<client, screen, events, strand>>

ServerUpdates ==
    /\ server.up
    /\ server.room # NoRoom
    /\ Len(server.sent) < MaxAnswers
    /\ Len(events) < MaxEvents
    /\ server' = [server EXCEPT !.sent = Append(@, answer("gameUpdate", server.room))]
    /\ UNCHANGED <<client, screen, events, connection, strand, ready>>

\* No message comes any more and the socket never learns of it: a server that was
\* drained still listens and accepts nobody, or the network is gone.
PeerFallsSilent ==
    /\ server.up
    /\ server' = Unconnected
    /\ UNCHANGED <<client, screen, events, connection, strand, ready>>

\* A read gets the next message.
ReadCompletes ==
    /\ connection.reading
    /\ connection.socket = "connected"
    /\ server.sent # <<>>
    /\ connection' = [connection EXCEPT !.reading = FALSE]
    /\ complete([type |-> "read", ok |-> TRUE, attempt |-> connection.attempt,
                 answer |-> Head(server.sent)])
    /\ server' = [server EXCEPT !.sent = Tail(@)]
    /\ UNCHANGED <<client, screen, events, strand>>

\* The connection is lost.
ReadFails ==
    /\ connection.reading
    /\ connection' = [connection EXCEPT !.reading = FALSE]
    /\ complete([type |-> "read", ok |-> FALSE])
    /\ server' = Unconnected
    /\ UNCHANGED <<client, screen, events, strand>>

\* The io thread takes a completion and hands its handler to the strand.
DispatchCompletion ==
    /\ ready # <<>>
    /\ strand' = Append(strand, Head(ready))
    /\ ready' = Tail(ready)
    /\ UNCHANGED <<client, screen, events, connection, server>>

-----------------------------------------------------------------------------
(* The strand. An event that repeats the last one has no effect of its own on *)
(* the client's state and is left out of the queue.                           *)

outcomes(handler) ==
    CASE handler.type = "connect" ->
           {doRequestConnect(connection, valid, opened) :
              valid \in BOOLEAN, opened \in BOOLEAN}
      [] handler.type = "disconnect" -> {doRequestDisconnect(connection)}
      [] handler.type \in Request -> {doRequest(connection, handler.type)}
      [] handler.type = "connected" -> {connectHandler(connection, handler)}
      [] handler.type = "read" -> {readHandler(connection, handler)}
      [] handler.type = "written" -> {writeHandler(connection, handler)}

RunHandler ==
    /\ strand # <<>>
    /\ strand' = Tail(strand)
    /\ \E result \in outcomes(Head(strand)) :
         /\ connection' = result.c
         /\ events' = IF IsSuffix(result.events, events) THEN events
                      ELSE events \o result.events
         /\ server' = IF result.c.socket = "closed" THEN Unconnected ELSE server
    /\ UNCHANGED <<client, screen, ready>>

-----------------------------------------------------------------------------
Next ==
    \/ Tick
    \/ ShowState
    \/ \E state \in {"Singleplayer", "MultiplayerSetup"} : LeaveMenu(state)
    \/ ReturnToIdle
    \/ Connect
    \/ Disconnect
    \/ \E request \in Request : Ask(request)
    \/ ConnectCompletes
    \/ WriteCompletes
    \/ ServerUpdates
    \/ PeerFallsSilent
    \/ ReadCompletes
    \/ ReadFails
    \/ DispatchCompletion
    \/ RunHandler

\* The threads run and ticks come; the network bounds the time that connecting
\* takes, a login fits the buffer of a socket, and a message that has arrived is
\* read. Nothing makes a peer answer or a loss be noticed, or the user act.
Fairness ==
    /\ WF_vars(Tick) /\ WF_vars(ShowState)
    /\ WF_vars(ConnectCompletes)
    /\ WF_vars(connection.writing = "login" /\ WriteCompletes)
    /\ WF_vars(ReadCompletes)
    /\ WF_vars(DispatchCompletion) /\ WF_vars(RunHandler)

Spec == Init /\ [][Next]_vars /\ Fairness

-----------------------------------------------------------------------------
(* Properties *)

\* However late it runs, the handler of a write never takes a message of a later
\* connection off the queue; it may find the queue empty, which is undefined. This
\* rests on completions coming in the order of their connections, and holds as
\* long as no completion of async_connect has been taken for a later attempt's.
WritesPopTheirOwn == connection.mispopped => connection.misled

\* The client ends a connection over a message that it did not expect only when
\* it has closed it already: answers and updates that come in the server's order
\* always find the room they are for. As above, while no attempt has been misled.
ServerIsNotBlamed == connection.blamed => connection.misled

\* The login has gone to a peer that does not answer.
Unanswered ==
    /\ connection.state = "AwaitingLogin"
    /\ connection.socket = "connected"
    /\ connection.reading
    /\ ~server.up

\* Connecting comes to an end that the user sees, although stale completions may
\* end it and nothing can cancel it, unless a peer holds the connection and is
\* silent for ever: the login has no time limit.
AttemptsEnd ==
    client = "MultiplayerConnecting" ~>
        client # "MultiplayerConnecting" \/ []Unanswered

\* Once its events are taken, the client shows a lobby or a game only on a
\* connection that is in that lobby or in a room: a loss, and every answer, has
\* been told in the order it happened.
ScreensMatchTheConnection ==
    events = <<>> =>
        /\ client = "MultiplayerLobby" =>
             connection.state = "Connected" /\ connection.room = NoRoom
        /\ client = "MultiplayerInGame" =>
             connection.state = "Connected" /\ connection.room # NoRoom
=============================================================================
