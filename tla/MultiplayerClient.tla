------------------------- MODULE MultiplayerClient -------------------------
(***************************************************************************)
(* The client's connection to a server (MultiplayerClient.cpp): its state  *)
(* and the handlers that run on its strand, one after the other, as        *)
(* functions of that state. Module OnlineClient composes them with the UI  *)
(* thread, the io thread and a server.                                     *)
(*                                                                         *)
(* A message body, a view of a room and the chats are left out; what the   *)
(* UI thread sees of the state is refreshed before every handler ends.     *)
(* Events that change nothing in GameClient (progress, the list of rooms,  *)
(* a refused request: all of them only logged or shown) are left out too.  *)
(***************************************************************************)
EXTENDS Naturals, Sequences

CONSTANTS
    MaxWriteQueueLength,  \* MAX_WRITE_QUEUE_LENGTH
    RoomID                \* rooms of the server

ASSUME QueueAssumption == MaxWriteQueueLength \in Nat \ {0}

CONSTANT NoRoom
ASSUME NoRoomAssumption == NoRoom \notin RoomID

\* What the client asks for: to create or join a room, to leave it, or what leaves
\* it where it is: a chat message, a move, the list of rooms. Login comes first.
Request == {"enter", "leave", "tell"}

NoMessage == "none"

Disconnected ==
    [state |-> "Idle",            \* then "ConnectingNetwork", "AwaitingLogin", "Connected"
     socket |-> "closed",         \* then "open", "connected"
     m_socketConnected |-> FALSE,
     room |-> NoRoom,             \* m_joinedRoomID while m_joinedRoom
     m_writeQueue |-> <<>>,
     connecting |-> FALSE,        \* operations under way on the socket
     reading |-> FALSE,
     writing |-> NoMessage,
     attempt |-> 0,               \* history: counts the connections
     misled |-> FALSE,            \* history: connected by an earlier attempt's completion
     mispopped |-> FALSE,         \* history: a message of another connection was popped
     blamed |-> FALSE]            \* history: the server was found at fault

\* A handler's outcome: the state it leaves and the events it emits.
outcome(c, events) == [c |-> c, events |-> events]
quiet(c) == outcome(c, <<>>)

-----------------------------------------------------------------------------
(* Closing *)

\* Mutant: the write queue is kept for the next connection.
keepQueue(c) ==
    [c EXCEPT !.socket = "closed", !.m_socketConnected = FALSE,
              !.connecting = FALSE, !.reading = FALSE, !.writing = NoMessage]

\* The operations under way are aborted and their handlers do nothing.
closeTransport(c) ==
    [c EXCEPT !.socket = "closed", !.m_socketConnected = FALSE,
              !.m_writeQueue = <<>>,
              !.connecting = FALSE, !.reading = FALSE, !.writing = NoMessage]

\* terminateSession, clearConnectionState
terminate(c, event) ==
    outcome([closeTransport(c) EXCEPT !.state = "Idle", !.room = NoRoom], <<event>>)

-----------------------------------------------------------------------------
(* Sending *)

\* async_write: it fails at once on a socket that is not connected.
doWrite(c) ==
    IF c.m_writeQueue = <<>> THEN c ELSE [c EXCEPT !.writing = Head(c.m_writeQueue)]

canQueue(c) ==
    c.m_socketConnected /\ Len(c.m_writeQueue) < MaxWriteQueueLength

\* A message that cannot be queued is dropped with an error event.
queueSend(c, message) ==
    LET queued == [c EXCEPT !.m_writeQueue = Append(@, message)]
    IN  IF ~canQueue(c) THEN c
        ELSE IF c.m_writeQueue = <<>> THEN doWrite(queued) ELSE queued

\* Mutant: the room is forgotten when it is asked to leave.
leaveAtOnce(c, request) ==
    LET possible ==
          /\ c.state = "Connected"
          /\ request = "enter" => c.room = NoRoom
          /\ request = "leave" => c.room # NoRoom
        after == IF request = "leave" THEN [c EXCEPT !.room = NoRoom] ELSE c
    IN  quiet(IF possible THEN queueSend(after, request) ELSE c)

\* The doRequest functions but those for connecting: what is not possible in
\* this state is answered with an error event.
doRequest(c, request) ==
    LET possible ==
          /\ c.state = "Connected"
          /\ request = "enter" => c.room = NoRoom
          /\ request = "leave" => c.room # NoRoom
    IN  quiet(IF possible THEN queueSend(c, request) ELSE c)

-----------------------------------------------------------------------------
(* Connecting and disconnecting *)

\* valid says whether the address can be parsed, opened whether the socket opens.
doRequestConnect(c, valid, opened) ==
    LET begun == [c EXCEPT !.state = "ConnectingNetwork",
                           !.m_socketConnected = FALSE,
                           !.attempt = @ + 1]
    IN  IF c.state # "Idle" \/ ~valid THEN outcome(c, <<"connectFailed">>)
        ELSE IF ~opened THEN terminate(begun, "connectFailed")
        ELSE quiet([begun EXCEPT !.socket = "open", !.connecting = TRUE])

\* Mutant: a disconnection that was asked for is not reported.
disconnectQuietly(c) == quiet(terminate(c, "disconnected").c)

doRequestDisconnect(c) ==
    IF c.state = "Idle" /\ c.socket = "closed" THEN quiet(c)
    ELSE terminate(c, "disconnected")

\* The handler of async_connect. Login is the first message and the first read
\* is begun.
onTransportConnected(c) ==
    LET logging == queueSend([c EXCEPT !.m_socketConnected = TRUE,
                                       !.state = "AwaitingLogin"], "login")
    IN  IF c.state # "ConnectingNetwork" THEN terminate(c, "connectFailed")
        ELSE IF ~canQueue([c EXCEPT !.m_socketConnected = TRUE])
        THEN terminate(logging, "connectFailed")
        ELSE quiet([logging EXCEPT !.reading = TRUE])

\* A completion of an earlier attempt is taken for the one that is waited for.
misleads(c, completion) ==
    completion.attempt # c.attempt /\ c.state = "ConnectingNetwork"

\* Mutant: a connection that fails is given up in silence.
failSilently(c, completion) ==
    IF completion.ok THEN onTransportConnected(c)
    ELSE quiet(terminate(c, "connectFailed").c)

connectHandler(c, completion) ==
    IF completion.ok
    THEN onTransportConnected([c EXCEPT !.misled = @ \/ misleads(c, completion)])
    ELSE terminate(c, "connectFailed")

-----------------------------------------------------------------------------
(* Receiving *)

\* A message the state does not allow ends the connection, whoever is at fault.
\* live: the message has been read for the connection that is open now.
protocolError(c, live, event) ==
    terminate([c EXCEPT !.blamed = @ \/ live], event)

onLoginResponse(c, live, accepted) ==
    IF c.state # "AwaitingLogin" THEN protocolError(c, live, "loginFailed")
    ELSE IF accepted
    THEN outcome(queueSend([c EXCEPT !.state = "Connected", !.room = NoRoom], "tell"),
                 <<"loginAccepted">>)
    ELSE terminate(c, "loginFailed")

\* onCreateRoomResponse and onJoinRoomResponse of a request that succeeded
onRoomEntered(c, room) ==
    outcome(queueSend([c EXCEPT !.room = room], "tell"), <<"roomEntered">>)

onRoomLeft(c) ==
    outcome(queueSend([c EXCEPT !.room = NoRoom], "tell"), <<"roomLeft">>)

onGameUpdate(c, live, room) ==
    IF c.room # room THEN protocolError(c, live, "disconnected")
    ELSE outcome(c, <<"gameSync">>)

\* onIncomingMessage
onAnswer(c, live, answer) ==
    CASE answer.type = "loginAccepted" -> onLoginResponse(c, live, TRUE)
      [] answer.type = "loginRejected" -> onLoginResponse(c, live, FALSE)
      [] OTHER ->
           IF c.state # "Connected" THEN protocolError(c, live, "disconnected")
           ELSE CASE answer.type = "roomEntered" -> onRoomEntered(c, answer.room)
                  [] answer.type = "roomLeft" -> onRoomLeft(c)
                  [] answer.type = "gameUpdate" -> onGameUpdate(c, live, answer.room)
                  [] OTHER -> quiet(c)

doReadHeader(c) == IF c.socket = "closed" THEN c ELSE [c EXCEPT !.reading = TRUE]

\* The handlers of doReadHeader and doReadBody. A message that had been read
\* before the transport was closed still has its type.
readHandler(c, completion) ==
    LET live == completion.attempt = c.attempt /\ c.socket # "closed"
        read == onAnswer(c, live, completion.answer)
    IN  IF ~completion.ok THEN terminate(c, "disconnected")
        ELSE [read EXCEPT !.c = doReadHeader(@)]

\* The handler of doWrite takes the front of the queue, whatever it is now. To pop
\* an empty queue is undefined; it is taken to change nothing.
writeHandler(c, completion) ==
    LET live == completion.attempt = c.attempt /\ c.socket # "closed"
        popped == [c EXCEPT !.m_writeQueue = IF @ = <<>> THEN @ ELSE Tail(@),
                            !.mispopped = @ \/ (~live /\ c.m_writeQueue # <<>>)]
    IN  IF ~completion.ok THEN terminate(c, "disconnected")
        ELSE quiet(doWrite(popped))
=============================================================================
