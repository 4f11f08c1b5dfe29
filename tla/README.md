# Chess2.com in TLA+

Chess2.com is a networked chess program in C++20: a server that runs match
rooms over TCP (asio), a terminal client (FTXUI) that plays against it or on
one keyboard, and a core library with the chess rules and the message format.
This directory holds a model of it that TLC checks on small instances, and
proofs about the model that TLAPS checks for every instance.

## The system

| part | state it keeps | what it does | who it talks to |
|---|---|---|---|
| `Server/Runtime/Game/GameManager` | room map, session map, next room id, tick timer, lifecycle state | one handler per request, a 250 ms tick, start, stop; all on one strand | called by sessions (posts), sends through `SessionManager` |
| `Server/Runtime/Game/GameRoom` | seats, spectators, room state, room version, a `ChessGame` | join, leave, move, tick | called by `GameManager` only |
| `Core/Game/ChessGame` | board, turn, clocks, winner, end reason, version | start, tick, move, resign, snapshot | called by `GameRoom`, by the client for local games and for snapshots |
| `Core/Game/Board` | squares, piece lists, pins, checks, legal moves | move generation, mate and stalemate | called by `ChessGame` |
| `Server/Runtime/Session/Session` | socket, lifecycle state, login state, write queue, terminal flag | reads and dispatches messages, queues and writes answers, stops itself on errors; on its own strand | posts to `GameManager`, removed through `SessionManager` |
| `Server/Runtime/Session/SessionManager` | acceptor, map of sessions under a shared mutex | accept, remove, broadcast to targets, stop | sends to sessions, called by `GameManager` and by sessions |
| `Server/Runtime/Login/LoginManager` | lifecycle state | starts and stops, nothing else; logins are handled by `Session` | `GameServer` |
| `Server/Runtime/GameServer` | io_context, thread pool, the managers | start and stop in order | the server's UI thread |
| `Core/Networking/Message`, `MessagePayloads` | bytes of one message | encode, decode, limits | sessions and the client |
| `Client/Runtime/MultiplayerClient` | socket, write queue, connection and room state; on its own strand | requests of the user, incoming messages, events out | server; `GameClient` through an event queue |
| `Client/Runtime/GameClient` | client state, error, the two clients below it | commands of the UI, events of the clients, transitions | UI thread |
| `Client/Runtime/SingleplayerClient` | a local `ChessGame`, result | start, move, resign, result | `GameClient` |
| `Client/UI` panel, screens, modals | screen shown, tick loop thread, chat log | draws, ticks the client at a rate | `GameClient` |
| settings, logging, persistence | files | read, write, keep the last entries | everybody |

Sessions never call the game manager directly: `request*` posts to the
manager's strand (`GameManager.cpp:109-131`), so a request is served some time
after the session made it, maybe after that session has stopped. The manager
answers through `SessionManager::messageSession`, which locks the session map
and hands the message to each session's strand.

### What is hard here

* **Orders.** Requests of several sessions, the tick, clocks that run out, and
  the manager's stop and start meet in any order. A move or a leave may come
  between a clock running out and the tick that notices it.
* **Two books.** Who is where is kept in the session map and in the rooms'
  seats. Answers and broadcasts are built from both, and a client drops its
  connection when it is sent an update of a room it does not know to be in
  (`MultiplayerClient.cpp:917-920`).
* **Threads.** `start()` touches strand-owned state from the caller's thread,
  and completions of asynchronous operations outlive the state they were
  started in (`Session.cpp:93-151`, `MultiplayerClient.cpp:540-626`).
* **Locks and strands.** A send runs under the session map's shared lock and may
  end in removing a session, which wants the unique one
  (`SessionManager.cpp:88-117`, `Session.cpp:74`).
* **Boundaries.** Clocks of zero, write queues of 128 messages, messages of
  64 KiB, a chat log with a limit.

What makes each part correct: the two books agree and rooms are collected; a
match starts once, with two players, ends once, with a verdict that fits the
board, the clocks and the seats, and everybody in the room is told; a session is
removed exactly once, its messages leave in order, the terminal message is the
last; the server stops everything it started and can be started again; the
rules say mate when it is mate; the client's room state follows what the server
sent, and no stale answer changes it.

## The modules

| module | what it is |
|---|---|
| `Lobby` | what the manager promises: guests are in one place, a match is played by the two who sat down for it, ends once, and its room closes for good |
| `GameRoom` | `GameRoom.cpp` with the control of `ChessGame.cpp`, as operators on records |
| `GameManager` | `GameManager.cpp`: state, one action per handler, properties, refinement of `Lobby` |
| `RoomGame` | the game as `GameRoom` has it, alone: what the game with clocks implements |
| `ChessGame` | `ChessGame.cpp` with its clock arithmetic, as operators on records |
| `GameClock` | a room's `ChessGame` while time passes, refinement of `RoomGame` |
| `SingleplayerClient` | `SingleplayerClient.cpp`: the local game, its pauses and its result, on `ChessGame` |
| `Board` | `Board.cpp`: move generation with its filters, moves, promotion, mate, as operators on records |
| `BoardPlay` | games on a board, against the rules of chess |
| `Session` | `Session.cpp`: what each handler on a session's strand does, as operators on records |
| `SessionManager` | `SessionManager.cpp` over its sessions: accepts, strands, broadcasts, start and stop |
| `ServerLifecycle` | `GameServer.cpp`: the order of start and stop, the io threads, the context that lets them go |
| `MultiplayerClient` | `MultiplayerClient.cpp`: what each handler on the connection's strand does |
| `OnlineClient` | the online client: UI thread, state machine, strand, io thread and a server |
| `ClientPanel` | `ClientPanel.cpp`, the local game's screens and modals, and the state machine under them |
| `MC*` | constants, configurations, positions and symmetry for TLC |
| `GameManagerProofs` | in four parts: lemmas on rooms; the manager's inductive invariant and theorems; how matches end and what members are told; the manager implements `Lobby` |
| `ChessGameProofs` | in two parts: lemmas on games, clocks and pauses, for the two modules below; the board: its geometry, the lists that `genMoves` fills and filters, the board's inductive invariant and theorems |
| `GameProofs` | in two parts: the inductive invariant of a room's game, its theorems, the refinement of `RoomGame`; what the board accepts is what the rules allow |
| `SingleplayerClientProofs` | the inductive invariant of the local game and its theorems |
| `ServerLifecycleProofs` | the invariant of the server's life and its theorems |
| `SessionManagerProofs` | in two parts: what each handler does to any session; the invariant of the sessions, their map and the accepts |
| `OnlineClientProofs` | the invariant of the client's connection, and what its screens follow |
| `ClientPanelProofs` | what each call of the panel does to its state; the invariant of both threads |

How they fit: `GameManager` is played over `GameRoom`, whose game is `RoomGame`;
`GameClock` shows that `ChessGame` implements that game, so what `GameManager`
shows holds of the game with its clocks. `ChessGame` takes from the board the
outcome of a move; `BoardPlay` shows which moves the board lets through and which
verdicts it gives. `SessionManager` and `GameManager` meet in two places only,
requests posted in one direction and sends in the other; each module takes from
the other every order that can occur. `ServerLifecycle` takes of both what work
they leave for the io threads. `OnlineClient` and `ClientPanel` are the two halves
of the client's state machine; no transition leads from inside the one to inside
the other, except the one that `ScreensMatchTheConnection` is about.

### GameRoom

A room is a record with the fields of the class. The operators carry the names
of the methods; a method that changes the room and returns a result is two
operators, as in `joinPlayer` and `joinPlayerResult`. A session holds a seat by
its id, the empty seat is `NoSession` (the code's 0).

The game keeps its state, turn, winner, end reason and version. The board is
abstracted to the outcome of a submitted move, illegal, legal, mating or
stalemating: every reason for which `ChessGame::submitMove` refuses a move that
comes from the right side in a running game is `illegal`. The clocks are
abstracted to `flagged`: the side to move has no time left, and nothing has
noticed yet. `gameTick` is the part of `refreshTerminalStateFromBoard` that
looks at the clock; its look at the board is in `afterMove`, because the board
only changes in a move. A clock's kind is disabled, enabled, or enabled with no
initial time, in which case `start` itself ends the game. After an accepted
move the side then to move is never flagged. That this is what the clocks do is
not assumed: `GameClock` implements `RoomGame`, and `GameProofs` proves it.
(A client may ask for a negative increment; that is not modelled.)

### GameManager

`m_roomIDToRoom` is a function on the ids in use; `m_sessionIDToRoomID` is a
function on all sessions with `NoRoom` for the absent ones. A strand serialises
its handlers, so a handler is one action, from its first check to its last
send. `onStrand` is the check of `m_state` at its head; a handler that finds
another state returns and changes nothing, which is a stuttering step. `reply`
holds the answer a handler sends and `updates` the rooms it then broadcasts; both
belong to the last step only. In every handler the answer goes out before the
updates.

Requests come from any session at any time. That includes what real sessions
cannot do, and includes the late requests that they can, posted before a session
stopped and served after.

The tick timer is `tickPending`, an `async_wait` that is outstanding, and
`ticksReady`, expired waits whose handlers are already on the strand and which
`cancel` does not stop. `start` is three steps, because it runs on the caller's
thread while the strand may run a leftover `onTick`: winning the compare and
exchange, clearing the maps and setting RUNNING, and scheduling the tick.
`stop` is two: the compare and exchange, and the part dispatched to the strand.
One thread calls `start` and `stop`, one after the other (`GameServer.cpp:28-68`).

### Session

A session is a record with the fields of the class and four more: the read and
the write under way (`reading`, `writing`), whether the socket is open, and
`strand`, the handlers that wait for the session's strand, first in first out.
A completion is put there with its result when the operation ends; the handler
runs later, and what was ahead of it in the strand may have changed the session
in between. `stop` cannot take back a completion that has succeeded already,
and an `async_read` of an empty buffer succeeds even on a closed socket, so a
message without a body (`ListRoomsRequest`, `LeaveRoomRequest`) may still be
read after a stop.

`abortSession` asks the manager to remove the session. Every handler returns
after it, or goes on to ask for a next header only, so the model runs the
handler first and removes the session at its end (`aborting`).

Messages are abstracted to what the dispatch tells apart: a login with the
right or a wrong password, a global chat, a request to the game manager (game
chat included), a message that is decoded and ignored, and one that is not
decodable or that no client may send. What is sent is a `refusal`, which closes
the session once it is written, or any other `message`.

`left`, `lateRequests` and `undefined` are history: `stop` has posted its leave,
how many requests were posted after it, and whether a completed write has read
the front of an empty queue. What the program does after such a read is
undefined; the model records it and goes on with the other handlers, so its
claims are about programs that survive it.

### SessionManager

`registry` holds `m_sessions` and `m_idToIndex`, which the shared mutex guards.
`accepts` counts the `async_accept`s by stage: outstanding, completed with its
handler waiting (`connected`, `failed`), and between the handler's look at
`m_state` and `createSession` (`admitting`). `stop` runs on the UI thread in two
steps, closing the acceptor and removing all sessions. `start` is two steps too.

The io threads and the mutex decide what a send does. `messageSession` holds the
mutex shared and dispatches to every target's strand: a dispatch from an io
thread to a strand that is free runs at once, inside the loop, and so does one to
the caller's own strand; to a busy strand it is queued. A send that runs at once
and finds the queue full aborts its session, and `removeSession` then waits for
the mutex on the thread that holds it. `stuck` is the strands that never go on
after that, and `mutexFree` is the guard of everything that takes the mutex
alone.

### ChessGame, GameClock, RoomGame

A game is a record with the fields of the class but for the board; a call takes
the game and the time and yields the game after it. The steady clock runs in
ticks, of which `TicksPerMs` make a millisecond; what the game stores is in
milliseconds, and `elapsed` cuts to them, as `duration_cast` does
(`ChessGame.cpp:462`). `refreshTerminalStateFromBoard` looks at the clock before it
looks at the board, `submitMove` ticks before it judges (`:141`), and `snapshot`
and `applySnapshot` drop and renew the start of the turn.

In `GameClock` the room starts, ticks, moves and resigns at any time; `used` is
history, the ticks for which each side was to move. The refinement mapping
`roomGame` drops the clocks and puts `timeIsUp` for the flag: the passing of time
is then a stutter or the step `Flag`.

### SingleplayerClient

The state, the game, the paused snapshot and the result of the class, one action
per command. A local game always has clocks. `tryMove` returns before
`recordFinishedGame` when the move is refused (`SingleplayerClient.cpp:117`), so a
game lost on time in a refused move is over without a result until the next tick;
`GameClient` ticks while a game is in play, and that is the fairness.

### Board, BoardPlay

`piece` is `m_pieceArr`, `moveOffset` is `m_moveOffset`, and the one array of moves
is kept slot by slot: the filters that shrink a list write past its end, and what
they overwrite is part of what the program does. An index outside the array is
undefined; `overrun` records it, the value then read is taken to be the one that
ends the loop, and `BoardPlay` has the outcome in which the program does not
survive. `overrunExplained` says when that can happen. (The comment at
`Board.cpp:24-25`, "infinite loop somewhere in filterChecked()", is about the same
place.) The six places that `m_pinnedArr` has for each piece hold every line but that
of a king that was taken, which is looked for from {8, 8}: its seventh square goes to
the next piece's places, behind the array for the last piece, and is not read there.
The passes of `genMoves` and its filters come in the order of the code.

`BoardPlay` plays, pauses, resumes and restarts on one board, as the client does.
Its reference, the rules without castling and en passant (which the code does not
have), is stated by geometry and quantifiers over the squares between, and shares
no definition with the walks along lines in `Board`.

### ServerLifecycle

The UI thread is one step per call inside `GameServer::start` and `stop`; `work`
counts operations under way and handlers that wait or run, by kind. `io_context`
is external: with no work left `run` returns and the context is stopped, and
nothing restarts it. The last piece of work and the stop it causes are one step.

### MultiplayerClient, OnlineClient

The connection is a record with the members of the class that its strand owns; a
handler is an operator. `OnlineClient` adds the UI thread (requests posted, events
taken when a tick is), the io thread, over which an operation that has completed
goes to the strand, and the server, which answers what it received in order and
may be lost or fall silent at any time: what a silent peer does not send, nothing
tells the client. An operation carries the connection it belongs to, which
the code does not: completions that outlive `closeTransport` are handled as the
code handles them. `mispopped` and `blamed` record what the properties are about,
and `misled` what they except: a completion of `async_connect` that was still
waiting when its connection was closed finds the next attempt in
`ConnectingNetwork` and is taken for its own (`MultiplayerClient.cpp:352-358`).
Kinds of
requests that only differ in what is logged are one kind; an event that repeats
the last one in the queue is left out, for the UI thread handles both alike.
Three things are one step that are more in the code: an `asio::async_read` or
`async_write` and the partial reads and writes it is composed of; a header's read and
its body's; and a handler's `refreshViewSnapshot` with its `emitResult`, so a tick
that sees the new view and not yet the event is left out. `GameClient` moves its state
by events and looks at the view for an update of a game only (`GameClient.cpp:501`):
such a tick may enter a room early, as the event then does.

### ClientPanel

The UI thread's state is one record, so that a call that calls back
(`pushModal`, `popModal`, `setScreen`, `onPause`, `handleStatus`) is a function of it.
The tick thread is the steps of its loop between which the UI thread can come:
test of the rate, blocking, waking, posting. The destructor is clearing `m_tickRunning`,
notifying and joining. Inputs come at any time and on the screen that is shown,
which may be that of an earlier state.

## The runs

| run | instance | what it shows |
|---|---|---|
| `one_room` | 3 sessions, 1 room, 4 configurations, game version up to 3, room version up to 4 | room states and verdicts, results are final, changes are broadcast, to the informed only, refinement of `Lobby` |
| `two_rooms` | 2 sessions, 2 rooms, 2 configurations, 2 expired ticks, fairness | maps agree, harmless clear, tick chain, timeouts are enforced |
| `game_clock` | half milliseconds up to 12, 4 moves, 4 clock configurations | books of the clocks, fair timeouts, refinement of `RoomGame` |
| `singleplayer` | half milliseconds up to 8, 3 moves, 2 pauses, 2 clock configurations, fairness | books over pauses, results, ends are recorded |
| `board` | 10 positions, 1 to 3 plies from each | accepted and legal moves, verdicts, the board's two views, snapshots |
| `stalemate` | 1 position, 1 ply | violation: a stalemate that goes on |
| `one_session` | 1 session, every message, queue of 2, fairness | writes, late requests, release |
| `two_sessions` | 2 sessions that log in and chat, queue of 1, 2 starts | session map, indexes, accept chain, what a stop leaves, how the mutex is lost |
| `dispatch` | 1 session that logs in and chats | violation: a message is dispatched on a stopped session |
| `server` | 2 threads per start, 3 starts, 2 sessions, fairness | running servers serve, stopped ones drain |
| `online` | 4 connection attempts, 1 room, queue of 2, 2 requests posted, 1 answer under way, 1 event, fairness | screens, stale completions, order of answers, attempts end unless the peer is silent |
| `panel` | 3 tasks, 2 events, fairness | screens, results, promotions, ends, exit |

**The two violations.** `dispatch` checks what the comment at `Session.cpp:186-189`
says of `dispatchIncomingMessage`, that the session is active when it is called.
It is not: the read of a message may have completed before the stop ran, and its
handler looks at the read's error code only. `FewLateRequests` bounds what
follows: one such message per session. `stalemate` checks what the comment at
`Board.cpp:1458` says of the number 15, that it is the offset of Black's pieces. It
is the last white pawn's: a Black without a move is not stalemated while that pawn
has one. `VerdictErrsInTwoWays` bounds this too: it is one of the two ways in which
the verdict errs. In the other, `filterChecked` has cleared the first slot of the
list behind a full one, and what is left there counts or does not count by chance.

**Bounds of the game manager's runs.** `MaxRooms` limits the rooms created in a
behaviour, over restarts; one is enough for what happens inside a room because
rooms share nothing but the session map and the tick, two show what passes from
one room to the next. `MaxRoomVersion` limits the joins of a room (leaves are not
limited, so a room can always empty), and 4 lets both players and a spectator
come, one go and another come after him. `MaxGameVersion` limits moves: 3 lets
White and Black move and the game end, in every way. Three sessions are two
players and a spectator; the fourth configuration limits spectators to one and
forbids them midgame, so the refusals happen. The configurations differ in clock
(with, without, zero), password, spectators and visibility.

**Of the clocks' runs.** Two ticks to the millisecond make a turn that drops a
fraction and one that does not. Four moves give each side two turns, so that an
increment is earned and spent; the configurations have one clock with increment,
one without, one that starts at zero and none. Time runs far enough for both sides
to lose on time. The proofs need no bound.

**Of the board's runs.** A game with all pieces is out of reach, and what the code
does to a move depends on few pieces: the king, the pieces that check or pin, and
a piece and its predecessor in the array. Every position has few pieces, and one
to three plies from it both sides have been in check, pinned, doubly checked, have
promoted, captured, filled a list and lost a king.

**Of the sessions' runs.** A queue of two tells the write under way from the one
behind it, which is all that the code's 128 do; where the queue only has to be
full, one is enough. One send waiting on a strand stands for several, since a
second one meets the same session in the same way with a queue that is one
longer. Two sessions are a sender and a receiver whose strand is free, busy or
stuck, and swap-and-pop moves one when the other goes; two starts leave an accept
of the first to the second.

**Of the server's, online and panel runs.** Three starts: a restart that works, one
that does not, and one after that. Two threads per start are those that wait and
those that run. Four connections: what is left of the first meets the second, and
it takes four until a completion taken for the wrong attempt does all it can do
(see "What the models show of the code"). A queue of two as above. Three tasks let
a tick, a change of state and an input wait together.

**Deadlock** is checked in the game manager's runs, in the clock's and in the local
game's: there the program can always go on. `CHECK_DEADLOCK FALSE` is set where the
system may stop: a server stays stopped after `MaxStarts` starts, the client's panel
ends, its user need not connect again after `MaxAttempts`, a game on the board ends
and the plies followed from a position are bounded.

**Fairness.** In the game manager's runs the io threads run what is posted to the
strand (`onTick`, `doStop`) and expire timers, and a thread inside `start` returns.
In the sessions' runs they run what waits on a strand, and operations on a closed
socket complete, as `close` cancels them. In the server's run the threads enter and
leave `run`, run handlers, and the UI thread goes on inside a call. In the online
run the UI thread takes ticks and changes of state, the io thread hands over what has
completed, the strand runs, and of the socket's operations those end whose end does
not depend on the peer: connecting, which the network bounds; the write of a login,
which fits a socket's buffer; the read of a message that has arrived. A read that
waits is not fair: no timer and no keepalive ends it (`MultiplayerClient.cpp:540`,
`:668`), so the peer need not answer and its loss need not be noticed. In the panel's
run both threads run; taking a task and posting a tick are strongly fair, since the inputs of
a user who does not stop acting, and a queue that is full for a moment (the model's
bound, not the code's), disable them again and again. In the local
game's the client ticks while a game is in play (`ClientPanel` shows when it does).
Nothing makes a client send, read, move or act, and nothing makes a clock run out.
A lost mutex, a client admitted during a stop, a peer that is silent for ever
(`Unanswered`), a panel whose tick rate is off are excepted by name in the properties,
for after them the promise is not kept.

## What is proved

For every value of the constants, so also for behaviours without bounds.

`GameManagerProofs`, from `InductiveInvariant`: `Spec => []IInv`:

* `TypeCorrect`, `BindingsAgree`, `RoomsAreCollected`, `RoomStatesFollow`,
  `ClearIsHarmless`, `TickSurvivesRestarts`: each property follows from `IInv`.

None of these properties is inductive alone. That the maps agree after a leave
needs that a session holds one place in its room, which needs that a joining
session is in no room, which is the agreement of the maps again; that ids are
fresh needs ids below the counter; that the clear loses nothing needs to know how
`start` and `stop` follow each other. `IInv` is their conjunction with
`IDsBelowCounter` and `StarterFollowsState`. The first part shows what each room
operation does to a well-formed room and to its set of members, once.
The second reduces the manager's handlers to four changes of the maps
(`StoreRoom`, `AddMember`, `RemoveMember`, `EmptyMaps`) and shows that each keeps
`MapsInv`; the lifecycle half `LifeInv` is kept by one lemma per action.

Its third part, from the same invariant and `AllJudged`:

* `VerdictsHold`, `ResultsStay`, `ChangesAreTold`, `OnlyTheInformed`. What the runs
  check of a room's verdict is not inductive: a game that is going on may carry a
  flag, which must then belong to enabled clocks, and no reason for an end. `Judged`
  says both; one lemma per call of a room shows that it is kept and that what is over
  stays as it is (`Final`). What members are told follows from what each handler
  changes and where: only the room it answers for, and for a tick only the rooms it
  announces (`IdleTick`).

Its fourth part:

* `ImplementsTheLobby`: `Spec => ImplementsLobby`. The mapping takes a guest's place
  from the binding and from the room's seats together, so every step needs that the
  maps agree: a leave closes the lobby's room when the leaver is the only one *bound*
  to it, and the manager removes it when nobody is *seated* in it. `CreatorRole`,
  `SpectatorRole`, `PlayerRole` and `LeaverRole` say what a call does to roles, state
  and winner; `Elsewhere` that everybody else stays where he is. Moves, clocks and
  ticks are all one step of the lobby, `End` of the matches they end (`PlayIsEnd`),
  none or several: one tick may end several. That `startClear` is a stutter is
  `NothingToClear` again.

`ChessGameProofs` and `GameProofs`, for games of any length, every
configuration of clocks and every resolution of the steady clock:

* `TimeAccounted` and `TimeoutsFair`. The invariant says that a game's time is
  *booked*: what a clock has taken is what its side used, up to less than a
  millisecond for each turn that has ended and for each pause (a room's game has
  none), and the turn under way is on no clock yet but is counted from
  `turnStart`; both stored times of a game in play are positive; a game lost on
  time was booked when it ended. The properties speak of what the players see,
  which includes the turn under way; the invariant must not, for that part is cut
  to milliseconds anew at every look. A game that is over is *settled*
  (`SideSettled`): its last turn was charged too, whichever way it ended
  (`EndSettled`), and its clocks show what is stored (`ClockShown`). One lemma per operation shows that it keeps
  the books (`TickKept`, `AdvanceKept`, `ResignKept`, `TimeKept`); the heart is
  `AdvanceKept`, where one turn's fraction is dropped.
* `RefinesRoomGame`: `Spec => ImplementsRoomGame`. Every call is the room's call,
  given what the room's game sees (`ViewStart`, `ViewTick`, `ViewMove`, `ViewResign`),
  and the passing of time is a stutter or `Flag` (`ViewTime`): time never gives a side
  back what it has used up. That an accepted move leaves no flag comes from the
  invariant: the other side's stored time is positive.

`SingleplayerClientProofs`, for the same games with any number of pauses:

* `TypeCorrect`, `ResultsAreTrue`, `PausesAccounted`, `TimeoutsFair`. A paused game
  is a snapshot whose turn began when it was taken, and the clock runs on, so the
  paused game itself is not booked. `Held` says what is: the game that would come
  out of the pause now (`resumed`), with the snapshot taken at some time before.
  `PauseKept` and `PausedKept` show that taking a snapshot, and time passing over
  it, keep that; each pause drops less than a millisecond. `PausesAccounted` speaks of
  every game that was started, running, paused or over. `TimeoutsFair` is the
  same for the local game as for a room's, and is not among the runs' properties.

`ChessGameProofs`, second part, for games of any length from any positions, a new
game's included:

* `CoherenceHolds`, `ResumeHolds`, `VerdictErrsRarely`. The invariant `BoardInv`
  says that the board is in order (`BoardOK`: the two views agree, each piece has the
  slots of its type, the blocks of slots do not overlap), that the stored lists are
  what `genMoves` computes from the board now, and that the verdict is what the
  terminal state's functions make of them. `MovedOK`, `PromotedOK`, `ResumedOK` and
  `RestartedOK` keep the first; the rest are about one call of `genMoves`, on every
  board in order. `GenOutcome` says what it leaves in the lists. Before the filters a
  list is what its piece looks at, which fits in its slots (`AllLines` bounds a queen,
  `WalkProper` the others). `filterPinned` keeps every list tidy, its moves first and
  nothing behind them. `filterChecked` does not: where a list is full its loop runs on
  into the slots behind, and where the list before was full it begins with a move
  that is not there. `Stage` and `NarrowedBy` follow that loop slot by slot,
  `Answered` says what it does to one list, `Filtered` and `Rests` what that leaves
  of all. That a list which is not full keeps to its own slots rests on geometry: of
  a list that is nearly full not all moves are on the line of one check
  (`RoomyList`). The loop may still name an index outside the array, from a full
  list, or one before the first slot when W_ROOK1 has moves and none of them
  answers the check; `GenExplained` and `OverrunsInCheck` show that it does so in no
  other case, and never without a check (`overrunExplained`, a part of
  `BoardIsCoherent`). The order in which the lists are taken up matters, so the
  passes are inductions over the pieces (`CountingUp`). `VerdictErrsRarely` counts
  what is left in the slots.
* `ResumeHolds` is about pairs of boards: a snapshot loses the pieces that were
  taken. `Alike` says that two boards agree on the pieces in play, and each function
  that `genMoves` calls is shown to give the same on alike boards.

`GameProofs`, second part, for the same games:

* `LegalIsAccepted` and `AcceptedIsLegal`: what the game accepts is what the rules
  allow, with the exceptions that the two properties name and no others. They need
  the other half of the invariant, `KingsApart`: two kings that are both in play are
  not on neighboring squares, because a king's list leaves out the squares that the
  other one attacks. `genChecked` looks for every piece but a king; were the kings to
  meet, a check would go unseen. The proof goes from the code's walks to the
  reference's geometry: a ray's squares are those between its ends (`BetweenIs`),
  what a piece bears on is what the rules say (`BearingIsBears`), `genChecked` finds
  a checker exactly when there is one, and the squares on its way (`ChecksAre`,
  `CheckedBy`). Then what checks a king *after* a move (`CheckersAfter`): a piece that
  did before, and is neither taken nor blocked, or one whose line the mover was
  on. The latter is a pin, and `filterPinned` finds it (`PinIs`) and leaves the moves
  that stay on its line (`PinHolds`); the former is what `filterChecked` answers; a
  king goes where nothing attacks once he is gone (`KingGoesSafe`), unless he backs off.

`ServerLifecycleProofs`, for any number of threads, starts and sessions:

* `RunningServers`: a server that says it runs serves, but for the two exceptions.
  The invariant `IInv` ties the managers' states to the step the UI thread is at,
  and says that the accept chain and the tick chain are whole while their managers
  run, that a stop on its way keeps the context alive, and that threads stay while
  there is work.

`SessionManagerProofs`, for any number of sessions and starts, any length of a
write queue and any number of handlers waiting on a strand:

* `TypeCorrect`, `IndexesStayRight`, `MapMatchesSessions`, `WritesTakeTurns`,
  `LateRequestsAreFew`, `AcceptChainHolds`, `StopEmptiesTheMap`,
  `MutexLostInOneWay`: all the safety properties of the sessions' passing runs.

`IInv` has two halves. `Keeping` says of each session that it is `Sound` on its own
and `Registered` as the map has it. That one write is under way needs that the
completion of the last has run, so the invariant speaks of what waits on the strand:
one completion of a read and one of a write at most, and none while the operation is
still outstanding. That a session lets one request through after its leave needs to
know what can still be read: what waits then is a failed read of a header, and the
socket is closed. The first part shows for each handler, once, that it keeps a
session sound (`Ran`, `Answered`, `Chatted`, `ReadCompleted`, `WriteCompleted`), so
each step of the manager changes one session by a lemma, or several by the same one.
`Accepting` counts the accepts on their way, which are never more than the starts:
that bounds what a stop leaves. Removing all sessions is a recursive function; that
it ends with an empty map is an induction over how many have gone, and since the
library's induction theorem cannot be instantiated here, `Induction` proves what is
needed from the pigeonhole principle for finite sets.

`ClientPanelProofs`, for any number of tasks, events and modals, and any
interleaving of the tick thread:

* `ScreenFollows`, `LeftoverResults`, `PromotionsRefused`. The panel's calls call
  each other back, and inside `setScreen` the screen shown has not been entered yet.
  So the invariant is a predicate `Good` of the UI thread's record, of which only
  `Facts` is true in between, and each call has a lemma of its own. That a change of
  state is shown rests on the task for it being posted by every transition
  (`Transitioned`); that a promotion is refused, on the modal having paused the game
  and on nothing resuming the game while the modal is there (`PromotionPauses`); that
  a result without a game is a leftover, on whose game an event that waits is of
  (`EventsHaveGames`). `Ticking` is the last conjunct of `ScreenFollowsState`.

`OnlineClientProofs`, for any number of connections, requests, answers, events and
rooms, and any length of the write queue:

* `WritesPopOwn` and `NotBlamed`. The strand and the io thread behind it are one
  line (`Lined`), in which completions are in the order of their connections; when
  one that connects runs, none of an earlier connection is left behind it. `Staged`
  says what there can be of a connection at each of its stages. That no answer
  surprises the client needs the room that the answers on their way lead to:
  `Leads` says that what the server has sent takes the client, answer by answer,
  from the room it knows to the one the server has it in, and that a message read
  but not yet handled comes first. All of this is `Faithful`, and holds until an
  attempt is misled.
* `ScreensMatch`, in any case. What the client shows is behind the connection by
  the events that wait, so the invariant `Informed` is about the state they will
  take it to: one that matches the connection. It is kept because every handler that
  moves the connection tells so, as the last thing it says (`LastSays`), and because
  the event left out of the queue when it repeats the last one changes nothing
  (`LeftOut`). The state after the events is computed by recursion; `CountingUp` is
  an induction over their number, from the pigeonhole principle.

The assumptions are those the modules state: the empty seat is no session,
configurations are configurations, bounds are naturals, a millisecond is at least a
tick.

The positions that a game on the board starts from are any that `PositionsAssumption`
allows: each piece on a square of its own, and the kings, if both are there, apart.

Only model-checked: the liveness properties (`TimeoutsAreEnforced`,
`RemovedSessionsAreReleased`, `StoppedServersDrain`, `EndsAreRecorded`,
`AttemptsEnd`, `EndsAreShown`, `ExitsWhileTicking`). They are out of the prover's
reach, as is what is `ENABLED`. Every safety property of a passing run is proved.

## What the models show of the code

* A message can be dispatched on a stopped session (run `dispatch`), and a
  request can reach the game manager after the session's last leave.
* A write that completed before a stop, or before the abort of a read that
  failed, reads the front of a cleared queue (`Session.cpp:103`). The runs show
  that this happens to stopped sessions only. The client does the same
  (`MultiplayerClient.cpp:621`) when its connection is closed. It takes the message
  of another connection only after a completion of an earlier `async_connect` was
  taken for a later attempt's (`:340`), which no check prevents: that attempt writes
  its login while its own completion still waits, ends, and the next attempt is
  connected by that completion and loses its login to the write behind it. It takes
  four attempts within the time in which completions wait, and nothing but that
  leads there.
* A broadcast that meets a full write queue may wait for its own lock
  (`SessionManager.cpp:113`, `:89`); the runs show that nothing else does.
* A session that was being accepted during a stop lives on in the stopped
  manager, one for each start at most.
* A game that ends because a move came too late is not announced
  (`GameManager.cpp:295`); `ChangesAreBroadcast` names this one exception.
* After a stop that lets all work go the `io_context` stays stopped: the next start
  says "Running" and serves nobody. A start that comes before the last stop has been
  run on the manager's strand leaves the game manager stopped
  (`GameServer.cpp:35`, `:46`). A restart works when work left over from before
  bridges the two. The threads are never joined.
* The board: a pawn jumps over a piece on its double step (`Board.cpp:1214`), a
  checked king may back off along the line of the check (`:690`) and then be
  captured, a side in double check may move another piece, and a piece behind a full
  list may borrow a move of its predecessor in check (`:1392`). So W_PAWN1 can be
  given its king's capture behind it, on the first row, and is then promoted there to
  a queen: `isPawnPromotable` looks at either row (`:393`), `requiresPromotion` at the
  last one only (`ChessGame.cpp:490`), so nobody asks for the piece. A pinned piece is
  refused the squares on its king's side (`:834`), and the side that checks is
  filtered too, which the comment at `Board.cpp:35` does not say. `isValidMove` lets
  either side move B_ROOK1 (`:453`); only `ChessGame`'s look at the color stops
  White (`ChessGame.cpp:210`). `AcceptedMovesAreLegal`
  and `LegalMovesAreAccepted` show, and their proofs for every game, that there is
  nothing else.
* The local game: a promotion is always refused, because the modal that asks for
  the piece pauses the game (`PromotionModal.cpp:89`); a piece that was promoted is
  asked again when it moves along the last row (`ChessGame.cpp:490`), and the answer
  is ignored.
* The panel: with no tick rate set, the notification of the destructor can be lost
  and `join` waits for ever (`ClientPanel.cpp:62`). A modal pushed while a change of
  state waits makes `onPause` and `handleStatus` call each other until the stack is
  full. A local game's end may be shown for a game that was given up
  (`GameClient.cpp:452`).
* Online: a connection that is lost while a read and a write are under way says so
  twice. The second may put the client back to the server list while the next
  attempt goes on, and that attempt's login then takes the user from wherever he
  is, a local game included, to the lobby (`GameClient.cpp:529`). A peer that takes
  the connection and does not answer the login leaves the client in
  `MultiplayerConnecting` for ever: no timer is set (`MultiplayerClient.cpp:668`). A
  server that was started again after its context had stopped is such a peer, for its
  acceptor listens and nobody accepts (`GameServer.cpp:46`). While the client connects
  the screen lets nobody leave, so the cancelling branch of
  `MultiplayerSelectScreen.cpp:49-54` is never reached, nor the race at
  `MultiplayerClient.cpp:69`.

## Not modelled, and why

* Drawing, forms and input (FTXUI), logging, settings and persistence, the test
  programs: no state that another part depends on, or pure input and output.
* `Message` and its payloads: pushes and reads in sequence with two limits; no
  state outlives a message. A message that cannot be read is one a `Session` may
  get. A long list of rooms can pass the limit of 64 KiB (`Message.cpp:47`), an
  exception that is not modelled.
* `ClientChat`: a bounded list behind one mutex that nothing waits for
  (`ClientChat.hpp:76`).
* The vendored libraries, which are most of the repository's lines, except for what
  asio does with strands, dispatch, timers, cancelled operations, empty buffers and
  a context without work, where the code relies on it.
* Of the board: the move log, the fifty-move rule and `setGameState`, which only the
  test client calls.
* Of the client: `ClientState::Error`, which an exception leads to; the list of
  rooms, the view of a game and chats in the online client.
* Names, passwords as text, chat text, time formatting. A negative clock increment.
  A port in use at `SessionManager.cpp:38`. What a timer does when two threads use
  it at once (`GameManager.cpp:89`). The destructor of a server whose threads still
  run (`GameServer.cpp:24`).
* Message order inside one answer, and the board inside a `GameUpdate`.

## What is left

* `OnlineClient` with `GameManager` for its server, through one queue of messages
  per session: versions in order, and how a game ended.
* `SessionManager` with `GameManager`, joined by the queue of posted requests: who is
  in a room has a session that is not over.
