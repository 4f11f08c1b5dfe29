------------------------- MODULE OnlineClientProofs -------------------------
(***************************************************************************)
(* Proofs about the connection of the online client.                       *)
(*                                                                         *)
(* What waits for the strand is treated as one line, the handlers of the   *)
(* strand and behind them the completions of the io thread: a request of   *)
(* the user joins in the middle, a completion at the end. The completions  *)
(* in it are in the order of the connections they are of. So when the one  *)
(* that connects is run, none of an earlier connection is left, unless it  *)
(* was taken for that of a later one: from then on nothing is claimed.     *)
(*                                                                         *)
(* What the client is told is claimed in any case: every event that says   *)
(* that the connection is somewhere else brings the client there, whatever *)
(* the events before it did, and the others leave both where they are.     *)
(***************************************************************************)
EXTENDS OnlineClient, FiniteSetTheorems, SequenceTheorems, TLAPS

Message == Request \cup {"login"}
Room == RoomID \cup {NoRoom}
LoginAnswer == {"loginAccepted", "loginRejected"}
RoomAnswer == {"roomEntered", "roomLeft", "gameUpdate", "news"}
Answer ==
    {m \in [type : LoginAnswer \cup RoomAnswer, room : Room] :
        m.type = "roomEntered" => m.room # NoRoom}

Connection ==
    [state : {"Idle", "ConnectingNetwork", "AwaitingLogin", "Connected"},
     socket : {"closed", "open", "connected"}, m_socketConnected : BOOLEAN,
     room : Room, m_writeQueue : Seq(Message), connecting : BOOLEAN,
     reading : BOOLEAN, writing : Message \cup {NoMessage}, attempt : Nat,
     misled : BOOLEAN, mispopped : BOOLEAN, blamed : BOOLEAN]

Asked == [type : Request \cup {"connect", "disconnect"}]
Completion ==
    [type : {"connected", "written"}, ok : BOOLEAN, attempt : Nat]
      \cup [type : {"read"}, ok : {TRUE}, attempt : Nat, answer : Answer]
      \cup [type : {"read"}, ok : {FALSE}]

TypeOK ==
    /\ connection \in Connection
    /\ strand \in Seq(Asked \cup Completion)
    /\ ready \in Seq(Completion)
    /\ server \in [up : BOOLEAN, room : Room, sent : Seq(Answer)]

-----------------------------------------------------------------------------
(* The line of what waits for the strand *)

Line(s, t) == {s[i] : i \in 1 .. Len(s)} \cup {t[i] : i \in 1 .. Len(t)}

\* An operation that has succeeded: only such a one does more than end the
\* connection.
Done(x) == x.type \in {"connected", "written", "read"} /\ x.ok
Read(x) == Done(x) /\ x.type = "read"

\* x may be before y.
MayPrecede(x, y) ==
    Done(x) /\ Done(y) =>
        /\ x.attempt <= y.attempt
        /\ ~(Read(x) /\ Read(y) /\ x.attempt = y.attempt)

InOrder(s) == \A i, j \in 1 .. Len(s) : i < j => MayPrecede(s[i], s[j])

Lined(s, t) ==
    /\ InOrder(s)
    /\ InOrder(t)
    /\ \A i \in 1 .. Len(s), j \in 1 .. Len(t) : MayPrecede(s[i], t[j])

-----------------------------------------------------------------------------
(* The connection *)

underWay(c) == c.state \in {"AwaitingLogin", "Connected"}

\* What there is of a connection at each of its stages. While one is under way
\* all that has succeeded is its own.
Staged(c, line) ==
    /\ \A x \in line : Done(x) => x.attempt <= c.attempt
    /\ c.state = "Idle" => c.socket = "closed" /\ ~c.connecting
    /\ c.state # "Idle" => c.socket # "closed"
    /\ ~underWay(c) =>
          c.m_writeQueue = <<>> /\ ~c.reading /\ c.writing = NoMessage
    /\ c.state = "ConnectingNetwork" =>
          \A x \in line : Done(x) /\ x.attempt = c.attempt =>
              x.type = "connected" /\ ~c.connecting
    /\ underWay(c) =>
          /\ ~c.connecting
          /\ \A x \in line : Done(x) => x.attempt = c.attempt
          /\ c.reading => \A x \in line : ~Read(x)

\* The answer takes the client from room a to room b, and is one that it expects.
Moves(a, m, b) ==
    /\ m.type \in RoomAnswer
    /\ b = CASE m.type = "roomEntered" -> m.room
             [] m.type = "roomLeft" -> NoRoom
             [] m.type \in {"gameUpdate", "news"} -> a
    /\ m.type = "gameUpdate" => m.room = a

\* What the server has sent leads from the room to the one it has the client in.
Leads(room, srv) ==
    \E rooms \in [0 .. Len(srv.sent) -> Room] :
        /\ rooms[0] = room
        /\ \A i \in 1 .. Len(srv.sent) : Moves(rooms[i - 1], srv.sent[i], rooms[i])
        /\ srv.up => rooms[Len(srv.sent)] = srv.room

\* Nothing is in the queue behind a login but requests.
LoginIsFirst(c) == \A i \in 2 .. Len(c.m_writeQueue) : c.m_writeQueue[i] # "login"

BeforeLogin(c, line, srv) ==
    /\ srv.room = NoRoom
    /\ c.writing \in {"login", NoMessage}
    /\ Len(c.m_writeQueue) <= 1
    /\ \A x \in line : Read(x) => x.answer.type \in LoginAnswer /\ srv.sent = <<>>
    /\ srv.sent # <<>> => Len(srv.sent) = 1 /\ srv.sent[1].type \in LoginAnswer
    /\ c.writing = "login" => srv.sent = <<>> /\ \A x \in line : ~Read(x)

AfterLogin(c, line, srv) ==
    /\ c.writing # "login"
    /\ \E room \in Room :
         /\ Leads(room, srv)
         /\ \A x \in line : Read(x) => Moves(c.room, x.answer, room)
         /\ (\A x \in line : ~Read(x)) => room = c.room

\* What is on its way from the server is what the client expects.
Expected(c, line, srv) ==
    /\ LoginIsFirst(c)
    /\ c.state = "Idle" => srv = Unconnected
    /\ c.state = "ConnectingNetwork" => srv.room = NoRoom /\ srv.sent = <<>>
    /\ c.state = "AwaitingLogin" => BeforeLogin(c, line, srv)
    /\ c.state = "Connected" => AfterLogin(c, line, srv)

\* A connection that is what the client takes it for: no message of another one
\* has been popped, and no answer come that it could not take.
Session(c, line, srv) ==
    /\ Staged(c, line)
    /\ Expected(c, line, srv)
    /\ ~c.mispopped
    /\ ~c.blamed

Faithful ==
    /\ Lined(strand, ready)
    /\ Session(connection, Line(strand, ready), server)

-----------------------------------------------------------------------------
(* The screens *)

ClientState == {"Idle", "Singleplayer", "MultiplayerSetup", "MultiplayerConnecting",
                "MultiplayerLobby", "MultiplayerInGame"}
Loss == {"connectFailed", "loginFailed", "disconnected"}
Event == Loss \cup {"loginAccepted", "roomEntered", "roomLeft", "gameSync"}

\* handleEvent, when the connection is in the room.
handled(state, event, room) ==
    CASE event = "loginAccepted" -> "MultiplayerLobby"
      [] event \in Loss ->
           IF isMultiplayerState(state) THEN "MultiplayerSetup" ELSE state
      [] event = "roomEntered" -> "MultiplayerInGame"
      [] event = "roomLeft" -> "MultiplayerLobby"
      [] event = "gameSync" ->
           IF state = "MultiplayerLobby" /\ room # NoRoom
           THEN "MultiplayerInGame" ELSE state

\* The states that the events take the client through.
Through(states, from, told, room) ==
    /\ states \in [0 .. Len(told) -> ClientState]
    /\ states[0] = from
    /\ \A i \in 1 .. Len(told) : states[i] = handled(states[i - 1], told[i], room)

\* A lobby, or a game, is that of the connection.
Matches(state, c) ==
    /\ state = "MultiplayerLobby" => c.state = "Connected" /\ c.room = NoRoom
    /\ state = "MultiplayerInGame" => c.state = "Connected" /\ c.room # NoRoom

\* Once it has taken the events that wait, the client will be where the
\* connection is.
Told ==
    \E states \in [0 .. Len(events) -> ClientState] :
        /\ Through(states, client, events, connection.room)
        /\ Matches(states[Len(events)], connection)

\* Whether or not a stale completion has been taken for another.
Informed == client \in ClientState /\ events \in Seq(Event) /\ Told

IInv == TypeOK /\ (~connection.misled => Faithful)

-----------------------------------------------------------------------------
(* Lemmas: the line *)

LEMMA Added ==
  ASSUME NEW T, NEW s \in Seq(T), NEW x \in T
  PROVE  /\ Append(s, x) \in Seq(T) /\ Len(s) \in Nat
         /\ Len(Append(s, x)) = Len(s) + 1
         /\ \A i \in 1 .. Len(s) : Append(s, x)[i] = s[i]
         /\ Append(s, x)[Len(s) + 1] = x
         /\ Append(s, x) # <<>>
<1>1. /\ Append(s, x) \in Seq(T) /\ Len(Append(s, x)) = Len(s) + 1
      /\ \A i \in 1 .. Len(s) : Append(s, x)[i] = s[i]
      /\ Append(s, x)[Len(s) + 1] = x
      /\ Len(s) \in Nat
  BY AppendProperties, LenProperties
<1> QED
  BY <1>1, EmptySeq

LEMMA Removed ==
  ASSUME NEW T, NEW s \in Seq(T), s # <<>>
  PROVE  /\ Tail(s) \in Seq(T) /\ Head(s) \in T /\ Head(s) = s[1]
         /\ Len(s) \in Nat /\ Len(s) > 0 /\ Len(Tail(s)) = Len(s) - 1
         /\ \A i \in 1 .. Len(Tail(s)) : Tail(s)[i] = s[i + 1]
BY HeadTailProperties, EmptySeq, LenProperties

\* A request of the user joins behind the strand's handlers.
LEMMA Joins ==
  ASSUME NEW T, NEW s \in Seq(T), NEW t \in Seq(T), NEW x \in T, ~Done(x),
         Lined(s, t)
  PROVE  /\ Lined(Append(s, x), t)
         /\ Line(Append(s, x), t) = Line(s, t) \cup {x}
<1> DEFINE a == Append(s, x)
<1>1. /\ Len(s) \in Nat /\ Len(t) \in Nat /\ Len(a) = Len(s) + 1
      /\ \A i \in 1 .. Len(s) : a[i] = s[i]
      /\ a[Len(s) + 1] = x
  BY Added, LenProperties
<1> HIDE DEF a
<1>2. \A y : MayPrecede(x, y) /\ MayPrecede(y, x)
  BY DEF MayPrecede
<1>3. \A i \in 1 .. Len(a) : i \in 1 .. Len(s) \/ a[i] = x
  BY <1>1
<1>4. InOrder(a)
  <2> SUFFICES ASSUME NEW i \in 1 .. Len(a), NEW j \in 1 .. Len(a), i < j
               PROVE  MayPrecede(a[i], a[j])
    BY DEF InOrder
  <2>1. CASE i \in 1 .. Len(s) /\ j \in 1 .. Len(s)
    BY <1>1, <2>1 DEF Lined, InOrder
  <2>2. CASE a[i] = x \/ a[j] = x
    BY <1>2, <2>2
  <2> QED
    BY <1>3, <2>1, <2>2
<1>5. ASSUME NEW i \in 1 .. Len(a), NEW j \in 1 .. Len(t)
      PROVE  MayPrecede(a[i], t[j])
  <2>1. CASE i \in 1 .. Len(s)
    BY <1>1, <2>1 DEF Lined
  <2>2. CASE a[i] = x
    BY <1>2, <2>2
  <2> QED
    BY <1>3, <2>1, <2>2
<1>6. Lined(a, t)
  BY <1>4, <1>5 DEF Lined
<1>7. {a[i] : i \in 1 .. Len(a)} = {s[i] : i \in 1 .. Len(s)} \cup {x}
  <2>1. Len(s) + 1 \in 1 .. Len(a) /\ 1 .. Len(s) \subseteq 1 .. Len(a)
    BY <1>1
  <2> QED
    BY <1>1, <1>3, <2>1
<1> QED
  BY <1>6, <1>7 DEF Line, a

\* A completion goes to the end.
LEMMA Completes ==
  ASSUME NEW T, NEW U, NEW s \in Seq(T), NEW t \in Seq(U), NEW x \in U,
         Lined(s, t), \A y \in Line(s, t) : MayPrecede(y, x)
  PROVE  /\ Lined(s, Append(t, x))
         /\ Line(s, Append(t, x)) = Line(s, t) \cup {x}
<1> DEFINE a == Append(t, x)
<1>1. /\ Len(s) \in Nat /\ Len(t) \in Nat /\ Len(a) = Len(t) + 1
      /\ \A i \in 1 .. Len(t) : a[i] = t[i]
      /\ a[Len(t) + 1] = x
  BY Added, LenProperties
<1> HIDE DEF a
<1>2. \A i \in 1 .. Len(a) : i \in 1 .. Len(t) \/ i = Len(t) + 1
  BY <1>1
<1>3. InOrder(a)
  <2> SUFFICES ASSUME NEW i \in 1 .. Len(a), NEW j \in 1 .. Len(a), i < j
               PROVE  MayPrecede(a[i], a[j])
    BY DEF InOrder
  <2>1. i \in 1 .. Len(t)
    BY <1>1
  <2>2. CASE j \in 1 .. Len(t)
    BY <1>1, <2>1, <2>2 DEF Lined, InOrder
  <2>3. CASE j = Len(t) + 1
    <3>1. t[i] \in Line(s, t) /\ a[i] = t[i] /\ a[j] = x
      BY <1>1, <2>1, <2>3 DEF Line
    <3> QED
      BY <3>1
  <2> QED
    BY <1>2, <2>2, <2>3
<1>4. ASSUME NEW i \in 1 .. Len(s), NEW j \in 1 .. Len(a)
      PROVE  MayPrecede(s[i], a[j])
  <2>1. CASE j \in 1 .. Len(t)
    BY <1>1, <2>1 DEF Lined
  <2>2. CASE j = Len(t) + 1
    <3>1. s[i] \in Line(s, t)
      BY DEF Line
    <3> QED
      BY <1>1, <2>2, <3>1
  <2> QED
    BY <1>2, <2>1, <2>2
<1>5. Lined(s, a)
  BY <1>3, <1>4 DEF Lined
<1>6. {a[i] : i \in 1 .. Len(a)} = {t[i] : i \in 1 .. Len(t)} \cup {x}
  <2>1. Len(t) + 1 \in 1 .. Len(a) /\ 1 .. Len(t) \subseteq 1 .. Len(a)
    BY <1>1
  <2> QED
    BY <1>1, <1>2, <2>1
<1> QED
  BY <1>5, <1>6 DEF Line, a

\* The io thread moves the first completion behind the strand's handlers.
LEMMA Moved ==
  ASSUME NEW T, NEW s \in Seq(T), NEW t \in Seq(T), t # <<>>, Lined(s, t)
  PROVE  LET a == Append(s, Head(t))
         IN  Lined(a, Tail(t)) /\ Line(a, Tail(t)) = Line(s, t)
<1> DEFINE x == Head(t)
<1> DEFINE a == Append(s, x)
<1> DEFINE b == Tail(t)
<1>1. /\ x = t[1] /\ x \in T /\ Len(t) \in Nat /\ Len(t) > 0
      /\ Len(b) = Len(t) - 1 /\ \A i \in 1 .. Len(b) : b[i] = t[i + 1]
  BY Removed
<1>2. /\ Len(s) \in Nat /\ Len(a) = Len(s) + 1
      /\ \A i \in 1 .. Len(s) : a[i] = s[i]
      /\ a[Len(s) + 1] = x
  BY <1>1, Added
<1> HIDE DEF a, b, x
<1>3. \A i \in 1 .. Len(a) : i \in 1 .. Len(s) \/ i = Len(s) + 1
  BY <1>2
<1>4. \A j \in 1 .. Len(b) : j + 1 \in 1 .. Len(t) /\ 1 < j + 1
  BY <1>1
<1>5. 1 \in 1 .. Len(t)
  BY <1>1
<1>6. InOrder(a)
  <2> SUFFICES ASSUME NEW i \in 1 .. Len(a), NEW j \in 1 .. Len(a), i < j
               PROVE  MayPrecede(a[i], a[j])
    BY DEF InOrder
  <2>1. i \in 1 .. Len(s)
    BY <1>2
  <2>2. CASE j \in 1 .. Len(s)
    BY <1>2, <2>1, <2>2 DEF Lined, InOrder
  <2>3. CASE j = Len(s) + 1
    BY <1>1, <1>2, <1>5, <2>1, <2>3 DEF Lined
  <2> QED
    BY <1>3, <2>2, <2>3
<1>7. InOrder(b)
  <2> SUFFICES ASSUME NEW i \in 1 .. Len(b), NEW j \in 1 .. Len(b), i < j
               PROVE  MayPrecede(b[i], b[j])
    BY DEF InOrder
  <2>1. i + 1 \in 1 .. Len(t) /\ j + 1 \in 1 .. Len(t) /\ i + 1 < j + 1
    BY <1>4
  <2> QED
    BY <1>1, <2>1 DEF Lined, InOrder
<1>8. ASSUME NEW i \in 1 .. Len(a), NEW j \in 1 .. Len(b)
      PROVE  MayPrecede(a[i], b[j])
  <2>1. CASE i \in 1 .. Len(s)
    BY <1>1, <1>2, <1>4, <2>1 DEF Lined
  <2>2. CASE i = Len(s) + 1
    BY <1>1, <1>2, <1>4, <1>5, <2>2 DEF Lined, InOrder
  <2> QED
    BY <1>3, <2>1, <2>2
<1>9. Lined(a, b)
  BY <1>6, <1>7, <1>8 DEF Lined
<1>10. {a[i] : i \in 1 .. Len(a)} = {s[i] : i \in 1 .. Len(s)} \cup {x}
  <2>1. Len(s) + 1 \in 1 .. Len(a) /\ 1 .. Len(s) \subseteq 1 .. Len(a)
    BY <1>2
  <2> QED
    BY <1>2, <1>3, <2>1
<1>11. {t[i] : i \in 1 .. Len(t)} = {b[i] : i \in 1 .. Len(b)} \cup {x}
  <2>1. \A i \in 1 .. Len(t) : i = 1 \/ (i - 1 \in 1 .. Len(b) /\ b[i - 1] = t[i])
    BY <1>1
  <2>2. \A i \in 1 .. Len(t) : t[i] \in {b[j] : j \in 1 .. Len(b)} \cup {x}
    BY <1>1, <2>1
  <2>3. \A i \in 1 .. Len(b) : b[i] \in {t[j] : j \in 1 .. Len(t)}
    BY <1>1, <1>4, <1>5
  <2>4. x \in {t[j] : j \in 1 .. Len(t)}
    BY <1>1, <1>4, <1>5
  <2> QED
    BY <2>2, <2>3, <2>4
<1>12. Line(a, b) = Line(s, t)
  BY <1>10, <1>11 DEF Line
<1> QED
  BY <1>9, <1>12 DEF a, b, x

\* The first handler is run, and nothing that waits had to come before it.
LEMMA Runs ==
  ASSUME NEW T, NEW U, NEW s \in Seq(T), NEW t \in Seq(U), s # <<>>, Lined(s, t)
  PROVE  /\ Lined(Tail(s), t)
         /\ Line(s, t) = Line(Tail(s), t) \cup {Head(s)}
         /\ \A y \in Line(Tail(s), t) : MayPrecede(Head(s), y)
<1> DEFINE x == Head(s)
<1> DEFINE b == Tail(s)
<1>1. /\ x = s[1] /\ Len(s) \in Nat /\ Len(s) > 0 /\ Len(t) \in Nat
      /\ Len(b) = Len(s) - 1 /\ \A i \in 1 .. Len(b) : b[i] = s[i + 1]
  BY Removed, LenProperties
<1> HIDE DEF b, x
<1>2. \A j \in 1 .. Len(b) : j + 1 \in 1 .. Len(s) /\ 1 < j + 1
  BY <1>1
<1>3. 1 \in 1 .. Len(s)
  BY <1>1
<1>4. InOrder(b)
  <2> SUFFICES ASSUME NEW i \in 1 .. Len(b), NEW j \in 1 .. Len(b), i < j
               PROVE  MayPrecede(b[i], b[j])
    BY DEF InOrder
  <2>1. i + 1 \in 1 .. Len(s) /\ j + 1 \in 1 .. Len(s) /\ i + 1 < j + 1
    BY <1>2
  <2> QED
    BY <1>1, <2>1 DEF Lined, InOrder
<1>5. \A i \in 1 .. Len(b), j \in 1 .. Len(t) : MayPrecede(b[i], t[j])
  BY <1>1, <1>2 DEF Lined
<1>6. Lined(b, t)
  BY <1>4, <1>5 DEF Lined
<1>7. {s[i] : i \in 1 .. Len(s)} = {b[i] : i \in 1 .. Len(b)} \cup {x}
  <2>1. \A i \in 1 .. Len(s) : i = 1 \/ (i - 1 \in 1 .. Len(b) /\ b[i - 1] = s[i])
    BY <1>1
  <2>2. \A i \in 1 .. Len(s) : s[i] \in {b[j] : j \in 1 .. Len(b)} \cup {x}
    BY <1>1, <2>1
  <2>3. \A i \in 1 .. Len(b) : b[i] \in {s[j] : j \in 1 .. Len(s)}
    BY <1>1, <1>2, <1>3
  <2>4. x \in {s[j] : j \in 1 .. Len(s)}
    BY <1>1, <1>2, <1>3
  <2> QED
    BY <2>2, <2>3, <2>4
<1>8. \A i \in 1 .. Len(b) : MayPrecede(x, b[i])
  BY <1>1, <1>2, <1>3 DEF Lined, InOrder
<1>9. \A j \in 1 .. Len(t) : MayPrecede(x, t[j])
  BY <1>1, <1>3 DEF Lined
<1> QED
  BY <1>6, <1>7, <1>8, <1>9 DEF Line, b, x

-----------------------------------------------------------------------------
(* Lemmas: what the handlers leave of a connection *)

\* What is never taken back.
Marked(d, c) == c.misled => d.misled

\* Everything but the queue and the write under way.
SameButQueue(d, c) ==
    /\ d.state = c.state /\ d.socket = c.socket /\ d.room = c.room
    /\ d.m_socketConnected = c.m_socketConnected
    /\ d.connecting = c.connecting /\ d.reading = c.reading
    /\ d.attempt = c.attempt /\ d.misled = c.misled
    /\ d.mispopped = c.mispopped /\ d.blamed = c.blamed

Closed(d, c) ==
    /\ d \in Connection
    /\ d.state = "Idle" /\ d.socket = "closed" /\ d.m_writeQueue = <<>>
    /\ d.connecting = FALSE /\ d.reading = FALSE /\ d.writing = NoMessage
    /\ d.attempt = c.attempt /\ d.misled = c.misled
    /\ d.mispopped = c.mispopped

LEMMA Terminated ==
  ASSUME NEW c \in Connection, NEW event
  PROVE  LET d == terminate(c, event).c
         IN  Closed(d, c) /\ d.blamed = c.blamed
<1>1. <<>> \in Seq(Message) /\ NoRoom \in Room
  BY EmptySeq DEF Room
<1> QED
  BY <1>1 DEF terminate, outcome, closeTransport, Closed, Connection

LEMMA Blaming ==
  ASSUME NEW c \in Connection, NEW live \in BOOLEAN, NEW event
  PROVE  LET d == protocolError(c, live, event).c
         IN  Closed(d, c) /\ (d.blamed => c.blamed \/ live)
<1> DEFINE blamed == c.blamed \/ live
<1> DEFINE b == [c EXCEPT !.blamed = blamed]
<1>1. blamed \in BOOLEAN /\ (blamed => c.blamed \/ live)
  BY DEF Connection
<1>2. protocolError(c, live, event) = terminate(b, event)
  BY DEF protocolError
<1> HIDE DEF blamed
<1>3. /\ b \in Connection /\ b.blamed = blamed /\ b.attempt = c.attempt
      /\ b.misled = c.misled /\ b.mispopped = c.mispopped
  BY <1>1 DEF Connection
<1> HIDE DEF b
<1>4. Closed(terminate(b, event).c, b) /\ terminate(b, event).c.blamed = b.blamed
  BY <1>3, Terminated
<1> QED
  BY <1>1, <1>2, <1>3, <1>4 DEF Closed

LEMMA Queued ==
  ASSUME NEW c \in Connection, NEW message \in Message
  PROVE  LET d == queueSend(c, message)
         IN  /\ d \in Connection /\ SameButQueue(d, c)
             /\ \/ ~canQueue(c) /\ d = c
                \/ /\ d.m_writeQueue = Append(c.m_writeQueue, message)
                   /\ d.writing = IF c.m_writeQueue = <<>> THEN message
                                  ELSE c.writing
<1> DEFINE queue == Append(c.m_writeQueue, message)
<1> DEFINE queued == [c EXCEPT !.m_writeQueue = queue]
<1>1. c.m_writeQueue \in Seq(Message) /\ queue \in Seq(Message) /\ queue # <<>>
  BY Added DEF Connection
<1>2. c.m_writeQueue = <<>> => Head(queue) = message
  BY <1>1, Added, Removed, EmptySeq
<1> HIDE DEF queue
<1>3. /\ queued \in Connection /\ queued.m_writeQueue = queue
      /\ queued.writing = c.writing /\ SameButQueue(queued, c)
  BY <1>1 DEF Connection, SameButQueue
<1> DEFINE begun == [queued EXCEPT !.writing = message]
<1>4. queueSend(c, message) =
        IF ~canQueue(c) THEN c
        ELSE IF c.m_writeQueue = <<>> THEN doWrite(queued) ELSE queued
  BY DEF queueSend, queue
<1> HIDE DEF queued
<1>5. c.m_writeQueue = <<>> => doWrite(queued) = begun
  BY <1>1, <1>2, <1>3 DEF doWrite
<1>6. /\ begun \in Connection /\ begun.m_writeQueue = queue
      /\ begun.writing = message /\ SameButQueue(begun, c)
  BY <1>3 DEF Connection, SameButQueue
<1> HIDE DEF begun
<1>7. CASE ~canQueue(c)
  BY <1>4, <1>7 DEF SameButQueue
<1>8. CASE canQueue(c) /\ c.m_writeQueue = <<>>
  BY <1>4, <1>5, <1>6, <1>8 DEF queue
<1>9. CASE canQueue(c) /\ c.m_writeQueue # <<>>
  BY <1>3, <1>4, <1>9 DEF queue
<1> QED
  BY <1>7, <1>8, <1>9

\* A message that is not a login leaves the login first.
LEMMA QueuedBehind ==
  ASSUME NEW c \in Connection, NEW message \in Request
  PROVE  LET d == queueSend(c, message)
         IN  /\ d \in Connection /\ SameButQueue(d, c)
             /\ LoginIsFirst(c) => LoginIsFirst(d)
             /\ c.writing # "login" => d.writing # "login"
<1> DEFINE d == queueSend(c, message)
<1>1. message \in Message /\ message # "login"
  BY DEF Message, Request
<1>2. /\ d \in Connection /\ SameButQueue(d, c)
      /\ \/ ~canQueue(c) /\ d = c
         \/ /\ d.m_writeQueue = Append(c.m_writeQueue, message)
            /\ d.writing = IF c.m_writeQueue = <<>> THEN message ELSE c.writing
  BY <1>1, Queued
<1> HIDE DEF d
<1>3. c.m_writeQueue \in Seq(Message)
  BY DEF Connection
<1>4. CASE d = c
  BY <1>2, <1>4 DEF d
<1>5. CASE /\ d.m_writeQueue = Append(c.m_writeQueue, message)
           /\ d.writing = IF c.m_writeQueue = <<>> THEN message ELSE c.writing
  <2>1. ASSUME LoginIsFirst(c) PROVE LoginIsFirst(d)
    <3>1. /\ Len(d.m_writeQueue) = Len(c.m_writeQueue) + 1
          /\ Len(c.m_writeQueue) \in Nat
          /\ \A i \in 1 .. Len(c.m_writeQueue) :
                d.m_writeQueue[i] = c.m_writeQueue[i]
          /\ d.m_writeQueue[Len(c.m_writeQueue) + 1] = message
      BY <1>1, <1>3, <1>5, Added
    <3>2. \A i \in 2 .. Len(d.m_writeQueue) :
             \/ i \in 2 .. Len(c.m_writeQueue) /\ i \in 1 .. Len(c.m_writeQueue)
             \/ i = Len(c.m_writeQueue) + 1
      BY <3>1
    <3> QED
      BY <1>1, <2>1, <3>1, <3>2 DEF LoginIsFirst
  <2> QED
    BY <1>1, <1>2, <1>5, <2>1 DEF d
<1> QED
  BY <1>2, <1>4, <1>5 DEF d

LEMMA Requested ==
  ASSUME NEW c \in Connection, NEW request \in Request
  PROVE  LET d == doRequest(c, request).c
         IN  d = c \/ (c.state = "Connected" /\ d = queueSend(c, request))
BY DEF doRequest, quiet, outcome

LEMMA ReadBegun ==
  ASSUME NEW c \in Connection
  PROVE  LET d == doReadHeader(c)
         IN  /\ d \in Connection
             /\ c.socket = "closed" => d = c
             /\ c.socket # "closed" =>
                   d = [c EXCEPT !.reading = TRUE] /\ d.reading = TRUE
             /\ d.state = c.state /\ d.socket = c.socket /\ d.room = c.room
             /\ d.connecting = c.connecting /\ d.m_writeQueue = c.m_writeQueue
             /\ d.writing = c.writing
             /\ d.attempt = c.attempt /\ d.misled = c.misled
             /\ d.mispopped = c.mispopped /\ d.blamed = c.blamed
BY DEF doReadHeader, Connection

\* What an answer leaves of a connection that goes on: one that is logged in, or
\* in the room that the answer takes it to.
Onward(d, c, m) ==
    /\ d \in Connection
    /\ d.state = "Connected"
    /\ d.socket = c.socket /\ d.connecting = c.connecting
    /\ d.attempt = c.attempt /\ d.misled = c.misled
    /\ d.mispopped = c.mispopped /\ d.blamed = c.blamed
    /\ LoginIsFirst(c) => LoginIsFirst(d)
    /\ c.writing # "login" => d.writing # "login"
    /\ \/ c.state = "AwaitingLogin" /\ m.type \in LoginAnswer /\ d.room = NoRoom
       \/ c.state = "Connected" /\ Moves(c.room, m, d.room)

\* The connection expects the answer.
Welcome(c, m) ==
    \/ c.state = "AwaitingLogin" /\ m.type \in LoginAnswer
    \/ c.state = "Connected" /\ \E b \in Room : Moves(c.room, m, b)

LEMMA WentOn ==
  ASSUME NEW c \in Connection, NEW e \in Connection, NEW m,
         e.state = "Connected", e.socket = c.socket,
         e.connecting = c.connecting, e.attempt = c.attempt,
         e.misled = c.misled, e.mispopped = c.mispopped, e.blamed = c.blamed,
         e.m_writeQueue = c.m_writeQueue, e.writing = c.writing,
         \/ c.state = "AwaitingLogin" /\ m.type \in LoginAnswer /\ e.room = NoRoom
         \/ c.state = "Connected" /\ Moves(c.room, m, e.room)
  PROVE  Onward(e, c, m) /\ Onward(queueSend(e, "tell"), c, m)
<1>1. "tell" \in Request
  BY DEF Request
<1> DEFINE d == queueSend(e, "tell")
<1>2. /\ d \in Connection /\ SameButQueue(d, e)
      /\ LoginIsFirst(e) => LoginIsFirst(d)
      /\ e.writing # "login" => d.writing # "login"
  BY <1>1, QueuedBehind
<1> HIDE DEF d
<1>3. LoginIsFirst(c) <=> LoginIsFirst(e)
  BY DEF LoginIsFirst
<1>4. Onward(e, c, m)
  BY <1>3 DEF Onward
<1>5. Onward(d, c, m)
  BY <1>2, <1>3 DEF Onward, SameButQueue
<1> QED
  BY <1>4, <1>5 DEF d

LEMMA Answered ==
  ASSUME NEW c \in Connection, NEW live \in BOOLEAN, NEW m \in Answer
  PROVE  \E d, news1 :
            /\ onAnswer(c, live, m) = outcome(d, news1)
            /\ \/ Onward(d, c, m)
               \/ /\ Closed(d, c)
                  /\ d.blamed => c.blamed \/ (live /\ ~Welcome(c, m))
<1>1. m.type \in LoginAnswer \cup RoomAnswer /\ m.room \in Room /\ c.room \in Room
  BY DEF Answer, Connection
<1>2. ASSUME NEW event, ~Welcome(c, m), onAnswer(c, live, m) = protocolError(c, live, event)
      PROVE  \E d, news1 :
                /\ onAnswer(c, live, m) = outcome(d, news1)
                /\ Closed(d, c) /\ (d.blamed => c.blamed \/ (live /\ ~Welcome(c, m)))
  <2> DEFINE d == protocolError(c, live, event).c
  <2>1. Closed(d, c) /\ (d.blamed => c.blamed \/ live)
    BY Blaming
  <2>2. protocolError(c, live, event) = outcome(d, <<event>>)
    BY DEF protocolError, terminate, outcome
  <2> HIDE DEF d
  <2> QED
    BY <1>2, <2>1, <2>2
<1>3. CASE m.type \in LoginAnswer /\ c.state # "AwaitingLogin"
  <2>1. onAnswer(c, live, m) = protocolError(c, live, "loginFailed")
    BY <1>3 DEF onAnswer, onLoginResponse, LoginAnswer
  <2>2. ~Welcome(c, m)
    BY <1>3 DEF Welcome, Moves, LoginAnswer, RoomAnswer
  <2> QED
    BY <1>2, <2>1, <2>2
<1>4. CASE m.type = "loginRejected" /\ c.state = "AwaitingLogin"
  <2> DEFINE d == terminate(c, "loginFailed").c
  <2>1. Closed(d, c) /\ d.blamed = c.blamed
    BY Terminated
  <2>2. terminate(c, "loginFailed") = outcome(d, <<"loginFailed">>)
    BY DEF terminate, outcome
  <2>3. onAnswer(c, live, m) = terminate(c, "loginFailed")
    BY <1>4 DEF onAnswer, onLoginResponse
  <2> HIDE DEF d
  <2> QED
    BY <2>1, <2>2, <2>3
<1>5. CASE m.type = "loginAccepted" /\ c.state = "AwaitingLogin"
  <2> DEFINE e == [c EXCEPT !.state = "Connected", !.room = NoRoom]
  <2>1. onAnswer(c, live, m) = outcome(queueSend(e, "tell"), <<"loginAccepted">>)
    BY <1>5 DEF onAnswer, onLoginResponse
  <2>2. /\ e \in Connection /\ e.state = "Connected" /\ e.socket = c.socket
        /\ e.connecting = c.connecting /\ e.attempt = c.attempt
        /\ e.misled = c.misled /\ e.mispopped = c.mispopped
        /\ e.blamed = c.blamed /\ e.m_writeQueue = c.m_writeQueue
        /\ e.writing = c.writing /\ e.room = NoRoom
    BY DEF Connection, Room
  <2>3. m.type \in LoginAnswer
    BY <1>5 DEF LoginAnswer
  <2> HIDE DEF e
  <2>4. Onward(queueSend(e, "tell"), c, m)
    BY <1>5, <2>2, <2>3, WentOn
  <2> QED
    BY <2>1, <2>4
<1>6. CASE m.type \in RoomAnswer /\ c.state # "Connected"
  <2>1. onAnswer(c, live, m) = protocolError(c, live, "disconnected")
    BY <1>6 DEF onAnswer, RoomAnswer
  <2>2. ~Welcome(c, m)
    BY <1>6 DEF Welcome, LoginAnswer, RoomAnswer
  <2> QED
    BY <1>2, <2>1, <2>2
<1>7. CASE m.type \in {"roomEntered", "roomLeft"} /\ c.state = "Connected"
  <2> DEFINE room == IF m.type = "roomEntered" THEN m.room ELSE NoRoom
  <2> DEFINE e == [c EXCEPT !.room = room]
  <2>1. \E news1 : onAnswer(c, live, m) = outcome(queueSend(e, "tell"), news1)
    BY <1>7 DEF onAnswer, onRoomEntered, onRoomLeft
  <2>2. room \in Room /\ Moves(c.room, m, room)
    BY <1>1, <1>7 DEF Moves, RoomAnswer, Room
  <2> HIDE DEF room
  <2>3. /\ e \in Connection /\ e.state = "Connected" /\ e.socket = c.socket
        /\ e.connecting = c.connecting /\ e.attempt = c.attempt
        /\ e.misled = c.misled /\ e.mispopped = c.mispopped
        /\ e.blamed = c.blamed /\ e.m_writeQueue = c.m_writeQueue
        /\ e.writing = c.writing /\ e.room = room
    BY <1>7, <2>2 DEF Connection
  <2> HIDE DEF e
  <2>4. Onward(queueSend(e, "tell"), c, m)
    BY <1>7, <2>2, <2>3, WentOn
  <2> QED
    BY <2>1, <2>4
<1>8. CASE m.type = "gameUpdate" /\ c.state = "Connected" /\ c.room # m.room
  <2>1. onAnswer(c, live, m) = protocolError(c, live, "disconnected")
    BY <1>8 DEF onAnswer, onGameUpdate
  <2>2. ~Welcome(c, m)
    BY <1>8 DEF Welcome, Moves
  <2> QED
    BY <1>2, <2>1, <2>2
<1>9. CASE /\ c.state = "Connected"
           /\ m.type = "news" \/ (m.type = "gameUpdate" /\ c.room = m.room)
  <2>1. \E news1 : onAnswer(c, live, m) = outcome(c, news1)
    BY <1>9 DEF onAnswer, onGameUpdate, quiet
  <2>2. Moves(c.room, m, c.room)
    BY <1>9 DEF Moves, RoomAnswer
  <2>3. Onward(c, c, m)
    BY <1>9, <2>2, WentOn
  <2> QED
    BY <2>1, <2>3
<1> QED
  BY <1>1, <1>3, <1>4, <1>5, <1>6, <1>7, <1>8, <1>9 DEF LoginAnswer, RoomAnswer

LEMMA Transported ==
  ASSUME NEW b \in Connection
  PROVE  LET d == onTransportConnected(b).c
         IN  \/ Closed(d, b) /\ d.blamed = b.blamed
             \/ /\ b.state = "ConnectingNetwork"
                /\ d \in Connection /\ d.state = "AwaitingLogin"
                /\ d.m_writeQueue = Append(b.m_writeQueue, "login")
                /\ d.writing = IF b.m_writeQueue = <<>> THEN "login" ELSE b.writing
                /\ d.reading = TRUE
                /\ d.socket = b.socket /\ d.room = b.room
                /\ d.connecting = b.connecting
                /\ d.attempt = b.attempt /\ d.misled = b.misled
                /\ d.mispopped = b.mispopped /\ d.blamed = b.blamed
<1> DEFINE e == [b EXCEPT !.m_socketConnected = TRUE, !.state = "AwaitingLogin"]
<1> DEFINE q == queueSend(e, "login")
<1> DEFINE d == onTransportConnected(b).c
<1>1. /\ e \in Connection /\ e.state = "AwaitingLogin"
      /\ e.m_writeQueue = b.m_writeQueue /\ e.writing = b.writing
      /\ e.m_socketConnected = TRUE
      /\ e.socket = b.socket /\ e.room = b.room /\ e.connecting = b.connecting
      /\ e.attempt = b.attempt /\ e.misled = b.misled
      /\ e.mispopped = b.mispopped /\ e.blamed = b.blamed
  BY DEF Connection
<1>2. canQueue([b EXCEPT !.m_socketConnected = TRUE]) <=> canQueue(e)
  BY DEF canQueue, Connection
<1>3. onTransportConnected(b) =
        IF b.state # "ConnectingNetwork" THEN terminate(b, "connectFailed")
        ELSE IF ~canQueue(e) THEN terminate(q, "connectFailed")
        ELSE quiet([q EXCEPT !.reading = TRUE])
  BY <1>2 DEF onTransportConnected
<1>4. "login" \in Message
  BY DEF Message
<1> HIDE DEF e
<1>5. /\ q \in Connection /\ SameButQueue(q, e)
      /\ \/ ~canQueue(e) /\ q = e
         \/ /\ q.m_writeQueue = Append(e.m_writeQueue, "login")
            /\ q.writing = IF e.m_writeQueue = <<>> THEN "login" ELSE e.writing
  BY <1>1, <1>4, Queued
<1> HIDE DEF q
<1>6. CASE b.state # "ConnectingNetwork"
  BY <1>3, <1>6, Terminated
<1>7. CASE b.state = "ConnectingNetwork" /\ ~canQueue(e)
  <2>1. Closed(terminate(q, "connectFailed").c, q)
        /\ terminate(q, "connectFailed").c.blamed = q.blamed
    BY <1>5, Terminated
  <2>2. d = terminate(q, "connectFailed").c
    BY <1>3, <1>7
  <2> HIDE DEF d
  <2>3. Closed(d, b) /\ d.blamed = b.blamed
    BY <1>1, <1>5, <2>1, <2>2 DEF Closed, SameButQueue
  <2> QED
    BY <2>3 DEF d
<1>8. CASE b.state = "ConnectingNetwork" /\ canQueue(e)
  <2>1. d = [q EXCEPT !.reading = TRUE]
    BY <1>3, <1>8 DEF quiet, outcome
  <2> HIDE DEF d
  <2>2. /\ d \in Connection /\ d.state = q.state /\ d.reading = TRUE
        /\ d.m_writeQueue = q.m_writeQueue /\ d.writing = q.writing
        /\ d.socket = q.socket /\ d.room = q.room /\ d.connecting = q.connecting
        /\ d.attempt = q.attempt /\ d.misled = q.misled
        /\ d.mispopped = q.mispopped /\ d.blamed = q.blamed
    BY <1>5, <2>1 DEF Connection
  <2> QED
    BY <1>1, <1>5, <1>8, <2>2 DEF SameButQueue, d
<1> QED
  BY <1>6, <1>7, <1>8

LEMMA WrittenPops ==
  ASSUME NEW c \in Connection, NEW x, x.ok
  PROVE  LET d == writeHandler(c, x).c
         IN  /\ d \in Connection
             /\ d.state = c.state /\ d.socket = c.socket /\ d.room = c.room
             /\ d.connecting = c.connecting /\ d.reading = c.reading
             /\ d.attempt = c.attempt /\ d.misled = c.misled
             /\ d.blamed = c.blamed
             /\ d.mispopped =>
                  \/ c.mispopped
                  \/ /\ c.m_writeQueue # <<>>
                     /\ ~(x.attempt = c.attempt /\ c.socket # "closed")
             /\ c.m_writeQueue = <<>> =>
                  d.m_writeQueue = <<>> /\ d.writing = c.writing
             /\ c.m_writeQueue # <<>> =>
                  /\ d.m_writeQueue = Tail(c.m_writeQueue)
                  /\ d.writing = IF Tail(c.m_writeQueue) = <<>> THEN c.writing
                                 ELSE Head(Tail(c.m_writeQueue))
<1> DEFINE queue == IF c.m_writeQueue = <<>> THEN <<>> ELSE Tail(c.m_writeQueue)
<1> DEFINE live == x.attempt = c.attempt /\ c.socket # "closed"
<1> DEFINE mispopped == c.mispopped \/ (~live /\ c.m_writeQueue # <<>>)
<1> DEFINE p == [c EXCEPT !.m_writeQueue = queue, !.mispopped = mispopped]
<1> DEFINE d == writeHandler(c, x).c
<1>1. c.m_writeQueue \in Seq(Message)
  BY DEF Connection
<1>2. queue \in Seq(Message) /\ (queue # <<>> => Head(queue) \in Message)
  <2>1. queue \in Seq(Message)
    BY <1>1, EmptySeq, Removed
  <2> HIDE DEF queue
  <2> QED
    BY <2>1, Removed
<1>3. mispopped \in BOOLEAN
  BY DEF Connection
<1>4. d = doWrite(p)
  BY DEF writeHandler, quiet, outcome
<1>5. /\ c.m_writeQueue = <<>> => queue = <<>>
      /\ c.m_writeQueue # <<>> => queue = Tail(c.m_writeQueue)
      /\ mispopped => c.mispopped \/ (~live /\ c.m_writeQueue # <<>>)
  OBVIOUS
<1> HIDE DEF queue, mispopped, d
<1>6. /\ p \in Connection
      /\ p.state = c.state /\ p.socket = c.socket /\ p.room = c.room
      /\ p.connecting = c.connecting /\ p.reading = c.reading
      /\ p.attempt = c.attempt /\ p.misled = c.misled
      /\ p.blamed = c.blamed /\ p.m_writeQueue = queue
      /\ p.mispopped = mispopped /\ p.writing = c.writing
  BY <1>2, <1>3 DEF Connection
<1> HIDE DEF p
<1>7. /\ d \in Connection
      /\ d.state = p.state /\ d.socket = p.socket /\ d.room = p.room
      /\ d.connecting = p.connecting /\ d.reading = p.reading
      /\ d.attempt = p.attempt /\ d.misled = p.misled
      /\ d.blamed = p.blamed /\ d.m_writeQueue = queue
      /\ d.mispopped = p.mispopped
      /\ d.writing = IF queue = <<>> THEN p.writing ELSE Head(queue)
  <2>1. CASE queue = <<>>
    BY <1>4, <1>6, <2>1 DEF doWrite
  <2>2. CASE queue # <<>>
    <3>1. d = [p EXCEPT !.writing = Head(queue)]
      BY <1>4, <1>6, <2>2 DEF doWrite
    <3> QED
      BY <1>2, <1>6, <2>2, <3>1 DEF Connection
  <2> QED
    BY <2>1, <2>2
<1> QED
  BY <1>5, <1>6, <1>7 DEF d

-----------------------------------------------------------------------------
(* Lemmas: the handlers keep the session *)

LEMMA Closing ==
  ASSUME NEW c, NEW d, Closed(d, c), ~d.mispopped, ~d.blamed,
         NEW line, \A x \in line : Done(x) => x.attempt <= c.attempt
  PROVE  Session(d, line, Unconnected)
<1>1. /\ d.state = "Idle" /\ d.socket = "closed" /\ d.m_writeQueue = <<>>
      /\ d.connecting = FALSE /\ d.reading = FALSE /\ d.writing = NoMessage
      /\ d.attempt = c.attempt
  BY DEF Closed
<1>2. Staged(d, line)
  BY <1>1 DEF Staged, underWay
<1>3. LoginIsFirst(d)
  <2>1. Len(d.m_writeQueue) = 0
    BY <1>1, EmptySeq
  <2> QED
    BY <2>1 DEF LoginIsFirst
<1>4. Expected(d, line, Unconnected)
  BY <1>1, <1>3 DEF Expected
<1> QED
  BY <1>2, <1>4 DEF Session

\* What the server is for the client after a handler.
Seen(d, srv) == IF d.socket = "closed" THEN Unconnected ELSE srv

LEMMA SeenAsBefore ==
  ASSUME NEW c, NEW line, NEW srv, Session(c, line, srv)
  PROVE  /\ Seen(c, srv) = srv
         /\ \A x \in line : Done(x) => x.attempt <= c.attempt
BY DEF Session, Staged, Expected, Seen

\* A handler that has run is gone.
LEMMA Dropped ==
  ASSUME NEW c, NEW line, NEW x, NEW srv, Session(c, line \cup {x}, srv), ~Read(x)
  PROVE  Session(c, line, srv)
<1>1. Staged(c, line)
  BY DEF Session, Staged
<1>2. BeforeLogin(c, line \cup {x}, srv) => BeforeLogin(c, line, srv)
  BY DEF BeforeLogin
<1>3. AfterLogin(c, line \cup {x}, srv) => AfterLogin(c, line, srv)
  BY DEF AfterLogin
<1> QED
  BY <1>1, <1>2, <1>3 DEF Session, Expected

Dated(line) == \A x \in line : Done(x) => x.attempt \in Nat

\* A handler of the line, and what it may leave of the connection: what it leaves
\* of the connection that was taken for its own remains one.
Ran(c, x, line, srv, d) ==
    /\ d \in Connection
    /\ Marked(d, c)
    /\ (Session(c, line \cup {x}, srv) /\ ~d.misled) =>
          Session(d, line, Seen(d, srv))

LEMMA RanToClosed ==
  ASSUME NEW c, NEW d, Closed(d, c), NEW x, NEW line, NEW srv,
         Session(c, line \cup {x}, srv) => ~d.blamed
  PROVE  Ran(c, x, line, srv, d)
<1>1. d \in Connection /\ Marked(d, c) /\ d.socket = "closed" /\ d.mispopped = c.mispopped
  BY DEF Closed, Marked
<1>2. ASSUME Session(c, line \cup {x}, srv)
      PROVE  Session(d, line, Seen(d, srv))
  <2>1. ~c.mispopped /\ \A y \in line : Done(y) => y.attempt <= c.attempt
    BY <1>2, SeenAsBefore DEF Session
  <2>2. Session(d, line, Unconnected)
    BY <1>1, <1>2, <2>1, Closing
  <2> QED
    BY <1>1, <2>2 DEF Seen
<1> QED
  BY <1>1, <1>2 DEF Ran

LEMMA RanInVain ==
  ASSUME NEW c \in Connection, NEW x, ~Read(x), NEW line, NEW srv
  PROVE  Ran(c, x, line, srv, c)
BY Dropped, SeenAsBefore DEF Ran, Marked

LEMMA ConnectRan ==
  ASSUME NEW c \in Connection, NEW x, ~Done(x), NEW line, NEW srv, Dated(line),
         NEW valid \in BOOLEAN, NEW opened \in BOOLEAN
  PROVE  Ran(c, x, line, srv, doRequestConnect(c, valid, opened).c)
<1> DEFINE next == c.attempt + 1
<1> DEFINE b == [c EXCEPT !.state = "ConnectingNetwork",
                          !.m_socketConnected = FALSE, !.attempt = next]
<1> DEFINE e == [b EXCEPT !.socket = "open", !.connecting = TRUE]
<1>1. c.attempt \in Nat /\ next \in Nat /\ next > c.attempt
  BY DEF Connection
<1>2. doRequestConnect(c, valid, opened) =
        IF c.state # "Idle" \/ ~valid THEN outcome(c, <<"connectFailed">>)
        ELSE IF ~opened THEN terminate(b, "connectFailed") ELSE quiet(e)
  BY DEF doRequestConnect
<1> HIDE DEF next
<1>3. /\ b \in Connection /\ b.attempt = next /\ b.misled = c.misled
      /\ b.mispopped = c.mispopped /\ b.blamed = c.blamed
  BY <1>1 DEF Connection
<1>4. /\ e \in Connection /\ e.state = "ConnectingNetwork" /\ e.socket = "open"
      /\ e.connecting = TRUE /\ e.reading = c.reading /\ e.writing = c.writing
      /\ e.m_writeQueue = c.m_writeQueue
      /\ e.attempt = next /\ e.misled = c.misled
      /\ e.mispopped = c.mispopped /\ e.blamed = c.blamed
  BY <1>1 DEF Connection
<1> HIDE DEF b, e
<1>5. ASSUME Session(c, line \cup {x}, srv)
      PROVE  /\ ~c.mispopped /\ ~c.blamed
             /\ \A y \in line : Done(y) => y.attempt <= c.attempt
  BY <1>5, SeenAsBefore DEF Session
<1>6. CASE c.state # "Idle" \/ ~valid
  BY <1>2, <1>6, RanInVain DEF Read, outcome
<1>7. CASE c.state = "Idle" /\ valid /\ ~opened
  <2> DEFINE d == terminate(b, "connectFailed").c
  <2>1. Closed(d, b) /\ d.blamed = b.blamed
    BY <1>3, Terminated
  <2>2. doRequestConnect(c, valid, opened).c = d
    BY <1>2, <1>7
  <2> HIDE DEF d
  <2>3. /\ d \in Connection /\ d.socket = "closed" /\ d.misled = c.misled
        /\ d.mispopped = c.mispopped /\ d.blamed = c.blamed
    BY <1>3, <2>1 DEF Closed
  <2>4. ASSUME Session(c, line \cup {x}, srv)
        PROVE  Session(d, line, Seen(d, srv))
    <3>1. \A y \in line : Done(y) => y.attempt <= b.attempt
      BY <1>1, <1>3, <1>5, <2>4 DEF Dated
    <3>2. Session(d, line, Unconnected)
      BY <1>5, <2>1, <2>3, <2>4, <3>1, Closing
    <3> QED
      BY <2>3, <3>2 DEF Seen
  <2> QED
    BY <2>2, <2>3, <2>4 DEF Ran, Marked
<1>8. CASE c.state = "Idle" /\ valid /\ opened
  <2>1. doRequestConnect(c, valid, opened).c = e
    BY <1>2, <1>8 DEF quiet, outcome
  <2>2. ASSUME Session(c, line \cup {x}, srv)
        PROVE  Session(e, line, Seen(e, srv))
    <3>1. /\ c.m_writeQueue = <<>> /\ ~c.reading /\ c.writing = NoMessage
          /\ srv = Unconnected
      BY <1>8, <2>2 DEF Session, Staged, Expected, underWay
    <3>2. \A y \in line : Done(y) => y.attempt <= e.attempt /\ y.attempt # e.attempt
      BY <1>1, <1>4, <1>5, <2>2 DEF Dated
    <3>3. Staged(e, line)
      BY <1>4, <3>1, <3>2 DEF Staged, underWay
    <3>4. LoginIsFirst(e)
      BY <1>4, <3>1, EmptySeq DEF LoginIsFirst
    <3>5. Expected(e, line, srv)
      BY <1>4, <3>1, <3>4 DEF Expected, Unconnected
    <3> QED
      BY <1>4, <1>5, <2>2, <3>3, <3>5 DEF Session, Seen
  <2> QED
    BY <1>4, <2>1, <2>2 DEF Ran, Marked
<1> QED
  BY <1>6, <1>7, <1>8

LEMMA DisconnectRan ==
  ASSUME NEW c \in Connection, NEW x, ~Done(x), NEW line, NEW srv
  PROVE  Ran(c, x, line, srv, doRequestDisconnect(c).c)
<1> DEFINE d == terminate(c, "disconnected").c
<1>1. Closed(d, c) /\ d.blamed = c.blamed
  BY Terminated
<1>2. doRequestDisconnect(c).c = c \/ doRequestDisconnect(c).c = d
  BY DEF doRequestDisconnect, quiet, outcome
<1> HIDE DEF d
<1>3. Session(c, line \cup {x}, srv) => ~d.blamed
  BY <1>1 DEF Session
<1>4. Ran(c, x, line, srv, d)
  BY <1>1, <1>3, RanToClosed
<1>5. Ran(c, x, line, srv, c)
  BY RanInVain DEF Read
<1> QED
  BY <1>2, <1>4, <1>5

LEMMA RequestRan ==
  ASSUME NEW c \in Connection, NEW request \in Request,
         NEW x, ~Done(x), NEW line, NEW srv
  PROVE  Ran(c, x, line, srv, doRequest(c, request).c)
<1> DEFINE d == queueSend(c, request)
<1>1. doRequest(c, request).c = c \/ (c.state = "Connected" /\ doRequest(c, request).c = d)
  BY Requested
<1>2. /\ d \in Connection /\ SameButQueue(d, c)
      /\ LoginIsFirst(c) => LoginIsFirst(d)
      /\ c.writing # "login" => d.writing # "login"
  BY QueuedBehind
<1> HIDE DEF d
<1>3. ASSUME c.state = "Connected", Session(c, line \cup {x}, srv)
      PROVE  Session(d, line, Seen(d, srv))
  <2>1. Session(c, line, srv) /\ Seen(c, srv) = srv
    BY <1>3, Dropped, SeenAsBefore DEF Read
  <2>2. Staged(d, line)
    BY <1>2, <1>3, <2>1 DEF Session, Staged, SameButQueue, underWay
  <2>3. AfterLogin(d, line, srv)
    BY <1>2, <1>3, <2>1 DEF Session, Expected, AfterLogin, SameButQueue
  <2>4. Expected(d, line, srv)
    BY <1>2, <1>3, <2>1, <2>3 DEF Session, Expected, SameButQueue
  <2>5. Seen(d, srv) = srv
    BY <1>2, <2>1 DEF Seen, SameButQueue
  <2> QED
    BY <1>2, <2>1, <2>2, <2>4, <2>5 DEF Session, SameButQueue
<1>4. c.state = "Connected" => Ran(c, x, line, srv, d)
  BY <1>2, <1>3 DEF Ran, Marked, SameButQueue
<1>5. Ran(c, x, line, srv, c)
  BY RanInVain DEF Read
<1> QED
  BY <1>1, <1>4, <1>5

LEMMA ConnectedRan ==
  ASSUME NEW c \in Connection, NEW x, Done(x), x.type = "connected",
         NEW line, NEW srv, Dated(line \cup {x}), \A y \in line : MayPrecede(x, y)
  PROVE  Ran(c, x, line, srv, connectHandler(c, x).c)
<1> DEFINE misled == c.misled \/ misleads(c, x)
<1> DEFINE b == [c EXCEPT !.misled = misled]
<1> DEFINE d == onTransportConnected(b).c
<1>1. misled \in BOOLEAN
  BY DEF Connection, misleads
<1>2. connectHandler(c, x) = onTransportConnected(b)
  BY DEF connectHandler, Done
<1>3. misled <=> c.misled \/ misleads(c, x)
  OBVIOUS
<1> HIDE DEF misled
<1>4. /\ b \in Connection /\ b.state = c.state /\ b.socket = c.socket
      /\ b.room = c.room /\ b.m_writeQueue = c.m_writeQueue
      /\ b.connecting = c.connecting /\ b.reading = c.reading
      /\ b.writing = c.writing /\ b.attempt = c.attempt /\ b.misled = misled
      /\ b.mispopped = c.mispopped /\ b.blamed = c.blamed
  BY <1>1 DEF Connection
<1> HIDE DEF b
<1>5. \/ Closed(d, b) /\ d.blamed = b.blamed
      \/ /\ b.state = "ConnectingNetwork"
         /\ d \in Connection /\ d.state = "AwaitingLogin"
         /\ d.m_writeQueue = Append(b.m_writeQueue, "login")
         /\ d.writing = IF b.m_writeQueue = <<>> THEN "login" ELSE b.writing
         /\ d.reading = TRUE
         /\ d.socket = b.socket /\ d.room = b.room
         /\ d.connecting = b.connecting
         /\ d.attempt = b.attempt /\ d.misled = b.misled
         /\ d.mispopped = b.mispopped /\ d.blamed = b.blamed
  BY <1>4, Transported
<1> HIDE DEF d
<1>6. CASE Closed(d, b) /\ d.blamed = b.blamed
  <2>1. /\ d \in Connection /\ d.misled = misled /\ d.socket = "closed"
        /\ d.mispopped = c.mispopped /\ d.blamed = c.blamed
    BY <1>4, <1>6 DEF Closed
  <2>2. ASSUME Session(c, line \cup {x}, srv)
        PROVE  Session(d, line, Seen(d, srv))
    <3>1. \A y \in line : Done(y) => y.attempt <= b.attempt
      BY <1>4, <2>2, SeenAsBefore
    <3>2. Session(d, line, Unconnected)
      BY <1>6, <2>1, <2>2, <3>1, Closing DEF Session
    <3> QED
      BY <2>1, <3>2 DEF Seen
  <2> QED
    BY <1>2, <1>3, <2>1, <2>2 DEF Ran, Marked, d
<1>7. CASE /\ b.state = "ConnectingNetwork"
           /\ d \in Connection /\ d.state = "AwaitingLogin"
           /\ d.m_writeQueue = Append(b.m_writeQueue, "login")
           /\ d.writing = IF b.m_writeQueue = <<>> THEN "login" ELSE b.writing
           /\ d.reading = TRUE
           /\ d.socket = b.socket /\ d.room = b.room
           /\ d.connecting = b.connecting
           /\ d.attempt = b.attempt /\ d.misled = b.misled
           /\ d.mispopped = b.mispopped /\ d.blamed = b.blamed
  <2>1. ASSUME Session(c, line \cup {x}, srv), ~d.misled
        PROVE  Session(d, line, Seen(d, srv))
    <3>1. x.attempt = c.attempt
      BY <1>3, <1>4, <1>7, <2>1 DEF misleads
    <3>2. /\ c.socket # "closed" /\ c.m_writeQueue = <<>> /\ ~c.connecting
          /\ srv.room = NoRoom /\ srv.sent = <<>>
          /\ ~c.mispopped /\ ~c.blamed
      BY <1>4, <1>7, <2>1, <3>1 DEF Session, Staged, Expected, underWay
    <3>3. \A y \in line : Done(y) => y.attempt <= c.attempt
      BY <2>1, SeenAsBefore
    <3>4. \A y \in line : Done(y) => y.attempt = c.attempt
      BY <3>1, <3>3 DEF MayPrecede, Dated, Connection
    <3>5. \A y \in line : ~Read(y)
      BY <1>4, <1>7, <2>1, <3>4 DEF Session, Staged, Read
    <3>6. Staged(d, line)
      BY <1>4, <1>7, <3>2, <3>3, <3>4, <3>5 DEF Staged, underWay
    <3>7. Len(d.m_writeQueue) = 1
      <4>1. <<>> \in Seq(Message) /\ "login" \in Message /\ Len(<<>>) = 0
        BY EmptySeq DEF Message
      <4> QED
        BY <1>4, <1>7, <3>2, <4>1, Added
    <3>8. LoginIsFirst(d)
      BY <3>7 DEF LoginIsFirst
    <3>9. BeforeLogin(d, line, srv)
      BY <1>4, <1>7, <3>2, <3>5, <3>7 DEF BeforeLogin
    <3>10. Expected(d, line, srv)
      BY <1>7, <3>8, <3>9 DEF Expected
    <3> QED
      BY <1>4, <1>7, <3>2, <3>6, <3>10 DEF Session, Seen
  <2> QED
    BY <1>2, <1>3, <1>4, <1>7, <2>1 DEF Ran, Marked, d
<1> QED
  BY <1>5, <1>6, <1>7

\* The answer that has come is one that the client expects.
LEMMA ReadIsWelcome ==
  ASSUME NEW c, NEW line, NEW x \in line, NEW srv, Session(c, line, srv),
         Read(x), x.attempt = c.attempt, c.socket # "closed",
         c.state \in {"Idle", "ConnectingNetwork", "AwaitingLogin", "Connected"}
  PROVE  Welcome(c, x.answer)
<1>1. CASE c.state = "Idle"
  BY <1>1 DEF Session, Staged
<1>2. CASE c.state = "ConnectingNetwork"
  BY <1>2 DEF Session, Staged, Read
<1>3. CASE c.state = "AwaitingLogin"
  BY <1>3 DEF Session, Expected, BeforeLogin, Welcome
<1>4. CASE c.state = "Connected"
  BY <1>4 DEF Session, Expected, AfterLogin, Welcome
<1> QED
  BY <1>1, <1>2, <1>3, <1>4

\* Nothing sent leads nowhere.
LEMMA NothingSent ==
  ASSUME NEW room \in Room, NEW srv, srv.sent = <<>>, srv.up => srv.room = room
  PROVE  Leads(room, srv)
<1> DEFINE rooms == [i \in 0 .. Len(srv.sent) |-> room]
<1>1. Len(srv.sent) = 0
  BY EmptySeq
<1>2. rooms \in [0 .. Len(srv.sent) -> Room]
  OBVIOUS
<1>3. rooms[0] = room /\ rooms[Len(srv.sent)] = room
  BY <1>1
<1>4. \A i \in 1 .. Len(srv.sent) : Moves(rooms[i - 1], srv.sent[i], rooms[i])
  BY <1>1
<1> HIDE DEF rooms
<1> QED
  BY <1>2, <1>3, <1>4 DEF Leads

\* An answer that lets the client go on leaves what is behind it expected.
LEMMA OnwardRan ==
  ASSUME NEW c \in Connection, NEW x, Read(x), NEW line, NEW srv,
         Dated(line \cup {x}), \A y \in line : MayPrecede(x, y),
         NEW d, Onward(d, c, x.answer), Session(c, line \cup {x}, srv)
  PROVE  /\ d.socket # "closed"
         /\ Session([d EXCEPT !.reading = TRUE], line, srv)
<1> DEFINE e == [d EXCEPT !.reading = TRUE]
<1>1. /\ d \in Connection /\ d.state = "Connected"
      /\ d.socket = c.socket /\ d.connecting = c.connecting
      /\ d.attempt = c.attempt /\ d.mispopped = c.mispopped
      /\ d.blamed = c.blamed
      /\ LoginIsFirst(c) => LoginIsFirst(d)
      /\ c.writing # "login" => d.writing # "login"
      /\ \/ c.state = "AwaitingLogin" /\ x.answer.type \in LoginAnswer /\ d.room = NoRoom
         \/ c.state = "Connected" /\ Moves(c.room, x.answer, d.room)
  BY DEF Onward
<1>2. underWay(c)
  BY <1>1 DEF underWay
<1>3. /\ c.socket # "closed" /\ ~c.connecting
      /\ \A y \in line \cup {x} : Done(y) => y.attempt = c.attempt
      /\ ~c.mispopped /\ ~c.blamed /\ LoginIsFirst(c)
  BY <1>2 DEF Session, Staged, Expected, underWay
<1>4. \A y \in line : ~Read(y)
  BY <1>3 DEF MayPrecede, Read
<1>5. /\ e.state = "Connected" /\ e.reading = TRUE
      /\ e.socket = c.socket /\ e.connecting = c.connecting
      /\ e.attempt = c.attempt /\ e.mispopped = c.mispopped
      /\ e.blamed = c.blamed /\ e.room = d.room /\ e.writing = d.writing
      /\ e.m_writeQueue = d.m_writeQueue
  BY <1>1 DEF Connection
<1> HIDE DEF e
<1>6. e.attempt \in Nat /\ e.room \in Room
  BY <1>1, <1>5 DEF Connection
<1>7. Staged(e, line)
  BY <1>3, <1>4, <1>5, <1>6 DEF Staged, underWay
<1>8. AfterLogin(e, line, srv)
  <2>1. CASE /\ c.state = "AwaitingLogin" /\ d.room = NoRoom
    <3>1. BeforeLogin(c, line \cup {x}, srv)
      BY <2>1 DEF Session, Expected
    <3>2. srv.sent = <<>> /\ srv.room = NoRoom /\ c.writing # "login"
      BY <3>1 DEF BeforeLogin
    <3>3. Leads(e.room, srv)
      BY <1>5, <1>6, <2>1, <3>2, NothingSent
    <3> QED
      BY <1>1, <1>4, <1>5, <1>6, <3>2, <3>3 DEF AfterLogin
  <2>2. CASE c.state = "Connected" /\ Moves(c.room, x.answer, d.room)
    <3>1. AfterLogin(c, line \cup {x}, srv)
      BY <2>2 DEF Session, Expected
    <3>2. PICK room \in Room : Leads(room, srv) /\ Moves(c.room, x.answer, room)
      BY <3>1 DEF AfterLogin
    <3>3. room = d.room
      BY <2>2, <3>2 DEF Moves
    <3>4. c.writing # "login"
      BY <3>1 DEF AfterLogin
    <3> QED
      BY <1>1, <1>4, <1>5, <1>6, <3>2, <3>3, <3>4 DEF AfterLogin
  <2> QED
    BY <1>1, <2>1, <2>2
<1>9. LoginIsFirst(e)
  BY <1>1, <1>3, <1>5 DEF LoginIsFirst
<1>10. Expected(e, line, srv)
  BY <1>5, <1>8, <1>9 DEF Expected
<1> QED
  BY <1>1, <1>3, <1>5, <1>7, <1>10 DEF Session, e

LEMMA ReadRan ==
  ASSUME NEW c \in Connection, NEW x, Read(x), x.answer \in Answer,
         NEW line, NEW srv,
         Dated(line \cup {x}), \A y \in line : MayPrecede(x, y)
  PROVE  Ran(c, x, line, srv, readHandler(c, x).c)
<1> DEFINE live == x.attempt = c.attempt /\ c.socket # "closed"
<1>1. live \in BOOLEAN
  OBVIOUS
<1> DEFINE m == x.answer
<1>2. \E d, told :
        /\ onAnswer(c, live, m) = outcome(d, told)
        /\ \/ Onward(d, c, m)
           \/ /\ Closed(d, c)
              /\ d.blamed => c.blamed \/ (live /\ ~Welcome(c, m))
  <2> HIDE DEF live
  <2> QED
    BY <1>1, Answered
<1>3. PICK d, told :
        /\ onAnswer(c, live, m) = outcome(d, told)
        /\ \/ Onward(d, c, m)
           \/ /\ Closed(d, c)
              /\ d.blamed => c.blamed \/ (live /\ ~Welcome(c, m))
  BY <1>2, Zenon
<1> DEFINE e == readHandler(c, x).c
<1>4. e = doReadHeader(d)
  BY <1>3 DEF readHandler, outcome, Read, Done
<1> HIDE DEF e
<1>5. CASE Onward(d, c, x.answer)
  <2>1. d \in Connection /\ d.misled = c.misled
    BY <1>5 DEF Onward
  <2>2. /\ e \in Connection /\ e.misled = d.misled /\ e.socket = d.socket
        /\ d.socket # "closed" => e = [d EXCEPT !.reading = TRUE]
    BY <1>4, <2>1, ReadBegun
  <2>3. ASSUME Session(c, line \cup {x}, srv)
        PROVE  Session(e, line, Seen(e, srv))
    <3>1. d.socket # "closed" /\ Session([d EXCEPT !.reading = TRUE], line, srv)
      BY <1>5, <2>3, OnwardRan
    <3> QED
      BY <2>2, <3>1 DEF Seen
  <2> QED
    BY <2>1, <2>2, <2>3 DEF Ran, Marked, e
<1>6. CASE /\ Closed(d, c)
           /\ d.blamed => c.blamed \/ (live /\ ~Welcome(c, x.answer))
  <2>1. e = d
    BY <1>4, <1>6 DEF doReadHeader, Closed
  <2>2. ASSUME Session(c, line \cup {x}, srv) PROVE ~d.blamed
    <3>1. live => Welcome(c, x.answer)
      BY <2>2, ReadIsWelcome DEF Connection
    <3> QED
      BY <1>6, <2>2, <3>1 DEF Session
  <2>3. Ran(c, x, line, srv, d)
    BY <1>6, <2>2, RanToClosed
  <2> QED
    BY <2>1, <2>3 DEF e
<1> QED
  BY <1>3, <1>5, <1>6

LEMMA WrittenRan ==
  ASSUME NEW c \in Connection, NEW x, Done(x), x.type = "written",
         NEW line, NEW srv
  PROVE  Ran(c, x, line, srv, writeHandler(c, x).c)
<1> DEFINE d == writeHandler(c, x).c
<1>1. /\ d \in Connection
      /\ d.state = c.state /\ d.socket = c.socket /\ d.room = c.room
      /\ d.connecting = c.connecting /\ d.reading = c.reading
      /\ d.attempt = c.attempt /\ d.misled = c.misled
      /\ d.blamed = c.blamed
      /\ d.mispopped =>
           \/ c.mispopped
           \/ /\ c.m_writeQueue # <<>>
              /\ ~(x.attempt = c.attempt /\ c.socket # "closed")
      /\ c.m_writeQueue = <<>> =>
           d.m_writeQueue = <<>> /\ d.writing = c.writing
      /\ c.m_writeQueue # <<>> =>
           /\ d.m_writeQueue = Tail(c.m_writeQueue)
           /\ d.writing = IF Tail(c.m_writeQueue) = <<>> THEN c.writing
                          ELSE Head(Tail(c.m_writeQueue))
  BY WrittenPops DEF Done
<1> HIDE DEF d
<1>2. ASSUME Session(c, line \cup {x}, srv)
      PROVE  Session(d, line, Seen(d, srv))
  <2>1. Session(c, line, srv) /\ Seen(d, srv) = srv
    BY <1>1, <1>2, Dropped, SeenAsBefore DEF Read, Seen
  <2>2. CASE c.m_writeQueue = <<>>
    <3>1. ~d.mispopped
      BY <1>1, <2>1, <2>2 DEF Session
    <3>2. Staged(d, line)
      BY <1>1, <2>1, <2>2 DEF Session, Staged, underWay
    <3>3. LoginIsFirst(d)
      BY <1>1, <2>1, <2>2 DEF LoginIsFirst, Session, Expected
    <3>4. /\ BeforeLogin(c, line, srv) => BeforeLogin(d, line, srv)
          /\ AfterLogin(c, line, srv) => AfterLogin(d, line, srv)
      BY <1>1, <2>2 DEF BeforeLogin, AfterLogin
    <3>5. Expected(d, line, srv)
      BY <1>1, <2>1, <3>3, <3>4 DEF Session, Expected
    <3> QED
      BY <1>1, <2>1, <3>1, <3>2, <3>5 DEF Session
  <2>3. CASE c.m_writeQueue # <<>>
    <3>1. underWay(c) /\ x.attempt = c.attempt /\ c.socket # "closed"
      BY <1>2, <2>3 DEF Session, Staged, underWay
    <3>2. ~d.mispopped
      BY <1>1, <2>1, <3>1 DEF Session
    <3>3. Staged(d, line)
      BY <1>1, <2>1, <3>1 DEF Session, Staged, underWay
    <3>4. /\ Tail(c.m_writeQueue) \in Seq(Message)
          /\ Len(c.m_writeQueue) \in Nat /\ Len(c.m_writeQueue) > 0
          /\ Len(Tail(c.m_writeQueue)) = Len(c.m_writeQueue) - 1
          /\ \A i \in 1 .. Len(Tail(c.m_writeQueue)) :
                Tail(c.m_writeQueue)[i] = c.m_writeQueue[i + 1]
      BY <2>3, Removed DEF Connection
    <3>5. \A i \in 1 .. Len(d.m_writeQueue) : d.m_writeQueue[i] # "login"
      <4>1. \A i \in 1 .. Len(Tail(c.m_writeQueue)) :
               i + 1 \in 2 .. Len(c.m_writeQueue)
        BY <3>4
      <4> QED
        BY <1>1, <2>1, <2>3, <3>4, <4>1 DEF LoginIsFirst, Session, Expected
    <3>6. LoginIsFirst(d)
      BY <1>1, <2>3, <3>4, <3>5 DEF LoginIsFirst
    <3>7. d.writing # "login" \/ d.writing = c.writing
      <4>1. CASE d.m_writeQueue = <<>>
        BY <1>1, <2>3, <4>1
      <4>2. CASE d.m_writeQueue # <<>>
        <5>1. d.m_writeQueue \in Seq(Message) /\ d.writing = Head(d.m_writeQueue)
          BY <1>1, <2>3, <3>4, <4>2
        <5>2. /\ Head(d.m_writeQueue) = d.m_writeQueue[1]
              /\ Len(d.m_writeQueue) \in Nat /\ Len(d.m_writeQueue) > 0
          BY <4>2, <5>1, Removed
        <5>3. 1 \in 1 .. Len(d.m_writeQueue)
          BY <5>2
        <5> QED
          BY <3>5, <5>1, <5>2, <5>3
      <4> QED
        BY <4>1, <4>2
    <3>8. c.state = "AwaitingLogin" => BeforeLogin(d, line, srv)
      <4> SUFFICES ASSUME c.state = "AwaitingLogin" PROVE BeforeLogin(d, line, srv)
        OBVIOUS
      <4>1. BeforeLogin(c, line, srv)
        BY <2>1 DEF Session, Expected
      <4>2. Len(d.m_writeQueue) = 0
        BY <1>1, <2>3, <3>4, <4>1, Removed DEF BeforeLogin, Connection
      <4>3. d.writing = c.writing
        BY <1>1, <2>3, <3>4, <4>2, EmptySeq
      <4> QED
        BY <4>1, <4>2, <4>3 DEF BeforeLogin
    <3>9. c.state = "Connected" => AfterLogin(d, line, srv)
      BY <1>1, <2>1, <3>7 DEF Session, Expected, AfterLogin
    <3>10. Expected(d, line, srv)
      BY <1>1, <2>1, <3>6, <3>8, <3>9 DEF Session, Expected
    <3> QED
      BY <1>1, <2>1, <3>2, <3>3, <3>10 DEF Session
  <2> QED
    BY <2>2, <2>3
<1> QED
  BY <1>1, <1>2 DEF Ran, Marked, d

LEMMA Times ==
  ASSUME NEW line, line \subseteq Asked \cup Completion
  PROVE  Dated(line)
BY DEF Dated, Asked, Completion, Done, Request

\* Whatever is at the front of the strand.
LEMMA HandlerRan ==
  ASSUME NEW x \in Asked \cup Completion,
         NEW line, line \subseteq Asked \cup Completion, NEW srv,
         \A y \in line : MayPrecede(x, y),
         NEW result \in outcomes(x), connection \in Connection
  PROVE  Ran(connection, x, line, srv, result.c)
<1>1. Dated(line) /\ Dated(line \cup {x})
  BY Times
<1>2. CASE x \in Asked
  <2>1. ~Done(x) /\ x.type \in Request \cup {"connect", "disconnect"}
    BY <1>2 DEF Asked, Done, Request
  <2>2. CASE x.type = "connect"
    <3>1. outcomes(x) = {doRequestConnect(connection, valid, opened) :
                            valid \in BOOLEAN, opened \in BOOLEAN}
      BY <2>2 DEF outcomes, Request
    <3>2. PICK valid \in BOOLEAN, opened \in BOOLEAN :
            result = doRequestConnect(connection, valid, opened)
      BY <3>1
    <3> QED
      BY <1>1, <2>1, <3>2, ConnectRan
  <2>3. CASE x.type = "disconnect"
    <3>1. result = doRequestDisconnect(connection)
      BY <2>3 DEF outcomes, Request
    <3> QED
      BY <2>1, <3>1, DisconnectRan
  <2>4. CASE x.type \in Request
    <3>1. result = doRequest(connection, x.type)
      BY <2>4 DEF outcomes, Request
    <3> QED
      BY <2>1, <2>4, <3>1, RequestRan
  <2> QED
    BY <2>1, <2>2, <2>3, <2>4
<1>3. CASE x \in Completion
  <2>1. x.type \in {"connected", "written", "read"} /\ x.ok \in BOOLEAN
    BY <1>3 DEF Completion
  <2>2. CASE ~x.ok
    <3>1. \E event : result = terminate(connection, event)
      BY <2>1, <2>2 DEF outcomes, Request, connectHandler, readHandler, writeHandler
    <3>2. PICK event : result = terminate(connection, event)
      BY <3>1
    <3>3. Closed(result.c, connection) /\ result.c.blamed = connection.blamed
      BY <3>2, Terminated
    <3> QED
      BY <3>3, RanToClosed DEF Session
  <2>3. CASE x.ok /\ x.type = "connected"
    <3>1. result = connectHandler(connection, x)
      BY <2>3 DEF outcomes, Request
    <3> QED
      BY <1>1, <2>3, <3>1, ConnectedRan DEF Done
  <2>4. CASE x.ok /\ x.type = "read"
    <3>1. result = readHandler(connection, x)
      BY <2>4 DEF outcomes, Request
    <3>2. x.answer \in Answer
      BY <1>3, <2>4 DEF Completion
    <3> QED
      BY <1>1, <2>4, <3>1, <3>2, ReadRan DEF Read, Done
  <2>5. CASE x.ok /\ x.type = "written"
    <3>1. result = writeHandler(connection, x)
      BY <2>5 DEF outcomes, Request
    <3> QED
      BY <2>5, <3>1, WrittenRan DEF Done
  <2> QED
    BY <2>1, <2>2, <2>3, <2>4, <2>5
<1> QED
  BY <1>2, <1>3

-----------------------------------------------------------------------------
(* Lemmas: the network and the server keep the session *)

\* What is not a success changes nothing for those that wait.
LEMMA Indifferent ==
  ASSUME NEW c, NEW line, NEW x, ~Done(x), NEW srv, Session(c, line, srv)
  PROVE  Session(c, line \cup {x}, srv)
<1>1. Staged(c, line \cup {x})
  BY DEF Session, Staged, Read
<1>2. BeforeLogin(c, line, srv) => BeforeLogin(c, line \cup {x}, srv)
  BY DEF BeforeLogin, Read
<1>3. AfterLogin(c, line, srv) => AfterLogin(c, line \cup {x}, srv)
  BY DEF AfterLogin, Read
<1> QED
  BY <1>1, <1>2, <1>3 DEF Session, Expected

\* The server sends one more answer.
LEMMA LeadsOn ==
  ASSUME NEW a, NEW srv, srv.sent \in Seq(Answer), srv.up, Leads(a, srv),
         NEW m \in Answer, NEW b \in Room, Moves(srv.room, m, b),
         NEW srv2, srv2.sent = Append(srv.sent, m), srv2.room = b
  PROVE  Leads(a, srv2)
<1> DEFINE n == Len(srv.sent)
<1>1. PICK rooms \in [0 .. n -> Room] :
        /\ rooms[0] = a
        /\ \A i \in 1 .. n : Moves(rooms[i - 1], srv.sent[i], rooms[i])
        /\ rooms[n] = srv.room
  BY DEF Leads
<1>2. /\ n \in Nat /\ Len(srv2.sent) = n + 1
      /\ \A i \in 1 .. n : srv2.sent[i] = srv.sent[i]
      /\ srv2.sent[n + 1] = m
  BY Added
<1> DEFINE longer == [i \in 0 .. n + 1 |-> IF i = n + 1 THEN b ELSE rooms[i]]
<1> HIDE DEF n
<1>3. longer \in [0 .. n + 1 -> Room]
  BY <1>1, <1>2
<1>4. longer[0] = a /\ longer[n + 1] = b /\ longer[n] = srv.room
  BY <1>1, <1>2
<1>5. \A i \in 1 .. n : longer[i - 1] = rooms[i - 1] /\ longer[i] = rooms[i]
  BY <1>2
<1> HIDE DEF longer
<1>6. \A i \in 1 .. n + 1 : Moves(longer[i - 1], srv2.sent[i], longer[i])
  <2> SUFFICES ASSUME NEW i \in 1 .. n + 1
               PROVE  Moves(longer[i - 1], srv2.sent[i], longer[i])
    OBVIOUS
  <2>1. CASE i = n + 1
    <3>1. i - 1 = n
      BY <1>2, <2>1
    <3> QED
      BY <1>2, <1>4, <2>1, <3>1
  <2>2. CASE i \in 1 .. n
    BY <1>1, <1>2, <1>5, <2>2
  <2> QED
    BY <1>2, <2>1, <2>2
<1> QED
  BY <1>2, <1>3, <1>4, <1>6 DEF Leads

\* The client reads the first.
LEMMA LeadsFrom ==
  ASSUME NEW a, NEW srv, srv.sent \in Seq(Answer), srv.sent # <<>>, Leads(a, srv),
         NEW srv2, srv2.sent = Tail(srv.sent), srv2.room = srv.room,
         srv2.up = srv.up
  PROVE  \E b \in Room : Moves(a, Head(srv.sent), b) /\ Leads(b, srv2)
<1> DEFINE n == Len(srv.sent)
<1>1. PICK rooms \in [0 .. n -> Room] :
        /\ rooms[0] = a
        /\ \A i \in 1 .. n : Moves(rooms[i - 1], srv.sent[i], rooms[i])
        /\ srv.up => rooms[n] = srv.room
  BY DEF Leads
<1>2. /\ n \in Nat /\ n > 0 /\ Len(srv2.sent) = n - 1
      /\ Head(srv.sent) = srv.sent[1]
      /\ \A i \in 1 .. n - 1 : srv2.sent[i] = srv.sent[i + 1]
  BY Removed
<1> DEFINE shorter == [i \in 0 .. n - 1 |-> rooms[i + 1]]
<1> HIDE DEF n
<1>3. /\ shorter \in [0 .. n - 1 -> Room] /\ rooms[1] \in Room
      /\ shorter[0] = rooms[1] /\ shorter[n - 1] = rooms[n]
  BY <1>1, <1>2
<1>4. \A i \in 1 .. n - 1 : /\ shorter[i] = rooms[i + 1]
                            /\ shorter[i - 1] = rooms[i]
                            /\ i + 1 \in 1 .. n /\ (i + 1) - 1 = i
  BY <1>2
<1> HIDE DEF shorter
<1>5. \A i \in 1 .. n - 1 : Moves(shorter[i - 1], srv2.sent[i], shorter[i])
  BY <1>1, <1>2, <1>4
<1>6. Leads(rooms[1], srv2)
  BY <1>1, <1>2, <1>3, <1>5 DEF Leads
<1>7. Moves(a, Head(srv.sent), rooms[1])
  <2>1. 1 \in 1 .. n /\ 1 - 1 = 0
    BY <1>2
  <2> QED
    BY <1>1, <1>2, <2>1
<1> QED
  BY <1>3, <1>6, <1>7

\* What the server answers to a request leads on from the room it has it in.
LEMMA RequestAnswered ==
  ASSUME server \in [up : BOOLEAN, room : Room, sent : Seq(Answer)],
         NEW request \in Message, NEW reply \in serverAnswers(request)
  PROVE  LET after == [server EXCEPT !.room = reply[1], !.sent = @ \o reply[2]]
         IN  /\ after \in [up : BOOLEAN, room : Room, sent : Seq(Answer)]
             /\ request = "login" =>
                   /\ after.room = NoRoom
                   /\ \E m \in Answer : /\ m.type \in LoginAnswer
                                        /\ reply[2] = <<m>>
             /\ \A a : server.up /\ request # "login" /\ Leads(a, server)
                          => Leads(a, after)
<1> DEFINE after == [server EXCEPT !.room = reply[1], !.sent = @ \o reply[2]]
<1> DEFINE Srv == [up : BOOLEAN, room : Room, sent : Seq(Answer)]
<1>1. server.sent \in Seq(Answer) /\ server.room \in Room /\ server.up \in BOOLEAN
  OBVIOUS
<1>2. ASSUME NEW m, reply[2] = <<m>>, m \in Answer, reply[1] \in Room,
             request # "login" => Moves(server.room, m, reply[1])
      PROVE  /\ after \in Srv
             /\ \A a : server.up /\ request # "login" /\ Leads(a, server)
                          => Leads(a, after)
  <2>1. server.sent \o reply[2] = Append(server.sent, m)
    BY <1>1, <1>2, AppendIsConcat
  <2>2. Append(server.sent, m) \in Seq(Answer)
    BY <1>1, <1>2, Added
  <2>3. after.room = reply[1] /\ after.sent = Append(server.sent, m) /\ after \in Srv
    BY <1>2, <2>1, <2>2
  <2> QED
    BY <1>1, <1>2, <2>3, LeadsOn
<1>3. CASE request = "login"
  <2>1. serverAnswers(request) =
          {<<NoRoom, <<answer("loginAccepted", NoRoom)>>>>,
           <<NoRoom, <<answer("loginRejected", NoRoom)>>>>}
    BY <1>3 DEF serverAnswers
  <2>2. PICK m \in {answer("loginAccepted", NoRoom), answer("loginRejected", NoRoom)} :
          reply = <<NoRoom, <<m>>>>
    BY <2>1
  <2>3. m \in Answer /\ m.type \in LoginAnswer
    BY <2>2 DEF answer, Answer, LoginAnswer, Room
  <2>4. reply[1] = NoRoom /\ reply[2] = <<m>> /\ NoRoom \in Room
    BY <2>2 DEF Room
  <2>5. after \in Srv
    BY <1>2, <1>3, <2>3, <2>4
  <2>6. after.room = NoRoom
    BY <2>4
  <2> HIDE DEF after
  <2>7. \E k \in Answer : k.type \in LoginAnswer /\ reply[2] = <<k>>
    BY <2>3, <2>4
  <2> QED
    BY <1>3, <2>5, <2>6, <2>7 DEF after
<1>4. ASSUME request # "login", NEW a \in Room, NEW m \in Answer, NEW b \in Room,
             reply = <<b, <<m>>>>, Moves(server.room, m, b)
      PROVE  /\ after \in Srv
             /\ \A c : server.up /\ Leads(c, server) => Leads(c, after)
  BY <1>2, <1>4
<1>5. news \in Answer /\ Moves(server.room, news, server.room)
  BY DEF news, answer, Answer, RoomAnswer, LoginAnswer, Room, Moves
<1>6. ASSUME request # "login", reply = <<server.room, <<news>>>>
      PROVE  /\ after \in Srv
             /\ \A a : server.up /\ Leads(a, server) => Leads(a, after)
  BY <1>1, <1>4, <1>5, <1>6
<1>7. CASE request = "tell"
  <2>1. serverAnswers(request) = {<<server.room, <<>>>>, <<server.room, <<news>>>>}
    BY <1>7 DEF serverAnswers
  <2>2. CASE reply = <<server.room, <<>>>>
    <3>1. server.sent \o reply[2] = server.sent
      BY <1>1, <2>2, ConcatEmptySeq
    <3>2. after = server
      BY <2>2, <3>1
    <3> QED
      BY <1>7, <3>2
  <2> QED
    BY <1>6, <1>7, <2>1, <2>2
<1>8. CASE request = "leave"
  <2>1. CASE server.room = NoRoom
    <3>1. reply = <<server.room, <<news>>>>
      BY <1>8, <2>1 DEF serverAnswers
    <3> QED
      BY <1>6, <1>8, <3>1
  <2>2. CASE server.room # NoRoom
    <3> DEFINE m == answer("roomLeft", NoRoom)
    <3>1. reply = <<NoRoom, <<m>>>>
      BY <1>8, <2>2 DEF serverAnswers
    <3>2. m \in Answer /\ Moves(server.room, m, NoRoom) /\ NoRoom \in Room
      BY DEF answer, Answer, RoomAnswer, LoginAnswer, Room, Moves
    <3> QED
      BY <1>4, <1>8, <3>1, <3>2
  <2> QED
    BY <2>1, <2>2
<1>9. CASE request = "enter"
  <2>1. \/ reply = <<server.room, <<news>>>>
        \/ \E room \in RoomID :
             reply = <<room, <<answer("roomEntered", room), answer("gameUpdate", room)>>>>
    BY <1>9 DEF serverAnswers
  <2>2. ASSUME NEW room \in RoomID,
               reply = <<room, <<answer("roomEntered", room), answer("gameUpdate", room)>>>>
        PROVE  /\ after \in Srv
               /\ \A a : server.up /\ Leads(a, server) => Leads(a, after)
    <3> DEFINE m1 == answer("roomEntered", room)
    <3> DEFINE m2 == answer("gameUpdate", room)
    <3>1. /\ m1 \in Answer /\ Moves(server.room, m1, room) /\ room \in Room
          /\ m2 \in Answer /\ Moves(room, m2, room)
      BY NoRoomAssumption DEF answer, Answer, RoomAnswer, LoginAnswer, Room, Moves
    <3>2. reply[1] = room /\ reply[2] = <<m1, m2>>
      BY <2>2
    <3> HIDE DEF m1, m2
    <3> DEFINE sent1 == Append(server.sent, m1)
    <3> DEFINE sent2 == Append(sent1, m2)
    <3> DEFINE mid == [server EXCEPT !.room = room, !.sent = sent1]
    <3>3. sent1 \in Seq(Answer) /\ sent2 \in Seq(Answer)
      BY <1>1, <3>1, Added
    <3>4. server.sent \o <<m1, m2>> = sent2
      BY <1>1, <3>1
    <3> HIDE DEF sent1, sent2
    <3>5. after.room = room /\ after.sent = sent2 /\ after.up = server.up /\ after \in Srv
      BY <3>1, <3>2, <3>3, <3>4
    <3>6. /\ mid.room = room /\ mid.sent = sent1 /\ mid.up = server.up
          /\ mid.sent \in Seq(Answer)
      BY <3>3
    <3> HIDE DEF mid, after
    <3>7. ASSUME NEW a, server.up, Leads(a, server) PROVE Leads(a, after)
      <4>1. Leads(a, mid)
        BY <1>1, <3>1, <3>6, <3>7, LeadsOn DEF sent1
      <4> QED
        BY <3>1, <3>5, <3>6, <3>7, <4>1, LeadsOn DEF sent2
    <3> QED
      BY <3>5, <3>7
  <2> QED
    BY <1>6, <1>9, <2>1, <2>2
<1> QED
  BY <1>3, <1>7, <1>8, <1>9 DEF Message, Request

-----------------------------------------------------------------------------
(* The steps *)

LEMMA LineTyped ==
  ASSUME NEW s \in Seq(Asked \cup Completion), NEW t \in Seq(Completion)
  PROVE  Line(s, t) \subseteq Asked \cup Completion
<1>1. /\ \A i \in 1 .. Len(s) : s[i] \in Asked \cup Completion
      /\ \A i \in 1 .. Len(t) : t[i] \in Completion
  BY ElementOfSeq
<1> QED
  BY <1>1 DEF Line

\* The server's end, as the type invariant has it.
Server == [up : BOOLEAN, room : Room, sent : Seq(Answer)]

LEMMA UnconnectedTyped == Unconnected \in Server
BY EmptySeq DEF Unconnected, Server, Room

\* A thread that posts a request, or does nothing to the connection.
LEMMA Posted ==
  ASSUME IInv, UNCHANGED <<connection, ready, server>>,
         \/ strand' = strand
         \/ \E h \in Request \cup {"connect", "disconnect"} : post(h)
  PROVE  IInv'
<1>1. CASE strand' = strand
  BY <1>1 DEF IInv, TypeOK, Faithful
<1>2. ASSUME NEW h \in Request \cup {"connect", "disconnect"}, post(h)
      PROVE  IInv'
  <2> DEFINE x == [type |-> h]
  <2>1. x \in Asked /\ ~Done(x) /\ strand' = Append(strand, x)
    BY <1>2 DEF Asked, Done, Request, post
  <2> HIDE DEF x
  <2>2. /\ strand \in Seq(Asked \cup Completion) /\ ready \in Seq(Completion)
        /\ x \in Asked \cup Completion
    BY <2>1 DEF IInv, TypeOK
  <2>3. strand' \in Seq(Asked \cup Completion)
    BY <2>1, <2>2, Added
  <2>4. TypeOK'
    BY <2>3 DEF IInv, TypeOK
  <2>5. ready \in Seq(Asked \cup Completion)
    BY <2>2, SeqMonotonic
  <2>6. ASSUME ~connection.misled PROVE Faithful'
    <3>1. Faithful
      BY <2>6 DEF IInv
    <3>2. /\ Lined(strand', ready)
          /\ Line(strand', ready) = Line(strand, ready) \cup {x}
      BY <2>1, <2>2, <2>5, <3>1, Joins DEF Faithful
    <3>3. Session(connection, Line(strand', ready), server)
      BY <2>1, <3>1, <3>2, Indifferent DEF Faithful
    <3> QED
      BY <3>2, <3>3 DEF Faithful
  <2> QED
    BY <2>4, <2>6 DEF IInv
<1> QED
  BY <1>1, <1>2

\* An operation completes, after those before it.
LEMMA Completed ==
  ASSUME TypeOK, UNCHANGED strand, NEW x \in Completion, complete(x),
         connection' \in Connection, server' \in Server,
         connection'.misled = connection.misled,
         ~connection.misled => Faithful,
         Faithful =>
            /\ \A y \in Line(strand, ready) : MayPrecede(y, x)
            /\ Session(connection', Line(strand, ready) \cup {x}, server')
  PROVE  IInv'
<1>1. strand \in Seq(Asked \cup Completion) /\ ready \in Seq(Completion)
  BY DEF TypeOK
<1>2. ready' = Append(ready, x)
  BY DEF complete
<1>3. ready' \in Seq(Completion)
  BY <1>1, <1>2, Added
<1>4. TypeOK'
  BY <1>1, <1>3 DEF TypeOK, Server
<1>5. ASSUME ~connection'.misled PROVE Faithful'
  <2>1. Faithful
    BY <1>5
  <2>2. /\ Lined(strand, ready')
        /\ Line(strand, ready') = Line(strand, ready) \cup {x}
    BY <1>1, <1>2, <2>1, Completes DEF Faithful
  <2> QED
    BY <2>1, <2>2 DEF Faithful
<1> QED
  BY <1>4, <1>5 DEF IInv

\* What waits is of this connection or of an earlier one.
LEMMA EarlierFirst ==
  ASSUME NEW c, NEW line, NEW srv, Session(c, line, srv),
         NEW x, x.attempt = c.attempt, Read(x) => \A y \in line : ~Read(y)
  PROVE  \A y \in line : MayPrecede(y, x)
BY SeenAsBefore DEF MayPrecede

LEMMA ConnectCompletesKeeps == IInv /\ ConnectCompletes => IInv'
<1> SUFFICES ASSUME IInv, ConnectCompletes PROVE IInv'
  OBVIOUS
<1>1. PICK ok \in BOOLEAN :
        /\ complete([type |-> "connected", ok |-> ok, attempt |-> connection.attempt])
        /\ connection' = [connection EXCEPT !.connecting = FALSE,
                            !.socket = IF ok THEN "connected" ELSE @]
        /\ server' = [Unconnected EXCEPT !.up = ok]
  BY DEF ConnectCompletes
<1> DEFINE x == [type |-> "connected", ok |-> ok, attempt |-> connection.attempt]
<1> DEFINE d == connection'
<1> DEFINE line == Line(strand, ready)
<1>2. connection.connecting /\ UNCHANGED strand /\ TypeOK
      /\ (~connection.misled => Faithful) /\ connection \in Connection
  BY DEF ConnectCompletes, IInv, TypeOK
<1>3. /\ d \in Connection /\ d.misled = connection.misled /\ d.connecting = FALSE
      /\ d.socket = IF ok THEN "connected" ELSE connection.socket
      /\ d.state = connection.state /\ d.m_writeQueue = connection.m_writeQueue
      /\ d.reading = connection.reading /\ d.writing = connection.writing
      /\ d.attempt = connection.attempt
      /\ d.mispopped = connection.mispopped /\ d.blamed = connection.blamed
  BY <1>1, <1>2 DEF Connection
<1>4. /\ server' \in Server /\ server'.room = NoRoom /\ server'.sent = <<>>
  BY <1>1, UnconnectedTyped DEF Server, Unconnected
<1>5. x \in Completion /\ ~Read(x) /\ x.attempt = connection.attempt /\ x.type = "connected"
  BY <1>2 DEF Completion, Read, Connection
<1> HIDE DEF x, d, line
<1>6. ASSUME Faithful
      PROVE  /\ \A y \in line : MayPrecede(y, x)
             /\ Session(d, line \cup {x}, server')
  <2>1. Session(connection, line, server)
    BY <1>6 DEF Faithful, line
  <2>2. \A y \in line : MayPrecede(y, x)
    BY <1>5, <2>1, EarlierFirst
  <2>3. connection.state = "ConnectingNetwork"
    BY <1>2, <2>1 DEF Session, Staged, underWay, Connection
  <2>4. \A y \in line \cup {x} : Done(y) => y.attempt <= d.attempt
    BY <1>2, <1>3, <1>5, <2>1, SeenAsBefore DEF Connection
  <2>5. \A y \in line \cup {x} : Done(y) /\ y.attempt = d.attempt => y.type = "connected"
    BY <1>3, <1>5, <2>1, <2>3 DEF Session, Staged
  <2>6. Staged(d, line \cup {x})
    BY <1>3, <2>1, <2>3, <2>4, <2>5 DEF Session, Staged, underWay
  <2>7. LoginIsFirst(d)
    BY <1>3, <2>1 DEF Session, Expected, LoginIsFirst
  <2>8. Expected(d, line \cup {x}, server')
    BY <1>3, <1>4, <2>3, <2>7 DEF Expected
  <2> QED
    BY <1>3, <2>1, <2>2, <2>6, <2>8 DEF Session
<1>7. complete(x)
  BY <1>1 DEF x
<1> QED
  BY <1>2, <1>3, <1>4, <1>5, <1>6, <1>7, Completed DEF d, line

LEMMA WriteCompletesKeeps == IInv /\ WriteCompletes => IInv'
<1> SUFFICES ASSUME IInv, WriteCompletes PROVE IInv'
  OBVIOUS
<1> DEFINE message == connection.writing
<1>1. PICK ok \in BOOLEAN :
        /\ complete([type |-> "written", ok |-> ok, attempt |-> connection.attempt])
        /\ IF ok /\ server.up
           THEN \E reply \in serverAnswers(message) :
                   server' = [server EXCEPT !.room = reply[1], !.sent = @ \o reply[2]]
           ELSE server' = server
  BY DEF WriteCompletes
<1> DEFINE x == [type |-> "written", ok |-> ok, attempt |-> connection.attempt]
<1> DEFINE d == connection'
<1> DEFINE line == Line(strand, ready)
<1>2. /\ message # NoMessage /\ UNCHANGED strand /\ TypeOK
      /\ (~connection.misled => Faithful)
      /\ connection \in Connection /\ server \in Server
      /\ d = [connection EXCEPT !.writing = NoMessage]
  BY DEF WriteCompletes, IInv, TypeOK, Server
<1>3. message \in Message
  BY <1>2 DEF Connection
<1>4. /\ d \in Connection /\ d.misled = connection.misled
      /\ d.connecting = connection.connecting /\ d.socket = connection.socket
      /\ d.state = connection.state /\ d.m_writeQueue = connection.m_writeQueue
      /\ d.reading = connection.reading /\ d.writing = NoMessage
      /\ d.attempt = connection.attempt /\ d.room = connection.room
      /\ d.mispopped = connection.mispopped /\ d.blamed = connection.blamed
  BY <1>2 DEF Connection
<1>5. /\ server' \in Server
      /\ \/ server' = server
         \/ /\ server.up
            /\ message = "login" =>
                  /\ server'.room = NoRoom
                  /\ \E m \in Answer : m.type \in LoginAnswer
                                       /\ server'.sent = server.sent \o <<m>>
            /\ \A a : message # "login" /\ Leads(a, server) => Leads(a, server')
  <2>1. CASE server' = server
    BY <1>2, <2>1
  <2>2. ASSUME server.up, NEW reply \in serverAnswers(message),
               server' = [server EXCEPT !.room = reply[1], !.sent = @ \o reply[2]]
        PROVE  <1>5!1 /\ <1>5!2
    BY <1>2, <1>3, <2>2, RequestAnswered DEF Server
  <2> QED
    BY <1>1, <2>1, <2>2
<1>6. /\ x \in Completion /\ ~Read(x) /\ x.attempt = connection.attempt
      /\ x.type = "written"
  BY <1>2 DEF Completion, Read, Connection
<1>7. complete(x)
  BY <1>1
<1> HIDE DEF x, d, line, message
<1>8. ASSUME Faithful
      PROVE  /\ \A y \in line : MayPrecede(y, x)
             /\ Session(d, line \cup {x}, server')
  <2>1. Session(connection, line, server)
    BY <1>8 DEF Faithful, line
  <2>2. \A y \in line : MayPrecede(y, x)
    BY <1>6, <2>1, EarlierFirst
  <2>3. underWay(connection)
    BY <1>2, <2>1 DEF Session, Staged, message
  <2>4. \A y \in line \cup {x} : Done(y) => y.attempt = d.attempt
    BY <1>4, <1>6, <2>1, <2>3 DEF Session, Staged
  <2>5. d.attempt \in Nat
    BY <1>4 DEF Connection
  <2>6. d.reading => \A y \in line \cup {x} : ~Read(y)
    BY <1>4, <1>6, <2>1, <2>3 DEF Session, Staged
  <2>7. Staged(d, line \cup {x})
    BY <1>4, <2>1, <2>3, <2>4, <2>5, <2>6 DEF Session, Staged, underWay
  <2>8. LoginIsFirst(d)
    BY <1>4, <2>1 DEF Session, Expected, LoginIsFirst
  <2>9. ASSUME connection.state = "AwaitingLogin"
        PROVE  BeforeLogin(d, line \cup {x}, server')
    <3>1. /\ server.room = NoRoom /\ message = "login" /\ server.sent = <<>>
          /\ Len(connection.m_writeQueue) <= 1 /\ \A y \in line : ~Read(y)
      BY <1>2, <2>1, <2>9 DEF Session, Expected, BeforeLogin, message
    <3>2. CASE server' = server
      BY <1>4, <1>6, <3>1, <3>2 DEF BeforeLogin
    <3>3. CASE \E m \in Answer : /\ m.type \in LoginAnswer
                                 /\ server'.sent = server.sent \o <<m>>
                                 /\ server'.room = NoRoom
      <4>1. PICK m \in Answer : /\ m.type \in LoginAnswer
                                /\ server'.sent = server.sent \o <<m>>
        BY <3>3
      <4>2. <<m>> \in Seq(Answer)
        OBVIOUS
      <4>3. server'.sent = <<m>>
        BY <3>1, <4>1, <4>2, ConcatEmptySeq
      <4>4. Len(server'.sent) = 1 /\ server'.sent[1] = m
        BY <4>3
      <4>5. \A y \in line \cup {x} : ~Read(y)
        BY <1>6, <3>1
      <4> QED
        BY <1>4, <3>1, <3>3, <4>1, <4>4, <4>5 DEF BeforeLogin, NoMessage
    <3> QED
      BY <1>5, <3>1, <3>2, <3>3
  <2>10. ASSUME connection.state = "Connected"
         PROVE  AfterLogin(d, line \cup {x}, server')
    <3>1. PICK room \in Room :
            /\ Leads(room, server)
            /\ \A y \in line : Read(y) => Moves(connection.room, y.answer, room)
            /\ (\A y \in line : ~Read(y)) => room = connection.room
      BY <2>1, <2>10 DEF Session, Expected, AfterLogin
    <3>2. message # "login"
      BY <2>1, <2>10 DEF Session, Expected, AfterLogin, message
    <3>3. Leads(room, server')
      BY <1>5, <3>1, <3>2
    <3>4. \A y \in line \cup {x} : Read(y) => y \in line
      BY <1>6
    <3>5. \A y \in line \cup {x} : Read(y) => Moves(d.room, y.answer, room)
      BY <1>4, <3>1, <3>4
    <3>6. (\A y \in line \cup {x} : ~Read(y)) => room = d.room
      BY <1>4, <3>1
    <3>7. d.writing # "login"
      BY <1>4 DEF NoMessage
    <3> QED
      BY <3>3, <3>5, <3>6, <3>7 DEF AfterLogin
  <2>11. Expected(d, line \cup {x}, server')
    BY <1>4, <2>3, <2>8, <2>9, <2>10 DEF Expected, underWay
  <2> QED
    BY <1>4, <2>1, <2>2, <2>7, <2>11 DEF Session
<1> QED
  BY <1>2, <1>4, <1>5, <1>6, <1>7, <1>8, Completed DEF d, line

LEMMA ReadEndsKeeps == IInv /\ (ReadCompletes \/ ReadFails) => IInv'
<1> SUFFICES ASSUME IInv, ReadCompletes \/ ReadFails PROVE IInv'
  OBVIOUS
<1> DEFINE d == connection'
<1> DEFINE line == Line(strand, ready)
<1>1. /\ connection.reading /\ UNCHANGED strand /\ TypeOK
      /\ (~connection.misled => Faithful)
      /\ connection \in Connection /\ server \in Server
      /\ server.sent \in Seq(Answer)
      /\ d = [connection EXCEPT !.reading = FALSE]
  BY DEF ReadCompletes, ReadFails, IInv, TypeOK, Server
<1>2. /\ d \in Connection /\ d.misled = connection.misled
      /\ d.connecting = connection.connecting /\ d.socket = connection.socket
      /\ d.state = connection.state /\ d.m_writeQueue = connection.m_writeQueue
      /\ d.reading = FALSE /\ d.writing = connection.writing
      /\ d.attempt = connection.attempt /\ d.room = connection.room
      /\ d.mispopped = connection.mispopped /\ d.blamed = connection.blamed
  BY <1>1 DEF Connection
<1> HIDE DEF d, line
<1>3. ASSUME Faithful
      PROVE  /\ Session(connection, line, server)
             /\ underWay(connection)
             /\ \A y \in line : ~Read(y)
             /\ Staged(d, line)
             /\ LoginIsFirst(d)
  <2>1. Session(connection, line, server)
    BY <1>3 DEF Faithful, line
  <2>2. underWay(connection)
    BY <1>1, <2>1 DEF Session, Staged
  <2>3. \A y \in line : ~Read(y)
    BY <1>1, <2>1, <2>2 DEF Session, Staged
  <2>4. Staged(d, line)
    BY <1>2, <2>1 DEF Session, Staged, underWay
  <2>5. LoginIsFirst(d)
    BY <1>2, <2>1 DEF Session, Expected, LoginIsFirst
  <2> QED
    BY <2>1, <2>2, <2>3, <2>4, <2>5
<1>4. CASE /\ server.sent # <<>>
           /\ complete([type |-> "read", ok |-> TRUE, attempt |-> connection.attempt,
                        answer |-> Head(server.sent)])
           /\ server' = [server EXCEPT !.sent = Tail(@)]
  <2> DEFINE m == Head(server.sent)
  <2> DEFINE x == [type |-> "read", ok |-> TRUE, attempt |-> connection.attempt,
                   answer |-> m]
  <2>1. m \in Answer /\ Tail(server.sent) \in Seq(Answer)
    BY <1>1, <1>4, Removed
  <2>2. /\ server' \in Server /\ server'.sent = Tail(server.sent)
        /\ server'.room = server.room /\ server'.up = server.up
    BY <1>1, <1>4, <2>1 DEF Server
  <2> HIDE DEF m
  <2>3. /\ x \in Completion /\ Read(x) /\ x.attempt = connection.attempt
        /\ x.answer = m /\ connection.attempt \in Nat
    BY <1>1, <2>1 DEF Completion, Read, Done, Connection
  <2>4. complete(x)
    BY <1>4 DEF m
  <2> HIDE DEF x
  <2>5. ASSUME Faithful
        PROVE  /\ \A y \in line : MayPrecede(y, x)
               /\ Session(d, line \cup {x}, server')
    <3>1. /\ Session(connection, line, server)
          /\ underWay(connection)
          /\ \A y \in line : ~Read(y)
          /\ Staged(d, line)
          /\ LoginIsFirst(d)
      BY <1>3, <2>5
    <3>2. \A y \in line : MayPrecede(y, x)
      BY <2>3, <3>1, EarlierFirst
    <3>3. Staged(d, line \cup {x})
      BY <1>2, <2>3, <3>1 DEF Staged, underWay
    <3>4. ASSUME connection.state = "AwaitingLogin"
          PROVE  BeforeLogin(d, line \cup {x}, server')
      <4>1. BeforeLogin(connection, line, server)
        BY <3>1, <3>4 DEF Session, Expected
      <4>2. /\ Len(server.sent) = 1 /\ server.sent[1].type \in LoginAnswer
            /\ connection.writing = NoMessage
        BY <1>4, <4>1 DEF BeforeLogin
      <4>3. m.type \in LoginAnswer /\ server'.sent = <<>>
        <5>1. m = server.sent[1] /\ Len(Tail(server.sent)) = 0
          BY <1>1, <1>4, <4>2, Removed DEF m
        <5> QED
          BY <2>1, <2>2, <4>2, <5>1, EmptySeq
      <4>4. \A y \in line \cup {x} : Read(y) => y.answer = m
        BY <2>3, <3>1
      <4>5. d.writing = NoMessage /\ NoMessage # "login"
        BY <1>2, <4>2 DEF NoMessage
      <4> QED
        BY <1>2, <2>2, <4>1, <4>3, <4>4, <4>5 DEF BeforeLogin
    <3>5. ASSUME connection.state = "Connected"
          PROVE  AfterLogin(d, line \cup {x}, server')
      <4>1. Leads(connection.room, server) /\ connection.writing # "login"
        BY <3>1, <3>5 DEF Session, Expected, AfterLogin
      <4>2. PICK b \in Room : Moves(connection.room, m, b) /\ Leads(b, server')
        BY <1>1, <1>4, <2>2, <4>1, LeadsFrom DEF m
      <4>3. \A y \in line \cup {x} : Read(y) => Moves(d.room, y.answer, b)
        BY <1>2, <2>3, <3>1, <4>2
      <4>4. ~(\A y \in line \cup {x} : ~Read(y))
        BY <2>3
      <4> QED
        BY <1>2, <4>1, <4>2, <4>3, <4>4 DEF AfterLogin
    <3>6. Expected(d, line \cup {x}, server')
      BY <1>2, <3>1, <3>4, <3>5 DEF Expected, underWay
    <3> QED
      BY <1>2, <3>1, <3>2, <3>3, <3>6 DEF Session
  <2> QED
    BY <1>1, <1>2, <2>2, <2>3, <2>4, <2>5, Completed DEF d, line
<1>5. CASE /\ complete([type |-> "read", ok |-> FALSE])
           /\ server' = Unconnected
  <2> DEFINE x == [type |-> "read", ok |-> FALSE]
  <2>1. x \in Completion /\ ~Done(x)
    BY DEF Completion, Done
  <2>2. server' \in Server /\ server'.room = NoRoom /\ server'.sent = <<>> /\ ~server'.up
    BY <1>5, UnconnectedTyped DEF Unconnected
  <2>3. complete(x)
    BY <1>5
  <2> HIDE DEF x
  <2>4. ASSUME Faithful
        PROVE  /\ \A y \in line : MayPrecede(y, x)
               /\ Session(d, line \cup {x}, server')
    <3>1. /\ Session(connection, line, server)
          /\ underWay(connection)
          /\ \A y \in line : ~Read(y)
          /\ Staged(d, line)
          /\ LoginIsFirst(d)
      BY <1>3, <2>4
    <3>2. ASSUME connection.state = "AwaitingLogin"
          PROVE  BeforeLogin(d, line, server')
      BY <1>2, <2>2, <3>1, <3>2 DEF Session, Expected, BeforeLogin
    <3>3. ASSUME connection.state = "Connected"
          PROVE  AfterLogin(d, line, server')
      <4>1. d.room \in Room /\ d.writing # "login"
        BY <1>2, <3>1, <3>3 DEF Session, Expected, AfterLogin, Connection
      <4>2. Leads(d.room, server')
        BY <2>2, <4>1, NothingSent
      <4> QED
        BY <3>1, <4>1, <4>2 DEF AfterLogin
    <3>4. Expected(d, line, server')
      BY <1>2, <3>1, <3>2, <3>3 DEF Expected, underWay
    <3>5. Session(d, line, server')
      BY <1>2, <3>1, <3>4 DEF Session
    <3>6. Session(d, line \cup {x}, server')
      BY <2>1, <3>5, Indifferent
    <3> QED
      BY <2>1, <3>6 DEF MayPrecede
  <2> QED
    BY <1>1, <1>2, <2>1, <2>2, <2>3, <2>4, Completed DEF d, line
<1> QED
  BY <1>4, <1>5 DEF ReadCompletes, ReadFails

LEMMA PeerFallsSilentKeeps == IInv /\ PeerFallsSilent => IInv'
<1> SUFFICES ASSUME IInv, PeerFallsSilent PROVE IInv'
  OBVIOUS
<1> DEFINE line == Line(strand, ready)
<1>1. /\ UNCHANGED <<connection, strand, ready>> /\ connection \in Connection
      /\ server' \in Server /\ server' = Unconnected
      /\ server'.room = NoRoom /\ server'.sent = <<>> /\ ~server'.up
  BY UnconnectedTyped DEF PeerFallsSilent, IInv, TypeOK, Unconnected
<1> HIDE DEF line
<1>2. ASSUME Faithful
      PROVE  Session(connection, line, server')
  <2>1. Session(connection, line, server)
    BY <1>2 DEF Faithful, line
  <2>2. ASSUME connection.state = "AwaitingLogin"
        PROVE  BeforeLogin(connection, line, server')
    BY <1>1, <2>1, <2>2 DEF Session, Expected, BeforeLogin
  <2>3. ASSUME connection.state = "Connected"
        PROVE  AfterLogin(connection, line, server')
    <3>1. PICK room \in Room :
            /\ \A y \in line : Read(y) => Moves(connection.room, y.answer, room)
            /\ (\A y \in line : ~Read(y)) => room = connection.room
      BY <2>1, <2>3 DEF Session, Expected, AfterLogin
    <3>2. Leads(room, server')
      BY <1>1, NothingSent
    <3> QED
      BY <2>1, <2>3, <3>1, <3>2 DEF Session, Expected, AfterLogin
  <2> QED
    BY <1>1, <2>1, <2>2, <2>3 DEF Session, Expected
<1> QED
  BY <1>1, <1>2 DEF IInv, TypeOK, Faithful, Server, line

LEMMA ServerUpdatesKeeps == IInv /\ ServerUpdates => IInv'
<1> SUFFICES ASSUME IInv, ServerUpdates PROVE IInv'
  OBVIOUS
<1> DEFINE m == answer("gameUpdate", server.room)
<1> DEFINE line == Line(strand, ready)
<1>1. /\ server \in Server /\ server.up /\ server.room # NoRoom
      /\ server.room \in Room /\ server.sent \in Seq(Answer)
      /\ server' = [server EXCEPT !.sent = Append(@, m)]
      /\ UNCHANGED <<connection, strand, ready>>
  BY DEF ServerUpdates, IInv, TypeOK, Server
<1>2. m \in Answer /\ Moves(server.room, m, server.room)
  BY <1>1 DEF answer, Answer, RoomAnswer, Moves
<1> HIDE DEF m, line
<1>3. Append(server.sent, m) \in Seq(Answer)
  BY <1>1, <1>2, Added
<1>4. /\ server' \in Server /\ server'.sent = Append(server.sent, m)
      /\ server'.room = server.room /\ server'.up
  BY <1>1, <1>3 DEF Server
<1>5. TypeOK'
  BY <1>1, <1>4 DEF IInv, TypeOK, Server
<1>6. ASSUME ~connection.misled PROVE Faithful'
  <2>1. Lined(strand, ready) /\ Session(connection, line, server)
    BY <1>6 DEF IInv, Faithful, line
  <2>2. connection.state = "Connected"
    BY <1>1, <2>1 DEF Session, Expected, BeforeLogin, Unconnected, IInv, TypeOK, Connection
  <2>3. \A a : Leads(a, server) => Leads(a, server')
    BY <1>1, <1>2, <1>4, LeadsOn
  <2>4. AfterLogin(connection, line, server')
    BY <2>1, <2>2, <2>3 DEF Session, Expected, AfterLogin
  <2>5. Expected(connection, line, server')
    BY <2>1, <2>2, <2>4 DEF Session, Expected
  <2>6. Session(connection, line, server')
    BY <2>1, <2>5 DEF Session
  <2> QED
    BY <1>1, <2>1, <2>6 DEF Faithful, line
<1> QED
  BY <1>1, <1>5, <1>6 DEF IInv

LEMMA DispatchCompletionKeeps == IInv /\ DispatchCompletion => IInv'
<1> SUFFICES ASSUME IInv, DispatchCompletion PROVE IInv'
  OBVIOUS
<1> DEFINE a == Append(strand, Head(ready))
<1> DEFINE b == Tail(ready)
<1>1. /\ strand \in Seq(Asked \cup Completion) /\ ready \in Seq(Completion)
      /\ ready # <<>> /\ strand' = a /\ ready' = b
      /\ UNCHANGED <<connection, server>>
  BY DEF DispatchCompletion, IInv, TypeOK
<1>2. Head(ready) \in Completion /\ b \in Seq(Completion)
  BY <1>1, Removed
<1>3. a \in Seq(Asked \cup Completion)
  BY <1>1, <1>2, Added
<1>4. ready \in Seq(Asked \cup Completion)
  BY <1>1, SeqMonotonic
<1>5. Lined(strand, ready) => Lined(a, b) /\ Line(a, b) = Line(strand, ready)
  BY <1>1, <1>4, Moved
<1> HIDE DEF a, b
<1>6. TypeOK'
  BY <1>1, <1>2, <1>3 DEF IInv, TypeOK
<1>7. ~connection.misled => Faithful'
  BY <1>1, <1>5 DEF IInv, Faithful
<1> QED
  BY <1>1, <1>6, <1>7 DEF IInv

LEMMA RunHandlerKeeps == IInv /\ RunHandler => IInv'
<1> SUFFICES ASSUME IInv, RunHandler PROVE IInv'
  OBVIOUS
<1> DEFINE x == Head(strand)
<1> DEFINE line == Line(Tail(strand), ready)
<1>1. /\ strand \in Seq(Asked \cup Completion) /\ ready \in Seq(Completion)
      /\ strand # <<>> /\ strand' = Tail(strand) /\ UNCHANGED ready
      /\ connection \in Connection /\ server \in Server
  BY DEF RunHandler, IInv, TypeOK, Server
<1>2. PICK result \in outcomes(Head(strand)) :
        /\ connection' = result.c
        /\ server' = IF result.c.socket = "closed" THEN Unconnected ELSE server
  BY DEF RunHandler
<1>3. x \in Asked \cup Completion /\ Tail(strand) \in Seq(Asked \cup Completion)
  BY <1>1, Removed
<1>4. line \subseteq Asked \cup Completion
  BY <1>1, <1>3, LineTyped
<1>5. ASSUME Lined(strand, ready)
      PROVE  /\ Lined(strand', ready')
             /\ Line(strand, ready) = line \cup {x}
             /\ \A y \in line : MayPrecede(x, y)
  BY <1>1, <1>5, Runs
<1>6. server' = Seen(connection', server)
  BY <1>2 DEF Seen
<1>7. line = Line(strand', ready')
  BY <1>1
<1> HIDE DEF x, line
<1>8. connection' \in Connection /\ Marked(connection', connection)
  <2>1. Ran(connection, x, {}, server, connection')
    BY <1>1, <1>2, <1>3, HandlerRan DEF x
  <2> QED
    BY <2>1 DEF Ran
<1>9. TypeOK'
  BY <1>1, <1>3, <1>6, <1>8, UnconnectedTyped DEF TypeOK, Seen, Server
<1>10. ASSUME ~connection'.misled PROVE Faithful'
  <2>1. Faithful
    BY <1>8, <1>10 DEF IInv, Marked
  <2>2. /\ Lined(strand', ready')
        /\ Line(strand, ready) = line \cup {x}
        /\ \A y \in line : MayPrecede(x, y)
    BY <1>5, <2>1 DEF Faithful
  <2>3. Ran(connection, x, line, server, connection')
    BY <1>1, <1>2, <1>3, <1>4, <2>2, HandlerRan DEF x
  <2>4. Session(connection', line, server')
    BY <1>6, <1>10, <2>1, <2>2, <2>3 DEF Faithful, Ran
  <2> QED
    BY <1>7, <2>2, <2>4 DEF Faithful
<1> QED
  BY <1>9, <1>10 DEF IInv

-----------------------------------------------------------------------------
(* The connection keeps to its own *)

LEMMA Initially == Init => IInv
<1> SUFFICES ASSUME Init PROVE IInv
  OBVIOUS
<1>1. /\ connection = Disconnected /\ strand = <<>> /\ ready = <<>>
      /\ server = Unconnected
  BY DEF Init
<1>2. Disconnected \in Connection
  BY EmptySeq DEF Disconnected, Connection, Room
<1>3. TypeOK
  BY <1>1, <1>2, UnconnectedTyped, EmptySeq DEF TypeOK, Server
<1>4. Lined(strand, ready) /\ Line(strand, ready) = {}
  <2>1. Len(strand) = 0 /\ Len(ready) = 0
    BY <1>1, EmptySeq
  <2> QED
    BY <2>1 DEF Lined, InOrder, Line
<1>5. /\ Closed(Disconnected, Disconnected)
      /\ ~Disconnected.mispopped /\ ~Disconnected.blamed
  BY <1>2 DEF Closed, Disconnected
<1>6. Session(Disconnected, {}, Unconnected)
  BY <1>5, Closing
<1> QED
  BY <1>1, <1>3, <1>4, <1>6 DEF IInv, Faithful

LEMMA Preserved == IInv /\ [Next]_vars => IInv'
<1> SUFFICES ASSUME IInv, [Next]_vars PROVE IInv'
  OBVIOUS
<1>1. CASE Tick
  BY <1>1, Posted DEF Tick
<1>2. CASE ShowState
  BY <1>2, Posted DEF ShowState, Request
<1>3. CASE \E state \in {"Singleplayer", "MultiplayerSetup"} : LeaveMenu(state)
  BY <1>3, Posted DEF LeaveMenu
<1>4. CASE ReturnToIdle
  BY <1>4, Posted DEF ReturnToIdle, requestDisconnect
<1>5. CASE Connect
  BY <1>5, Posted DEF Connect
<1>6. CASE Disconnect
  BY <1>6, Posted DEF Disconnect, requestDisconnect
<1>7. CASE \E request \in Request : Ask(request)
  BY <1>7, Posted DEF Ask
<1>8. CASE UNCHANGED vars
  BY <1>8, Posted DEF vars
<1> QED
  BY <1>1, <1>2, <1>3, <1>4, <1>5, <1>6, <1>7, <1>8, ConnectCompletesKeeps,
     WriteCompletesKeeps, ServerUpdatesKeeps, PeerFallsSilentKeeps, ReadEndsKeeps,
     DispatchCompletionKeeps, RunHandlerKeeps DEF Next

\* In every reachable state, for any number of rooms, attempts and messages: until a
\* completion is taken for that of a later connection, what waits and what is on
\* its way is of the connection that is under way, in the server's order.
THEOREM InductiveInvariant == Spec => []IInv
BY Initially, Preserved, PTL DEF Spec

\* The handler of a write takes a message of another connection off the queue only
\* after a stale completion has connected the client.
THEOREM WritesPopOwn == Spec => []WritesPopTheirOwn
<1>1. IInv => WritesPopTheirOwn
  BY DEF IInv, Faithful, Session, WritesPopTheirOwn
<1> QED
  BY <1>1, InductiveInvariant, PTL

\* Answers and updates always find the client where the server has it: it ends a
\* connection over one only after a stale completion has connected it.
THEOREM NotBlamed == Spec => []ServerIsNotBlamed
<1>1. IInv => ServerIsNotBlamed
  BY DEF IInv, Faithful, Session, ServerIsNotBlamed
<1> QED
  BY <1>1, InductiveInvariant, PTL

-----------------------------------------------------------------------------
(* Lemmas: what the client is told *)

\* How a handler's event reports what it leaves of the connection.
Reports(d, told, c) ==
    \/ /\ told = <<>> /\ d.room = c.room
       /\ d.state = c.state \/ c.state # "Connected"
    \/ \E event \in Loss : told = <<event>>
    \/ told = <<"loginAccepted">> /\ d.state = "Connected" /\ d.room = NoRoom
    \/ told = <<"roomEntered">> /\ d.state = "Connected" /\ d.room # NoRoom
    \/ told = <<"roomLeft">> /\ d.state = "Connected" /\ d.room = NoRoom
    \/ told = <<"gameSync">> /\ d.state = c.state /\ d.room = c.room

LEMMA TerminationReported ==
  ASSUME NEW c, NEW b, NEW event \in Loss
  PROVE  Reports(terminate(b, event).c, terminate(b, event).events, c)
BY DEF terminate, outcome, Reports

LEMMA AnswerReported ==
  ASSUME NEW c \in Connection, NEW live \in BOOLEAN, NEW m \in Answer
  PROVE  Reports(onAnswer(c, live, m).c, onAnswer(c, live, m).events, c)
<1>1. /\ m.type \in LoginAnswer \cup RoomAnswer
      /\ m.type = "roomEntered" => m.room # NoRoom
  BY DEF Answer
<1>2. "tell" \in Request
  BY DEF Request
<1>3. ASSUME NEW e \in Connection
      PROVE  /\ queueSend(e, "tell").state = e.state
             /\ queueSend(e, "tell").room = e.room
  BY <1>2, QueuedBehind DEF SameButQueue
<1>4. ASSUME NEW event \in Loss, onAnswer(c, live, m) = protocolError(c, live, event)
      PROVE  Reports(onAnswer(c, live, m).c, onAnswer(c, live, m).events, c)
  BY <1>4, TerminationReported DEF protocolError
<1>5. CASE m.type \in LoginAnswer /\ c.state # "AwaitingLogin"
  <2>1. onAnswer(c, live, m) = protocolError(c, live, "loginFailed")
    BY <1>5 DEF onAnswer, onLoginResponse, LoginAnswer
  <2> QED
    BY <1>4, <2>1 DEF Loss
<1>6. CASE m.type = "loginRejected" /\ c.state = "AwaitingLogin"
  <2>1. onAnswer(c, live, m) = terminate(c, "loginFailed")
    BY <1>6 DEF onAnswer, onLoginResponse
  <2> QED
    BY <2>1, TerminationReported DEF Loss
<1>7. CASE m.type = "loginAccepted" /\ c.state = "AwaitingLogin"
  <2> DEFINE e == [c EXCEPT !.state = "Connected", !.room = NoRoom]
  <2>1. onAnswer(c, live, m) = outcome(queueSend(e, "tell"), <<"loginAccepted">>)
    BY <1>7 DEF onAnswer, onLoginResponse
  <2>2. e \in Connection /\ e.state = "Connected" /\ e.room = NoRoom
    BY DEF Connection, Room
  <2> HIDE DEF e
  <2> QED
    BY <1>3, <2>1, <2>2 DEF outcome, Reports
<1>8. CASE m.type \in RoomAnswer /\ c.state # "Connected"
  <2>1. onAnswer(c, live, m) = protocolError(c, live, "disconnected")
    BY <1>8 DEF onAnswer, RoomAnswer
  <2> QED
    BY <1>4, <2>1 DEF Loss
<1>9. CASE m.type = "roomEntered" /\ c.state = "Connected"
  <2> DEFINE e == [c EXCEPT !.room = m.room]
  <2>1. onAnswer(c, live, m) = outcome(queueSend(e, "tell"), <<"roomEntered">>)
    BY <1>9 DEF onAnswer, onRoomEntered
  <2>2. e \in Connection /\ e.state = "Connected" /\ e.room # NoRoom
    BY <1>1, <1>9 DEF Connection, Answer
  <2> HIDE DEF e
  <2> QED
    BY <1>3, <2>1, <2>2 DEF outcome, Reports
<1>10. CASE m.type = "roomLeft" /\ c.state = "Connected"
  <2> DEFINE e == [c EXCEPT !.room = NoRoom]
  <2>1. onAnswer(c, live, m) = outcome(queueSend(e, "tell"), <<"roomLeft">>)
    BY <1>10 DEF onAnswer, onRoomLeft
  <2>2. e \in Connection /\ e.state = "Connected" /\ e.room = NoRoom
    BY <1>10 DEF Connection, Room
  <2> HIDE DEF e
  <2> QED
    BY <1>3, <2>1, <2>2 DEF outcome, Reports
<1>11. CASE m.type = "gameUpdate" /\ c.state = "Connected"
  <2>1. \/ onAnswer(c, live, m) = protocolError(c, live, "disconnected")
        \/ onAnswer(c, live, m) = outcome(c, <<"gameSync">>)
    BY <1>11 DEF onAnswer, onGameUpdate
  <2>2. Reports(c, <<"gameSync">>, c)
    BY DEF Reports
  <2> QED
    BY <1>4, <2>1, <2>2 DEF Loss, outcome
<1>12. CASE m.type = "news" /\ c.state = "Connected"
  <2>1. onAnswer(c, live, m) = quiet(c)
    BY <1>12 DEF onAnswer
  <2> QED
    BY <2>1 DEF quiet, outcome, Reports
<1> QED
  BY <1>1, <1>5, <1>6, <1>7, <1>8, <1>9, <1>10, <1>11, <1>12 DEF LoginAnswer, RoomAnswer

LEMMA ConnectedReported ==
  ASSUME NEW c \in Connection, NEW b \in Connection, b.state = c.state, b.room = c.room
  PROVE  Reports(onTransportConnected(b).c, onTransportConnected(b).events, c)
<1> DEFINE e == [b EXCEPT !.m_socketConnected = TRUE, !.state = "AwaitingLogin"]
<1> DEFINE q == queueSend(e, "login")
<1>1. \/ \E k : onTransportConnected(b) = terminate(k, "connectFailed")
      \/ /\ b.state = "ConnectingNetwork"
         /\ onTransportConnected(b) = quiet([q EXCEPT !.reading = TRUE])
  <2> HIDE DEF e
  <2>1. onTransportConnected(b) =
          IF b.state # "ConnectingNetwork" THEN terminate(b, "connectFailed")
          ELSE IF ~canQueue([b EXCEPT !.m_socketConnected = TRUE])
          THEN terminate(q, "connectFailed")
          ELSE quiet([q EXCEPT !.reading = TRUE])
    BY DEF onTransportConnected, e
  <2> HIDE DEF q
  <2> QED
    BY <2>1
<1>2. e \in Connection /\ e.room = b.room
  BY DEF Connection
<1>3. "login" \in Message
  BY DEF Message
<1> HIDE DEF e
<1>4. q \in Connection /\ q.room = e.room
  BY <1>2, <1>3, Queued DEF SameButQueue
<1> HIDE DEF q
<1>5. CASE \E k : onTransportConnected(b) = terminate(k, "connectFailed")
  <2>1. PICK k : onTransportConnected(b) = terminate(k, "connectFailed")
    BY <1>5
  <2>2. "connectFailed" \in Loss
    BY DEF Loss
  <2>3. Reports(terminate(k, "connectFailed").c, terminate(k, "connectFailed").events, c)
    BY <2>2, TerminationReported
  <2> QED
    BY <2>1, <2>3
<1>6. CASE /\ b.state = "ConnectingNetwork"
           /\ onTransportConnected(b) = quiet([q EXCEPT !.reading = TRUE])
  <2> DEFINE d == [q EXCEPT !.reading = TRUE]
  <2>1. d.room = c.room /\ c.state # "Connected"
    BY <1>2, <1>4, <1>6 DEF Connection
  <2>2. onTransportConnected(b) = quiet(d)
    BY <1>6
  <2> HIDE DEF d
  <2>3. onTransportConnected(b).c = d /\ onTransportConnected(b).events = <<>>
    BY <2>2 DEF quiet, outcome
  <2> QED
    BY <2>1, <2>3 DEF Reports
<1> QED
  BY <1>1, <1>5, <1>6

LEMMA HandlerReported ==
  ASSUME NEW x \in Asked \cup Completion, NEW result \in outcomes(x),
         connection \in Connection
  PROVE  Reports(result.c, result.events, connection)
<1> DEFINE c == connection
<1>1. Reports(c, <<>>, c)
  BY DEF Reports
<1>2. ASSUME NEW b, NEW event \in Loss, result = terminate(b, event)
      PROVE  Reports(result.c, result.events, c)
  BY <1>2, TerminationReported
<1>3. ASSUME result = quiet(c)
      PROVE  Reports(result.c, result.events, c)
  BY <1>1, <1>3 DEF quiet, outcome
<1>4. x.type \in Request \cup {"connect", "disconnect", "connected", "written", "read"}
  BY DEF Asked, Completion
<1>5. CASE x.type = "connect"
  <2>1. outcomes(x) = {doRequestConnect(connection, valid, opened) :
                          valid \in BOOLEAN, opened \in BOOLEAN}
    BY <1>5 DEF outcomes, Request
  <2>2. PICK valid \in BOOLEAN, opened \in BOOLEAN :
          result = doRequestConnect(connection, valid, opened)
    BY <2>1
  <2> DEFINE begun == [c EXCEPT !.state = "ConnectingNetwork",
                           !.m_socketConnected = FALSE, !.attempt = @ + 1]
  <2> DEFINE e == [begun EXCEPT !.socket = "open", !.connecting = TRUE]
  <2>3. \/ result = outcome(c, <<"connectFailed">>)
        \/ result = terminate(begun, "connectFailed")
        \/ c.state = "Idle" /\ result = quiet(e)
    BY <2>2 DEF doRequestConnect
  <2>4. e.room = c.room
    BY DEF Connection
  <2> HIDE DEF begun, e
  <2>5. "connectFailed" \in Loss
    BY DEF Loss
  <2>6. CASE result = outcome(c, <<"connectFailed">>)
    BY <2>5, <2>6 DEF outcome, Reports
  <2>7. CASE c.state = "Idle" /\ result = quiet(e)
    BY <2>4, <2>7 DEF quiet, outcome, Reports
  <2> QED
    BY <1>2, <2>3, <2>5, <2>6, <2>7
<1>6. CASE x.type = "disconnect"
  <2>1. result = doRequestDisconnect(c)
    BY <1>6 DEF outcomes, Request
  <2>2. result = quiet(c) \/ result = terminate(c, "disconnected")
    BY <2>1 DEF doRequestDisconnect
  <2> QED
    BY <1>2, <1>3, <2>2 DEF Loss
<1>7. CASE x.type \in Request
  <2>1. result = doRequest(c, x.type)
    BY <1>7 DEF outcomes, Request
  <2>2. result = quiet(c) \/ result = quiet(queueSend(c, x.type))
    BY <2>1 DEF doRequest
  <2>3. /\ queueSend(c, x.type).state = c.state
        /\ queueSend(c, x.type).room = c.room
    BY <1>7, QueuedBehind DEF SameButQueue
  <2> QED
    BY <1>3, <2>2, <2>3 DEF quiet, outcome, Reports
<1>8. CASE x.type = "connected"
  <2>1. result = connectHandler(c, x)
    BY <1>8 DEF outcomes, Request
  <2> DEFINE misled == c.misled \/ misleads(c, x)
  <2> DEFINE b == [c EXCEPT !.misled = misled]
  <2>2. misled \in BOOLEAN
    BY DEF Connection, misleads
  <2>3. result = onTransportConnected(b) \/ result = terminate(c, "connectFailed")
    BY <2>1 DEF connectHandler
  <2> HIDE DEF misled
  <2>4. b \in Connection /\ b.state = c.state /\ b.room = c.room
    BY <2>2 DEF Connection
  <2> HIDE DEF b
  <2>5. Reports(onTransportConnected(b).c, onTransportConnected(b).events, c)
    BY <2>4, ConnectedReported
  <2> QED
    BY <1>2, <2>3, <2>5 DEF Loss
<1>9. CASE x.type = "read"
  <2>1. result = readHandler(c, x)
    BY <1>9 DEF outcomes, Request
  <2>2. CASE ~x.ok
    BY <1>2, <2>1, <2>2 DEF readHandler, Loss
  <2>3. CASE x.ok
    <3> DEFINE live == x.attempt = c.attempt /\ c.socket # "closed"
    <3> DEFINE read == onAnswer(c, live, x.answer)
    <3>1. x.answer \in Answer /\ live \in BOOLEAN
      BY <1>9, <2>3 DEF Asked, Completion, Request
    <3>2. result = [read EXCEPT !.c = doReadHeader(@)]
      BY <2>1, <2>3 DEF readHandler
    <3> HIDE DEF live
    <3>3. Reports(read.c, read.events, c)
      BY <3>1, AnswerReported
    <3>4. /\ read.c \in Connection
          /\ read = [c |-> read.c, events |-> read.events]
      <4>1. PICK d, told : /\ read = outcome(d, told)
                           /\ Onward(d, c, x.answer) \/ Closed(d, c)
        BY <3>1, Answered
      <4> HIDE DEF read
      <4> QED
        BY <4>1 DEF outcome, Onward, Closed
    <3> HIDE DEF read
    <3>5. result.c = doReadHeader(read.c) /\ result.events = read.events
      BY <3>2, <3>4
    <3>6. result.c.state = read.c.state /\ result.c.room = read.c.room
      BY <3>4, <3>5, ReadBegun
    <3> QED
      BY <3>3, <3>5, <3>6 DEF Reports
  <2> QED
    BY <2>2, <2>3
<1>10. CASE x.type = "written"
  <2>1. result = writeHandler(c, x)
    BY <1>10 DEF outcomes, Request
  <2>2. CASE ~x.ok
    BY <1>2, <2>1, <2>2 DEF writeHandler, Loss
  <2>3. CASE x.ok
    <3>1. result.c.state = c.state /\ result.c.room = c.room
      BY <2>1, <2>3, WrittenPops
    <3>2. result.events = <<>>
      BY <2>1, <2>3 DEF writeHandler, quiet, outcome
    <3> QED
      BY <3>1, <3>2 DEF Reports
  <2> QED
    BY <2>2, <2>3
<1> QED
  BY <1>4, <1>5, <1>6, <1>7, <1>8, <1>9, <1>10

-----------------------------------------------------------------------------
(* Lemmas: the client takes its events *)

\* Induction for a set of numbers. Otherwise the numbers in it up to one that is
\* missing would have as many successors, and zero would be none of them.
LEMMA CountingUp ==
  ASSUME NEW T, 0 \in T, \A i \in Nat : i \in T => i + 1 \in T, NEW n \in Nat
  PROVE  n \in T
<1> SUFFICES ASSUME n \notin T PROVE FALSE
  OBVIOUS
<1> DEFINE below == T \cap (0 .. n)
<1> DEFINE successor == [i \in below |-> i + 1]
<1>1. 0 \in below /\ \A i \in below : i \in Nat /\ i + 1 \in below \ {0}
  OBVIOUS
<1>2. IsFiniteSet(0 .. n) /\ below \subseteq 0 .. n
  BY FS_Interval
<1>3. \A i \in below : successor[i] = i + 1
  OBVIOUS
<1>4. successor \in [below -> below \ {0}]
  BY <1>1
<1> HIDE DEF below, successor
<1>5. IsFiniteSet(below)
  BY <1>2, FS_Subset
<1>6. /\ IsFiniteSet(below \ {0}) /\ Cardinality(below) \in Nat
      /\ Cardinality(below \ {0}) = Cardinality(below) - 1
  BY <1>1, <1>5, FS_RemoveElement, FS_CardinalityType
<1>7. \E i, j \in below : i # j /\ successor[i] = successor[j]
  BY <1>4, <1>5, <1>6, FS_PigeonHole
<1> QED
  BY <1>1, <1>3, <1>7

LEMMA HandledTyped ==
  ASSUME NEW state \in ClientState, NEW event \in Event, NEW room
  PROVE  handled(state, event, room) \in ClientState
BY DEF handled, ClientState, Event, Loss

LEMMA HandledAsThere ==
  ASSUME NEW state, NEW event \in Event
  PROVE  handleEvent(state, event) = handled(state, event, connection.room)
BY DEF handleEvent, handled, Event, Loss

\* The events take the client somewhere.
LEMMA Somewhere ==
  ASSUME NEW from \in ClientState, NEW told \in Seq(Event), NEW room
  PROVE  \E states \in [0 .. Len(told) -> ClientState] :
            Through(states, from, told, room)
<1> DEFINE Way(f, n) == /\ f[0] = from
                        /\ \A i \in 1 .. n : f[i] = handled(f[i - 1], told[i], room)
<1> DEFINE T == {n \in Nat : n <= Len(told) =>
                    \E f \in [0 .. n -> ClientState] : Way(f, n)}
<1>1. Len(told) \in Nat /\ \A i \in 1 .. Len(told) : told[i] \in Event
  BY LenProperties, ElementOfSeq
<1>2. 0 \in T
  <2> DEFINE f == [i \in 0 .. 0 |-> from]
  <2>1. f \in [0 .. 0 -> ClientState] /\ Way(f, 0)
    OBVIOUS
  <2> QED
    BY <2>1
<1>3. ASSUME NEW n \in Nat, n \in T PROVE n + 1 \in T
  <2> SUFFICES ASSUME n + 1 <= Len(told)
               PROVE  \E f \in [0 .. n + 1 -> ClientState] : Way(f, n + 1)
    OBVIOUS
  <2>1. PICK f \in [0 .. n -> ClientState] : Way(f, n)
    BY <1>1, <1>3
  <2> DEFINE next == handled(f[n], told[n + 1], room)
  <2> DEFINE g == [i \in 0 .. n + 1 |-> IF i = n + 1 THEN next ELSE f[i]]
  <2>2. f[n] \in ClientState /\ told[n + 1] \in Event
    BY <1>1
  <2>3. next \in ClientState
    BY <2>2, HandledTyped
  <2> HIDE DEF next
  <2>4. g \in [0 .. n + 1 -> ClientState]
    BY <2>3
  <2>5. /\ g[0] = from /\ g[n + 1] = next /\ g[n] = f[n]
        /\ \A i \in 1 .. n : g[i] = f[i] /\ g[i - 1] = f[i - 1]
    BY <2>1
  <2> HIDE DEF g
  <2>6. \A i \in 1 .. n + 1 : g[i] = handled(g[i - 1], told[i], room)
    <3>1. \A i \in 1 .. n + 1 : i \in 1 .. n \/ (i = n + 1 /\ i - 1 = n)
      OBVIOUS
    <3> QED
      BY <2>1, <2>5, <3>1 DEF next
  <2> QED
    BY <2>4, <2>5, <2>6
<1> HIDE DEF T
<1>4. Len(told) \in T
  BY <1>1, <1>2, <1>3, CountingUp
<1>5. PICK f \in [0 .. Len(told) -> ClientState] : Way(f, Len(told))
  BY <1>1, <1>4 DEF T
<1> QED
  BY <1>5 DEF Through

\* Taken in another state, they take it to the same state, or to neither the lobby
\* nor a game if it was in neither.
LEMMA Together ==
  ASSUME NEW told \in Seq(Event), NEW room, NEW a, NEW b, NEW f, NEW g,
         Through(f, a, told, room), Through(g, b, told, room),
         a = b \/ a \notin {"MultiplayerLobby", "MultiplayerInGame"}
  PROVE  LET n == Len(told)
         IN  f[n] = g[n] \/ f[n] \notin {"MultiplayerLobby", "MultiplayerInGame"}
<1> DEFINE Alike(i) == \/ f[i] = g[i]
                       \/ f[i] \notin {"MultiplayerLobby", "MultiplayerInGame"}
<1> DEFINE T == {i \in Nat : i <= Len(told) => Alike(i)}
<1>1. Len(told) \in Nat /\ \A i \in 1 .. Len(told) : told[i] \in Event
  BY LenProperties, ElementOfSeq
<1>2. 0 \in T
  BY DEF Through
<1>3. ASSUME NEW i \in Nat, i \in T PROVE i + 1 \in T
  <2> SUFFICES ASSUME i + 1 <= Len(told) PROVE Alike(i + 1)
    OBVIOUS
  <2>1. i + 1 \in 1 .. Len(told) /\ (i + 1) - 1 = i
    BY <1>1
  <2>2. /\ f[i + 1] = handled(f[i], told[i + 1], room)
        /\ g[i + 1] = handled(g[i], told[i + 1], room)
    BY <2>1 DEF Through
  <2>3. told[i + 1] \in Event /\ Alike(i)
    BY <1>1, <1>3, <2>1
  <2> QED
    BY <2>2, <2>3 DEF handled, Event, Loss
<1> HIDE DEF T
<1>4. Len(told) \in T
  BY <1>1, <1>2, <1>3, CountingUp
<1> QED
  BY <1>1, <1>4 DEF T

\* An event that is left out is the last one that waits.
LEMMA LeftOut ==
  ASSUME NEW told \in Seq(Event), NEW event, IsSuffix(<<event>>, told)
  PROVE  /\ told # <<>>
         /\ told[Len(told)] = event
<1> DEFINE s == <<event>>
<1> DEFINE n == Len(told)
<1> DEFINE r == Reverse(told)
<1>1. Len(s) = 1 /\ s[1] = event /\ n \in Nat
  BY LenProperties
<1>2. Reverse(s) = s
  <2>1. Reverse(s) = [i \in 1 .. 1 |-> s[(1 - i) + 1]]
    BY <1>1 DEF Reverse
  <2>2. \A i \in 1 .. 1 : s[(1 - i) + 1] = event
    BY <1>1
  <2>3. Reverse(s) = [i \in 1 .. 1 |-> event]
    BY <2>1, <2>2
  <2> QED
    BY <2>3
<1>3. r = [i \in 1 .. n |-> told[(n - i) + 1]]
  BY DEF Reverse
<1>4. r \in Seq(Event) /\ Len(r) = n
  <2>1. \A i \in 1 .. n : told[(n - i) + 1] \in Event
    <3>1. \A i \in 1 .. n : (n - i) + 1 \in 1 .. n
      BY <1>1
    <3> QED
      BY <3>1, ElementOfSeq
  <2> QED
    BY <1>1, <1>3, <2>1, IsASeq
<1>5. 1 <= Len(r) /\ SubSeq(s, 1, 1) = SubSeq(r, 1, 1)
  <2>1. IsPrefix(s, r)
    BY <1>2 DEF IsSuffix
  <2> QED
    BY <1>1, <2>1 DEF IsPrefix
<1>6. r[1] = event
  <2> HIDE DEF r
  <2>1. SubSeq(s, 1, 1)[1] = event
    OBVIOUS
  <2>2. SubSeq(r, 1, 1)[1] = r[1]
    BY <1>4, <1>5
  <2> QED
    BY <1>5, <2>1, <2>2
<1>7. n > 0 /\ r[1] = told[n]
  BY <1>1, <1>3, <1>4, <1>5
<1> QED
  BY <1>6, <1>7, EmptySeq

\* After an event that says where the connection is, the client is there.
LEMMA LastSays ==
  ASSUME NEW told \in Seq(Event), told # <<>>, NEW d, client \in ClientState,
         LET event == told[Len(told)]
         IN  \/ event \in Loss
             \/ event = "loginAccepted" /\ d.state = "Connected" /\ d.room = NoRoom
             \/ event = "roomEntered" /\ d.state = "Connected" /\ d.room # NoRoom
             \/ event = "roomLeft" /\ d.state = "Connected" /\ d.room = NoRoom
  PROVE  \E states \in [0 .. Len(told) -> ClientState] :
            /\ Through(states, client, told, d.room)
            /\ Matches(states[Len(told)], d)
<1> DEFINE n == Len(told)
<1>1. n \in Nat /\ n > 0
  BY EmptySeq, LenProperties
<1>2. PICK states \in [0 .. n -> ClientState] : Through(states, client, told, d.room)
  BY Somewhere
<1>3. states[n] = handled(states[n - 1], told[n], d.room)
  <2>1. n \in 1 .. n
    BY <1>1
  <2> QED
    BY <1>2, <2>1 DEF Through
<1>4. Matches(states[n], d)
  BY <1>3 DEF Matches, handled, Loss, isMultiplayerState
<1> QED
  BY <1>2, <1>4

\* A step that leaves the events and where the connection is, and the client in
\* its state or in one that is neither of a lobby nor of a game.
LEMMA StillTold ==
  ASSUME Informed, UNCHANGED events,
         connection'.state = connection.state, connection'.room = connection.room,
         client' \in ClientState,
         client' = client \/ client' \notin {"MultiplayerLobby", "MultiplayerInGame"}
  PROVE  Informed'
<1> DEFINE n == Len(events)
<1> DEFINE room == connection.room
<1>1. /\ events \in Seq(Event) /\ client \in ClientState
      /\ \E g \in [0 .. n -> ClientState] :
            Through(g, client, events, room) /\ Matches(g[n], connection)
  BY DEF Informed, Told
<1>2. PICK g \in [0 .. n -> ClientState] :
        Through(g, client, events, room) /\ Matches(g[n], connection)
  BY <1>1
<1>3. PICK f \in [0 .. n -> ClientState] : Through(f, client', events, room)
  BY <1>1, Somewhere
<1>4. f[n] = g[n] \/ f[n] \notin {"MultiplayerLobby", "MultiplayerInGame"}
  BY <1>1, <1>2, <1>3, Together
<1>5. Matches(f[n], connection')
  BY <1>2, <1>4 DEF Matches
<1>6. Told'
  BY <1>3, <1>5 DEF Told
<1> QED
  BY <1>1, <1>6 DEF Informed

LEMMA TickTells == Informed /\ Tick => Informed'
<1> SUFFICES ASSUME Informed, Tick PROVE Informed'
  OBVIOUS
<1> DEFINE n == Len(events)
<1> DEFINE after[i \in 0 .. n] ==
             IF i = 0 THEN client ELSE handleEvent(after[i - 1], events[i])
<1>1. client' = after[n] /\ events' = <<>> /\ UNCHANGED connection
  BY DEF Tick
<1>2. /\ events \in Seq(Event) /\ client \in ClientState /\ n \in Nat
      /\ \A i \in 1 .. n : events[i] \in Event
  BY LenProperties, ElementOfSeq DEF Informed
<1>3. PICK f \in [0 .. n -> ClientState] :
        /\ Through(f, client, events, connection.room)
        /\ Matches(f[n], connection)
  BY DEF Informed, Told
<1>4. \A i \in 1 .. n : \A s :
        handleEvent(s, events[i]) = handled(s, events[i], connection.room)
  BY <1>2, HandledAsThere
<1>5. f = [i \in 0 .. n |->
             IF i = 0 THEN client ELSE handleEvent(f[i - 1], events[i])]
  <2>1. \A i \in 0 .. n :
           f[i] = IF i = 0 THEN client ELSE handleEvent(f[i - 1], events[i])
    <3>1. \A i \in 0 .. n : i # 0 => i \in 1 .. n
      BY <1>2
    <3> QED
      BY <1>3, <1>4, <3>1 DEF Through
  <2> QED
    BY <2>1
<1>6. after = [i \in 0 .. n |->
                 IF i = 0 THEN client ELSE handleEvent(after[i - 1], events[i])]
  <2>1. \E h : h = [i \in 0 .. n |->
                 IF i = 0 THEN client ELSE handleEvent(h[i - 1], events[i])]
    BY <1>5
  <2> QED
    BY <2>1 DEF after
<1> HIDE DEF after
<1>7. after[n] = f[n]
  <2> DEFINE T == {i \in Nat : i <= n => after[i] = f[i]}
  <2>1. 0 \in T
    BY <1>2, <1>5, <1>6
  <2>2. ASSUME NEW i \in Nat, i \in T PROVE i + 1 \in T
    <3> SUFFICES ASSUME i + 1 <= n PROVE after[i + 1] = f[i + 1]
      OBVIOUS
    <3>1. i + 1 \in 0 .. n /\ i + 1 # 0 /\ (i + 1) - 1 = i
      BY <1>2
    <3>2. after[i] = f[i]
      BY <1>2, <2>2
    <3>3. after[i + 1] = handleEvent(after[i], events[i + 1])
      BY <1>6, <3>1
    <3>4. f[i + 1] = handleEvent(f[i], events[i + 1])
      BY <1>5, <3>1
    <3> QED
      BY <3>2, <3>3, <3>4
  <2> HIDE DEF T
  <2>3. n \in T
    BY <1>2, <2>1, <2>2, CountingUp
  <2> QED
    BY <1>2, <2>3 DEF T
<1>8. client' = f[n] /\ f[n] \in ClientState
  BY <1>1, <1>2, <1>3, <1>7
<1> DEFINE g == [i \in 0 .. 0 |-> f[n]]
<1>9. Len(events') = 0 /\ events' \in Seq(Event)
  BY <1>1, EmptySeq
<1>10. g \in [0 .. 0 -> ClientState] /\ g[0] = client'
  BY <1>8
<1> HIDE DEF g
<1>11. Through(g, client', events', connection'.room)
  BY <1>9, <1>10 DEF Through
<1>12. Matches(g[0], connection')
  BY <1>1, <1>3, <1>8, <1>10
<1>13. Told'
  BY <1>9, <1>10, <1>11, <1>12 DEF Told
<1> QED
  BY <1>8, <1>9, <1>13 DEF Informed

\* A handler runs, and its event is queued or repeats the last.
LEMMA RunHandlerTells == IInv /\ Informed /\ RunHandler => Informed'
<1> SUFFICES ASSUME IInv, Informed, RunHandler PROVE Informed'
  OBVIOUS
<1> DEFINE c == connection
<1> DEFINE d == connection'
<1>1. /\ strand \in Seq(Asked \cup Completion) /\ strand # <<>>
      /\ connection \in Connection
      /\ events \in Seq(Event) /\ client \in ClientState /\ client' = client
  BY DEF RunHandler, IInv, TypeOK, Informed
<1>2. PICK result \in outcomes(Head(strand)) :
        /\ d = result.c
        /\ events' = IF IsSuffix(result.events, events) THEN events
                     ELSE events \o result.events
  BY DEF RunHandler
<1>3. Head(strand) \in Asked \cup Completion
  BY <1>1, Removed
<1>4. Reports(d, result.events, c)
  BY <1>1, <1>2, <1>3, HandlerReported
<1> HIDE DEF d
<1>5. CASE /\ result.events = <<>> /\ d.room = c.room
           /\ d.state = c.state \/ c.state # "Connected"
  <2>1. events' = events
    BY <1>1, <1>2, <1>5, ConcatEmptySeq
  <2>2. PICK f \in [0 .. Len(events) -> ClientState] :
          /\ Through(f, client, events, c.room)
          /\ Matches(f[Len(events)], c)
    BY DEF Informed, Told
  <2>3. Matches(f[Len(events)], d)
    BY <1>5, <2>2 DEF Matches
  <2>4. Told'
    BY <1>1, <1>5, <2>1, <2>2, <2>3 DEF Told, d
  <2> QED
    BY <1>1, <2>1, <2>4 DEF Informed
<1>6. ASSUME NEW event \in Event, result.events = <<event>>,
             \/ event \in Loss
             \/ event = "loginAccepted" /\ d.state = "Connected" /\ d.room = NoRoom
             \/ event = "roomEntered" /\ d.state = "Connected" /\ d.room # NoRoom
             \/ event = "roomLeft" /\ d.state = "Connected" /\ d.room = NoRoom
      PROVE  Informed'
  <2>1. /\ events' \in Seq(Event) /\ events' # <<>>
        /\ events'[Len(events')] = event
    <3>1. CASE IsSuffix(<<event>>, events)
      BY <1>1, <1>2, <1>6, <3>1, LeftOut
    <3>2. CASE ~IsSuffix(<<event>>, events)
      <4>1. events' = Append(events, event)
        BY <1>1, <1>2, <1>6, <3>2, AppendIsConcat
      <4> QED
        BY <1>1, <4>1, Added
    <3> QED
      BY <3>1, <3>2
  <2> HIDE DEF c
  <2>2. \E states \in [0 .. Len(events') -> ClientState] :
           /\ Through(states, client, events', d.room)
           /\ Matches(states[Len(events')], d)
    BY <1>1, <1>6, <2>1, LastSays
  <2>3. Told'
    BY <1>1, <2>2 DEF Told, d
  <2> QED
    BY <1>1, <2>1, <2>3 DEF Informed
<1>7. CASE result.events = <<"gameSync">> /\ d.state = c.state /\ d.room = c.room
  <2>1. CASE events' = events
    BY <1>1, <1>7, <2>1, StillTold DEF d
  <2>2. CASE events' = Append(events, "gameSync")
    <3> DEFINE n == Len(events)
    <3>1. PICK f \in [0 .. n -> ClientState] :
            /\ Through(f, client, events, c.room)
            /\ Matches(f[n], c)
      BY DEF Informed, Told
    <3>2. "gameSync" \in Event
      BY DEF Event
    <3>3. /\ events' \in Seq(Event) /\ n \in Nat /\ Len(events') = n + 1
          /\ \A i \in 1 .. n : events'[i] = events[i]
          /\ events'[n + 1] = "gameSync"
      BY <1>1, <2>2, <3>2, Added
    <3> DEFINE g == [i \in 0 .. n + 1 |-> IF i = n + 1 THEN f[n] ELSE f[i]]
    <3> HIDE DEF n
    <3>4. handled(f[n], "gameSync", c.room) = f[n]
      BY <3>1 DEF handled, Matches, Loss
    <3>5. g \in [0 .. n + 1 -> ClientState] /\ g[0] = client /\ g[n + 1] = f[n]
      BY <3>1, <3>3 DEF Through
    <3>6. \A i \in 1 .. n : g[i] = f[i] /\ g[i - 1] = f[i - 1]
      BY <3>3
    <3>7. g[n] = f[n]
      BY <3>3
    <3> HIDE DEF g
    <3>8. \A i \in 1 .. n + 1 : g[i] = handled(g[i - 1], events'[i], c.room)
      <4>1. \A i \in 1 .. n + 1 : i \in 1 .. n \/ (i = n + 1 /\ i - 1 = n)
        BY <3>3
      <4> QED
        BY <3>1, <3>3, <3>4, <3>5, <3>6, <3>7, <4>1 DEF Through, n
    <3>9. Through(g, client, events', c.room)
      BY <3>3, <3>5, <3>8 DEF Through
    <3>10. Matches(g[n + 1], d)
      BY <1>7, <3>1, <3>5 DEF Matches
    <3>11. Told'
      BY <1>1, <1>7, <3>3, <3>5, <3>9, <3>10 DEF Told, d
    <3> QED
      BY <1>1, <3>3, <3>11 DEF Informed
  <2>3. events' = events \/ events' = Append(events, "gameSync")
    <3>1. "gameSync" \in Event
      BY DEF Event
    <3> QED
      BY <1>1, <1>2, <1>7, <3>1, AppendIsConcat
  <2> QED
    BY <2>1, <2>2, <2>3
<1>8. \A event \in Loss : event \in Event
  BY DEF Event
<1>9. {"loginAccepted", "roomEntered", "roomLeft"} \subseteq Event
  BY DEF Event
<1> QED
  BY <1>4, <1>5, <1>6, <1>7, <1>8, <1>9 DEF Reports

LEMMA InformedInitially == Init => Informed
<1> SUFFICES ASSUME Init PROVE Informed
  OBVIOUS
<1>1. client = "Idle" /\ events = <<>> /\ Len(events) = 0 /\ events \in Seq(Event)
  BY EmptySeq DEF Init
<1> DEFINE f == [i \in 0 .. 0 |-> "Idle"]
<1>2. f \in [0 .. 0 -> ClientState] /\ f[0] = "Idle" /\ client \in ClientState
  BY <1>1 DEF ClientState
<1> HIDE DEF f
<1>3. Through(f, client, events, connection.room) /\ Matches(f[0], connection)
  BY <1>1, <1>2 DEF Through, Matches
<1> QED
  BY <1>1, <1>2, <1>3 DEF Informed, Told

LEMMA InformedPreserved == IInv /\ Informed /\ [Next]_vars => Informed'
<1> SUFFICES ASSUME IInv, Informed, [Next]_vars PROVE Informed'
  OBVIOUS
<1>1. connection \in Connection /\ client \in ClientState
  BY DEF IInv, TypeOK, Informed
<1>2. CASE Tick
  BY <1>2, TickTells
<1>3. CASE RunHandler
  BY <1>3, RunHandlerTells
<1>4. CASE ShowState \/ Disconnect \/ (\E request \in Request : Ask(request))
           \/ ServerUpdates \/ PeerFallsSilent \/ DispatchCompletion
           \/ UNCHANGED vars
  BY <1>1, <1>4, StillTold
     DEF ShowState, Disconnect, Ask, ServerUpdates, PeerFallsSilent,
         DispatchCompletion, vars, ui
<1>5. CASE \E state \in {"Singleplayer", "MultiplayerSetup"} : LeaveMenu(state)
  BY <1>1, <1>5, StillTold DEF LeaveMenu, ClientState
<1>6. CASE ReturnToIdle
  BY <1>1, <1>6, StillTold DEF ReturnToIdle, ClientState
<1>7. CASE Connect
  BY <1>1, <1>7, StillTold DEF Connect, ClientState
<1>8. CASE ConnectCompletes
  <2>1. /\ connection'.state = connection.state /\ connection'.room = connection.room
        /\ UNCHANGED <<client, events>>
    BY <1>1, <1>8 DEF ConnectCompletes, Connection
  <2> QED
    BY <1>1, <2>1, StillTold
<1>9. CASE WriteCompletes \/ ReadCompletes \/ ReadFails
  <2>1. /\ connection'.state = connection.state /\ connection'.room = connection.room
        /\ UNCHANGED <<client, events>>
    BY <1>1, <1>9 DEF WriteCompletes, ReadCompletes, ReadFails, Connection
  <2> QED
    BY <1>1, <2>1, StillTold
<1> QED
  BY <1>2, <1>3, <1>4, <1>5, <1>6, <1>7, <1>8, <1>9 DEF Next

\* Every loss and every answer is told: once its events are taken, the client shows a
\* lobby or a game only on a connection that is in that lobby or in a room, even
\* where a stale completion has been taken for another.
THEOREM ScreensMatch == Spec => []ScreensMatchTheConnection
<1>1. Init => IInv /\ Informed
  BY Initially, InformedInitially
<1>2. IInv /\ Informed /\ [Next]_vars => (IInv /\ Informed)'
  BY Preserved, InformedPreserved
<1>3. Informed => ScreensMatchTheConnection
  <2> SUFFICES ASSUME Informed, events = <<>> PROVE Matches(client, connection)
    BY DEF ScreensMatchTheConnection, Matches
  <2>1. Len(events) = 0
    BY EmptySeq
  <2> QED
    BY <2>1 DEF Informed, Told, Through
<1> QED
  BY <1>1, <1>2, <1>3, PTL DEF Spec
=============================================================================
