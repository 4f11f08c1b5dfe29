------------------------------ MODULE Session ------------------------------
(***************************************************************************)
(* One connection of the server (Session.cpp), as operators on records:    *)
(* what each handler that runs on the session's strand does to it.         *)
(*                                                                         *)
(* strand holds the handlers waiting for the strand, first in first out:   *)
(* completions of reads and writes, and stop and send lambdas dispatched   *)
(* by other threads.  A handler runs alone and to its end, so the states   *)
(* STARTING and STOPPING, which start and stop pass through, are never     *)
(* seen by another one.                                                    *)
(*                                                                         *)
(* abortSession asks the session manager to remove the session; nothing a  *)
(* handler does after that depends on the answer.  Here it raises          *)
(* aborting, and the manager's step that runs the handler answers it.      *)
(***************************************************************************)
EXTENDS Naturals, Sequences

CONSTANT MaxWriteQueueLength  \* MAX_WRITE_QUEUE_LENGTH, 128 in the code

ASSUME QueueAssumption == MaxWriteQueueLength \in Nat \ {0}

\* What is sent to a client: the refusal of a login closes the session when it
\* has been written (PostWriteAction::AbortSession), anything else does not.
OutboundWrite == {"message", "refusal"}
NoWrite == "none"

\* What a client sends: a login with the server's password or another one, a
\* chat to everybody, something for the game manager, something that is read
\* and ignored, something that is no message a client may send.
Incoming ==
    {"login", "badLogin", "globalChat", "request", "ignored", "malformed"}
NoMessage == "none"

\* Messages that may have no body: reading it succeeds on a closed socket too.
Bodiless == {"request", "malformed"}

Handler ==
    [type : {"header", "body", "written"}, ok : BOOLEAN,
     message : Incoming \cup {NoMessage}]
        \cup {[type |-> "stop"], [type |-> "send"]}

SessionRecord ==
    [m_state : {"RUNNING", "STOPPED"},
     m_sessionState : {"LOGIN_REQUIRED", "IDLE"},
     m_writeQueue : Seq(OutboundWrite),
     m_terminalWriteQueued : BOOLEAN,
     socketOpen : BOOLEAN,
     reading : {"none", "header", "body"},       \* the async_read outstanding
     writing : OutboundWrite \cup {NoWrite},    \* the async_write outstanding
     strand : Seq(Handler),
     aborting : BOOLEAN,      \* within a handler: removal has been asked for
     left : BOOLEAN,          \* stop has posted requestLeaveRoom
     lateRequests : Nat,      \* requests posted after that one
     undefined : BOOLEAN]     \* it has read the front of an empty queue

newSession ==
    [m_state |-> "RUNNING", m_sessionState |-> "LOGIN_REQUIRED",
     m_writeQueue |-> <<>>, m_terminalWriteQueued |-> FALSE,
     socketOpen |-> TRUE, reading |-> "header", writing |-> NoWrite,
     strand |-> <<>>, aborting |-> FALSE, left |-> FALSE, lateRequests |-> 0,
     undefined |-> FALSE]

enqueue(session, handler) == [session EXCEPT !.strand = Append(@, handler)]

\* Where in the strand the handlers of a type are.
waiting(session, type) ==
    {i \in DOMAIN session.strand : session.strand[i].type = type}

\* A write is under way until its handler runs.
writeInFlight(session) ==
    session.writing # NoWrite \/ waiting(session, "written") # {}

-----------------------------------------------------------------------------
(* Stopping *)

\* Mutant: stop cleans up and does not change the state.
stopKeepsState(session) ==
    [session EXCEPT !.left = TRUE, !.socketOpen = FALSE, !.m_writeQueue = <<>>]

\* Mutant: stop does not close the socket.
stopKeepsSocket(session) ==
    IF session.m_state # "RUNNING" THEN session
    ELSE [session EXCEPT !.m_state = "STOPPED", !.left = TRUE,
                         !.m_writeQueue = <<>>]

stop(session) ==
    IF session.m_state # "RUNNING" THEN session
    ELSE [session EXCEPT !.m_state = "STOPPED", !.left = TRUE,
                         !.socketOpen = FALSE, !.m_writeQueue = <<>>]

abortSession(session) ==
    [session EXCEPT !.aborting = (session.m_state = "RUNNING")]

-----------------------------------------------------------------------------
(* Writing *)

doWrite(session) ==
    IF session.m_writeQueue = <<>> THEN session
    ELSE [session EXCEPT !.writing = Head(session.m_writeQueue)]

\* QueueWriteMethod::Overwrite keeps only the write under way.
kept(queue, method) ==
    IF method = "Overwrite" /\ queue # <<>> THEN <<Head(queue)>> ELSE queue

accepting(session) ==
    session.m_state = "RUNNING" /\ ~session.m_terminalWriteQueued

\* Mutant: off by one in the length of the queue.
sendAbortsLate(session, method) ==
    /\ accepting(session)
    /\ Len(kept(session.m_writeQueue, method)) > MaxWriteQueueLength

\* The queue is full: send gives the session up.
sendAborts(session, method) ==
    /\ accepting(session)
    /\ Len(kept(session.m_writeQueue, method)) >= MaxWriteQueueLength

\* Mutant: every send starts a write.
pushWrites(session, write, method) ==
    doWrite([session EXCEPT
                !.m_writeQueue = Append(kept(@, method), write),
                !.m_terminalWriteQueued = (write = "refusal")])

push(session, write, method) ==
    LET queue == Append(kept(session.m_writeQueue, method), write)
        pushed == [session EXCEPT
                      !.m_writeQueue = queue,
                      !.m_terminalWriteQueued = (write = "refusal")]
    IN  IF Len(queue) = 1 THEN doWrite(pushed) ELSE pushed

send(session, write, method) ==
    CASE ~accepting(session) -> session
      [] sendAborts(session, method) -> abortSession(session)
      [] OTHER -> push(session, write, method)

\* A write that succeeded: front and pop_front, then what the write asked for.
\* On an empty queue that is undefined behaviour; it is recorded, and what is
\* claimed from then on is claimed of a program that survived it.
written(session) ==
    LET queue == session.m_writeQueue
        popped == [session EXCEPT !.m_writeQueue = Tail(queue)]
    IN  CASE queue = <<>> -> [session EXCEPT !.undefined = TRUE]
          [] queue # <<>> /\ Head(queue) = "refusal" ->
               abortSession([popped EXCEPT !.m_terminalWriteQueued = FALSE])
          [] OTHER -> doWrite(popped)

-----------------------------------------------------------------------------
(* Reading *)

loggedIn(session) == session.m_sessionState = "IDLE"

\* A request is posted to the game manager, whatever state the session is in.
postRequest(session) ==
    IF session.left THEN [session EXCEPT !.lateRequests = @ + 1] ELSE session

login(session) ==
    send([session EXCEPT !.m_sessionState = "IDLE"], "message", "Append")

\* What dispatchIncomingMessage does to the session itself; a global chat goes
\* through the manager to every session, this one included.
dispatch(session, message) ==
    CASE \/ message = "malformed"
         \/ message \in {"login", "badLogin"} /\ loggedIn(session)
         \/ message \in {"request", "globalChat"} /\ ~loggedIn(session) ->
           abortSession(session)
      [] message = "login" /\ ~loggedIn(session) -> login(session)
      [] message = "badLogin" /\ ~loggedIn(session) ->
           send(session, "refusal", "Overwrite")
      [] message = "request" /\ loggedIn(session) -> postRequest(session)
      [] OTHER -> session

headerRead(session, ok) ==
    IF ok THEN [session EXCEPT !.reading = "body"] ELSE abortSession(session)

\* The next header is asked for even of a session that has just been stopped.
bodyRead(session, ok, message) ==
    IF ok THEN [dispatch(session, message) EXCEPT !.reading = "header"]
    ELSE abortSession(session)

-----------------------------------------------------------------------------
(* What the network does with the operations outstanding *)

\* A read may fail at any time.  It succeeds while the socket is open.
readResults(session) ==
    {[type |-> session.reading, ok |-> FALSE, message |-> NoMessage]}
        \cup {result \in [type : {session.reading}, ok : {TRUE},
                         message : IF session.reading = "body" THEN Incoming
                                   ELSE {NoMessage}] :
                \/ session.socketOpen
                \/ result.message \in Bodiless}

readCompletes(session, result) ==
    enqueue([session EXCEPT !.reading = "none"], result)

writeCompletes(session, ok) ==
    enqueue([session EXCEPT !.writing = NoWrite],
            [type |-> "written", ok |-> ok, message |-> NoMessage])

-----------------------------------------------------------------------------
(* What the strand runs *)

run(session, handler) ==
    CASE handler.type = "stop" -> stop(session)
      [] handler.type = "send" -> send(session, "message", "Append")
      [] handler.type = "header" -> headerRead(session, handler.ok)
      [] handler.type = "body" ->
           bodyRead(session, handler.ok, handler.message)
      [] handler.type = "written" ->
           IF handler.ok THEN written(session) ELSE abortSession(session)

\* The session after the first handler waiting for its strand has run.
runNext(session) ==
    run([session EXCEPT !.strand = Tail(@)], Head(session.strand))
=============================================================================
