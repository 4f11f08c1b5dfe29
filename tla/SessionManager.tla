--------------------------- MODULE SessionManager ---------------------------
(***************************************************************************)
(* The server's session manager (SessionManager.cpp) over its sessions     *)
(* (Session.cpp): accepting connections, running what waits on each        *)
(* session's strand, sending to several sessions, and stopping.            *)
(*                                                                         *)
(* The io threads run accept handlers and strands, the UI thread start and *)
(* stop, and the game manager sends from its own strand.  A handler is one *)
(* step unless it waits for the session map's mutex between two parts that *)
(* others can come between.  messageSession holds the mutex shared while   *)
(* it dispatches to each session's strand.  A dispatch to a strand that is *)
(* free, or to the caller's own, runs on the spot; if that send has to     *)
(* give its session up, removeSession wants the mutex alone, on the thread *)
(* that holds it shared, and both strands are stuck from then on.          *)
(***************************************************************************)
EXTENDS Session, SequencesExt

CONSTANTS
    ClientSends,     \* the messages that clients send in this instance
    MaxSessions,     \* bound on the connections accepted
    MaxStarts,       \* bound on the starts of the manager
    MaxQueuedSends   \* bound on the sends waiting for one strand

ASSUME BoundsAssumption ==
    /\ ClientSends \subseteq Incoming
    /\ MaxSessions \in Nat
    /\ MaxStarts \in Nat
    /\ MaxQueuedSends \in Nat

SessionID == 1 .. MaxSessions

\* No session has this id: m_nextSessionId starts with 1.
GameManagerStrand == 0

VARIABLES
    session,   \* every session created, at its id
    registry,  \* m_sessions and m_idToIndex, guarded by m_sessionMutex
    manager,   \* m_state, and what the UI thread is doing
    accepts,   \* how many async_accepts there are at each stage
    stuck      \* strands that wait for the mutex and will not get it

vars == <<session, registry, manager, accepts, stuck>>

\* An async_accept is outstanding until it has a connection or has failed; its
\* handler, once it has seen the manager running, is admitting the connection.
AcceptStage == {"outstanding", "connected", "failed", "admitting"}

Strand == SessionID \cup {GameManagerStrand}

\* Session ids are the positions of the sessions in the order of their creation,
\* the map only knows sessions that exist, and no counter of accepts goes below
\* zero.
TypeOK ==
    /\ session \in Seq(SessionRecord)
    /\ Len(session) <= MaxSessions
    /\ registry.m_sessions \in Seq(DOMAIN session)
    /\ DOMAIN registry.m_idToIndex \subseteq DOMAIN session
    /\ manager \in [m_state : {"STOPPED", "RUNNING", "STOPPING"},
                    uiThread : {"idle", "startAccept", "removeSession"},
                    starts : 0 .. MaxStarts]
    /\ accepts \in [AcceptStage -> Nat]
    /\ stuck \subseteq Strand

Init ==
    /\ session = <<>>
    /\ registry = [m_sessions |-> <<>>, m_idToIndex |-> <<>>]
    /\ manager = [m_state |-> "STOPPED", uiThread |-> "idle", starts |-> 0]
    /\ accepts = [stage \in AcceptStage |-> 0]
    /\ stuck = {}

-----------------------------------------------------------------------------
(* The session map *)

listed(id) == id \in DOMAIN registry.m_idToIndex

\* Mutant: the session that is moved keeps its index.
swapAndForget(map, id) ==
    [m_sessions |->
        Front([map.m_sessions EXCEPT ![map.m_idToIndex[id]] =
                  Last(map.m_sessions)]),
     m_idToIndex |->
        [other \in DOMAIN map.m_idToIndex \ {id} |-> map.m_idToIndex[other]]]

\* The last session takes the place of the one that goes.
swapAndPop(map, id) ==
    LET index == map.m_idToIndex[id]
        last == Len(map.m_sessions)
        moved == map.m_sessions[last]
    IN  [m_sessions |-> Front([map.m_sessions EXCEPT ![index] = moved]),
         m_idToIndex |->
            [other \in DOMAIN map.m_idToIndex \ {id} |->
                IF other = moved THEN index ELSE map.m_idToIndex[other]]]

\* The map when the first n of the sessions it had have been removed.
withoutFirst[n \in 0 .. Len(registry.m_sessions)] ==
    IF n = 0 THEN registry
    ELSE swapAndPop(withoutFirst[n - 1], registry.m_sessions[n])

\* Mutant: the loop ends before the last one.
allButLastRemoved ==
    IF registry.m_sessions = <<>> THEN registry
    ELSE withoutFirst[Len(registry.m_sessions) - 1]

allRemoved == withoutFirst[Len(registry.m_sessions)]

\* Nobody waits for the mutex in vain: it can be taken alone.
mutexFree == stuck = {}

-----------------------------------------------------------------------------
(* Starting, accepting and stopping *)

StartManager ==
    /\ manager.uiThread = "idle"
    /\ manager.m_state = "STOPPED"
    /\ manager.starts < MaxStarts
    /\ manager' = [m_state |-> "RUNNING", uiThread |-> "startAccept",
                   starts |-> manager.starts + 1]
    /\ UNCHANGED <<session, registry, accepts, stuck>>

\* One accept moves from a stage to the next; "" is before and after them all.
passes(from, to) ==
    accepts' = [stage \in AcceptStage |->
        accepts[stage] - (IF stage = from THEN 1 ELSE 0)
                       + (IF stage = to THEN 1 ELSE 0)]

StartAccepting ==
    /\ manager.uiThread = "startAccept"
    /\ passes("", "outstanding")
    /\ manager' = [manager EXCEPT !.uiThread = "idle"]
    /\ UNCHANGED <<session, registry, stuck>>

Running == manager.m_state = "RUNNING"

\* A handler that is done accepts again, unless the manager is stopping.
rearms(from) == passes(from, IF Running THEN "outstanding" ELSE "")

AcceptCompletes ==
    /\ accepts["outstanding"] > 0
    /\ \/ /\ Len(session) + accepts["connected"] + accepts["admitting"]
                < MaxSessions
          /\ passes("outstanding", "connected")
       \/ passes("outstanding", "failed")
    /\ UNCHANGED <<session, registry, manager, stuck>>

\* Mutant: the handler returns on an error.
HandleFailedAcceptReturns ==
    /\ accepts["failed"] > 0
    /\ passes("failed", "")
    /\ UNCHANGED <<session, registry, manager, stuck>>

HandleFailedAccept ==
    /\ accepts["failed"] > 0
    /\ rearms("failed")
    /\ UNCHANGED <<session, registry, manager, stuck>>

\* The handler looks at m_state before it takes the mutex.
HandleAccept ==
    /\ accepts["connected"] > 0
    /\ passes("connected", IF Running THEN "admitting" ELSE "")
    /\ UNCHANGED <<session, registry, manager, stuck>>

CreateSession ==
    LET id == Len(session) + 1
    IN  /\ accepts["admitting"] > 0
        /\ mutexFree
        /\ session' = Append(session, newSession)
        /\ registry' =
             [m_sessions |-> Append(registry.m_sessions, id),
              m_idToIndex |->
                [other \in DOMAIN registry.m_idToIndex \cup {id} |->
                    IF other = id THEN Len(registry.m_sessions) + 1
                    ELSE registry.m_idToIndex[other]]]
        /\ rearms("admitting")
        /\ UNCHANGED <<manager, stuck>>

\* Closing the acceptor fails the accepts that have no connection yet.
StopAccepting ==
    /\ manager.uiThread = "idle"
    /\ Running
    /\ manager' = [manager EXCEPT !.m_state = "STOPPING",
                                  !.uiThread = "removeSession"]
    /\ accepts' = [accepts EXCEPT !["outstanding"] = 0,
                                  !["failed"] = @ + accepts["outstanding"]]
    /\ UNCHANGED <<session, registry, stuck>>

\* The UI thread is on no strand, so every stop is queued.
StopSessions ==
    /\ manager.uiThread = "removeSession"
    /\ mutexFree
    /\ manager' = [manager EXCEPT !.m_state = "STOPPED", !.uiThread = "idle"]
    /\ registry' = allRemoved
    /\ session' = [id \in DOMAIN session |->
                      IF listed(id)
                      THEN enqueue(session[id], [type |-> "stop"])
                      ELSE session[id]]
    /\ UNCHANGED <<accepts, stuck>>

-----------------------------------------------------------------------------
(* Sending to sessions *)

\* A dispatch from caller's strand to the session's own runs on the spot.
inline(id, caller) ==
    \/ id = caller
    \/ session[id].strand = <<>> /\ id \notin stuck

roomToQueue(id) ==
    Cardinality(waiting(session[id], "send")) < MaxQueuedSends

\* before is the sessions with the effects the caller's handler had so far.
\* The targets are served in the order of m_sessions, which is any order.
messageSession(before, targets, caller) ==
    LET jammed == {id \in targets :
                     inline(id, caller) /\ sendAborts(before[id], "Append")}
        delivered(served) ==
            [id \in DOMAIN before |->
                CASE id \notin served -> before[id]
                  [] id \in served /\ inline(id, caller) ->
                       send(before[id], "message", "Append")
                  [] OTHER -> enqueue(before[id], [type |-> "send"])]
    IN  /\ \A id \in targets : inline(id, caller) \/ roomToQueue(id)
        /\ \/ /\ jammed = {}
              /\ session' = delivered(targets)
              /\ stuck' = stuck
           \/ \E id \in jammed, served \in SUBSET (targets \ jammed) :
                /\ session' = delivered(served)
                /\ stuck' = stuck \cup {id, caller}

\* An answer or an update for a session that has made a request: it may be
\* gone, then nobody is sent anything.
GameManagerSends(id) ==
    /\ GameManagerStrand \notin stuck
    /\ id \in DOMAIN session
    /\ loggedIn(session[id])
    /\ listed(id)
    /\ messageSession(session, {id}, GameManagerStrand)
    /\ UNCHANGED <<registry, manager, accepts>>

-----------------------------------------------------------------------------
(* What the strand of a session runs *)

canRun(id) ==
    /\ id \in DOMAIN session
    /\ id \notin stuck
    /\ session[id].strand # <<>>

dispatches(id) ==
    LET handler == Head(session[id].strand)
    IN  handler.type = "body" /\ handler.ok

chats(id) ==
    /\ dispatches(id)
    /\ Head(session[id].strand).message = "globalChat"
    /\ loggedIn(session[id])

RunHandler(id) ==
    /\ canRun(id)
    /\ ~chats(id)
    /\ ~runNext(session[id]).aborting
    /\ session' = [session EXCEPT ![id] = runNext(@)]
    /\ UNCHANGED <<registry, manager, accepts, stuck>>

\* removeSession on the session's own strand: it is stopped on the spot, unless
\* it is not found because it has been removed already.
AbortSession(id) ==
    LET after == [runNext(session[id]) EXCEPT !.aborting = FALSE]
    IN  /\ canRun(id)
        /\ runNext(session[id]).aborting
        /\ mutexFree
        /\ session' = [session EXCEPT ![id] =
                          IF listed(id) THEN stop(after) ELSE after]
        /\ registry' = IF listed(id) THEN swapAndPop(registry, id) ELSE registry
        /\ UNCHANGED <<manager, accepts, stuck>>

GlobalChat(id) ==
    /\ canRun(id)
    /\ chats(id)
    /\ messageSession([session EXCEPT ![id] = runNext(@)],
                      {other \in DOMAIN session :
                          listed(other) /\ loggedIn(session[other])}, id)
    /\ UNCHANGED <<registry, manager, accepts>>

RunStrand(id) == RunHandler(id) \/ AbortSession(id) \/ GlobalChat(id)

-----------------------------------------------------------------------------
(* The network *)

ReadCompletes(id) ==
    /\ id \in DOMAIN session
    /\ session[id].reading # "none"
    /\ \E result \in readResults(session[id]) :
         /\ result.message \in ClientSends \cup {NoMessage}
         /\ session' = [session EXCEPT ![id] = readCompletes(@, result)]
    /\ UNCHANGED <<registry, manager, accepts, stuck>>

\* A write may wait for ever for a client that reads nothing.
WriteCompletes(id) ==
    /\ id \in DOMAIN session
    /\ session[id].writing # NoWrite
    /\ \E ok \in {FALSE, session[id].socketOpen} :
         session' = [session EXCEPT ![id] = writeCompletes(@, ok)]
    /\ UNCHANGED <<registry, manager, accepts, stuck>>

-----------------------------------------------------------------------------
Next ==
    \/ StartManager
    \/ StartAccepting
    \/ StopAccepting
    \/ StopSessions
    \/ AcceptCompletes
    \/ HandleFailedAccept
    \/ HandleAccept
    \/ CreateSession
    \/ \E id \in SessionID :
         \/ RunHandler(id)
         \/ AbortSession(id)
         \/ GlobalChat(id)
         \/ ReadCompletes(id)
         \/ WriteCompletes(id)
         \/ GameManagerSends(id)

Spec == Init /\ [][Next]_vars

\* The io threads run what waits on a strand, and operations on a closed socket
\* complete.  Nothing makes a client send or read.
Fairness ==
    \A id \in SessionID :
        /\ WF_vars(RunStrand(id))
        /\ WF_vars(/\ id \in DOMAIN session
                   /\ ~session[id].socketOpen
                   /\ ReadCompletes(id))
        /\ WF_vars(/\ id \in DOMAIN session
                   /\ ~session[id].socketOpen
                   /\ WriteCompletes(id))

FairSpec == Spec /\ Fairness

-----------------------------------------------------------------------------
(* Properties *)

\* Swap-and-pop leaves every listed session where its index says it is, and
\* nowhere else: a message or a stop reaches the client it is meant for.
IndexesAgree ==
    /\ \A i \in DOMAIN registry.m_sessions :
         /\ registry.m_sessions[i] \in DOMAIN registry.m_idToIndex
         /\ registry.m_idToIndex[registry.m_sessions[i]] = i
    /\ \A id \in DOMAIN registry.m_idToIndex :
         /\ registry.m_idToIndex[id] \in DOMAIN registry.m_sessions
         /\ registry.m_sessions[registry.m_idToIndex[id]] = id

\* A session is in the map exactly as long as it runs and nobody has told it to
\* stop: no connection is left open that the manager cannot reach any more, and
\* none is stopped behind its back.
ListMatchesSessions ==
    \A id \in DOMAIN session :
        listed(id) <=> /\ session[id].m_state = "RUNNING"
                       /\ waiting(session[id], "stop") = {}

\* A listed session has one write under way if and only if its queue is not
\* empty, and that is the write at the front, whose buffers the queue keeps
\* alive; asio allows no second async_write on the socket, whatever the state.
\* Only a session that has been stopped, which clears the queue under a write,
\* pops from an empty one.
OneWriteAtATime ==
    \A id \in DOMAIN session :
        /\ \A i, j \in waiting(session[id], "written") : i = j
        /\ session[id].writing # NoWrite =>
             waiting(session[id], "written") = {}
        /\ listed(id) =>
             (writeInFlight(session[id]) <=> session[id].m_writeQueue # <<>>)
        /\ listed(id) /\ session[id].writing # NoWrite =>
             session[id].writing = Head(session[id].m_writeQueue)
        /\ listed(id) => ~session[id].undefined

\* A session that posted its leave posts at most one request after it: the read
\* that was under way may still deliver a message, but no read comes after it.
FewLateRequests == \A id \in DOMAIN session : session[id].lateRequests <= 1

\* As long as the manager runs, someone can still connect to it: an accept is
\* outstanding or on its way back to being so.
AcceptChainSurvives ==
    Running /\ manager.uiThread = "idle" =>
        \E stage \in AcceptStage : accepts[stage] > 0

\* A stopped manager is left with no session but those whose handlers were past
\* the check of m_state when it stopped, one for every start at most.
StopLeavesOnlyAdmissions ==
    manager.m_state = "STOPPED" =>
        Len(registry.m_sessions) + accepts["admitting"] <= manager.starts

\* The session map's mutex is lost in one way only: a broadcast has met a listed
\* session whose write queue was full and whose strand was free.
MutexLostOnFullQueueOnly ==
    ~mutexFree =>
        \E id \in stuck \cap DOMAIN session :
            /\ listed(id)
            /\ Len(session[id].m_writeQueue) = MaxWriteQueueLength

\* Session.cpp:186-189 says of dispatchIncomingMessage that the session is active
\* when it is called.
ActiveWhenDispatching ==
    [][\A id \in SessionID :
          canRun(id) /\ dispatches(id) /\ RunStrand(id)
              => session[id].m_state = "RUNNING"]_vars

\* A session that has been taken out of the map stops and is destroyed: no
\* operation and no handler goes on holding the shared pointer that keeps it
\* alive (Session.hpp:70), unless the mutex is lost.
RemovedSessionsAreReleased ==
    \A id \in SessionID :
        (id \in DOMAIN session /\ ~listed(id)) ~>
            \/ /\ id \in DOMAIN session
               /\ session[id].m_state = "STOPPED"
               /\ session[id].strand = <<>>
               /\ session[id].reading = "none"
               /\ session[id].writing = NoWrite
            \/ ~mutexFree
=============================================================================
