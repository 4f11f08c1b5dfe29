-------------------------- MODULE ServerLifecycle --------------------------
(***************************************************************************)
(* Starting and stopping the server (GameServer.cpp): the order in which   *)
(* the UI thread starts and stops the managers, the io threads that run    *)
(* their handlers, and the io_context that lets the threads go.            *)
(*                                                                         *)
(* io_context::run returns once there is no work left, and the context is  *)
(* stopped from then on: nobody restarts it, and nobody joins the threads. *)
(* Work is every operation under way and every handler that waits or runs. *)
(* What the managers do with it is in modules SessionManager and           *)
(* GameManager; here it matters what work each handler leaves.             *)
(***************************************************************************)
EXTENDS Naturals

CONSTANTS
    ThreadsPerStart,  \* hardware_concurrency
    MaxStarts,        \* bound: how often the server is started
    MaxSessions       \* bound: connections at a time

ASSUME BoundsAssumption ==
    /\ {MaxStarts, MaxSessions} \subseteq Nat
    /\ ThreadsPerStart \in Nat \ {0}

VARIABLES
    server,   \* GameServer, what the UI thread does, and how starts have gone
    manager,  \* m_state of each manager
    work,     \* how much work of each kind there is
    stopped,  \* the context is stopped
    threads   \* how many threads have yet to enter run, and how many are in it

vars == <<server, manager, work, stopped, threads>>

LifecycleState == {"STOPPED", "STARTING", "RUNNING", "STOPPING"}

Manager == {"login", "game", "session"}

\* An accept is outstanding until its handler can run, with a connection or an
\* error; with a connection it goes on to admit it. A session reads until it
\* ends. The tick timer waits until it is due or cancelled.
Work ==
    {"accept", "connected", "acceptFailed", "admitting", "session", "sessionEnd",
     "tick", "tickDue", "tickCancelled", "doStop"}

\* What start and stop do next.
Step ==
    {"idle", "startGame", "startSession", "startAccept", "spawn",
     "closeAcceptor", "removeSessions", "stopGame"}

Server ==
    [state : LifecycleState,
     uiThread : Step,
     starts : 0 .. MaxStarts,
     refused : BOOLEAN,   \* history: the game manager did not start
     drained : BOOLEAN]   \* history: the threads came too late

TypeOK ==
    /\ server \in Server
    /\ manager \in [Manager -> LifecycleState]
    /\ work \in [Work -> Nat]
    /\ stopped \in BOOLEAN
    /\ threads \in [new : Nat, running : Nat]

Init ==
    /\ server = [state |-> "STOPPED", uiThread |-> "idle", starts |-> 0,
                 refused |-> FALSE, drained |-> FALSE]
    /\ manager = [m \in Manager |-> "STOPPED"]
    /\ work = [kind \in Work |-> 0]
    /\ stopped = FALSE
    /\ threads = [new |-> 0, running |-> 0]

-----------------------------------------------------------------------------
(* Work *)

add(w, kind) == [w EXCEPT ![kind] = @ + 1]

\* One piece of work is done, or becomes one of another kind.
done(w, kind) == [w EXCEPT ![kind] = @ - 1]
becomes(w, from, to) == add(done(w, from), to)

\* All the work of one kind becomes work of another: operations are cancelled.
cancel(w, from, to) == [w EXCEPT ![to] = @ + w[from], ![from] = 0]

none(w) == \A kind \in Work : w[kind] = 0

\* GameManager::scheduleTick: a new expiry cancels the wait there is.
scheduleTick(w) == add(cancel(w, "tick", "tickCancelled"), "tick")

-----------------------------------------------------------------------------
(* GameServer::start and stop on the UI thread *)

uiStep(from, to) ==
    /\ server.uiThread = from
    /\ server' = [server EXCEPT !.uiThread = to]

\* The compare and exchange of every start and stop.
moves(m, from, to) ==
    manager' = IF manager[m] = from THEN [manager EXCEPT ![m] = to] ELSE manager

\* Mutant: the threads are started before the managers.
SpawnFirst ==
    /\ server.uiThread = "idle"
    /\ server.state = "STOPPED"
    /\ server.starts < MaxStarts
    /\ server' = [server EXCEPT !.state = "STARTING", !.uiThread = "startGame",
                                !.starts = @ + 1]
    /\ moves("login", "STOPPED", "RUNNING")
    /\ threads' = [threads EXCEPT !.new = @ + ThreadsPerStart]
    /\ UNCHANGED <<work, stopped>>

StartServer ==
    /\ server.uiThread = "idle"
    /\ server.state = "STOPPED"
    /\ server.starts < MaxStarts
    /\ server' = [server EXCEPT !.state = "STARTING", !.uiThread = "startGame",
                                !.starts = @ + 1]
    /\ moves("login", "STOPPED", "RUNNING")
    /\ UNCHANGED <<work, stopped, threads>>

\* GameManager::start says nothing when the last stop has not been run.
StartGame ==
    /\ server.uiThread = "startGame"
    /\ LET refused == manager["game"] # "STOPPED"
       IN  /\ server' = [server EXCEPT !.uiThread = "startSession", !.refused = refused]
           /\ work' = IF refused THEN work ELSE scheduleTick(work)
    /\ moves("game", "STOPPED", "RUNNING")
    /\ UNCHANGED <<stopped, threads>>

\* Handlers of the last run may see the manager running before it accepts.
StartSession ==
    /\ uiStep("startSession", "startAccept")
    /\ moves("session", "STOPPED", "RUNNING")
    /\ UNCHANGED <<work, stopped, threads>>

StartAccept ==
    /\ uiStep("startAccept", "spawn")
    /\ work' = add(work, "accept")
    /\ UNCHANGED <<manager, stopped, threads>>

SpawnThreads ==
    /\ server.uiThread = "spawn"
    /\ server' = [server EXCEPT !.state = "RUNNING", !.uiThread = "idle",
                                !.drained = stopped]
    /\ threads' = [threads EXCEPT !.new = @ + ThreadsPerStart]
    /\ UNCHANGED <<manager, work, stopped>>

StopServer ==
    /\ server.uiThread = "idle"
    /\ server.state = "RUNNING"
    /\ server' = [server EXCEPT !.state = "STOPPING", !.uiThread = "closeAcceptor"]
    /\ moves("session", "RUNNING", "STOPPING")
    /\ UNCHANGED <<work, stopped, threads>>

\* Mutant: the acceptor stays open.
LeaveAcceptorOpen ==
    /\ uiStep("closeAcceptor", "removeSessions")
    /\ UNCHANGED <<manager, work, stopped, threads>>

CloseAcceptor ==
    /\ uiStep("closeAcceptor", "removeSessions")
    /\ work' = cancel(work, "accept", "acceptFailed")
    /\ UNCHANGED <<manager, stopped, threads>>

RemoveSessions ==
    /\ uiStep("removeSessions", "stopGame")
    /\ work' = cancel(work, "session", "sessionEnd")
    /\ moves("session", "STOPPING", "STOPPED")
    /\ UNCHANGED <<stopped, threads>>

\* GameManager::stop is run by its strand, LoginManager::stop at once.
StopGame ==
    /\ server.uiThread = "stopGame"
    /\ server' = [server EXCEPT !.state = "STOPPED", !.uiThread = "idle"]
    /\ LET posts == manager["game"] = "RUNNING"
       IN  /\ manager' = [manager EXCEPT !["game"] = IF posts THEN "STOPPING" ELSE @,
                                         !["login"] = "STOPPED"]
           /\ work' = IF posts THEN add(work, "doStop") ELSE work
    /\ UNCHANGED <<stopped, threads>>

-----------------------------------------------------------------------------
(* The threads *)

EnterRun ==
    /\ threads.new > 0
    /\ stopped' = (stopped \/ none(work))
    /\ threads' = [new |-> threads.new - 1,
                   running |-> threads.running + (IF stopped' THEN 0 ELSE 1)]
    /\ UNCHANGED <<server, manager, work>>

ReturnFromRun ==
    /\ threads.running > 0
    /\ stopped
    /\ threads' = [threads EXCEPT !.running = @ - 1]
    /\ UNCHANGED <<server, manager, work, stopped>>

\* A thread sees to a piece of work and leaves the rest.
sees(kind, rest) ==
    /\ threads.running > 0
    /\ ~stopped
    /\ work[kind] > 0
    /\ work' = rest
    /\ stopped' = none(rest)
    /\ UNCHANGED <<server, threads>>

Running(m) == manager[m] = "RUNNING"

\* An operation completes: its handler waits.
Complete(from, to) ==
    /\ sees(from, becomes(work, from, to))
    /\ UNCHANGED manager

Connections == work["connected"] + work["admitting"] + work["session"] + work["sessionEnd"]

AcceptCompletes ==
    \/ Connections < MaxSessions /\ Complete("accept", "connected")
    \/ Complete("accept", "acceptFailed")

SessionEnds == Complete("session", "sessionEnd")
TickExpires == Complete("tick", "tickDue")

\* The handler of async_accept tests the state before it admits, and again to
\* accept the next.
HandleAccept ==
    /\ sees("connected", IF Running("session")
                         THEN becomes(work, "connected", "admitting")
                         ELSE done(work, "connected"))
    /\ UNCHANGED manager

acceptAgain(w) == IF Running("session") THEN add(w, "accept") ELSE w

Admit ==
    /\ sees("admitting", acceptAgain(becomes(work, "admitting", "session")))
    /\ UNCHANGED manager

HandleFailedAccept ==
    /\ sees("acceptFailed", acceptAgain(done(work, "acceptFailed")))
    /\ UNCHANGED manager

OnTick ==
    /\ sees("tickDue", IF Running("game") THEN scheduleTick(done(work, "tickDue"))
                       ELSE done(work, "tickDue"))
    /\ UNCHANGED manager

\* Handlers that do nothing more.
Finish ==
    /\ \E kind \in {"sessionEnd", "tickCancelled"} : sees(kind, done(work, kind))
    /\ UNCHANGED manager

\* What GameManager::stop posts.
DoStop ==
    /\ sees("doStop", cancel(done(work, "doStop"), "tick", "tickCancelled"))
    /\ manager' = [manager EXCEPT !["game"] = "STOPPED"]

-----------------------------------------------------------------------------
Next ==
    \/ StartServer \/ StartGame \/ StartSession \/ StartAccept \/ SpawnThreads
    \/ StopServer \/ CloseAcceptor \/ RemoveSessions \/ StopGame
    \/ EnterRun \/ ReturnFromRun
    \/ AcceptCompletes \/ SessionEnds \/ TickExpires
    \/ HandleAccept \/ Admit \/ HandleFailedAccept \/ OnTick \/ Finish \/ DoStop

Spec == Init /\ [][Next]_vars

\* The UI thread finishes what it has begun, threads are scheduled and a handler
\* that waits is run while a thread is there for it. Nothing makes the user
\* start or stop, a client connect or go, or the timer expire.
Fairness ==
    /\ WF_vars(StartGame) /\ WF_vars(StartSession) /\ WF_vars(StartAccept)
    /\ WF_vars(SpawnThreads) /\ WF_vars(CloseAcceptor) /\ WF_vars(RemoveSessions)
    /\ WF_vars(StopGame)
    /\ WF_vars(EnterRun) /\ WF_vars(ReturnFromRun)
    /\ WF_vars(HandleAccept) /\ WF_vars(Admit) /\ WF_vars(HandleFailedAccept)
    /\ WF_vars(OnTick) /\ WF_vars(Finish) /\ WF_vars(DoStop)

FairSpec == Spec /\ Fairness

-----------------------------------------------------------------------------
(* Properties *)

\* Every manager runs, with an accept and a tick to come and a thread to see to
\* them.
Serving ==
    /\ \A m \in Manager : Running(m)
    /\ work["accept"] + work["connected"] + work["acceptFailed"] + work["admitting"] > 0
    /\ work["tick"] + work["tickDue"] > 0
    /\ ~stopped
    /\ threads.new + threads.running > 0

\* A server that says it runs serves, with two exceptions, both after a restart:
\* it was started before its last stop had been run, and the game manager has
\* refused to start, or after all work had gone, and the threads find the
\* context stopped.
RunningServersServe ==
    server.state = "RUNNING" =>
        \/ Serving
        \/ server.starts > 1 /\ (server.refused \/ server.drained)

\* A server that is stopped and stays so lets its threads go, unless it admits a
\* client too late, and then until that client has gone.
StoppedServersDrain ==
    server.state = "STOPPED" ~>
        \/ threads.new + threads.running = 0
        \/ server.state # "STOPPED"
        \/ work["session"] > 0
=============================================================================
