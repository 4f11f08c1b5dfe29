------------------------ MODULE ServerLifecycleProofs ------------------------
(***************************************************************************)
(* Proof that a server that says it runs serves, but for the two kinds of  *)
(* restart that RunningServersServe names: for every number of threads,    *)
(* starts and connections.                                                 *)
(*                                                                         *)
(* The inductive invariant follows the UI thread through its steps. In a   *)
(* part of them the game manager is known to be up, in a part of those the *)
(* accept chain has begun, and both chains keep the context from running   *)
(* out of work: the stop of the last run is the only handler that ends a   *)
(* chain, and it is gone when the game manager has started anew.           *)
(***************************************************************************)
EXTENDS ServerLifecycle, TLAPS

\* Where the UI thread is after the game manager has been started, and after the
\* first accept.
GameStarted ==
    \/ server.uiThread \in {"startSession", "startAccept", "spawn"}
    \/ server.uiThread = "idle" /\ server.state = "RUNNING"

Accepting ==
    \/ server.uiThread = "spawn"
    \/ server.uiThread = "idle" /\ server.state = "RUNNING"

\* Each step of the UI thread belongs to one state of the server.
StateOfStep ==
    /\ server.uiThread = "idle" => server.state \in {"STOPPED", "RUNNING"}
    /\ server.uiThread \in {"startGame", "startSession", "startAccept", "spawn"} =>
         server.state = "STARTING"
    /\ server.uiThread \in {"closeAcceptor", "removeSessions", "stopGame"} =>
         server.state = "STOPPING"

\* The login and the session manager follow the UI thread.
ManagersFollow ==
    /\ manager["login"] = IF server.state = "STOPPED" THEN "STOPPED" ELSE "RUNNING"
    /\ server.uiThread \in {"startGame", "startSession", "stopGame"} =>
         manager["session"] = "STOPPED"
    /\ server.uiThread = "startAccept" \/ Accepting => manager["session"] = "RUNNING"
    /\ server.uiThread \in {"closeAcceptor", "removeSessions"} =>
         manager["session"] = "STOPPING"
    /\ server.uiThread = "idle" /\ server.state = "STOPPED" =>
         manager["session"] = "STOPPED"

\* A stop of the game manager waits exactly while it is stopping.
StopIsOnItsWay ==
    /\ manager["game"] \in {"STOPPED", "RUNNING", "STOPPING"}
    /\ manager["game"] = "STOPPING" => work["doStop"] = 1
    /\ manager["game"] # "STOPPING" => work["doStop"] = 0

\* The chains of ticks and of accepts.
TickChain ==
    GameStarted /\ ~server.refused =>
        manager["game"] = "RUNNING" /\ work["tick"] + work["tickDue"] > 0

AcceptChain ==
    Accepting =>
      work["accept"] + work["connected"] + work["acceptFailed"] + work["admitting"] > 0

\* Before the first threads nothing runs, and nothing is refused.
NothingYet ==
    \/ server.starts = 0
    \/ server.starts = 1 /\ server.state = "STARTING"

FirstStart ==
    /\ server.starts = 0 => server.uiThread = "idle" /\ server.state = "STOPPED"
    /\ NothingYet => ~stopped /\ threads.new = 0 /\ threads.running = 0
    /\ NothingYet /\ server.uiThread \in {"idle", "startGame"} =>
         manager["game"] = "STOPPED"
    /\ server.starts = 1 /\ GameStarted => ~server.refused
    /\ server.starts = 1 /\ server.uiThread = "idle" /\ server.state = "RUNNING" =>
         ~server.drained

\* Threads that find the context running stay until it stops.
ThreadsStay ==
    server.uiThread = "idle" /\ server.state = "RUNNING" /\ ~server.drained =>
        ~stopped /\ threads.new + threads.running > 0

IInv ==
    /\ TypeOK
    /\ StateOfStep /\ ManagersFollow
    /\ StopIsOnItsWay
    /\ TickChain /\ AcceptChain
    /\ FirstStart /\ ThreadsStay
-----------------------------------------------------------------------------
(* Work *)

\* What the operators on work leave of each kind.
LEMMA AddWork ==
    ASSUME NEW w \in [Work -> Nat], NEW kind \in Work
    PROVE  /\ add(w, kind) \in [Work -> Nat]
           /\ add(w, kind)[kind] = w[kind] + 1
           /\ \A other \in Work \ {kind} : add(w, kind)[other] = w[other]
  BY DEF add

LEMMA DoneWork ==
    ASSUME NEW w \in [Work -> Nat], NEW kind \in Work, w[kind] > 0
    PROVE  /\ done(w, kind) \in [Work -> Nat]
           /\ done(w, kind)[kind] = w[kind] - 1
           /\ \A other \in Work \ {kind} : done(w, kind)[other] = w[other]
  <1>1. w[kind] - 1 \in Nat
    OBVIOUS
  <1> QED
    BY <1>1 DEF done

LEMMA CancelWork ==
    ASSUME NEW w \in [Work -> Nat], NEW from \in Work, NEW to \in Work, from # to
    PROVE  /\ cancel(w, from, to) \in [Work -> Nat]
           /\ cancel(w, from, to)[from] = 0
           /\ \A other \in Work \ {from, to} : cancel(w, from, to)[other] = w[other]
           /\ cancel(w, from, to)[to] = w[to] + w[from]
  BY DEF cancel

LEMMA ScheduleWork ==
    ASSUME NEW w \in [Work -> Nat]
    PROVE  /\ scheduleTick(w) \in [Work -> Nat]
           /\ scheduleTick(w)["tick"] = 1
           /\ \A other \in Work \ {"tick", "tickCancelled"} :
                scheduleTick(w)[other] = w[other]
  <1> DEFINE cancelled == cancel(w, "tick", "tickCancelled")
  <1>1. "tick" \in Work /\ "tickCancelled" \in Work
    BY DEF Work
  <1>2. /\ cancelled \in [Work -> Nat]
        /\ cancelled["tick"] = 0
        /\ \A other \in Work \ {"tick", "tickCancelled"} : cancelled[other] = w[other]
    BY <1>1, CancelWork
  <1>3. scheduleTick(w) = add(cancelled, "tick")
    BY DEF scheduleTick
  <1> HIDE DEF cancelled
  <1> QED
    BY <1>1, <1>2, <1>3, AddWork
-----------------------------------------------------------------------------
(* Steps *)

\* A step of the UI thread changes nothing else of the server.
LEMMA UiStep ==
    ASSUME server \in Server, NEW from \in Step, NEW to \in Step, uiStep(from, to)
    PROVE  /\ server' \in Server
           /\ server.uiThread = from /\ server'.uiThread = to
           /\ server'.state = server.state /\ server'.starts = server.starts
           /\ server'.refused = server.refused /\ server'.drained = server.drained
  BY Zenon DEF uiStep, Server

\* A handler or an operation finds a thread in run and stops the context only by
\* leaving no work.
LEMMA Seeing ==
    ASSUME NEW kind \in Work, NEW rest, sees(kind, rest)
    PROVE  /\ ~stopped /\ UNCHANGED <<server, threads>>
           /\ work[kind] > 0 /\ threads.running > 0
           /\ work' = rest /\ stopped' = none(rest)
  BY DEF sees

\* Where the chain of accepts goes on, there is work.
LEMMA ChainIsWork ==
    ASSUME NEW w \in [Work -> Nat], none(w)
    PROVE  w["accept"] + w["connected"] + w["acceptFailed"] + w["admitting"] = 0
  BY DEF none, Work

\* Work that becomes work of another kind.
LEMMA BecomesWork ==
    ASSUME NEW w \in [Work -> Nat], NEW from \in Work, NEW to \in Work,
           from # to, w[from] > 0
    PROVE  /\ becomes(w, from, to) \in [Work -> Nat]
           /\ becomes(w, from, to)[from] = w[from] - 1
           /\ becomes(w, from, to)[to] = w[to] + 1
           /\ \A other \in Work \ {from, to} : becomes(w, from, to)[other] = w[other]
  <1> DEFINE left == done(w, from)
  <1>1. /\ left \in [Work -> Nat]
        /\ left[from] = w[from] - 1
        /\ \A other \in Work \ {from} : left[other] = w[other]
    BY DoneWork
  <1>2. becomes(w, from, to) = add(left, to)
    BY DEF becomes
  <1> HIDE DEF left
  <1> QED
    BY <1>1, <1>2, AddWork

\* What a step of the threads keeps: the invariant holds after every one that
\* leaves the state of the managers, the stop on its way and the two chains.
LEMMA ThreadStep ==
    ASSUME IInv, ~stopped, UNCHANGED <<server, threads, manager>>,
           work' \in [Work -> Nat], stopped' = none(work'),
           work'["doStop"] = work["doStop"],
           work["tick"] + work["tickDue"] > 0 /\ manager["game"] = "RUNNING" =>
              work'["tick"] + work'["tickDue"] > 0,
           work["accept"] + work["connected"] + work["acceptFailed"]
              + work["admitting"] > 0 /\ manager["session"] = "RUNNING" =>
              work'["accept"] + work'["connected"] + work'["acceptFailed"]
                + work'["admitting"] > 0,
           threads.running > 0
    PROVE  IInv'
  <1>1. TypeOK'
    BY DEF IInv, TypeOK, none
  <1>2. StateOfStep' /\ ManagersFollow'
    BY DEF IInv, StateOfStep, ManagersFollow, Accepting
  <1>3. StopIsOnItsWay'
    BY DEF IInv, StopIsOnItsWay
  <1>4. TickChain'
    BY DEF IInv, TickChain, GameStarted
  <1>5. AcceptChain'
    BY DEF IInv, AcceptChain, ManagersFollow, Accepting
  <1>6. FirstStart'
    BY DEF IInv, FirstStart, NothingYet, GameStarted
  <1>7. ThreadsStay'
    BY <1>5, ChainIsWork DEF IInv, ThreadsStay, AcceptChain, Accepting
  <1> QED
    BY <1>1, <1>2, <1>3, <1>4, <1>5, <1>6, <1>7 DEF IInv
-----------------------------------------------------------------------------
(* The invariant *)

LEMMA InitInvariant == Init => IInv
  <1> SUFFICES ASSUME Init PROVE IInv
    OBVIOUS
  <1>1. TypeOK
    <2>1. work \in [Work -> Nat] /\ manager \in [Manager -> LifecycleState]
      BY DEF Init, LifecycleState
    <2>2. server.starts \in 0 .. MaxStarts
      BY BoundsAssumption DEF Init
    <2> QED
      BY <2>1, <2>2, Zenon DEF Init, TypeOK, Server, Step, LifecycleState
  <1>2. /\ \A kind \in Work : work[kind] = 0
        /\ \A m \in Manager : manager[m] = "STOPPED"
    BY DEF Init
  <1> QED
    BY <1>1, <1>2
       DEF Init, IInv, StateOfStep, ManagersFollow, StopIsOnItsWay, TickChain,
           AcceptChain, FirstStart, NothingYet, ThreadsStay, GameStarted, Accepting,
           Manager, Work

LEMMA StepInvariant == IInv /\ [Next]_vars => IInv'
  <1> SUFFICES ASSUME IInv, [Next]_vars PROVE IInv'
    OBVIOUS
  <1>0. /\ TypeOK /\ server \in Server /\ work \in [Work -> Nat]
        /\ manager \in [Manager -> LifecycleState]
        /\ threads \in [new : Nat, running : Nat] /\ stopped \in BOOLEAN
    BY DEF IInv, TypeOK
  <1>1. CASE StartServer
    <2>1. /\ server' \in Server
          /\ server.uiThread = "idle" /\ server.state = "STOPPED"
          /\ server'.state = "STARTING" /\ server'.uiThread = "startGame"
          /\ server'.starts = server.starts + 1
      <3>1. server.starts + 1 \in 0 .. MaxStarts
        BY <1>0, <1>1, BoundsAssumption DEF StartServer, Server
      <3> QED
        BY <1>0, <1>1, <3>1, Zenon DEF StartServer, Server, Step, LifecycleState
    <2>2. /\ manager' = [manager EXCEPT !["login"] = "RUNNING"]
          /\ UNCHANGED <<work, stopped, threads>>
      BY <1>1, <2>1 DEF StartServer, moves, IInv, ManagersFollow
    <2>3. TypeOK'
      BY <1>0, <2>1, <2>2 DEF TypeOK, LifecycleState
    <2> QED
      BY <1>0, <2>1, <2>2, <2>3 DEF Server, IInv, StateOfStep, ManagersFollow, StopIsOnItsWay, TickChain, AcceptChain, FirstStart, NothingYet, ThreadsStay, GameStarted, Accepting, Manager, Work
  <1>2. CASE StartGame
    <2> DEFINE refused == manager["game"] # "STOPPED"
    <2>1. /\ server' \in Server
          /\ server.uiThread = "startGame" /\ server'.uiThread = "startSession"
          /\ server'.state = server.state /\ server'.starts = server.starts
          /\ server'.refused = refused
      BY <1>0, <1>2, Zenon DEF StartGame, Server, Step
    <2>2. UNCHANGED <<stopped, threads>>
      BY <1>2 DEF StartGame
    <2>3. CASE refused
      <3>1. manager' = manager /\ work' = work
        BY <1>2, <2>3 DEF StartGame, moves
      <3> QED
        BY <1>0, <2>1, <2>2, <2>3, <3>1 DEF TypeOK, IInv, StateOfStep, ManagersFollow, StopIsOnItsWay, TickChain, AcceptChain, FirstStart, NothingYet, ThreadsStay, GameStarted, Accepting, Manager, Work
    <2>4. CASE ~refused
      <3>1. /\ manager' = [manager EXCEPT !["game"] = "RUNNING"]
            /\ work' = scheduleTick(work)
        BY <1>2, <2>4 DEF StartGame, moves
      <3>2. /\ work' \in [Work -> Nat]
            /\ work'["tick"] = 1
            /\ \A other \in Work \ {"tick", "tickCancelled"} : work'[other] = work[other]
        BY <1>0, <3>1, ScheduleWork
      <3>3. TypeOK'
        BY <1>0, <2>1, <2>2, <3>1, <3>2 DEF TypeOK, LifecycleState
      <3> QED
        BY <1>0, <2>1, <2>2, <2>4, <3>1, <3>2, <3>3 DEF IInv, StateOfStep, ManagersFollow, StopIsOnItsWay, TickChain, AcceptChain, FirstStart, NothingYet, ThreadsStay, GameStarted, Accepting, Manager, Work
    <2> QED
      BY <2>3, <2>4
  <1>3. CASE StartSession
    <2>1. /\ server' \in Server
          /\ server.uiThread = "startSession" /\ server'.uiThread = "startAccept"
          /\ server'.state = server.state /\ server'.starts = server.starts
          /\ server'.refused = server.refused /\ server'.drained = server.drained
      BY <1>0, <1>3, UiStep DEF StartSession, Step
    <2>2. /\ manager' = [manager EXCEPT !["session"] = "RUNNING"]
          /\ UNCHANGED <<work, stopped, threads>>
      BY <1>3, <2>1 DEF StartSession, moves, IInv, ManagersFollow
    <2>3. manager' \in [Manager -> LifecycleState]
      BY <1>0, <2>2 DEF LifecycleState
    <2> QED
      BY <1>0, <2>1, <2>2, <2>3 DEF TypeOK, IInv, StateOfStep, ManagersFollow, StopIsOnItsWay, TickChain, AcceptChain, FirstStart, NothingYet, ThreadsStay, GameStarted, Accepting, Manager, Work
  <1>4. CASE StartAccept
    <2>1. /\ server' \in Server
          /\ server.uiThread = "startAccept" /\ server'.uiThread = "spawn"
          /\ server'.state = server.state /\ server'.starts = server.starts
          /\ server'.refused = server.refused /\ server'.drained = server.drained
      BY <1>0, <1>4, UiStep DEF StartAccept, Step
    <2>2. /\ work' = add(work, "accept")
          /\ UNCHANGED <<manager, stopped, threads>>
      BY <1>4 DEF StartAccept
    <2>3. /\ work' \in [Work -> Nat]
          /\ work'["accept"] = work["accept"] + 1
          /\ work'["doStop"] = work["doStop"]
          /\ work'["tick"] = work["tick"] /\ work'["tickDue"] = work["tickDue"]
      <3>1. {"accept", "doStop", "tick", "tickDue"} \subseteq Work
        BY DEF Work
      <3>2. /\ add(work, "accept") \in [Work -> Nat]
            /\ add(work, "accept")["accept"] = work["accept"] + 1
            /\ \A other \in Work \ {"accept"} : add(work, "accept")[other] = work[other]
        BY <1>0, <3>1, AddWork
      <3> QED
        BY <2>2, <3>1, <3>2
    <2> QED
      BY <1>0, <2>1, <2>2, <2>3 DEF TypeOK, IInv, StateOfStep, ManagersFollow, StopIsOnItsWay, TickChain, AcceptChain, FirstStart, NothingYet, ThreadsStay, GameStarted, Accepting, Manager, Work
  <1>5. CASE SpawnThreads
    <2>1. /\ server' \in Server
          /\ server.uiThread = "spawn" /\ server'.uiThread = "idle"
          /\ server'.state = "RUNNING" /\ server'.starts = server.starts
          /\ server'.refused = server.refused /\ server'.drained = stopped
      BY <1>0, <1>5, Zenon DEF SpawnThreads, Server, Step, LifecycleState
    <2>2. /\ threads' \in [new : Nat, running : Nat]
          /\ threads'.new + threads'.running > 0
          /\ UNCHANGED <<manager, work, stopped>>
      BY <1>0, <1>5, BoundsAssumption DEF SpawnThreads
    <2> QED
      BY <1>0, <2>1, <2>2 DEF TypeOK, IInv, StateOfStep, ManagersFollow, StopIsOnItsWay, TickChain, AcceptChain, FirstStart, NothingYet, ThreadsStay, GameStarted, Accepting, Manager, Work
  <1>6. CASE StopServer
    <2>1. /\ server' \in Server
          /\ server.uiThread = "idle" /\ server.state = "RUNNING"
          /\ server'.state = "STOPPING" /\ server'.uiThread = "closeAcceptor"
          /\ server'.starts = server.starts
      BY <1>0, <1>6, Zenon DEF StopServer, Server, Step, LifecycleState
    <2>2. /\ manager' = [manager EXCEPT !["session"] = "STOPPING"]
          /\ UNCHANGED <<work, stopped, threads>>
      BY <1>6, <2>1 DEF StopServer, moves, IInv, ManagersFollow, Accepting
    <2>3. manager' \in [Manager -> LifecycleState]
      BY <1>0, <2>2 DEF LifecycleState
    <2> QED
      BY <1>0, <2>1, <2>2, <2>3 DEF TypeOK, IInv, StateOfStep, ManagersFollow, StopIsOnItsWay, TickChain, AcceptChain, FirstStart, NothingYet, ThreadsStay, GameStarted, Accepting, Manager, Work
  <1>7. CASE CloseAcceptor
    <2>1. /\ server' \in Server
          /\ server.uiThread = "closeAcceptor" /\ server'.uiThread = "removeSessions"
          /\ server'.state = server.state /\ server'.starts = server.starts
          /\ server'.refused = server.refused /\ server'.drained = server.drained
      BY <1>0, <1>7, UiStep DEF CloseAcceptor, Step
    <2>2. /\ work' = cancel(work, "accept", "acceptFailed")
          /\ UNCHANGED <<manager, stopped, threads>>
      BY <1>7 DEF CloseAcceptor
    <2>3. /\ work' \in [Work -> Nat]
          /\ work'["doStop"] = work["doStop"]
      BY <1>0, <2>2, CancelWork DEF Work
    <2> QED
      BY <1>0, <2>1, <2>2, <2>3 DEF TypeOK, IInv, StateOfStep, ManagersFollow, StopIsOnItsWay, TickChain, AcceptChain, FirstStart, NothingYet, ThreadsStay, GameStarted, Accepting, Manager, Work
  <1>8. CASE RemoveSessions
    <2>1. /\ server' \in Server
          /\ server.uiThread = "removeSessions" /\ server'.uiThread = "stopGame"
          /\ server'.state = server.state /\ server'.starts = server.starts
          /\ server'.refused = server.refused /\ server'.drained = server.drained
      BY <1>0, <1>8, UiStep DEF RemoveSessions, Step
    <2>2. /\ work' = cancel(work, "session", "sessionEnd")
          /\ manager' = [manager EXCEPT !["session"] = "STOPPED"]
          /\ UNCHANGED <<stopped, threads>>
      BY <1>8, <2>1 DEF RemoveSessions, moves, IInv, ManagersFollow
    <2>3. /\ work' \in [Work -> Nat]
          /\ work'["doStop"] = work["doStop"]
      BY <1>0, <2>2, CancelWork DEF Work
    <2>4. manager' \in [Manager -> LifecycleState]
      BY <1>0, <2>2 DEF LifecycleState
    <2> QED
      BY <1>0, <2>1, <2>2, <2>3, <2>4 DEF TypeOK, IInv, StateOfStep, ManagersFollow, StopIsOnItsWay, TickChain, AcceptChain, FirstStart, NothingYet, ThreadsStay, GameStarted, Accepting, Manager, Work
  <1>9. CASE StopGame
    <2> DEFINE posts == manager["game"] = "RUNNING"
    <2>1. /\ server' \in Server
          /\ server.uiThread = "stopGame" /\ server'.uiThread = "idle"
          /\ server'.state = "STOPPED" /\ server'.starts = server.starts
      BY <1>0, <1>9, Zenon DEF StopGame, Server, Step, LifecycleState
    <2>2. /\ manager' \in [Manager -> LifecycleState]
          /\ manager'["login"] = "STOPPED" /\ manager'["session"] = manager["session"]
          /\ manager'["game"] = IF posts THEN "STOPPING" ELSE manager["game"]
          /\ UNCHANGED <<stopped, threads>>
      BY <1>0, <1>9 DEF StopGame, Manager, LifecycleState
    <2>3. /\ work' \in [Work -> Nat]
          /\ posts => work'["doStop"] = work["doStop"] + 1
          /\ ~posts => work' = work
      <3>1. work' = IF posts THEN add(work, "doStop") ELSE work
        BY <1>9 DEF StopGame
      <3> QED
        BY <1>0, <3>1, AddWork DEF Work
    <2> QED
      BY <1>0, <2>1, <2>2, <2>3 DEF TypeOK, IInv, StateOfStep, ManagersFollow, StopIsOnItsWay, TickChain, AcceptChain, FirstStart, NothingYet, ThreadsStay, GameStarted, Accepting, Manager, Work
  <1>10. CASE EnterRun
    <2>1. /\ threads' \in [new : Nat, running : Nat]
          /\ ~stopped' => threads'.new + threads'.running = threads.new + threads.running
          /\ threads.new > 0
      BY <1>0, <1>10 DEF EnterRun
    <2>2. /\ stopped' = (stopped \/ none(work))
          /\ UNCHANGED <<server, manager, work>>
      BY <1>10 DEF EnterRun
    <2>3. AcceptChain /\ Accepting => ~none(work)
      BY <1>0, ChainIsWork DEF AcceptChain
    <2> QED
      BY <1>0, <2>1, <2>2, <2>3 DEF TypeOK, none, IInv, StateOfStep, ManagersFollow, StopIsOnItsWay, TickChain, AcceptChain, FirstStart, NothingYet, ThreadsStay, GameStarted, Accepting, Manager, Work
  <1>11. CASE ReturnFromRun
    <2>1. /\ threads' \in [new : Nat, running : Nat]
          /\ threads.running > 0 /\ stopped
          /\ UNCHANGED <<server, manager, work, stopped>>
      BY <1>0, <1>11 DEF ReturnFromRun
    <2> QED
      BY <1>0, <2>1 DEF TypeOK, IInv, StateOfStep, ManagersFollow, StopIsOnItsWay, TickChain, AcceptChain, FirstStart, NothingYet, ThreadsStay, GameStarted, Accepting, Manager, Work
  <1>12. ASSUME NEW from \in {"accept", "session", "tick"}, NEW to \in Work,
               from = "accept" => to \in {"connected", "acceptFailed"},
               from = "session" => to = "sessionEnd",
               from = "tick" => to = "tickDue",
               Complete(from, to)
         PROVE  IInv'
    <2>1. /\ from \in Work /\ from # to
          /\ sees(from, becomes(work, from, to)) /\ UNCHANGED manager
      BY <1>12 DEF Complete, Work
    <2>2. /\ ~stopped /\ UNCHANGED <<server, threads>>
          /\ work[from] > 0 /\ threads.running > 0
          /\ work' = becomes(work, from, to) /\ stopped' = none(work')
      BY <2>1, Seeing
    <2>3. /\ work' \in [Work -> Nat]
          /\ work'[from] = work[from] - 1 /\ work'[to] = work[to] + 1
          /\ \A other \in Work \ {from, to} : work'[other] = work[other]
      BY <1>0, <2>1, <2>2, BecomesWork
    <2>4. /\ work'["doStop"] = work["doStop"]
          /\ work'["tick"] + work'["tickDue"] = work["tick"] + work["tickDue"]
          /\ work'["accept"] + work'["connected"] + work'["acceptFailed"]
               + work'["admitting"]
             = work["accept"] + work["connected"] + work["acceptFailed"]
               + work["admitting"]
      BY <1>0, <1>12, <2>3 DEF Work
    <2> QED
      BY <2>1, <2>2, <2>3, <2>4, ThreadStep
  <1>13. CASE AcceptCompletes \/ SessionEnds \/ TickExpires
    BY <1>12, <1>13 DEF AcceptCompletes, SessionEnds, TickExpires, Work
  <1>14. CASE HandleAccept
    <2>1. /\ ~stopped /\ UNCHANGED <<server, threads, manager>>
          /\ work["connected"] > 0 /\ threads.running > 0
          /\ work' = IF Running("session") THEN becomes(work, "connected", "admitting")
                     ELSE done(work, "connected")
          /\ stopped' = none(work')
      BY <1>14, Seeing DEF HandleAccept, Work
    <2>2. /\ work' \in [Work -> Nat]
          /\ \A other \in Work \ {"connected", "admitting"} : work'[other] = work[other]
          /\ manager["session"] = "RUNNING" => work'["admitting"] = work["admitting"] + 1
      BY <1>0, <2>1, BecomesWork, DoneWork DEF Work, Running
    <2>3. /\ work'["doStop"] = work["doStop"]
          /\ work'["tick"] = work["tick"] /\ work'["tickDue"] = work["tickDue"]
          /\ manager["session"] = "RUNNING" =>
               work'["accept"] + work'["connected"] + work'["acceptFailed"] + work'["admitting"] > 0
      BY <1>0, <2>2 DEF Work
    <2> QED
      BY <2>1, <2>2, <2>3, ThreadStep
  <1>15. CASE Admit
    <2> DEFINE rest == becomes(work, "admitting", "session")
    <2>1. /\ ~stopped /\ UNCHANGED <<server, threads, manager>>
          /\ work["admitting"] > 0 /\ threads.running > 0
          /\ work' = acceptAgain(rest)
          /\ stopped' = none(work')
      BY <1>15, Seeing DEF Admit, Work
    <2>2. /\ rest \in [Work -> Nat]
          /\ \A other \in Work \ {"admitting", "session"} : rest[other] = work[other]
      BY <1>0, <2>1, BecomesWork DEF Work
    <2> HIDE DEF rest
    <2>3. /\ work' \in [Work -> Nat]
          /\ manager["session"] = "RUNNING" => work'["accept"] = rest["accept"] + 1
          /\ \A other \in Work \ {"accept"} : work'[other] = rest[other]
      BY <2>1, <2>2, AddWork DEF acceptAgain, Running, Work
    <2>4. /\ work'["doStop"] = work["doStop"]
          /\ work'["tick"] = work["tick"] /\ work'["tickDue"] = work["tickDue"]
          /\ manager["session"] = "RUNNING" =>
               work'["accept"] + work'["connected"] + work'["acceptFailed"] + work'["admitting"] > 0
      BY <1>0, <2>2, <2>3 DEF Work
    <2> QED
      BY <2>1, <2>3, <2>4, ThreadStep
  <1>16. CASE HandleFailedAccept
    <2> DEFINE rest == done(work, "acceptFailed")
    <2>1. /\ ~stopped /\ UNCHANGED <<server, threads, manager>>
          /\ work["acceptFailed"] > 0 /\ threads.running > 0
          /\ work' = acceptAgain(rest)
          /\ stopped' = none(work')
      BY <1>16, Seeing DEF HandleFailedAccept, Work
    <2>2. /\ rest \in [Work -> Nat]
          /\ \A other \in Work \ {"acceptFailed"} : rest[other] = work[other]
      BY <1>0, <2>1, DoneWork DEF Work
    <2> HIDE DEF rest
    <2>3. /\ work' \in [Work -> Nat]
          /\ manager["session"] = "RUNNING" => work'["accept"] = rest["accept"] + 1
          /\ \A other \in Work \ {"accept"} : work'[other] = rest[other]
      BY <2>1, <2>2, AddWork DEF acceptAgain, Running, Work
    <2>4. /\ work'["doStop"] = work["doStop"]
          /\ work'["tick"] = work["tick"] /\ work'["tickDue"] = work["tickDue"]
          /\ manager["session"] = "RUNNING" =>
               work'["accept"] + work'["connected"] + work'["acceptFailed"] + work'["admitting"] > 0
      BY <1>0, <2>2, <2>3 DEF Work
    <2> QED
      BY <2>1, <2>3, <2>4, ThreadStep
  <1>17. CASE OnTick
    <2> DEFINE rest == done(work, "tickDue")
    <2>1. /\ ~stopped /\ UNCHANGED <<server, threads, manager>>
          /\ work["tickDue"] > 0 /\ threads.running > 0
          /\ work' = IF manager["game"] = "RUNNING" THEN scheduleTick(rest) ELSE rest
          /\ stopped' = none(work')
      BY <1>17, Seeing DEF OnTick, Running, Work
    <2>2. /\ rest \in [Work -> Nat]
          /\ \A other \in Work \ {"tickDue"} : rest[other] = work[other]
      BY <1>0, <2>1, DoneWork DEF Work
    <2> HIDE DEF rest
    <2>3. /\ work' \in [Work -> Nat]
          /\ manager["game"] = "RUNNING" => work'["tick"] = 1
          /\ \A other \in Work \ {"tick", "tickDue", "tickCancelled"} :
               work'[other] = work[other]
      BY <2>1, <2>2, ScheduleWork DEF Work
    <2>4. /\ work'["doStop"] = work["doStop"]
          /\ manager["game"] = "RUNNING" => work'["tick"] + work'["tickDue"] > 0
          /\ work'["accept"] = work["accept"] /\ work'["connected"] = work["connected"]
          /\ work'["acceptFailed"] = work["acceptFailed"]
          /\ work'["admitting"] = work["admitting"]
      BY <2>3 DEF Work
    <2> QED
      BY <2>1, <2>3, <2>4, ThreadStep
  <1>18. CASE Finish
    <2>1. PICK kind \in {"sessionEnd", "tickCancelled"} : sees(kind, done(work, kind))
      BY <1>18 DEF Finish
    <2>2. /\ ~stopped /\ UNCHANGED <<server, threads, manager>>
          /\ work[kind] > 0 /\ threads.running > 0
          /\ work' = done(work, kind) /\ stopped' = none(work')
      BY <1>18, <2>1, Seeing DEF Finish, Work
    <2>3. /\ work' \in [Work -> Nat]
          /\ \A other \in Work \ {"sessionEnd", "tickCancelled"} : work'[other] = work[other]
      BY <1>0, <2>2, DoneWork DEF Work
    <2>4. \A other \in {"doStop", "tick", "tickDue", "accept", "connected", "acceptFailed",
                        "admitting"} : work'[other] = work[other]
      BY <2>3 DEF Work
    <2> QED
      BY <2>2, <2>3, <2>4, ThreadStep
  <1>19. CASE DoStop
    <2> DEFINE rest == done(work, "doStop")
    <2>1. /\ ~stopped /\ UNCHANGED <<server, threads>>
          /\ work["doStop"] > 0 /\ threads.running > 0
          /\ work' = cancel(rest, "tick", "tickCancelled")
          /\ stopped' = none(work')
          /\ manager' = [manager EXCEPT !["game"] = "STOPPED"]
      BY <1>19, Seeing DEF DoStop, Work
    <2>2. manager["game"] = "STOPPING" /\ work["doStop"] = 1
      BY <2>1 DEF IInv, StopIsOnItsWay
    <2>3. /\ rest \in [Work -> Nat] /\ rest["doStop"] = 0
          /\ \A other \in Work \ {"doStop"} : rest[other] = work[other]
      BY <1>0, <2>1, <2>2, DoneWork DEF Work
    <2> HIDE DEF rest
    <2>4. /\ work' \in [Work -> Nat] /\ work'["doStop"] = 0
          /\ \A other \in {"accept", "connected", "acceptFailed", "admitting"} :
               work'[other] = work[other]
      BY <2>1, <2>3, CancelWork DEF Work
    <2>5. manager' \in [Manager -> LifecycleState] /\ stopped' \in BOOLEAN
      BY <1>0, <2>1 DEF LifecycleState, none
    <2>6. Accepting /\ AcceptChain => ~stopped'
      BY <2>1, <2>4, ChainIsWork DEF AcceptChain
    <2> QED
      BY <1>0, <2>1, <2>2, <2>4, <2>5, <2>6 DEF TypeOK, IInv, StateOfStep, ManagersFollow, StopIsOnItsWay, TickChain, AcceptChain, FirstStart, NothingYet, ThreadsStay, GameStarted, Accepting, Manager, Work
  <1>20. CASE UNCHANGED vars
    BY <1>20 DEF vars, TypeOK, none, IInv, StateOfStep, ManagersFollow, StopIsOnItsWay, TickChain, AcceptChain, FirstStart, NothingYet, ThreadsStay, GameStarted, Accepting, Manager, Work
  <1> QED
    BY <1>1, <1>2, <1>3, <1>4, <1>5, <1>6, <1>7, <1>8, <1>9, <1>10, <1>11, <1>13, <1>14, <1>15, <1>16, <1>17, <1>18, <1>19, <1>20 DEF Next

THEOREM Invariant == Spec => []IInv
  BY InitInvariant, StepInvariant, PTL DEF Spec

\* The state is always of its type, for any number of threads and starts.
THEOREM TypeCorrect == Spec => []TypeOK
  <1>1. IInv => TypeOK
    BY DEF IInv
  <1> QED
    BY <1>1, Invariant, PTL

\* A running server serves, except after the two kinds of restart.
THEOREM RunningServers == Spec => []RunningServersServe
  <1>1. IInv => RunningServersServe
    <2> SUFFICES ASSUME IInv, server.state = "RUNNING",
                        ~(server.starts > 1 /\ (server.refused \/ server.drained))
                 PROVE  Serving
      BY DEF RunningServersServe
    <2>1. server.uiThread = "idle" /\ server.starts # 0
      BY DEF IInv, TypeOK, Server, Step, StateOfStep, FirstStart
    <2>2. ~server.refused /\ ~server.drained
      BY <2>1 DEF IInv, TypeOK, Server, FirstStart, GameStarted
    <2> QED
      BY <2>1, <2>2
         DEF IInv, ManagersFollow, TickChain, AcceptChain, ThreadsStay, GameStarted,
             Accepting, Serving, Running, Manager
  <1> QED
    BY <1>1, Invariant, PTL
=============================================================================
