---------------------------- MODULE ClientPanel ----------------------------
(***************************************************************************)
(* The client's user interface (ClientPanel.cpp, its screens and modals)   *)
(* over the client's state machine (GameClient.cpp) and the local game,    *)
(* of which only the state matters here (module SingleplayerClient).       *)
(*                                                                         *)
(* Two threads: the UI thread takes one task or one input of the user at a *)
(* time, and the tick thread posts a "tick" task every interval while a    *)
(* rate is set. A change of the client's state is posted to the UI thread  *)
(* as well and shown when its turn comes; until then the screen shown is   *)
(* that of an earlier state and its buttons work. Inputs come at any time. *)
(*                                                                         *)
(* The state of the UI thread is one record, so that a call that calls     *)
(* back (pushModal, popModal, setScreen) is a function of it.              *)
(***************************************************************************)
EXTENDS Naturals, SequencesExt

CONSTANTS
    MaxTasks,     \* bound: tasks that wait for the UI thread
    MaxEvents     \* bound: events in the client's queue

ASSUME BoundsAssumption == {MaxTasks, MaxEvents} \subseteq Nat \ {0}

isSingleplayerState(state) ==
    state \in {"SingleplayerSetup", "SingleplayerInGame", "SingleplayerResult"}

screenForState(state) ==
    CASE state = "Idle" -> "MainMenu"
      [] state = "SingleplayerSetup" -> "Singleplayer_Setup"
      [] state = "SingleplayerInGame" -> "Singleplayer_Game"
      [] state = "SingleplayerResult" -> "Singleplayer_Result"
      [] state = "MultiplayerSetup" -> "Multiplayer_Select"

\* What became of a move: only one that mates ends the game at once.
MoveOutcome == {"refused", "accepted", "mates"}

VARIABLES
    ui,       \* what the UI thread owns, see initialUi
    thread,   \* where the tick thread is in tickLoop
    running,  \* m_tickRunning
    dtor      \* how far the panel's destructor has come

vars == <<ui, thread, running, dtor>>

-----------------------------------------------------------------------------
(* Modals and the screens' callbacks *)

setTickRate(u, rate) == [u EXCEPT !.rate = rate, !.woken = TRUE]

transitionTo(u, state) ==
    IF u.client = state THEN u
    ELSE [u EXCEPT !.client = state, !.tasks = Append(@, "statechange")]

\* SingleplayerGameScreen pauses the game. When the client is not in a game any
\* more that is an error, handleStatus shows an error in a modal, pushModal finds
\* no modal yet and pauses the screen again, and so on until the stack overflows.
onPause(u) ==
    IF u.screen # "Singleplayer_Game" THEN u
    ELSE IF u.client # "SingleplayerInGame" THEN [u EXCEPT !.crashed = TRUE]
    ELSE setTickRate([u EXCEPT !.sp = IF @ = "INGAME" THEN "PAUSED" ELSE @], FALSE)

pushModal(u, modal) ==
    LET paused == IF u.modals = <<>> THEN onPause(u) ELSE u
    IN  [paused EXCEPT !.modals = Append(@, modal)]

\* An error is shown in a modal, a warning is only logged.
handleStatus(u, status) ==
    IF status = "Error" THEN pushModal(u, "Error") ELSE u

\* A command of GameClient: an error in the wrong state, a warning when the
\* local game is not in the state for it, and its effect otherwise.
command(u, inState, possible, after) ==
    IF ~inState THEN handleStatus(u, "Error")
    ELSE IF ~possible THEN handleStatus(u, "Warning")
    ELSE after

returnToIdle(u) ==
    transitionTo([u EXCEPT !.sp = IF isSingleplayerState(u.client) THEN "IDLE" ELSE @,
                           !.leftover = u.events > 0], "Idle")

promptForUsernameIfMissing(u) ==
    IF u.username THEN u ELSE pushModal(u, "Settings")

\* Mutant: the ticks are not started again.
resumeWithoutTicks(u) ==
    IF u.screen = "Singleplayer_Game"
    THEN command(u, u.client = "SingleplayerInGame", u.sp = "PAUSED",
                 [u EXCEPT !.sp = "INGAME"])
    ELSE IF u.screen = "MainMenu" THEN promptForUsernameIfMissing(u) ELSE u

onResume(u) ==
    IF u.screen = "Singleplayer_Game"
    THEN LET ticked == setTickRate(u, TRUE)
         IN  command(ticked, u.client = "SingleplayerInGame", u.sp = "PAUSED",
                     [ticked EXCEPT !.sp = "INGAME"])
    ELSE IF u.screen = "MainMenu" THEN promptForUsernameIfMissing(u) ELSE u

popModal(u) ==
    LET popped == [u EXCEPT !.modals = Front(@)]
    IN  IF u.modals = <<>> THEN u
        ELSE IF popped.modals = <<>> THEN onResume(popped) ELSE popped

popAllModals(u) ==
    IF u.modals = <<>> THEN u ELSE onResume([u EXCEPT !.modals = <<>>])

onLeave(u) ==
    IF u.screen \in {"Singleplayer_Game", "Multiplayer_Select"}
    THEN setTickRate(u, FALSE) ELSE u

\* SingleplayerResultScreen gives up a result that is not there.
onEnter(u) ==
    CASE u.screen \in {"Singleplayer_Game", "Multiplayer_Select"} ->
            setTickRate(u, TRUE)
      [] u.screen = "MainMenu" -> promptForUsernameIfMissing(u)
      [] u.screen = "Singleplayer_Result" ->
            IF u.sp = "RESULT" THEN u ELSE returnToIdle(u)
      [] u.screen = "Singleplayer_Setup" -> u

setScreen(u, screen) ==
    IF screen = u.screen THEN u
    ELSE onEnter([onLeave(u) EXCEPT !.screen = screen])

-----------------------------------------------------------------------------
(* Tasks of the UI thread *)

\* Mutant: the end of a game is recorded without an event.
recordSilently(u) == [u EXCEPT !.sp = "RESULT"]

recordFinishedGame(u) == [u EXCEPT !.sp = "RESULT", !.events = @ + 1]

\* GameClient::tick: the local game first, then every event in the queue.
tickClient(u, over) ==
    LET ticked == IF over /\ isSingleplayerState(u.client) /\ u.sp = "INGAME"
                  THEN recordFinishedGame(u) ELSE u
    IN  IF ticked.events = 0 THEN ticked
        ELSE transitionTo([ticked EXCEPT !.events = 0], "SingleplayerResult")

\* Mutant: the modal that covers the screen keeps the change from it.
screenUnlessCovered(u) ==
    IF u.modals = <<>> THEN setScreen(u, screenForState(u.client)) ELSE u

handleClientStateChanged(u) == setScreen(u, screenForState(u.client))

\* The UI thread waits for m_tickMutex, which the tick thread holds while it
\* looks at the rate and until it sleeps.
canRun == ~ui.crashed /\ ~ui.quit /\ thread \notin {"looping", "blocking"}

RunTask ==
    /\ canRun
    /\ ui.tasks # <<>>
    /\ LET rest == [ui EXCEPT !.tasks = Tail(@)]
       IN  IF Head(ui.tasks) = "tick"
           THEN \E over \in BOOLEAN :
                  /\ over => ui.events < MaxEvents
                  /\ ui' = tickClient(rest, over)
           ELSE ui' = handleClientStateChanged(rest)
    /\ UNCHANGED <<thread, running, dtor>>

-----------------------------------------------------------------------------
(* The user *)

\* GameClient::submitSingleplayerMove
submitMove(u, outcome, promotes) ==
    LET played == [u EXCEPT !.promoted = @ \/ promotes]
    IN  command(u, u.client = "SingleplayerInGame",
                u.sp = "INGAME" /\ outcome # "refused",
                IF outcome = "mates" THEN recordFinishedGame(played) ELSE played)

startSingleplayer(u) ==
    command(u, u.client = "SingleplayerSetup", u.sp = "IDLE",
            transitionTo([u EXCEPT !.sp = "INGAME"], "SingleplayerInGame"))

\* Mutant: the new game is played in the state of the last one's result.
restartInPlace(u) ==
    command(u, u.client = "SingleplayerResult", u.sp = "RESULT",
            [u EXCEPT !.sp = "INGAME"])

restartSingleplayer(u) ==
    command(u, u.client = "SingleplayerResult", u.sp = "RESULT",
            transitionTo([u EXCEPT !.sp = "INGAME"], "SingleplayerInGame"))

\* enterSingleplayerSetup and enterMultiplayerSetup
leaveIdle(u, state) == command(u, u.client = "Idle", TRUE, transitionTo(u, state))

\* What a button of the screen does that is shown without a modal over it.
buttons(u) ==
    CASE u.screen = "MainMenu" ->
            {leaveIdle(u, "SingleplayerSetup"), leaveIdle(u, "MultiplayerSetup")}
      [] u.screen = "Singleplayer_Setup" -> {startSingleplayer(u)}
      [] u.screen = "Singleplayer_Game" ->
            {submitMove(u, outcome, FALSE) : outcome \in MoveOutcome}
              \cup {pushModal(u, "Promotion")}
      [] u.screen = "Singleplayer_Result" -> {restartSingleplayer(u)}
      [] u.screen = "Multiplayer_Select" -> {}

\* The exit button and Escape; the game asks first.
requestExit(u) ==
    CASE u.screen = "MainMenu" -> [u EXCEPT !.quit = TRUE]
      [] u.screen = "Singleplayer_Game" -> pushModal(u, "Confirm")
      [] OTHER -> returnToIdle(u)

\* Mutant: the modal goes before the move is made, and the game is resumed.
dismissThenMove(u, outcome) == submitMove(popModal(u), outcome, TRUE)

\* The piece is chosen, and only then the modal dismissed.
choosePiece(u, outcome) == popModal(submitMove(u, outcome, TRUE))

\* What a button of the modal on top does. Each has one that only closes it;
\* Confirm closes first and acts then.
modalButtons(u) ==
    {popModal(u)} \cup
      CASE Last(u.modals) = "Settings" -> {popModal([u EXCEPT !.username = TRUE])}
        [] Last(u.modals) = "Confirm" -> {returnToIdle(popModal(u))}
        [] Last(u.modals) = "Promotion" ->
              {choosePiece(u, outcome) : outcome \in MoveOutcome}
        [] Last(u.modals) = "Error" -> {}

\* A game that a click ends puts an event in the queue: the guards name the
\* bounds of what is followed.
UserActs ==
    /\ canRun
    /\ Len(ui.tasks) < MaxTasks
    /\ ui' \in IF ui.modals = <<>>
               THEN buttons(ui) \cup {requestExit(ui), pushModal(ui, "Settings")}
               ELSE modalButtons(ui)
    /\ ui'.events <= MaxEvents
    /\ UNCHANGED <<thread, running, dtor>>

\* FTXUI ends the loop on Ctrl-C, whatever is shown.
Interrupt ==
    /\ canRun
    /\ ui' = [ui EXCEPT !.quit = TRUE]
    /\ UNCHANGED <<thread, running, dtor>>

-----------------------------------------------------------------------------
(* The tick thread (ClientPanel::tickLoop) *)

\* The predicates of both waits, with the mutex held.
TestRate ==
    /\ thread = "looping"
    /\ thread' = IF ~running THEN "ended"
                 ELSE IF ui.rate THEN "sleeping" ELSE "blocking"
    /\ ui' = IF thread' = "sleeping" THEN [ui EXCEPT !.woken = FALSE] ELSE ui
    /\ UNCHANGED <<running, dtor>>

\* wait gives the mutex back and sleeps: a notification before that is lost.
Block ==
    /\ thread = "blocking"
    /\ thread' = "blocked"
    /\ ui' = [ui EXCEPT !.woken = FALSE]
    /\ UNCHANGED <<running, dtor>>

WakeUp ==
    /\ thread = "blocked"
    /\ ui.woken
    /\ thread' = "looping"
    /\ UNCHANGED <<ui, running, dtor>>

afterSleep ==
    IF ~running THEN "ended"
    ELSE IF ~ui.rate \/ ui.woken THEN "looping" ELSE "posting"

\* The interval is over or the wait is notified.
WakeFromSleep ==
    /\ thread = "sleeping"
    /\ thread' = afterSleep
    /\ UNCHANGED <<ui, running, dtor>>

\* Nobody takes what is posted after the loop has ended.
PostTick ==
    /\ thread = "posting"
    /\ Len(ui.tasks) < MaxTasks \/ ui.quit
    /\ ui' = IF ui.quit THEN ui ELSE [ui EXCEPT !.tasks = Append(@, "tick")]
    /\ thread' = "looping"
    /\ UNCHANGED <<running, dtor>>

-----------------------------------------------------------------------------
(* ClientPanel::~ClientPanel, on the UI thread once the loop has ended *)

\* Mutant: the flag stays set.
forgetRunning ==
    /\ ui.quit /\ dtor = "none"
    /\ dtor' = "cleared"
    /\ UNCHANGED <<ui, thread, running>>

\* The flag is cleared without the mutex.
ClearRunning ==
    /\ ui.quit /\ dtor = "none"
    /\ running' = FALSE
    /\ dtor' = "cleared"
    /\ UNCHANGED <<ui, thread>>

Notify ==
    /\ dtor = "cleared"
    /\ ui' = [ui EXCEPT !.woken = TRUE]
    /\ dtor' = "notified"
    /\ UNCHANGED <<thread, running>>

\* cleanupAfterLoop
Join ==
    /\ dtor = "notified"
    /\ thread = "ended"
    /\ ui' = onLeave(popAllModals(ui))
    /\ dtor' = "joined"
    /\ UNCHANGED <<thread, running>>

-----------------------------------------------------------------------------
\* username says whether the settings have one.
initialUi(username) ==
    [client |-> "Idle",        \* GameClient::m_state, a state of screenForState
     screen |-> "MainMenu",    \* m_selectedScreen
     modals |-> <<>>,          \* m_modalStack: "Settings", "Confirm", "Promotion", "Error"
     tasks |-> <<>>,           \* each a "tick" or a "statechange"
     events |-> 0,             \* SingleplayerGameEnd events in m_eventQueue
     sp |-> "IDLE",            \* the local game: then "INGAME", "PAUSED", "RESULT"
     username |-> username,
     rate |-> FALSE,           \* m_tickRate has a value
     woken |-> FALSE,          \* the condition has been notified
     quit |-> FALSE,
     crashed |-> FALSE,        \* the stack has overflowed
     leftover |-> FALSE,       \* history: an event has outlived its game
     promoted |-> FALSE]       \* history: a promotion has been played

Init ==
    /\ \E username \in BOOLEAN : ui = onEnter(initialUi(username))
    /\ thread = "looping"
    /\ running = TRUE
    /\ dtor = "none"

Next ==
    \/ RunTask
    \/ UserActs
    \/ Interrupt
    \/ TestRate
    \/ Block
    \/ WakeUp
    \/ WakeFromSleep
    \/ PostTick
    \/ ClearRunning
    \/ Notify
    \/ Join

\* Both threads run, a task is taken before the user stops acting, and time
\* passes. Nothing makes the user act.
Fairness ==
    /\ SF_vars(RunTask)
    /\ WF_vars(TestRate) /\ WF_vars(Block) /\ WF_vars(WakeUp)
    /\ WF_vars(WakeFromSleep) /\ SF_vars(PostTick)
    /\ WF_vars(ClearRunning) /\ WF_vars(Notify) /\ WF_vars(Join)

Spec == Init /\ [][Next]_vars /\ Fairness

-----------------------------------------------------------------------------
(* Properties *)

stateChangeWaits == Contains(ui.tasks, "statechange")

\* The screen shown is the one of the client's state unless the task that
\* changes it still waits, and then a game in play with nothing over it is ticked.
\* Only in that window can a modal over the game make the panel call itself until
\* the stack overflows.
ScreenFollowsState ==
    ~stateChangeWaits /\ dtor # "joined" =>
        /\ ui.screen = screenForState(ui.client)
        /\ ~ui.crashed
        /\ ui.sp = "INGAME" /\ ui.modals = <<>> => ui.rate

\* The client comes to the result of a game that is not there only through the
\* event of a game that was given up before the event was taken.
ResultsWithoutGameAreLeftovers ==
    ui.client = "SingleplayerResult" /\ ui.sp # "RESULT" => ui.leftover

\* The modal of a promotion has paused the game when the piece is chosen, and
\* the choice is made before it is dismissed: no promotion is ever played.
PromotionsAreRefused == ~ui.promoted

\* The end of a game is shown, unless the user goes elsewhere first.
EndsAreShown ==
    ui.sp = "RESULT" ~>
        \/ ui.screen = "Singleplayer_Result"
        \/ ui.sp # "RESULT"
        \/ ui.modals # <<>>
        \/ ui.crashed \/ ui.quit

\* The panel ends when it is told to while ticks are on, for the thread then
\* wakes by itself. With no rate the notification can be lost and join waits
\* for ever.
ExitsWhileTicking == ui.quit /\ ui.rate ~> dtor = "joined"
=============================================================================
