-------------------------- MODULE ClientPanelProofs --------------------------
(***************************************************************************)
(* Proofs about the client's user interface.                               *)
(*                                                                         *)
(* The UI thread's state is one record and its calls call back, so the     *)
(* invariant is a predicate on such a record, and each operation is shown  *)
(* to keep it once. Inside setScreen the screen is for a moment one that   *)
(* has not been entered yet; what is true in between is Facts only.        *)
(***************************************************************************)
EXTENDS ClientPanel, SequenceTheorems, TLAPS

ClientState ==
    {"Idle", "SingleplayerSetup", "SingleplayerInGame", "SingleplayerResult",
     "MultiplayerSetup"}

Screen ==
    {"MainMenu", "Singleplayer_Setup", "Singleplayer_Game",
     "Singleplayer_Result", "Multiplayer_Select"}

Modal == {"Settings", "Confirm", "Promotion", "Error"}

Ui ==
    [client : ClientState, screen : Screen, modals : Seq(Modal),
     tasks : Seq({"tick", "statechange"}), events : Nat,
     sp : {"IDLE", "INGAME", "PAUSED", "RESULT"}, username : BOOLEAN,
     rate : BOOLEAN, woken : BOOLEAN, quit : BOOLEAN, crashed : BOOLEAN,
     leftover : BOOLEAN, promoted : BOOLEAN]

ShowWaits(u) == Contains(u.tasks, "statechange")

\* A change of the client's state is shown, or the task that shows it waits;
\* only then can the panel have called itself without end.
Told(u) ==
    /\ ~ShowWaits(u) => u.screen = screenForState(u.client)
    /\ u.crashed => ShowWaits(u)

\* The modal of a promotion has paused the game.
PromotionPauses(u) ==
    Contains(u.modals, "Promotion") /\ u.client = "SingleplayerInGame" =>
        u.sp # "INGAME"

\* An event that waits is of the game whose result is there, or left over from
\* one that was given up.
EventsHaveGames(u) == u.events > 0 /\ u.sp # "RESULT" => u.leftover

Facts(u) ==
    /\ u \in Ui
    /\ ~u.promoted
    /\ PromotionPauses(u)
    /\ EventsHaveGames(u)
    /\ u.sp # "IDLE" => u.client \in {"SingleplayerInGame", "SingleplayerResult"}
    /\ u.client = "SingleplayerResult" =>
          u.events = 0 /\ (u.sp # "RESULT" => u.leftover)

\* A screen of a result that has been entered has one, and no event comes while
\* it is shown.
ResultScreen(u) ==
    u.screen = "Singleplayer_Result" =>
        u.events = 0 /\ (u.client = "SingleplayerResult" => u.sp = "RESULT")

Good(u) == Facts(u) /\ ResultScreen(u) /\ Told(u)

\* The game is ticked while nothing is over it.
Ticking(u) == u.screen = "Singleplayer_Game" /\ u.modals = <<>> => u.rate

IInv == Good(ui) /\ (dtor # "joined" => Ticking(ui))

-----------------------------------------------------------------------------
(* Sequences *)

LEMMA Posted ==
  ASSUME NEW T, NEW s \in Seq(T), NEW t \in T, NEW e
  PROVE  /\ Append(s, t) \in Seq(T)
         /\ Append(s, t) # <<>>
         /\ Contains(Append(s, t), e) <=> Contains(s, e) \/ e = t
<1>1. /\ Append(s, t) \in Seq(T) /\ Len(Append(s, t)) = Len(s) + 1
      /\ \A i \in 1 .. Len(s) : Append(s, t)[i] = s[i]
      /\ Append(s, t)[Len(s) + 1] = t
      /\ Len(s) \in Nat
  BY AppendProperties, LenProperties
<1>2. Contains(Append(s, t), e) <=> Contains(s, e) \/ e = t
  BY <1>1 DEF Contains
<1> QED
  BY <1>1, <1>2, EmptySeq

LEMMA Taken ==
  ASSUME NEW T, NEW s \in Seq(T), s # <<>>, NEW e
  PROVE  /\ Head(s) \in T
         /\ Tail(s) \in Seq(T)
         /\ Contains(s, e) <=> Contains(Tail(s), e) \/ e = Head(s)
<1>1. /\ Head(s) = s[1] /\ Head(s) \in T /\ Tail(s) \in Seq(T)
      /\ Len(Tail(s)) = Len(s) - 1
      /\ \A i \in 1 .. Len(Tail(s)) : Tail(s)[i] = s[i + 1]
      /\ Len(s) \in Nat /\ Len(s) > 0
  BY HeadTailProperties, EmptySeq, LenProperties
<1>2. ASSUME Contains(s, e), e # Head(s) PROVE Contains(Tail(s), e)
  <2>1. PICK i \in 1 .. Len(s) : s[i] = e
    BY <1>2 DEF Contains
  <2>2. i # 1 /\ i - 1 \in 1 .. Len(Tail(s)) /\ (i - 1) + 1 = i
    BY <1>1, <1>2, <2>1
  <2>3. Tail(s)[i - 1] = e
    BY <1>1, <2>1, <2>2
  <2> QED
    BY <2>2, <2>3 DEF Contains
<1>3. ASSUME Contains(Tail(s), e) PROVE Contains(s, e)
  <2>1. PICK i \in 1 .. Len(Tail(s)) : Tail(s)[i] = e
    BY <1>3 DEF Contains
  <2>2. i + 1 \in 1 .. Len(s) /\ s[i + 1] = e
    BY <1>1, <2>1
  <2> QED
    BY <2>2 DEF Contains
<1>4. Contains(s, Head(s))
  BY <1>1 DEF Contains
<1> QED
  BY <1>1, <1>2, <1>3, <1>4

LEMMA Uncovered ==
  ASSUME NEW T, NEW s \in Seq(T), s # <<>>, NEW e
  PROVE  /\ Front(s) \in Seq(T)
         /\ Contains(Front(s), e) => Contains(s, e)
         /\ Contains(s, Last(s))
<1>1. Len(s) \in Nat /\ Len(s) > 0 /\ s \in [1 .. Len(s) -> T]
  BY EmptySeq, LenProperties
<1>2. /\ Front(s) \in Seq(T)
      /\ Len(Front(s)) = Len(s) - 1
      /\ \A i \in 1 .. Len(Front(s)) : Front(s)[i] = s[i]
  <2>1. Len(s) - 1 \in 0 .. Len(s)
    BY <1>1
  <2> QED
    BY <1>1, <2>1, SubSeqProperties DEF Front
<1> QED
  BY <1>1, <1>2 DEF Contains, Last

LEMMA Bare == \A e : ~Contains(<<>>, e)
BY EmptySeq DEF Contains

-----------------------------------------------------------------------------
(* Records *)

\* What a call leaves alone that pauses, resumes, and opens and closes modals.
Frame(v, u) ==
    /\ v.client = u.client /\ v.screen = u.screen /\ v.tasks = u.tasks
    /\ v.events = u.events /\ v.leftover = u.leftover
    /\ v.promoted = u.promoted

LEMMA Framed ==
  ASSUME NEW u, NEW v \in Ui, Good(u), Frame(v, u), PromotionPauses(v),
         v.sp = u.sp \/ {v.sp, u.sp} \subseteq {"INGAME", "PAUSED"},
         v.crashed => u.crashed \/ ShowWaits(u)
  PROVE  Good(v)
BY DEF Good, Facts, ResultScreen, Told, ShowWaits, EventsHaveGames, Frame

LEMMA ScreensTellStates ==
  ASSUME NEW client \in ClientState
  PROVE  /\ screenForState(client) \in Screen
         /\ screenForState(client) = "Singleplayer_Game"
              <=> client = "SingleplayerInGame"
         /\ screenForState(client) = "Singleplayer_Result"
              <=> client = "SingleplayerResult"
         /\ screenForState(client) = "MainMenu" <=> client = "Idle"
BY DEF screenForState, ClientState, Screen

LEMMA RateSet ==
  ASSUME NEW u \in Ui, NEW rate \in BOOLEAN
  PROVE  LET v == setTickRate(u, rate)
         IN  /\ v \in Ui /\ Frame(v, u) /\ v.rate = rate /\ v.sp = u.sp
             /\ v.modals = u.modals /\ v.crashed = u.crashed
             /\ v.username = u.username /\ v.quit = u.quit
BY DEF setTickRate, Ui, Frame

-----------------------------------------------------------------------------
(* Modals *)

\* A modal over the game pauses it, or the panel is lost, but then a change of
\* the state was waiting to be shown.
LEMMA PausedBy ==
  ASSUME NEW u, Good(u), u.modals = <<>>
  PROVE  LET v == onPause(u)
         IN  /\ Good(v) /\ Frame(v, u) /\ v.modals = <<>>
             /\ u.screen = "Singleplayer_Game" /\ v.client = "SingleplayerInGame"
                  => v.sp # "INGAME"
<1> DEFINE v == onPause(u)
<1>1. u \in Ui
  BY DEF Good, Facts
<1>2. CASE u.screen # "Singleplayer_Game"
  BY <1>2 DEF onPause, Frame
<1>3. CASE u.screen = "Singleplayer_Game" /\ u.client # "SingleplayerInGame"
  <2>1. v = [u EXCEPT !.crashed = TRUE]
    BY <1>3 DEF onPause
  <2>2. v \in Ui /\ Frame(v, u) /\ v.modals = <<>> /\ v.sp = u.sp
    BY <1>1, <2>1 DEF Ui, Frame
  <2>3. ShowWaits(u)
    BY <1>1, <1>3, ScreensTellStates DEF Good, Told, Ui
  <2>4. PromotionPauses(v)
    BY <2>2, Bare DEF PromotionPauses
  <2> HIDE DEF v
  <2>5. Good(v)
    BY <2>2, <2>3, <2>4, Framed
  <2> QED
    BY <1>3, <2>2, <2>5 DEF Frame, v
<1>4. CASE u.screen = "Singleplayer_Game" /\ u.client = "SingleplayerInGame"
  <2> DEFINE p == [u EXCEPT !.sp = IF @ = "INGAME" THEN "PAUSED" ELSE @]
  <2>1. v = setTickRate(p, FALSE)
    BY <1>4 DEF onPause
  <2>2. /\ p \in Ui /\ Frame(p, u) /\ p.modals = <<>>
        /\ p.crashed = u.crashed
        /\ p.sp = IF u.sp = "INGAME" THEN "PAUSED" ELSE u.sp
    BY <1>1 DEF Ui, Frame
  <2> HIDE DEF p
  <2>3. /\ v \in Ui /\ Frame(v, p) /\ v.modals = <<>>
        /\ v.crashed = u.crashed /\ v.sp = p.sp
    BY <2>1, <2>2, RateSet
  <2> HIDE DEF v
  <2>4. Frame(v, u)
    BY <2>2, <2>3 DEF Frame
  <2>5. PromotionPauses(v)
    BY <2>3, Bare DEF PromotionPauses
  <2>6. Good(v)
    BY <2>2, <2>3, <2>4, <2>5, Framed
  <2> QED
    BY <2>2, <2>3, <2>4, <2>6 DEF v
<1> QED
  BY <1>2, <1>3, <1>4

LEMMA Pushed ==
  ASSUME NEW u, Good(u), NEW modal \in Modal,
         modal = "Promotion" =>
             u.screen = "Singleplayer_Game" /\ u.modals = <<>>
  PROVE  LET v == pushModal(u, modal)
         IN  Good(v) /\ Frame(v, u) /\ Ticking(v)
<1> DEFINE p == IF u.modals = <<>> THEN onPause(u) ELSE u
<1> DEFINE v == [p EXCEPT !.modals = Append(@, modal)]
<1>1. u \in Ui
  BY DEF Good, Facts
<1>2. /\ Good(p) /\ Frame(p, u) /\ p.modals = u.modals
      /\ u.modals = <<>> /\ u.screen = "Singleplayer_Game"
           /\ p.client = "SingleplayerInGame" => p.sp # "INGAME"
  BY PausedBy DEF Frame
<1>3. pushModal(u, modal) = v
  BY DEF pushModal
<1> HIDE DEF p
<1>4. p \in Ui /\ p.modals \in Seq(Modal)
  BY <1>2 DEF Good, Facts, Ui
<1>5. /\ Append(p.modals, modal) \in Seq(Modal)
      /\ Append(p.modals, modal) # <<>>
      /\ Contains(Append(p.modals, modal), "Promotion") <=>
            Contains(p.modals, "Promotion") \/ "Promotion" = modal
  BY <1>4, Posted
<1>6. /\ v \in Ui /\ Frame(v, p) /\ v.sp = p.sp /\ v.crashed = p.crashed
      /\ v.modals = Append(p.modals, modal)
  BY <1>4, <1>5 DEF Ui, Frame
<1> HIDE DEF v
<1>7. PromotionPauses(v)
  <2>1. CASE modal # "Promotion"
    BY <1>2, <1>5, <1>6, <2>1 DEF PromotionPauses, Good, Facts, Frame
  <2>2. CASE modal = "Promotion"
    BY <1>2, <1>6, <2>2 DEF PromotionPauses, Frame
  <2> QED
    BY <2>1, <2>2
<1>8. Good(v)
  BY <1>2, <1>6, <1>7, Framed
<1>9. Frame(v, u) /\ Ticking(v)
  BY <1>2, <1>5, <1>6 DEF Frame, Ticking
<1> QED
  BY <1>3, <1>8, <1>9

LEMMA Handled ==
  ASSUME NEW u, Good(u), NEW status
  PROVE  LET v == handleStatus(u, status)
         IN  Good(v) /\ Frame(v, u) /\ (Ticking(u) => Ticking(v))
<1>1. CASE status = "Error"
  BY <1>1, Pushed DEF handleStatus, Modal
<1>2. CASE status # "Error"
  BY <1>2 DEF handleStatus, Frame
<1> QED
  BY <1>1, <1>2

\* A command that is refused leaves everything but a modal; one that is not does
\* what it says.
LEMMA Commanded ==
  ASSUME NEW u, Good(u), NEW inState, NEW possible, NEW after,
         inState /\ possible => Good(after) /\ (Ticking(u) => Ticking(after))
  PROVE  LET v == command(u, inState, possible, after)
         IN  Good(v) /\ (Ticking(u) => Ticking(v))
BY Handled DEF command

LEMMA Prompted ==
  ASSUME NEW u, Good(u)
  PROVE  LET v == promptForUsernameIfMissing(u)
         IN  Good(v) /\ Frame(v, u) /\ (Ticking(u) => Ticking(v))
<1>1. CASE u.username
  BY <1>1 DEF promptForUsernameIfMissing, Frame
<1>2. CASE ~u.username
  BY <1>2, Pushed DEF promptForUsernameIfMissing, Modal
<1> QED
  BY <1>1, <1>2

\* The game that is uncovered is ticked again, whatever it has come to.
LEMMA ResumedBy ==
  ASSUME NEW u, Good(u), u.modals = <<>>
  PROVE  LET v == onResume(u)
         IN  Good(v) /\ Frame(v, u) /\ Ticking(v)
<1> DEFINE v == onResume(u)
<1> DEFINE t == setTickRate(u, TRUE)
<1>1. u \in Ui
  BY DEF Good, Facts
<1>2. CASE u.screen = "Singleplayer_Game"
  <2>1. /\ t \in Ui /\ Frame(t, u) /\ t.rate = TRUE /\ t.sp = u.sp
        /\ t.modals = <<>> /\ t.crashed = u.crashed
    BY <1>1, RateSet
  <2> HIDE DEF t
  <2>2. PromotionPauses(t)
    BY <2>1, Bare DEF PromotionPauses
  <2>3. Good(t) /\ Ticking(t)
    BY <2>1, <2>2, Framed DEF Ticking
  <2> DEFINE g == [t EXCEPT !.sp = "INGAME"]
  <2>4. v = command(t, u.client = "SingleplayerInGame", u.sp = "PAUSED", g)
    BY <1>2 DEF onResume, t
  <2>5. CASE u.client = "SingleplayerInGame" /\ u.sp = "PAUSED"
    <3>1. v = g
      BY <2>4, <2>5 DEF command
    <3>2. /\ g \in Ui /\ Frame(g, u) /\ g.modals = <<>> /\ g.rate = TRUE
          /\ g.crashed = u.crashed /\ g.sp = "INGAME"
      BY <2>1 DEF Ui, Frame
    <3> HIDE DEF g
    <3>3. PromotionPauses(g)
      BY <3>2, Bare DEF PromotionPauses
    <3>4. Good(g)
      BY <2>5, <3>2, <3>3, Framed
    <3> QED
      BY <3>1, <3>2, <3>4 DEF Ticking
  <2>6. CASE ~(u.client = "SingleplayerInGame" /\ u.sp = "PAUSED")
    <3>1. PICK status : v = handleStatus(t, status)
      BY <2>4, <2>6 DEF command
    <3>2. Good(v) /\ Frame(v, t) /\ Ticking(v)
      BY <2>3, <3>1, Handled
    <3> QED
      BY <2>1, <3>2 DEF Frame
  <2> QED
    BY <2>5, <2>6
<1>3. CASE u.screen = "MainMenu"
  <2>1. v = promptForUsernameIfMissing(u)
    BY <1>3 DEF onResume
  <2>2. Ticking(u)
    BY <1>3 DEF Ticking
  <2> QED
    BY <2>1, <2>2, Prompted
<1>4. CASE u.screen \notin {"Singleplayer_Game", "MainMenu"}
  BY <1>4 DEF onResume, Frame, Ticking
<1> QED
  BY <1>2, <1>3, <1>4

LEMMA Popped ==
  ASSUME NEW u, Good(u)
  PROVE  LET v == popModal(u)
         IN  Good(v) /\ Frame(v, u) /\ (Ticking(u) => Ticking(v))
<1> DEFINE p == [u EXCEPT !.modals = Front(@)]
<1>1. CASE u.modals = <<>>
  BY <1>1 DEF popModal, Frame
<1>2. CASE u.modals # <<>>
  <2>1. u \in Ui /\ u.modals \in Seq(Modal)
    BY DEF Good, Facts, Ui
  <2>2. /\ Front(u.modals) \in Seq(Modal)
        /\ Contains(Front(u.modals), "Promotion") =>
              Contains(u.modals, "Promotion")
    BY <1>2, <2>1, Uncovered
  <2>3. /\ p \in Ui /\ Frame(p, u) /\ p.sp = u.sp /\ p.crashed = u.crashed
        /\ p.modals = Front(u.modals)
    BY <2>1, <2>2 DEF Ui, Frame
  <2>4. popModal(u) = IF p.modals = <<>> THEN onResume(p) ELSE p
    BY <1>2 DEF popModal
  <2> HIDE DEF p
  <2>5. PromotionPauses(p)
    BY <2>2, <2>3 DEF Good, Facts, PromotionPauses, Frame
  <2>6. Good(p)
    BY <2>3, <2>5, Framed
  <2>7. CASE p.modals = <<>>
    <3>1. popModal(u) = onResume(p)
      BY <2>4, <2>7
    <3>2. Good(onResume(p)) /\ Frame(onResume(p), p) /\ Ticking(onResume(p))
      BY <2>6, <2>7, ResumedBy
    <3>3. Frame(onResume(p), u)
      BY <2>3, <3>2 DEF Frame
    <3> QED
      BY <3>1, <3>2, <3>3
  <2>8. CASE p.modals # <<>>
    BY <2>3, <2>4, <2>6, <2>8 DEF Ticking
  <2> QED
    BY <2>7, <2>8
<1> QED
  BY <1>1, <1>2

LEMMA AllPopped ==
  ASSUME NEW u, Good(u)
  PROVE  Good(popAllModals(u))
<1> DEFINE p == [u EXCEPT !.modals = <<>>]
<1>1. CASE u.modals = <<>>
  BY <1>1 DEF popAllModals
<1>2. CASE u.modals # <<>>
  <2>1. u \in Ui /\ <<>> \in Seq(Modal)
    BY EmptySeq DEF Good, Facts
  <2>2. /\ p \in Ui /\ Frame(p, u) /\ p.sp = u.sp /\ p.crashed = u.crashed
        /\ p.modals = <<>>
    BY <2>1 DEF Ui, Frame
  <2>3. popAllModals(u) = onResume(p)
    BY <1>2 DEF popAllModals
  <2> HIDE DEF p
  <2>4. PromotionPauses(p)
    BY <2>2, Bare DEF PromotionPauses
  <2>5. Good(p)
    BY <2>2, <2>4, Framed
  <2> QED
    BY <2>2, <2>3, <2>5, ResumedBy
<1> QED
  BY <1>1, <1>2

-----------------------------------------------------------------------------
(* The client's state and its screens *)

LEMMA Transitioned ==
  ASSUME NEW u \in Ui, NEW state \in ClientState
  PROVE  LET v == transitionTo(u, state)
         IN  /\ v \in Ui /\ v.client = state /\ v.screen = u.screen
             /\ v.modals = u.modals /\ v.events = u.events /\ v.sp = u.sp
             /\ v.rate = u.rate /\ v.crashed = u.crashed
             /\ v.leftover = u.leftover /\ v.promoted = u.promoted
             /\ ShowWaits(u) => ShowWaits(v)
             /\ u.client # state => ShowWaits(v)
             /\ u.client = state => v = u
<1> DEFINE v == transitionTo(u, state)
<1>1. CASE u.client = state
  BY <1>1 DEF transitionTo
<1>2. CASE u.client # state
  <2> DEFINE tasks == Append(u.tasks, "statechange")
  <2>1. /\ u.tasks \in Seq({"tick", "statechange"})
        /\ "statechange" \in {"tick", "statechange"}
    BY DEF Ui
  <2>2. tasks \in Seq({"tick", "statechange"}) /\ Contains(tasks, "statechange")
    BY <2>1, Posted
  <2>3. v = [u EXCEPT !.client = state, !.tasks = tasks]
    BY <1>2 DEF transitionTo
  <2> HIDE DEF tasks, v
  <2>4. /\ v \in Ui /\ v.client = state /\ v.screen = u.screen
        /\ v.modals = u.modals /\ v.events = u.events /\ v.sp = u.sp
        /\ v.rate = u.rate /\ v.crashed = u.crashed
        /\ v.leftover = u.leftover /\ v.promoted = u.promoted
        /\ v.tasks = tasks
    BY <2>2, <2>3 DEF Ui
  <2> QED
    BY <1>2, <2>2, <2>4 DEF ShowWaits, v
<1> QED
  BY <1>1, <1>2

\* Giving up a game takes what is left of it out of the books of the next: its
\* event is left over from now on.
LEMMA Returned ==
  ASSUME NEW u, Facts(u), Told(u),
         u.screen = "Singleplayer_Result" => u.events = 0
  PROVE  LET v == returnToIdle(u)
         IN  Good(v) /\ (Ticking(u) => Ticking(v)) /\ v.client = "Idle"
<1> DEFINE sp == IF isSingleplayerState(u.client) THEN "IDLE" ELSE u.sp
<1> DEFINE left == u.events > 0
<1> DEFINE g == [u EXCEPT !.sp = sp, !.leftover = left]
<1> DEFINE v == transitionTo(g, "Idle")
<1>1. u \in Ui /\ returnToIdle(u) = v
  BY DEF Facts, returnToIdle
<1>0. sp = "IDLE" /\ left \in BOOLEAN /\ left = (u.events > 0)
  BY DEF Facts, isSingleplayerState
<1> HIDE DEF sp, left
<1>2. /\ g \in Ui /\ g.client = u.client /\ g.screen = u.screen
      /\ g.modals = u.modals /\ g.events = u.events /\ g.tasks = u.tasks
      /\ g.rate = u.rate /\ g.crashed = u.crashed
      /\ g.promoted = u.promoted /\ g.sp = "IDLE"
      /\ g.leftover = (u.events > 0)
  BY <1>1, <1>0 DEF Ui
<1> HIDE DEF g
<1>3. /\ v \in Ui /\ v.client = "Idle" /\ v.screen = g.screen
      /\ v.modals = g.modals /\ v.events = g.events /\ v.sp = g.sp
      /\ v.rate = g.rate /\ v.crashed = g.crashed
      /\ v.leftover = g.leftover /\ v.promoted = g.promoted
      /\ ShowWaits(g) => ShowWaits(v)
      /\ g.client # "Idle" => ShowWaits(v)
      /\ g.client = "Idle" => v = g
  BY <1>2, Transitioned DEF ClientState
<1> HIDE DEF v
<1>4. ShowWaits(u) => ShowWaits(v)
  BY <1>2, <1>3 DEF ShowWaits
<1>5. Told(v)
  <2>1. CASE u.client = "Idle"
    BY <1>2, <1>3, <2>1 DEF Told, ShowWaits
  <2>2. CASE u.client # "Idle"
    BY <1>2, <1>3, <2>2 DEF Told
  <2> QED
    BY <2>1, <2>2
<1>6. Facts(v)
  BY <1>2, <1>3 DEF Facts, PromotionPauses, EventsHaveGames
<1>7. ResultScreen(v)
  BY <1>2, <1>3 DEF ResultScreen
<1>8. Ticking(u) => Ticking(v)
  BY <1>2, <1>3 DEF Ticking
<1> QED
  BY <1>1, <1>3, <1>5, <1>6, <1>7, <1>8 DEF Good

LEMMA Left ==
  ASSUME NEW u \in Ui
  PROVE  LET v == onLeave(u)
         IN  /\ v \in Ui /\ Frame(v, u) /\ v.sp = u.sp
             /\ v.modals = u.modals /\ v.crashed = u.crashed
<1>1. CASE u.screen \in {"Singleplayer_Game", "Multiplayer_Select"}
  BY <1>1, RateSet DEF onLeave
<1>2. CASE u.screen \notin {"Singleplayer_Game", "Multiplayer_Select"}
  BY <1>2 DEF onLeave, Frame
<1> QED
  BY <1>1, <1>2

\* A screen is entered: the game's starts the ticks, and the one of a result that
\* is not there gives up.
LEMMA Entered ==
  ASSUME NEW u, Facts(u), u.screen = screenForState(u.client), ~u.crashed
  PROVE  Good(onEnter(u)) /\ Ticking(onEnter(u))
<1> DEFINE v == onEnter(u)
<1>1. u \in Ui /\ u.client \in ClientState /\ u.screen \in Screen
  BY DEF Facts, Ui
<1>2. Told(u)
  BY DEF Told
<1>3. CASE u.screen \in {"Singleplayer_Game", "Multiplayer_Select"}
  <2>1. v = setTickRate(u, TRUE)
    BY <1>3 DEF onEnter
  <2>2. /\ v \in Ui /\ Frame(v, u) /\ v.rate = TRUE /\ v.sp = u.sp
        /\ v.modals = u.modals /\ v.crashed = u.crashed
    BY <1>1, <2>1, RateSet
  <2> HIDE DEF v
  <2>3. ResultScreen(u)
    BY <1>3 DEF ResultScreen
  <2>4. PromotionPauses(v)
    BY <2>2 DEF Facts, PromotionPauses, Frame
  <2>5. Good(v)
    BY <1>2, <2>2, <2>3, <2>4, Framed DEF Good
  <2> QED
    BY <2>2, <2>5 DEF Ticking, v
<1>4. CASE u.screen = "MainMenu"
  <2>1. v = promptForUsernameIfMissing(u)
    BY <1>4 DEF onEnter
  <2>2. Good(u) /\ Ticking(u)
    BY <1>2, <1>4 DEF Good, ResultScreen, Ticking
  <2> QED
    BY <2>1, <2>2, Prompted
<1>5. CASE u.screen = "Singleplayer_Setup"
  <2>1. v = u
    BY <1>5 DEF onEnter
  <2> QED
    BY <1>2, <1>5, <2>1 DEF Good, ResultScreen, Ticking
<1>6. CASE u.screen = "Singleplayer_Result"
  <2>1. u.client = "SingleplayerResult" /\ u.events = 0
    BY <1>1, <1>6, ScreensTellStates DEF Facts
  <2>2. v = IF u.sp = "RESULT" THEN u ELSE returnToIdle(u)
    BY <1>6 DEF onEnter
  <2>3. Ticking(u)
    BY <1>6 DEF Ticking
  <2>4. CASE u.sp = "RESULT"
    BY <1>2, <1>6, <2>1, <2>2, <2>3, <2>4 DEF Good, ResultScreen
  <2>5. CASE u.sp # "RESULT"
    BY <1>2, <2>1, <2>2, <2>3, <2>5, Returned
  <2> QED
    BY <2>4, <2>5
<1> QED
  BY <1>1, <1>3, <1>4, <1>5, <1>6 DEF Screen

\* The change of the state is shown, and nothing is owed after it.
LEMMA Shown ==
  ASSUME NEW u, Facts(u), ResultScreen(u), ~u.crashed
  PROVE  LET v == handleClientStateChanged(u)
         IN  Good(v) /\ (Ticking(u) => Ticking(v))
<1> DEFINE screen == screenForState(u.client)
<1>1. u \in Ui /\ u.client \in ClientState /\ screen \in Screen
  BY ScreensTellStates DEF Facts, Ui
<1>2. handleClientStateChanged(u) = setScreen(u, screen)
  BY DEF handleClientStateChanged
<1>3. CASE screen = u.screen
  BY <1>2, <1>3 DEF setScreen, Good, Told
<1>4. CASE screen # u.screen
  <2> DEFINE l == onLeave(u)
  <2> DEFINE s == [l EXCEPT !.screen = screen]
  <2>1. setScreen(u, screen) = onEnter(s)
    BY <1>4 DEF setScreen
  <2>2. /\ l \in Ui /\ Frame(l, u) /\ l.sp = u.sp
        /\ l.modals = u.modals /\ l.crashed = u.crashed
    BY <1>1, Left
  <2> HIDE DEF l, screen
  <2>3. /\ s \in Ui /\ s.screen = screen
        /\ s.client = u.client /\ s.events = u.events /\ s.sp = u.sp
        /\ s.modals = u.modals /\ s.crashed = u.crashed
        /\ s.leftover = u.leftover /\ s.promoted = u.promoted
    BY <1>1, <2>2 DEF Ui, Frame
  <2> HIDE DEF s
  <2>4. Facts(s)
    BY <2>3 DEF Facts, PromotionPauses, EventsHaveGames
  <2>5. s.screen = screenForState(s.client) /\ ~s.crashed
    BY <2>3 DEF screen
  <2>6. Good(onEnter(s)) /\ Ticking(onEnter(s))
    BY <2>4, <2>5, Entered
  <2> QED
    BY <1>2, <2>1, <2>6
<1> QED
  BY <1>3, <1>4

-----------------------------------------------------------------------------
(* Tasks *)

LEMMA Recorded ==
  ASSUME NEW u \in Ui
  PROVE  LET r == recordFinishedGame(u)
         IN  /\ r \in Ui /\ r.client = u.client /\ r.screen = u.screen
             /\ r.modals = u.modals /\ r.tasks = u.tasks /\ r.rate = u.rate
             /\ r.crashed = u.crashed /\ r.leftover = u.leftover
             /\ r.promoted = u.promoted /\ r.sp = "RESULT"
             /\ r.events = u.events + 1
<1> DEFINE events == u.events + 1
<1>1. events \in Nat
  BY DEF Ui
<1>2. recordFinishedGame(u) = [u EXCEPT !.sp = "RESULT", !.events = events]
  BY DEF recordFinishedGame
<1>3. events = u.events + 1
  OBVIOUS
<1> HIDE DEF events
<1> QED
  BY <1>1, <1>2, <1>3 DEF Ui

\* A tick takes every event there is, so what it finds recorded now is the result
\* that the client goes to.
LEMMA TickedClient ==
  ASSUME NEW u, Good(u), NEW over \in BOOLEAN
  PROVE  LET v == tickClient(u, over)
         IN  Good(v) /\ (Ticking(u) => Ticking(v))
<1> DEFINE ends == over /\ isSingleplayerState(u.client) /\ u.sp = "INGAME"
<1> DEFINE t == IF ends THEN recordFinishedGame(u) ELSE u
<1>1. u \in Ui /\ u.events \in Nat
  BY DEF Good, Facts, Ui
<1>2. tickClient(u, over) =
        IF t.events = 0 THEN t
        ELSE transitionTo([t EXCEPT !.events = 0], "SingleplayerResult")
  BY DEF tickClient
<1>3. /\ t \in Ui /\ t.client = u.client /\ t.screen = u.screen
      /\ t.modals = u.modals /\ t.tasks = u.tasks /\ t.rate = u.rate
      /\ t.crashed = u.crashed /\ t.leftover = u.leftover
      /\ t.promoted = u.promoted
      /\ t.sp = IF ends THEN "RESULT" ELSE u.sp
      /\ t.events = IF ends THEN u.events + 1 ELSE u.events
      /\ ~ends => t = u
  <2>1. CASE ends
    BY <1>1, <2>1, Recorded
  <2>2. CASE ~ends
    BY <1>1, <2>2
  <2> QED
    BY <2>1, <2>2
<1> HIDE DEF t, ends
<1>4. CASE t.events = 0
  <2>1. ~ends
    BY <1>1, <1>3, <1>4
  <2> QED
    BY <1>2, <1>3, <1>4, <2>1
<1>5. CASE t.events # 0
  <2> DEFINE e == [t EXCEPT !.events = 0]
  <2> DEFINE v == transitionTo(e, "SingleplayerResult")
  <2>1. /\ e \in Ui /\ e.client = u.client /\ e.screen = u.screen
        /\ e.modals = u.modals /\ e.tasks = u.tasks /\ e.rate = u.rate
        /\ e.crashed = u.crashed /\ e.leftover = u.leftover
        /\ e.promoted = u.promoted /\ e.sp = t.sp /\ e.events = 0
    BY <1>3 DEF Ui
  <2> HIDE DEF e
  <2>2. /\ v \in Ui /\ v.client = "SingleplayerResult" /\ v.screen = e.screen
        /\ v.modals = e.modals /\ v.events = e.events /\ v.sp = e.sp
        /\ v.rate = e.rate /\ v.crashed = e.crashed
        /\ v.leftover = e.leftover /\ v.promoted = e.promoted
        /\ ShowWaits(e) => ShowWaits(v)
        /\ e.client # "SingleplayerResult" => ShowWaits(v)
        /\ e.client = "SingleplayerResult" => v = e
    BY <2>1, Transitioned DEF ClientState
  <2> HIDE DEF v
  <2>3. ShowWaits(u) => ShowWaits(v)
    BY <2>1, <2>2 DEF ShowWaits
  <2>4. Told(v)
    <3>1. CASE u.client = "SingleplayerResult"
      BY <2>1, <2>2, <2>3, <3>1 DEF Told, ShowWaits, Good
    <3>2. CASE u.client # "SingleplayerResult"
      BY <2>1, <2>2, <3>2 DEF Told
    <3> QED
      BY <3>1, <3>2
  <2>5. v.sp = "RESULT" \/ v.leftover
    <3>1. CASE ends
      BY <1>3, <2>1, <2>2, <3>1
    <3>2. CASE ~ends
      BY <1>1, <1>3, <1>5, <2>1, <2>2, <3>2 DEF Good, Facts, EventsHaveGames
    <3> QED
      BY <3>1, <3>2
  <2>6. Facts(v)
    BY <2>1, <2>2, <2>5 DEF Good, Facts, PromotionPauses, EventsHaveGames
  <2>7. ResultScreen(v)
    <3>1. ASSUME u.screen = "Singleplayer_Result" PROVE v.sp = "RESULT"
      <4>1. u.events = 0
        BY <3>1 DEF Good, ResultScreen
      <4>2. ends
        BY <1>3, <1>5, <4>1
      <4> QED
        BY <1>3, <2>1, <2>2, <4>2
    <3> QED
      BY <2>1, <2>2, <3>1 DEF ResultScreen
  <2>8. Ticking(u) => Ticking(v)
    BY <2>1, <2>2 DEF Ticking
  <2> QED
    BY <1>2, <1>5, <2>4, <2>6, <2>7, <2>8 DEF Good, v, e
<1> QED
  BY <1>4, <1>5

LEMMA TaskRun ==
  ASSUME Good(ui), RunTask
  PROVE  Good(ui') /\ (Ticking(ui) => Ticking(ui'))
<1> DEFINE rest == [ui EXCEPT !.tasks = Tail(@)]
<1>1. /\ ~ui.crashed /\ ui.tasks # <<>> /\ ui \in Ui
      /\ ui.tasks \in Seq({"tick", "statechange"})
  BY DEF RunTask, canRun, Good, Facts, Ui
<1>2. /\ Head(ui.tasks) \in {"tick", "statechange"}
      /\ Tail(ui.tasks) \in Seq({"tick", "statechange"})
      /\ Contains(ui.tasks, "statechange") <=>
           Contains(Tail(ui.tasks), "statechange")
             \/ "statechange" = Head(ui.tasks)
  BY <1>1, Taken
<1>3. /\ rest \in Ui /\ Frame([rest EXCEPT !.tasks = ui.tasks], ui)
      /\ rest.client = ui.client /\ rest.screen = ui.screen
      /\ rest.modals = ui.modals /\ rest.tasks = Tail(ui.tasks)
      /\ rest.events = ui.events /\ rest.sp = ui.sp /\ rest.rate = ui.rate
      /\ rest.crashed = ui.crashed /\ rest.leftover = ui.leftover
      /\ rest.promoted = ui.promoted
  BY <1>1, <1>2 DEF Ui, Frame
<1>4. \/ /\ Head(ui.tasks) = "tick"
         /\ \E over \in BOOLEAN : ui' = tickClient(rest, over)
      \/ /\ Head(ui.tasks) = "statechange"
         /\ ui' = handleClientStateChanged(rest)
  BY <1>2 DEF RunTask
<1> HIDE DEF rest
<1>5. /\ Facts(rest) /\ ResultScreen(rest) /\ ~rest.crashed
      /\ Ticking(ui) => Ticking(rest)
  BY <1>1, <1>3 DEF Good, Facts, PromotionPauses, EventsHaveGames,
                    ResultScreen, Ticking
<1>6. CASE Head(ui.tasks) = "tick"
  <2>1. Told(rest)
    BY <1>1, <1>2, <1>3, <1>6 DEF Good, Told, ShowWaits
  <2>2. Good(rest)
    BY <1>5, <2>1 DEF Good
  <2> QED
    BY <1>4, <1>5, <1>6, <2>2, TickedClient
<1>7. CASE Head(ui.tasks) = "statechange"
  BY <1>4, <1>5, <1>7, Shown
<1> QED
  BY <1>2, <1>6, <1>7

-----------------------------------------------------------------------------
(* The user *)

\* A move ends a game at its own screen; the modal of a promotion has paused the
\* game, so the move behind it is refused.
LEMMA MoveSubmitted ==
  ASSUME NEW u, Good(u), NEW outcome \in MoveOutcome, NEW promotes \in BOOLEAN,
         promotes => Contains(u.modals, "Promotion"),
         ~promotes => u.screen = "Singleplayer_Game"
  PROVE  LET v == submitMove(u, outcome, promotes)
         IN  Good(v) /\ (Ticking(u) => Ticking(v))
<1> DEFINE p == [u EXCEPT !.promoted = @ \/ promotes]
<1> DEFINE after == IF outcome = "mates" THEN recordFinishedGame(p) ELSE p
<1> DEFINE inState == u.client = "SingleplayerInGame"
<1> DEFINE possible == u.sp = "INGAME" /\ outcome # "refused"
<1>1. u \in Ui /\ u.events \in Nat
  BY DEF Good, Facts, Ui
<1>2. submitMove(u, outcome, promotes) = command(u, inState, possible, after)
  BY DEF submitMove
<1>3. ASSUME inState, possible
      PROVE  Good(after) /\ (Ticking(u) => Ticking(after))
  <2>1. ~promotes
    BY <1>3 DEF Good, Facts, PromotionPauses
  <2>2. p = u
    <3>1. u.promoted = FALSE
      BY <1>1 DEF Good, Facts, Ui
    <3>2. (u.promoted \/ promotes) = u.promoted
      BY <2>1, <3>1
    <3> QED
      BY <1>1, <3>2 DEF Ui
  <2>3. CASE outcome # "mates"
    BY <2>2, <2>3
  <2>4. CASE outcome = "mates"
    <3> DEFINE r == recordFinishedGame(u)
    <3>1. /\ r \in Ui /\ r.client = u.client /\ r.screen = u.screen
          /\ r.modals = u.modals /\ r.tasks = u.tasks /\ r.rate = u.rate
          /\ r.crashed = u.crashed /\ r.leftover = u.leftover
          /\ r.promoted = u.promoted /\ r.sp = "RESULT"
      BY <1>1, Recorded
    <3>2. after = r
      BY <2>2, <2>4
    <3> HIDE DEF r, after
    <3>3. Facts(r)
      BY <1>3, <3>1 DEF Good, Facts, PromotionPauses, EventsHaveGames
    <3>4. ResultScreen(r)
      BY <2>1, <3>1 DEF ResultScreen
    <3>5. Told(r) /\ (Ticking(u) => Ticking(r))
      BY <3>1 DEF Good, Told, ShowWaits, Ticking
    <3> QED
      BY <3>2, <3>3, <3>4, <3>5 DEF Good
  <2> QED
    BY <2>3, <2>4
<1> HIDE DEF after, inState, possible
<1> QED
  BY <1>2, <1>3, Commanded

\* A client that goes from one state to the next by a button of a screen without
\* a modal, with the local game sp after it.
LEMMA WentOn ==
  ASSUME NEW u, Good(u), u.modals = <<>>, NEW g \in Ui, NEW state,
         state \in {"SingleplayerSetup", "MultiplayerSetup", "SingleplayerInGame"},
         u.screen # "Singleplayer_Result" \/ u.events = 0,
         g.client = u.client /\ g.screen = u.screen /\ g.modals = u.modals
           /\ g.tasks = u.tasks /\ g.events = u.events /\ g.rate = u.rate
           /\ g.crashed = u.crashed /\ g.leftover = u.leftover
           /\ g.promoted = u.promoted,
         g.sp # "IDLE" => state = "SingleplayerInGame",
         u.client # state,
         u.events > 0 => u.leftover
  PROVE  LET v == transitionTo(g, state)
         IN  Good(v) /\ (Ticking(u) => Ticking(v))
<1> DEFINE v == transitionTo(g, state)
<1>1. /\ v \in Ui /\ v.client = state /\ v.screen = u.screen
      /\ v.modals = <<>> /\ v.events = u.events /\ v.sp = g.sp
      /\ v.rate = u.rate /\ v.crashed = u.crashed
      /\ v.leftover = u.leftover /\ v.promoted = u.promoted
      /\ ShowWaits(v)
  BY Transitioned DEF ClientState
<1> HIDE DEF v
<1>2. Facts(v)
  BY <1>1, Bare DEF Good, Facts, PromotionPauses, EventsHaveGames
<1>3. ResultScreen(v)
  BY <1>1 DEF ResultScreen, Good, Facts, Ui
<1>4. Told(v) /\ (Ticking(u) => Ticking(v))
  BY <1>1 DEF Told, Ticking
<1> QED
  BY <1>2, <1>3, <1>4 DEF Good, v

LEMMA SetupLeft ==
  ASSUME NEW u, Good(u), u.modals = <<>>, u.screen = "Singleplayer_Setup"
  PROVE  LET v == startSingleplayer(u)
         IN  Good(v) /\ (Ticking(u) => Ticking(v))
<1> DEFINE g == [u EXCEPT !.sp = "INGAME"]
<1> DEFINE after == transitionTo(g, "SingleplayerInGame")
<1> DEFINE inState == u.client = "SingleplayerSetup"
<1> DEFINE possible == u.sp = "IDLE"
<1>1. startSingleplayer(u) = command(u, inState, possible, after)
  BY DEF startSingleplayer
<1>2. u \in Ui
  BY DEF Good, Facts
<1>3. ASSUME inState, possible
      PROVE  Good(after) /\ (Ticking(u) => Ticking(after))
  <2>1. /\ g \in Ui /\ g.client = u.client /\ g.screen = u.screen
        /\ g.modals = u.modals /\ g.tasks = u.tasks /\ g.events = u.events
        /\ g.rate = u.rate /\ g.crashed = u.crashed
        /\ g.leftover = u.leftover /\ g.promoted = u.promoted
        /\ g.sp = "INGAME"
    BY <1>2 DEF Ui
  <2>2. u.events > 0 => u.leftover
    BY <1>3 DEF Good, Facts, EventsHaveGames
  <2> HIDE DEF g
  <2> QED
    BY <1>3, <2>1, <2>2, WentOn
<1> HIDE DEF after, inState, possible
<1> QED
  BY <1>1, <1>3, Commanded

LEMMA Restarted ==
  ASSUME NEW u, Good(u), u.modals = <<>>
  PROVE  LET v == restartSingleplayer(u)
         IN  Good(v) /\ (Ticking(u) => Ticking(v))
<1> DEFINE g == [u EXCEPT !.sp = "INGAME"]
<1> DEFINE after == transitionTo(g, "SingleplayerInGame")
<1> DEFINE inState == u.client = "SingleplayerResult"
<1> DEFINE possible == u.sp = "RESULT"
<1>1. restartSingleplayer(u) = command(u, inState, possible, after)
  BY DEF restartSingleplayer
<1>2. u \in Ui
  BY DEF Good, Facts
<1>3. ASSUME inState, possible
      PROVE  Good(after) /\ (Ticking(u) => Ticking(after))
  <2>1. /\ g \in Ui /\ g.client = u.client /\ g.screen = u.screen
        /\ g.modals = u.modals /\ g.tasks = u.tasks /\ g.events = u.events
        /\ g.rate = u.rate /\ g.crashed = u.crashed
        /\ g.leftover = u.leftover /\ g.promoted = u.promoted
        /\ g.sp = "INGAME"
    BY <1>2 DEF Ui
  <2>2. u.events = 0
    BY <1>3 DEF Good, Facts
  <2> HIDE DEF g
  <2> QED
    BY <1>3, <2>1, <2>2, WentOn
<1> HIDE DEF after, inState, possible
<1> QED
  BY <1>1, <1>3, Commanded

LEMMA MenuLeft ==
  ASSUME NEW u, Good(u), u.modals = <<>>, u.screen = "MainMenu",
         NEW state \in {"SingleplayerSetup", "MultiplayerSetup"}
  PROVE  LET v == leaveIdle(u, state)
         IN  Good(v) /\ (Ticking(u) => Ticking(v))
<1> DEFINE after == transitionTo(u, state)
<1> DEFINE inState == u.client = "Idle"
<1>1. leaveIdle(u, state) = command(u, inState, TRUE, after)
  BY DEF leaveIdle
<1>2. ASSUME inState
      PROVE  Good(after) /\ (Ticking(u) => Ticking(after))
  <2>1. u \in Ui /\ u.sp = "IDLE"
    BY <1>2 DEF Good, Facts
  <2>2. u.events > 0 => u.leftover
    BY <2>1 DEF Good, Facts, EventsHaveGames
  <2> QED
    BY <1>2, <2>1, <2>2, WentOn
<1> HIDE DEF after, inState
<1> QED
  BY <1>1, <1>2, Commanded

LEMMA ExitRequested ==
  ASSUME NEW u, Good(u)
  PROVE  LET v == requestExit(u)
         IN  Good(v) /\ (Ticking(u) => Ticking(v))
<1>1. CASE u.screen = "MainMenu"
  <2> DEFINE q == [u EXCEPT !.quit = TRUE]
  <2>1. u \in Ui /\ requestExit(u) = q
    BY <1>1 DEF Good, Facts, requestExit
  <2>2. /\ q \in Ui /\ Frame(q, u) /\ q.sp = u.sp /\ q.modals = u.modals
        /\ q.crashed = u.crashed /\ q.rate = u.rate
    BY <2>1 DEF Ui, Frame
  <2> HIDE DEF q
  <2>3. Good(q)
    BY <2>2, Framed DEF Good, Facts, PromotionPauses, Frame
  <2> QED
    BY <2>1, <2>2, <2>3 DEF Ticking, Frame
<1>2. CASE u.screen = "Singleplayer_Game"
  BY <1>2, Pushed DEF requestExit, Modal
<1>3. CASE u.screen \notin {"MainMenu", "Singleplayer_Game"}
  <2>1. requestExit(u) = returnToIdle(u)
    BY <1>3 DEF requestExit
  <2> QED
    BY <2>1, Returned DEF Good, ResultScreen
<1> QED
  BY <1>1, <1>2, <1>3

LEMMA ScreenUsed ==
  ASSUME NEW u, Good(u), u.modals = <<>>,
         NEW v \in buttons(u) \cup {requestExit(u), pushModal(u, "Settings")}
  PROVE  Good(v) /\ (Ticking(u) => Ticking(v))
<1>1. u \in Ui /\ u.screen \in Screen
  BY DEF Good, Facts, Ui
<1>2. CASE v = requestExit(u)
  BY <1>2, ExitRequested
<1>3. CASE v = pushModal(u, "Settings")
  BY <1>3, Pushed DEF Modal
<1>4. CASE v \in buttons(u)
  <2>1. CASE u.screen = "MainMenu"
    BY <1>4, <2>1, MenuLeft DEF buttons
  <2>2. CASE u.screen = "Singleplayer_Setup"
    BY <1>4, <2>2, SetupLeft DEF buttons
  <2>3. CASE u.screen = "Singleplayer_Result"
    BY <1>4, <2>3, Restarted DEF buttons
  <2>4. CASE u.screen = "Singleplayer_Game"
    <3>1. CASE v = pushModal(u, "Promotion")
      BY <2>4, <3>1, Pushed DEF Modal
    <3>2. CASE \E outcome \in MoveOutcome : v = submitMove(u, outcome, FALSE)
      BY <2>4, <3>2, MoveSubmitted
    <3> QED
      BY <1>4, <2>4, <3>1, <3>2 DEF buttons
  <2>5. CASE u.screen = "Multiplayer_Select"
    BY <1>4, <2>5 DEF buttons
  <2> QED
    BY <1>1, <2>1, <2>2, <2>3, <2>4, <2>5 DEF Screen
<1> QED
  BY <1>2, <1>3, <1>4

LEMMA ModalUsed ==
  ASSUME NEW u, Good(u), u.modals # <<>>, NEW v \in modalButtons(u)
  PROVE  Good(v) /\ (Ticking(u) => Ticking(v))
<1>1. u \in Ui /\ u.modals \in Seq(Modal)
  BY DEF Good, Facts, Ui
<1>2. Contains(u.modals, Last(u.modals)) /\ Last(u.modals) \in Modal
  <2>1. Contains(u.modals, Last(u.modals))
    BY <1>1, Uncovered
  <2> QED
    BY <1>1, <2>1, ElementOfSeq DEF Contains
<1>3. Ticking(u)
  BY DEF Ticking
<1>4. CASE v = popModal(u)
  BY <1>4, Popped
<1>5. CASE Last(u.modals) = "Settings" /\ v = popModal([u EXCEPT !.username = TRUE])
  <2> DEFINE n == [u EXCEPT !.username = TRUE]
  <2>1. /\ n \in Ui /\ Frame(n, u) /\ n.sp = u.sp /\ n.modals = u.modals
        /\ n.crashed = u.crashed /\ n.rate = u.rate
    BY <1>1 DEF Ui, Frame
  <2> HIDE DEF n
  <2>2. Good(n)
    BY <2>1, Framed DEF Good, Facts, PromotionPauses, Frame
  <2>3. Ticking(n)
    BY <1>3, <2>1 DEF Ticking, Frame
  <2>4. v = popModal(n)
    BY <1>5 DEF n
  <2> QED
    BY <2>2, <2>3, <2>4, Popped
<1>6. CASE Last(u.modals) = "Confirm" /\ v = returnToIdle(popModal(u))
  <2> DEFINE c == popModal(u)
  <2>1. Good(c) /\ Ticking(c)
    BY <1>3, Popped
  <2>2. v = returnToIdle(c)
    BY <1>6
  <2> HIDE DEF c
  <2> QED
    BY <2>1, <2>2, Returned DEF Good, ResultScreen
<1>7. CASE /\ Last(u.modals) = "Promotion"
           /\ \E outcome \in MoveOutcome : v = choosePiece(u, outcome)
  <2>1. PICK outcome \in MoveOutcome : v = choosePiece(u, outcome)
    BY <1>7
  <2> DEFINE m == submitMove(u, outcome, TRUE)
  <2>2. Good(m) /\ Ticking(m)
    BY <1>2, <1>3, <1>7, MoveSubmitted
  <2>3. v = popModal(m)
    BY <2>1 DEF choosePiece
  <2> HIDE DEF m
  <2> QED
    BY <2>2, <2>3, Popped
<1> QED
  BY <1>2, <1>4, <1>5, <1>6, <1>7 DEF modalButtons, Modal

LEMMA Used ==
  ASSUME Good(ui), UserActs
  PROVE  Good(ui') /\ (Ticking(ui) => Ticking(ui'))
<1>1. CASE ui.modals = <<>>
  BY <1>1, ScreenUsed DEF UserActs
<1>2. CASE ui.modals # <<>>
  BY <1>2, ModalUsed DEF UserActs
<1> QED
  BY <1>1, <1>2

-----------------------------------------------------------------------------
(* The threads *)

\* What the threads and the destructor change of the UI thread's state without a
\* call of its own: the notification, the end, and the ticks that wait.
LEMMA Untouched ==
  ASSUME NEW u, Good(u), NEW v \in Ui, Frame(v, u), v.sp = u.sp,
         v.modals = u.modals, v.crashed = u.crashed, v.rate = u.rate
  PROVE  Good(v) /\ (Ticking(u) => Ticking(v))
<1>1. Good(v)
  BY Framed DEF Good, Facts, PromotionPauses, Frame
<1>2. Ticking(u) => Ticking(v)
  BY DEF Ticking, Frame
<1> QED
  BY <1>1, <1>2

LEMMA Notified ==
  ASSUME NEW u, Good(u), NEW woken \in BOOLEAN
  PROVE  LET v == [u EXCEPT !.woken = woken]
         IN  Good(v) /\ (Ticking(u) => Ticking(v))
<1> DEFINE v == [u EXCEPT !.woken = woken]
<1>1. u \in Ui
  BY DEF Good, Facts
<1>2. /\ v \in Ui /\ Frame(v, u) /\ v.sp = u.sp /\ v.modals = u.modals
      /\ v.crashed = u.crashed /\ v.rate = u.rate
  BY <1>1 DEF Ui, Frame
<1> HIDE DEF v
<1> QED
  BY <1>2, Untouched DEF v

LEMMA TickPosted ==
  ASSUME NEW u, Good(u)
  PROVE  LET v == [u EXCEPT !.tasks = Append(@, "tick")]
         IN  Good(v) /\ (Ticking(u) => Ticking(v))
<1> DEFINE tasks == Append(u.tasks, "tick")
<1> DEFINE v == [u EXCEPT !.tasks = tasks]
<1>1. u \in Ui /\ u.tasks \in Seq({"tick", "statechange"})
  BY DEF Good, Facts, Ui
<1>2. /\ tasks \in Seq({"tick", "statechange"})
      /\ Contains(tasks, "statechange") <=> Contains(u.tasks, "statechange")
  <2>1. "tick" \in {"tick", "statechange"} /\ "tick" # "statechange"
    OBVIOUS
  <2> QED
    BY <1>1, <2>1, Posted
<1> HIDE DEF tasks
<1>3. /\ v \in Ui /\ v.client = u.client /\ v.screen = u.screen
      /\ v.modals = u.modals /\ v.tasks = tasks /\ v.events = u.events
      /\ v.sp = u.sp /\ v.rate = u.rate /\ v.crashed = u.crashed
      /\ v.leftover = u.leftover /\ v.promoted = u.promoted
  BY <1>1, <1>2 DEF Ui
<1> HIDE DEF v
<1>4. Facts(v) /\ ResultScreen(v) /\ (Ticking(u) => Ticking(v))
  BY <1>3 DEF Good, Facts, PromotionPauses, EventsHaveGames, ResultScreen,
              Ticking
<1>5. Told(v)
  BY <1>2, <1>3 DEF Good, Told, ShowWaits
<1> QED
  BY <1>4, <1>5 DEF Good, v, tasks

LEMMA Joined ==
  ASSUME NEW u, Good(u)
  PROVE  Good(onLeave(popAllModals(u)))
<1> DEFINE p == popAllModals(u)
<1>1. Good(p)
  BY AllPopped
<1> HIDE DEF p
<1>2. p \in Ui
  BY <1>1 DEF Good, Facts
<1>3. /\ onLeave(p) \in Ui /\ Frame(onLeave(p), p) /\ onLeave(p).sp = p.sp
      /\ onLeave(p).modals = p.modals /\ onLeave(p).crashed = p.crashed
  BY <1>2, Left
<1>4. PromotionPauses(onLeave(p))
  BY <1>1, <1>3 DEF Good, Facts, PromotionPauses, Frame
<1>5. Good(onLeave(p))
  BY <1>1, <1>3, <1>4, Framed
<1> QED
  BY <1>5 DEF p

-----------------------------------------------------------------------------
(* The theorems *)

LEMMA Initially == Init => IInv
<1> SUFFICES ASSUME Init PROVE IInv
  OBVIOUS
<1>1. PICK username \in BOOLEAN : ui = onEnter(initialUi(username))
  BY DEF Init
<1> DEFINE u == initialUi(username)
<1>2. /\ u \in Ui /\ u.client = "Idle" /\ u.screen = "MainMenu"
      /\ u.modals = <<>> /\ u.events = 0 /\ u.sp = "IDLE"
      /\ u.crashed = FALSE /\ u.promoted = FALSE
  BY EmptySeq DEF initialUi, Ui, ClientState, Screen
<1>3. ui = onEnter(u)
  BY <1>1
<1> HIDE DEF u
<1>4. Facts(u)
  BY <1>2 DEF Facts, PromotionPauses, EventsHaveGames
<1>5. u.screen = screenForState(u.client)
  BY <1>2 DEF screenForState
<1>6. Good(ui) /\ Ticking(ui)
  BY <1>2, <1>3, <1>4, <1>5, Entered
<1> QED
  BY <1>6 DEF IInv

LEMMA Preserved ==
  ASSUME IInv, [Next]_vars
  PROVE  IInv'
<1>1. Good(ui) /\ (dtor # "joined" => Ticking(ui))
  BY DEF IInv
<1>2. ui \in Ui
  BY <1>1 DEF Good, Facts
<1> SUFFICES /\ Good(ui')
             /\ dtor' # "joined" =>
                   dtor # "joined" /\ (Ticking(ui) => Ticking(ui'))
  BY <1>1 DEF IInv
<1>3. ASSUME NEW woken \in BOOLEAN, ui' = [ui EXCEPT !.woken = woken]
      PROVE  Good(ui') /\ (Ticking(ui) => Ticking(ui'))
  BY <1>1, <1>3, Notified
<1>4. ASSUME UNCHANGED ui
      PROVE  Good(ui') /\ (Ticking(ui) => Ticking(ui'))
  BY <1>1, <1>4
<1>5. CASE RunTask
  <2>1. Good(ui') /\ (Ticking(ui) => Ticking(ui'))
    BY <1>1, <1>5, TaskRun
  <2> QED
    BY <2>1, <1>5 DEF RunTask
<1>6. CASE UserActs
  <2>1. Good(ui') /\ (Ticking(ui) => Ticking(ui'))
    BY <1>1, <1>6, Used
  <2> QED
    BY <2>1, <1>6 DEF UserActs
<1>7. CASE Interrupt
  <2> DEFINE q == [ui EXCEPT !.quit = TRUE]
  <2>1. ui' = q /\ dtor' = dtor
    BY <1>7 DEF Interrupt
  <2>2. /\ q \in Ui /\ Frame(q, ui) /\ q.sp = ui.sp /\ q.modals = ui.modals
        /\ q.crashed = ui.crashed /\ q.rate = ui.rate
    BY <1>2 DEF Ui, Frame
  <2> HIDE DEF q
  <2>3. Good(q) /\ (Ticking(ui) => Ticking(q))
    BY <1>1, <2>2, Untouched
  <2> QED
    BY <2>1, <2>3
<1>8. CASE TestRate
  BY <1>3, <1>4, <1>8 DEF TestRate
<1>9. CASE Block
  BY <1>3, <1>9 DEF Block
<1>10. CASE WakeUp
  BY <1>4, <1>10 DEF WakeUp
<1>11. CASE WakeFromSleep
  BY <1>4, <1>11 DEF WakeFromSleep
<1>12. CASE PostTick
  <2>1. CASE ui.quit
    BY <1>4, <1>12, <2>1 DEF PostTick
  <2>2. CASE ~ui.quit
    <3>1. ui' = [ui EXCEPT !.tasks = Append(@, "tick")] /\ dtor' = dtor
      BY <1>12, <2>2 DEF PostTick
    <3> QED
      BY <1>1, <3>1, TickPosted
  <2> QED
    BY <2>1, <2>2
<1>13. CASE ClearRunning
  BY <1>4, <1>13 DEF ClearRunning
<1>14. CASE Notify
  BY <1>3, <1>14 DEF Notify
<1>15. CASE Join
  <2>1. ui' = onLeave(popAllModals(ui)) /\ dtor' = "joined"
    BY <1>15 DEF Join
  <2> QED
    BY <1>1, <2>1, Joined
<1>16. CASE UNCHANGED vars
  BY <1>4, <1>16 DEF vars
<1> QED
  BY <1>5, <1>6, <1>7, <1>8, <1>9, <1>10, <1>11, <1>12, <1>13, <1>14, <1>15,
     <1>16 DEF Next

\* What is true of the UI thread between its tasks: where a change of the client's
\* state waits to be shown, what a modal has paused, and whose event is in the
\* queue (ClientPanel.cpp, GameClient.cpp).
THEOREM InductiveInvariant == Spec => []IInv
<1>1. Init => IInv
  BY Initially
<1>2. IInv /\ [Next]_vars => IInv'
  BY Preserved
<1> QED
  BY <1>1, <1>2, PTL DEF Spec

\* Nothing paused is left without ticks and no state without its screen, unless
\* the task that changes the screen waits: handleClientStateChanged leaves, shows
\* and enters whatever callbacks come between (ScreenFollowsState).
THEOREM ScreenFollows == Spec => []ScreenFollowsState
<1>1. ASSUME IInv PROVE ScreenFollowsState
  <2> SUFFICES ASSUME ~stateChangeWaits, dtor # "joined"
               PROVE  /\ ui.screen = screenForState(ui.client)
                      /\ ~ui.crashed
                      /\ ui.sp = "INGAME" /\ ui.modals = <<>> => ui.rate
    BY DEF ScreenFollowsState
  <2>1. Facts(ui) /\ ResultScreen(ui) /\ Told(ui) /\ Ticking(ui)
    BY <1>1 DEF IInv, Good
  <2>2. ui.screen = screenForState(ui.client) /\ ~ui.crashed
    BY <2>1 DEF Told, ShowWaits, stateChangeWaits
  <2>3. ASSUME ui.sp = "INGAME", ui.modals = <<>> PROVE ui.rate
    <3>1. ui.client \in {"SingleplayerInGame", "SingleplayerResult"}
      BY <2>1, <2>3 DEF Facts
    <3>2. ui.client # "SingleplayerResult"
      BY <2>1, <2>2, <2>3 DEF ResultScreen, screenForState
    <3>3. ui.screen = "Singleplayer_Game"
      BY <2>2, <3>1, <3>2 DEF screenForState
    <3> QED
      BY <2>1, <2>3, <3>3 DEF Ticking
  <2> QED
    BY <2>2, <2>3
<1> QED
  BY <1>1, InductiveInvariant, PTL

\* The client has come to a result that is not there only by an event of a game
\* that was given up (ResultsWithoutGameAreLeftovers).
THEOREM LeftoverResults == Spec => []ResultsWithoutGameAreLeftovers
<1>1. IInv => ResultsWithoutGameAreLeftovers
  BY DEF IInv, Good, Facts, ResultsWithoutGameAreLeftovers
<1> QED
  BY <1>1, InductiveInvariant, PTL

\* The modal in which the piece is chosen has paused the game that the move is
\* for: no promotion is ever played (PromotionsAreRefused).
THEOREM PromotionsRefused == Spec => []PromotionsAreRefused
<1>1. IInv => PromotionsAreRefused
  BY DEF IInv, Good, Facts, PromotionsAreRefused
<1> QED
  BY <1>1, InductiveInvariant, PTL
=============================================================================
