------------------------- MODULE SessionManagerProofs -------------------------
(***************************************************************************)
(* Proofs about the sessions of the server, in two parts: what each        *)
(* handler does to a session, for any length of its queue and any number   *)
(* of handlers waiting for its strand; and the session manager for any     *)
(* number of sessions, starts and queued sends: the session map, the chain *)
(* of accepts, what is left when the manager stops, and what every session *)
(* it has created can rely on.                                             *)
(***************************************************************************)
EXTENDS SessionManager, FiniteSetTheorems, SequenceTheorems, TLAPS

(*************************************************************************)
(* Part 1: the handlers of a session                                     *)
(*************************************************************************)

Reads == {"header", "body"}
Writes == {"written"}
Stops == {"stop"}

\* The handlers of some types in a strand.
none(strand, types) == \A i \in DOMAIN strand : strand[i].type \notin types

alone(strand, types) ==
    \A i, j \in DOMAIN strand :
        strand[i].type \in types /\ strand[j].type \in types => i = j

\* Of a session that has let its late request through nothing more is read.
noMoreMessages(strand) ==
    \A i \in DOMAIN strand :
        strand[i].type \in Reads => strand[i].type = "header" /\ ~strand[i].ok

ReadsInTurn(s) ==
    /\ alone(s.strand, Reads)
    /\ s.reading # "none" => none(s.strand, Reads)
    /\ s.lateRequests > 0 =>
         /\ s.lateRequests = 1
         /\ s.left
         /\ s.reading # "body"
         /\ noMoreMessages(s.strand)

WritesInTurn(s) ==
    /\ alone(s.strand, Writes)
    /\ s.writing # NoWrite => none(s.strand, Writes)
    /\ s.m_state = "RUNNING" =>
         /\ s.writing # NoWrite \/ ~none(s.strand, Writes) =>
              s.m_writeQueue # <<>>
         /\ s.writing # NoWrite => s.writing = Head(s.m_writeQueue)
         /\ ~s.undefined
    /\ Len(s.m_writeQueue) <= MaxWriteQueueLength

Stopped(s) ==
    s.m_state = "STOPPED" =>
        /\ ~s.socketOpen
        /\ s.m_writeQueue = <<>>

\* What is queued is being written.
Flows(s) ==
    s.m_writeQueue # <<>> => s.writing # NoWrite \/ ~none(s.strand, Writes)

\* A session on its own, whoever has it listed.
Sound(s) ==
    /\ s \in SessionRecord
    /\ ReadsInTurn(s)
    /\ WritesInTurn(s)
    /\ Stopped(s)
    /\ s.left => s.m_state = "STOPPED"

\* A session that is or is not in the session map.
Registered(s, isListed) ==
    /\ isListed <=> s.m_state = "RUNNING" /\ none(s.strand, Stops)
    /\ isListed => Flows(s)

-----------------------------------------------------------------------------
(* Strands *)

LEMMA Appended ==
  ASSUME NEW q \in Seq(Handler), NEW h \in Handler
  PROVE  /\ Append(q, h) \in Seq(Handler)
         /\ \A types :
              /\ none(Append(q, h), types) <=>
                   none(q, types) /\ h.type \notin types
              /\ alone(q, types) /\ (none(q, types) \/ h.type \notin types) =>
                   alone(Append(q, h), types)
         /\ noMoreMessages(q)
              /\ (h.type \in Reads => h.type = "header" /\ ~h.ok) =>
              noMoreMessages(Append(q, h))
<1> DEFINE p == Append(q, h)
<1>1. /\ p \in Seq(Handler)
      /\ DOMAIN p = 1 .. Len(q) + 1
      /\ DOMAIN q = 1 .. Len(q)
      /\ Len(q) \in Nat
      /\ \A i \in DOMAIN q : p[i] = q[i]
      /\ p[Len(q) + 1] = h
  BY AppendProperties, LenProperties
<1> HIDE DEF p
<1>2. DOMAIN p = DOMAIN q \cup {Len(q) + 1}
  BY <1>1
<1>3. ASSUME NEW types
      PROVE  /\ none(p, types) <=> none(q, types) /\ h.type \notin types
             /\ alone(q, types) /\ (none(q, types) \/ h.type \notin types) =>
                  alone(p, types)
  BY <1>1, <1>2 DEF none, alone
<1>4. noMoreMessages(q) /\ (h.type \in Reads => h.type = "header" /\ ~h.ok) =>
        noMoreMessages(p)
  BY <1>1, <1>2 DEF noMoreMessages
<1> QED
  BY <1>1, <1>3, <1>4 DEF p

LEMMA Popped ==
  ASSUME NEW q \in Seq(Handler), q # <<>>
  PROVE  /\ Tail(q) \in Seq(Handler)
         /\ Head(q) \in Handler
         /\ \A types :
              /\ none(q, types) <=>
                   none(Tail(q), types) /\ Head(q).type \notin types
              /\ alone(q, types) => alone(Tail(q), types)
              /\ alone(q, types) /\ Head(q).type \in types =>
                   none(Tail(q), types)
         /\ noMoreMessages(q) =>
              /\ noMoreMessages(Tail(q))
              /\ Head(q).type \in Reads =>
                   Head(q).type = "header" /\ ~Head(q).ok
<1> DEFINE p == Tail(q)  h == Head(q)
<1>1. /\ p \in Seq(Handler)
      /\ h \in Handler
      /\ h = q[1]
      /\ Len(q) \in Nat \ {0}
      /\ DOMAIN p = 1 .. Len(q) - 1
      /\ DOMAIN q = 1 .. Len(q)
      /\ \A i \in DOMAIN p : p[i] = q[i + 1]
  BY HeadTailProperties, LenProperties, EmptySeq
<1> HIDE DEF p, h
<1>2. /\ 1 \in DOMAIN q
      /\ \A i \in DOMAIN p : i + 1 \in DOMAIN q /\ i + 1 # 1
      /\ \A i \in DOMAIN q : i = 1 \/ (i - 1 \in DOMAIN p /\ (i - 1) + 1 = i)
  BY <1>1
<1>3. ASSUME NEW types
      PROVE  /\ none(q, types) <=> none(p, types) /\ h.type \notin types
             /\ alone(q, types) => alone(p, types)
             /\ alone(q, types) /\ h.type \in types => none(p, types)
  <2>1. none(q, types) <=> none(p, types) /\ h.type \notin types
    BY <1>1, <1>2 DEF none
  <2>2. alone(q, types) => alone(p, types)
    BY <1>1, <1>2 DEF alone
  <2>3. alone(q, types) /\ h.type \in types => none(p, types)
    BY <1>1, <1>2 DEF alone, none
  <2> QED
    BY <2>1, <2>2, <2>3
<1>4. noMoreMessages(q) =>
        noMoreMessages(p) /\ (h.type \in Reads => h.type = "header" /\ ~h.ok)
  BY <1>1, <1>2 DEF noMoreMessages
<1> QED
  BY <1>1, <1>3, <1>4 DEF p, h

-----------------------------------------------------------------------------
(* Operations *)

\* The operations that write leave these alone.
SameConnection(s, t) ==
    /\ t.strand = s.strand
    /\ t.reading = s.reading
    /\ t.lateRequests = s.lateRequests
    /\ t.left = s.left
    /\ t.socketOpen = s.socketOpen
    /\ t.m_state = s.m_state

LEMMA Types ==
  ASSUME NEW s \in SessionRecord
  PROVE  /\ s.m_state \in {"RUNNING", "STOPPED"}
         /\ s.m_writeQueue \in Seq(OutboundWrite)
         /\ s.reading \in {"none", "header", "body"}
         /\ s.writing \in OutboundWrite \cup {NoWrite}
         /\ s.strand \in Seq(Handler)
         /\ s.lateRequests \in Nat
         /\ s.socketOpen \in BOOLEAN
         /\ s.left \in BOOLEAN
         /\ s.aborting \in BOOLEAN
         /\ NoWrite \notin OutboundWrite
BY DEF SessionRecord, NoWrite, OutboundWrite

LEMMA Enqueued ==
  ASSUME NEW s \in SessionRecord, NEW h \in Handler
  PROVE  LET t == enqueue(s, h)
         IN  /\ t \in SessionRecord
             /\ t = [s EXCEPT !.strand = t.strand]
             /\ t.strand = Append(s.strand, h)
<1> DEFINE q == Append(s.strand, h)
<1>1. q \in Seq(Handler)
  BY Types, Appended
<1> HIDE DEF q
<1>2. enqueue(s, h) = [s EXCEPT !.strand = q]
  BY DEF enqueue, q
<1> QED
  BY <1>1, <1>2 DEF SessionRecord, q

LEMMA Aborting ==
  ASSUME NEW s \in SessionRecord
  PROVE  LET t == abortSession(s)
         IN  /\ t \in SessionRecord
             /\ SameConnection(s, t)
             /\ t.m_writeQueue = s.m_writeQueue
             /\ t.writing = s.writing
             /\ t.undefined = s.undefined
             /\ t.aborting <=> s.m_state = "RUNNING"
BY DEF abortSession, SessionRecord, SameConnection

LEMMA Writing ==
  ASSUME NEW s \in SessionRecord
  PROVE  LET t == doWrite(s)
         IN  /\ t \in SessionRecord
             /\ SameConnection(s, t)
             /\ t.m_writeQueue = s.m_writeQueue
             /\ t.undefined = s.undefined
             /\ t.aborting = s.aborting
             /\ s.m_writeQueue = <<>> => t.writing = s.writing
             /\ s.m_writeQueue # <<>> =>
                  t.writing = Head(s.m_writeQueue) /\ t.writing # NoWrite
<1>1. CASE s.m_writeQueue = <<>>
  BY <1>1 DEF doWrite, SameConnection
<1>2. CASE s.m_writeQueue # <<>>
  <2>1. Head(s.m_writeQueue) \in OutboundWrite
    BY <1>2, Types, HeadTailProperties
  <2> QED
    BY <1>2, <2>1, Types DEF doWrite, SessionRecord, SameConnection
<1> QED
  BY <1>1, <1>2

\* A queue that an overwrite has cut keeps the write under way at its front.
LEMMA Kept ==
  ASSUME NEW s \in SessionRecord, NEW method
  PROVE  LET q == kept(s.m_writeQueue, method)
         IN  /\ q \in Seq(OutboundWrite)
             /\ Len(q) <= Len(s.m_writeQueue)
             /\ q = <<>> <=> s.m_writeQueue = <<>>
             /\ q # <<>> => Head(q) = Head(s.m_writeQueue)
             /\ method = "Append" => q = s.m_writeQueue
<1> DEFINE w == s.m_writeQueue
<1>1. w \in Seq(OutboundWrite)
  BY Types
<1> HIDE DEF w
<1>2. CASE method = "Overwrite" /\ w # <<>>
  <2>1. Head(w) \in OutboundWrite /\ Len(w) \in Nat \ {0}
    BY <1>1, <1>2, HeadTailProperties, EmptySeq, LenProperties
  <2>2. kept(w, method) = <<Head(w)>>
    BY <1>2 DEF kept
  <2>3. ASSUME NEW x \in OutboundWrite
        PROVE  /\ <<x>> \in Seq(OutboundWrite)
               /\ Len(<<x>>) = 1
               /\ <<x>> # <<>>
               /\ Head(<<x>>) = x
    OBVIOUS
  <2>4. /\ kept(w, method) \in Seq(OutboundWrite)
        /\ Len(kept(w, method)) <= Len(w)
        /\ kept(w, method) # <<>>
        /\ Head(kept(w, method)) = Head(w)
    BY <2>1, <2>2, <2>3
  <2>5. method # "Append"
    BY <1>2
  <2> QED
    BY <1>2, <2>4, <2>5 DEF w
<1>3. CASE ~(method = "Overwrite" /\ w # <<>>)
  <2>1. kept(w, method) = w /\ Len(w) \in Nat
    BY <1>1, <1>3, LenProperties DEF kept
  <2> QED
    BY <1>1, <2>1 DEF w
<1> QED
  BY <1>2, <1>3

\* A write that joins the queue starts at once if it is the only one.
LEMMA Pushed ==
  ASSUME NEW s \in SessionRecord, NEW write \in OutboundWrite, NEW method,
         s.m_state = "RUNNING", WritesInTurn(s), ~sendAborts(s, method),
         accepting(s)
  PROVE  LET t == push(s, write, method)
         IN  /\ t \in SessionRecord
             /\ SameConnection(s, t)
             /\ WritesInTurn(t)
             /\ Flows(s) => Flows(t)
             /\ t.aborting = s.aborting
<1> DEFINE k == kept(s.m_writeQueue, method)
           q == Append(k, write)
           p == [s EXCEPT !.m_writeQueue = q,
                          !.m_terminalWriteQueued = (write = "refusal")]
           t == push(s, write, method)
<1>1. /\ k \in Seq(OutboundWrite)
      /\ k = <<>> <=> s.m_writeQueue = <<>>
      /\ k # <<>> => Head(k) = Head(s.m_writeQueue)
  BY Kept
<1>2. Len(k) \in Nat /\ Len(k) < MaxWriteQueueLength
  BY <1>1, LenProperties, QueueAssumption DEF sendAborts
<1>3. t = IF Len(q) = 1 THEN doWrite(p) ELSE p
  BY DEF push
<1> HIDE DEF k
<1>4. /\ q \in Seq(OutboundWrite)
      /\ Len(q) = Len(k) + 1
      /\ q # <<>>
      /\ k # <<>> => Head(q) = Head(k)
      /\ k = <<>> <=> Len(q) = 1
  BY <1>1, <1>2, AppendProperties, EmptySeq
<1> HIDE DEF q
<1>5. /\ p \in SessionRecord
      /\ SameConnection(s, p)
      /\ p.m_writeQueue = q
      /\ p.writing = s.writing
      /\ p.undefined = s.undefined
      /\ p.aborting = s.aborting
  BY <1>4 DEF SessionRecord, SameConnection
<1> HIDE DEF p, t
<1>6. Len(q) <= MaxWriteQueueLength
  BY <1>2, <1>4, QueueAssumption
<1>7. CASE k = <<>>
  <2>1. s.writing = NoWrite /\ none(s.strand, Writes)
    BY <1>1, <1>7 DEF WritesInTurn
  <2>2. /\ t \in SessionRecord
        /\ SameConnection(p, t)
        /\ t.m_writeQueue = q
        /\ t.writing = Head(q)
        /\ t.writing # NoWrite
        /\ t.undefined = s.undefined
        /\ t.aborting = s.aborting
    BY <1>3, <1>4, <1>5, <1>7, Writing
  <2> QED
    BY <1>4, <1>5, <1>6, <2>1, <2>2 DEF WritesInTurn, SameConnection, Flows, t
<1>8. CASE k # <<>>
  <2>1. t = p
    BY <1>3, <1>4, <1>8
  <2> QED
    BY <1>1, <1>4, <1>5, <1>6, <1>8, <2>1
    DEF WritesInTurn, SameConnection, Flows, t
<1> QED
  BY <1>7, <1>8

LEMMA Sent ==
  ASSUME NEW s \in SessionRecord, NEW write \in OutboundWrite, NEW method,
         WritesInTurn(s), Stopped(s)
  PROVE  LET t == send(s, write, method)
         IN  /\ t \in SessionRecord
             /\ SameConnection(s, t)
             /\ WritesInTurn(t)
             /\ Stopped(t)
             /\ Flows(s) => Flows(t)
             /\ t.aborting => s.m_state = "RUNNING" \/ s.aborting
             /\ ~sendAborts(s, method) => t.aborting = s.aborting
<1> DEFINE t == send(s, write, method)
<1>1. CASE ~accepting(s)
  <2>1. t = s
    BY <1>1 DEF send, sendAborts
  <2> QED
    BY <2>1 DEF SameConnection
<1>2. CASE sendAborts(s, method)
  <2>1. t = abortSession(s)
    BY <1>2 DEF send, sendAborts
  <2> QED
    BY <1>2, <2>1, Aborting DEF WritesInTurn, Stopped, SameConnection, Flows
<1>3. CASE accepting(s) /\ ~sendAborts(s, method)
  <2>1. t = push(s, write, method)
    BY <1>3 DEF send
  <2>2. s.m_state = "RUNNING"
    BY <1>3 DEF accepting
  <2> QED
    BY <1>3, <2>1, <2>2, Pushed DEF Stopped, SameConnection
<1> QED
  BY <1>1, <1>2, <1>3

LEMMA Stopping ==
  ASSUME NEW s, Sound(s)
  PROVE  LET t == stop(s)
         IN  Sound(t) /\ t.m_state = "STOPPED"
<1> DEFINE t == stop(s)
<1>1. s \in SessionRecord
  BY DEF Sound
<1>2. CASE s.m_state # "RUNNING"
  BY <1>1, <1>2, Types DEF stop
<1>3. CASE s.m_state = "RUNNING"
  <2>1. /\ t \in SessionRecord
        /\ t.strand = s.strand
        /\ t.reading = s.reading
        /\ t.writing = s.writing
        /\ t.lateRequests = s.lateRequests
        /\ t.m_state = "STOPPED"
        /\ t.left
        /\ ~t.socketOpen
        /\ t.m_writeQueue = <<>>
    <3>1. t = [s EXCEPT !.m_state = "STOPPED", !.left = TRUE,
                        !.socketOpen = FALSE, !.m_writeQueue = <<>>]
      BY <1>3 DEF stop
    <3>2. <<>> \in Seq(OutboundWrite)
      BY EmptySeq
    <3> HIDE DEF t
    <3> QED
      BY <1>1, <3>1, <3>2 DEF SessionRecord
  <2>2. Len(t.m_writeQueue) <= MaxWriteQueueLength
    BY <2>1, QueueAssumption
  <2>3. ReadsInTurn(t)
    BY <2>1 DEF Sound, ReadsInTurn
  <2>4. WritesInTurn(t) /\ Stopped(t)
    BY <2>1, <2>2 DEF Sound, WritesInTurn, Stopped
  <2> QED
    BY <2>1, <2>3, <2>4 DEF Sound
<1> QED
  BY <1>2, <1>3

\* A handler has left the strand and is about to run.
LEMMA Taken ==
  ASSUME NEW s, Sound(s), s.strand # <<>>
  PROVE  LET t == [s EXCEPT !.strand = Tail(@)]
             type == Head(s.strand).type
         IN  /\ Sound(t)
             /\ t.m_state = s.m_state
             /\ Head(s.strand) \in Handler
             /\ type \in Reads =>
                  /\ none(t.strand, Reads)
                  /\ t.reading = "none"
                  /\ \/ t.lateRequests = 0
                     \/ type = "header" /\ ~Head(s.strand).ok
             /\ type \in Writes =>
                  /\ none(t.strand, Writes)
                  /\ t.writing = NoWrite
                  /\ t.m_state = "RUNNING" => t.m_writeQueue # <<>>
             /\ type \notin Writes /\ Flows(s) => Flows(t)
             /\ none(s.strand, Stops) <=>
                  none(t.strand, Stops) /\ type # "stop"
<1> DEFINE q == Tail(s.strand)
           h == Head(s.strand)
           t == [s EXCEPT !.strand = q]
<1>1. s \in SessionRecord /\ s.strand \in Seq(Handler)
  BY Types DEF Sound
<1>2. /\ q \in Seq(Handler)
      /\ h \in Handler
      /\ \A types :
           /\ none(s.strand, types) <=> none(q, types) /\ h.type \notin types
           /\ alone(s.strand, types) => alone(q, types)
           /\ alone(s.strand, types) /\ h.type \in types => none(q, types)
      /\ noMoreMessages(s.strand) =>
           /\ noMoreMessages(q)
           /\ h.type \in Reads => h.type = "header" /\ ~h.ok
  BY <1>1, Popped
<1> HIDE DEF q, h
<1>3. /\ t \in SessionRecord
      /\ t = [s EXCEPT !.strand = t.strand]
      /\ t.strand = q
      /\ t.m_state = s.m_state /\ t.m_writeQueue = s.m_writeQueue
      /\ t.writing = s.writing /\ t.undefined = s.undefined
      /\ t.reading = s.reading /\ t.lateRequests = s.lateRequests
      /\ t.left = s.left /\ t.socketOpen = s.socketOpen
  BY <1>1, <1>2 DEF SessionRecord
<1> HIDE DEF t
<1>4. s.lateRequests \in Nat
  BY <1>1, Types
<1>5. ReadsInTurn(t)
  BY <1>2, <1>3 DEF Sound, ReadsInTurn
<1>6. WritesInTurn(t)
  BY <1>2, <1>3 DEF Sound, WritesInTurn
<1>7. Stopped(t) /\ (t.left => t.m_state = "STOPPED")
  BY <1>3 DEF Sound, Stopped
<1>8. h.type \in Reads =>
        /\ none(q, Reads)
        /\ t.reading = "none"
        /\ t.lateRequests = 0 \/ (h.type = "header" /\ ~h.ok)
  BY <1>2, <1>3, <1>4 DEF Sound, ReadsInTurn
<1>9. h.type \in Writes =>
        /\ none(q, Writes)
        /\ t.writing = NoWrite
        /\ t.m_state = "RUNNING" => t.m_writeQueue # <<>>
  BY <1>2, <1>3 DEF Sound, WritesInTurn
<1>10. h.type \notin Writes /\ Flows(s) => Flows(t)
  BY <1>2, <1>3 DEF Flows
<1>11. none(s.strand, Stops) <=> none(q, Stops) /\ h.type # "stop"
  BY <1>2 DEF Stops
<1>12. Sound(t)
  BY <1>3, <1>5, <1>6, <1>7 DEF Sound
<1>13. t = [s EXCEPT !.strand = Tail(@)]
  BY DEF t, q
<1> QED
  BY <1>2, <1>3, <1>8, <1>9, <1>10, <1>11, <1>12, <1>13 DEF h

\* A write that went well: the next one starts, or it was the last.
LEMMA Written ==
  ASSUME NEW s, Sound(s), none(s.strand, Writes), s.writing = NoWrite,
         s.m_state = "RUNNING" => s.m_writeQueue # <<>>
  PROVE  LET t == written(s)
         IN  /\ Sound(t)
             /\ t.strand = s.strand
             /\ t.m_state = s.m_state
             /\ ~t.aborting => Flows(t)
<1> DEFINE queue == s.m_writeQueue
           t == written(s)
           popped == [s EXCEPT !.m_writeQueue = Tail(queue)]
<1>1. s \in SessionRecord /\ queue \in Seq(OutboundWrite)
  BY Types DEF Sound
<1>2. CASE queue = <<>>
  <2>1. /\ t \in SessionRecord
        /\ SameConnection(s, t)
        /\ t.m_writeQueue = queue
        /\ t.writing = s.writing
        /\ t.m_state = "STOPPED"
    BY <1>1, <1>2, Types DEF written, SessionRecord, SameConnection
  <2> QED
    BY <1>2, <2>1
    DEF Sound, ReadsInTurn, WritesInTurn, Stopped, Flows, SameConnection
<1>3. CASE queue # <<>>
  <2>1. /\ Tail(queue) \in Seq(OutboundWrite)
        /\ Len(Tail(queue)) <= Len(queue)
        /\ Len(Tail(queue)) <= MaxWriteQueueLength
    <3>1. /\ Tail(queue) \in Seq(OutboundWrite)
          /\ Len(Tail(queue)) = Len(queue) - 1
          /\ Len(queue) \in Nat
      BY <1>1, <1>3, HeadTailProperties, LenProperties
    <3>2. Len(queue) <= MaxWriteQueueLength
      BY DEF Sound, WritesInTurn
    <3> QED
      BY <3>1, <3>2, QueueAssumption
  <2> DEFINE rest == Tail(queue)
             turn == IF Head(queue) = "refusal"
                     THEN [popped EXCEPT !.m_terminalWriteQueued = FALSE]
                     ELSE popped
  <2>2. t = IF Head(queue) = "refusal" THEN abortSession(turn)
            ELSE doWrite(turn)
    BY <1>3 DEF written
  <2> HIDE DEF rest
  <2>3. /\ turn \in SessionRecord
        /\ SameConnection(s, turn)
        /\ turn.m_writeQueue = rest
        /\ turn.writing = s.writing
        /\ turn.undefined = s.undefined
    BY <1>1, <2>1 DEF SessionRecord, SameConnection, rest
  <2>4. s.m_state = "RUNNING"
    BY <1>1, <1>3, Types DEF Sound, Stopped
  <2> HIDE DEF turn, popped, t
  <2>5. /\ t \in SessionRecord
        /\ SameConnection(s, t)
        /\ t.m_writeQueue = rest
        /\ t.undefined = s.undefined
        /\ t.writing = NoWrite \/ (rest # <<>> /\ t.writing = Head(rest))
        /\ ~t.aborting => rest = <<>> \/ t.writing # NoWrite
    <3>1. CASE Head(queue) = "refusal"
      BY <2>2, <2>3, <2>4, <3>1, Aborting DEF SameConnection
    <3>2. CASE Head(queue) # "refusal"
      BY <2>2, <2>3, <3>2, Writing DEF SameConnection
    <3> QED
      BY <3>1, <3>2
  <2>6. Len(rest) <= MaxWriteQueueLength
    BY <2>1 DEF rest
  <2>7. WritesInTurn(t)
    BY <2>5, <2>6 DEF Sound, WritesInTurn, SameConnection
  <2>8. ReadsInTurn(t) /\ Stopped(t) /\ (t.left => t.m_state = "STOPPED")
    BY <2>4, <2>5 DEF Sound, ReadsInTurn, Stopped, SameConnection
  <2>9. ~t.aborting => Flows(t)
    BY <2>5 DEF Flows
  <2> QED
    BY <2>5, <2>7, <2>8, <2>9 DEF Sound, SameConnection, t
<1> QED
  BY <1>2, <1>3

\* A message that is dispatched adds one late request at most.
LEMMA Dispatched ==
  ASSUME NEW s, Sound(s), NEW message
  PROVE  LET t == dispatch(s, message)
         IN  /\ t \in SessionRecord
             /\ t.strand = s.strand
             /\ t.reading = s.reading
             /\ t.left = s.left
             /\ t.m_state = s.m_state
             /\ \/ t.lateRequests = s.lateRequests
                \/ s.left /\ t.lateRequests = s.lateRequests + 1
             /\ WritesInTurn(t)
             /\ Stopped(t)
             /\ Flows(s) => Flows(t)
<1> DEFINE t == dispatch(s, message)
           Kind(u) ==
             /\ u \in SessionRecord
             /\ SameConnection(s, u)
             /\ WritesInTurn(u)
             /\ Stopped(u)
             /\ Flows(s) => Flows(u)
<1>1. s \in SessionRecord /\ WritesInTurn(s) /\ Stopped(s)
  BY DEF Sound
<1>2. Kind(s)
  BY <1>1 DEF SameConnection
<1>3. Kind(abortSession(s))
  BY <1>1, Aborting DEF WritesInTurn, Stopped, SameConnection, Flows
<1>4. Kind(send(s, "refusal", "Overwrite"))
  BY <1>1, Sent DEF OutboundWrite
<1>5. Kind(login(s))
  <2> DEFINE u == [s EXCEPT !.m_sessionState = "IDLE"]
  <2>1. /\ u \in SessionRecord
        /\ SameConnection(s, u)
        /\ u.m_writeQueue = s.m_writeQueue
        /\ u.writing = s.writing
        /\ u.undefined = s.undefined
    BY <1>1 DEF SessionRecord, SameConnection
  <2>2. login(s) = send(u, "message", "Append")
    BY DEF login
  <2> HIDE DEF u
  <2>3. WritesInTurn(u) /\ Stopped(u) /\ (Flows(s) => Flows(u))
    BY <1>1, <2>1 DEF WritesInTurn, Stopped, Flows, SameConnection
  <2>4. /\ send(u, "message", "Append") \in SessionRecord
        /\ SameConnection(u, send(u, "message", "Append"))
        /\ WritesInTurn(send(u, "message", "Append"))
        /\ Stopped(send(u, "message", "Append"))
        /\ Flows(u) => Flows(send(u, "message", "Append"))
    BY <2>1, <2>3, Sent DEF OutboundWrite
  <2> QED
    BY <2>1, <2>2, <2>3, <2>4 DEF SameConnection
<1>6. LET u == postRequest(s)
      IN  /\ u \in SessionRecord
          /\ u.strand = s.strand
          /\ u.reading = s.reading
          /\ u.left = s.left
          /\ u.m_state = s.m_state
          /\ \/ u.lateRequests = s.lateRequests
             \/ s.left /\ u.lateRequests = s.lateRequests + 1
          /\ WritesInTurn(u)
          /\ Stopped(u)
          /\ Flows(s) => Flows(u)
  <2>1. CASE s.left
    <3> DEFINE n == s.lateRequests + 1
               u == [s EXCEPT !.lateRequests = n]
    <3>1. n \in Nat
      BY <1>1, Types
    <3>2. postRequest(s) = u
      BY <2>1 DEF postRequest
    <3> HIDE DEF n
    <3>3. /\ u \in SessionRecord
          /\ u.strand = s.strand
          /\ u.reading = s.reading
          /\ u.left = s.left
          /\ u.m_state = s.m_state
          /\ u.socketOpen = s.socketOpen
          /\ u.lateRequests = n
          /\ u.m_writeQueue = s.m_writeQueue
          /\ u.writing = s.writing
          /\ u.undefined = s.undefined
      BY <1>1, <3>1 DEF SessionRecord
    <3> HIDE DEF u
    <3>4. WritesInTurn(u) /\ Stopped(u) /\ (Flows(s) => Flows(u))
      BY <1>1, <3>3 DEF WritesInTurn, Stopped, Flows
    <3> QED
      BY <2>1, <3>2, <3>3, <3>4 DEF n
  <2>2. CASE ~s.left
    BY <1>1, <2>2 DEF postRequest
  <2> QED
    BY <2>1, <2>2
<1> HIDE DEF Kind
<1>7. t \in {s, abortSession(s), send(s, "refusal", "Overwrite"), login(s),
            postRequest(s)}
  <2>1. \/ message = "malformed"
        \/ message = "login" /\ loggedIn(s)
        \/ message = "login" /\ ~loggedIn(s)
        \/ message = "badLogin" /\ loggedIn(s)
        \/ message = "badLogin" /\ ~loggedIn(s)
        \/ message = "request" /\ loggedIn(s)
        \/ message = "request" /\ ~loggedIn(s)
        \/ message = "globalChat" /\ loggedIn(s)
        \/ message = "globalChat" /\ ~loggedIn(s)
        \/ message \notin
             {"malformed", "login", "badLogin", "request", "globalChat"}
    OBVIOUS
  <2> QED
    BY <2>1 DEF dispatch, loggedIn
<1>8. CASE t = postRequest(s)
  BY <1>6, <1>8
<1>9. CASE Kind(t)
  BY <1>9 DEF Kind, SameConnection
<1> QED
  BY <1>2, <1>3, <1>4, <1>5, <1>7, <1>8, <1>9

\* A session after a read's handler, which has asked for the next part or not.
LEMMA ReadOn ==
  ASSUME NEW s, Sound(s), none(s.strand, Reads), s.reading = "none",
         NEW next \in {"header", "body"},
         s.lateRequests > 0 => next = "header",
         NEW d \in SessionRecord,
         d.strand = s.strand, d.left = s.left, d.m_state = s.m_state,
         \/ d.lateRequests = s.lateRequests
         \/ s.left /\ d.lateRequests = s.lateRequests + 1
                   /\ s.lateRequests = 0 /\ next = "header",
         WritesInTurn(d), Stopped(d), Flows(s) => Flows(d)
  PROVE  LET t == [d EXCEPT !.reading = next]
         IN  /\ Sound(t)
             /\ t.strand = s.strand
             /\ t.m_state = s.m_state
             /\ Flows(s) => Flows(t)
<1> DEFINE t == [d EXCEPT !.reading = next]
<1>1. /\ t \in SessionRecord
      /\ t.strand = d.strand
      /\ t.m_state = d.m_state
      /\ t.left = d.left
      /\ t.lateRequests = d.lateRequests
      /\ t.reading = next
      /\ t.m_writeQueue = d.m_writeQueue
      /\ t.writing = d.writing
      /\ t.undefined = d.undefined
      /\ t.socketOpen = d.socketOpen
  BY DEF SessionRecord
<1> HIDE DEF t
<1>2. WritesInTurn(t) /\ Stopped(t) /\ (Flows(d) => Flows(t))
  BY <1>1 DEF WritesInTurn, Stopped, Flows
<1>3. alone(t.strand, Reads) /\ none(t.strand, Reads)
  BY <1>1 DEF none, alone
<1>4. noMoreMessages(t.strand)
  BY <1>3 DEF none, noMoreMessages
<1>5. s.lateRequests \in Nat /\ d.lateRequests \in Nat
  BY Types DEF Sound
<1>6. ReadsInTurn(t)
  BY <1>1, <1>3, <1>4, <1>5 DEF Sound, ReadsInTurn
<1> QED
  BY <1>1, <1>2, <1>6 DEF Sound, t

\* What runs on the strand leaves the session sound, and in the map if it was
\* there, unless it asks to be removed.
LEMMA Ran ==
  ASSUME NEW s, Sound(s), s.strand # <<>>
  PROVE  LET t == runNext(s)
         IN  /\ Sound(t)
             /\ \A isListed \in BOOLEAN :
                  Registered(s, isListed) /\ (isListed => ~t.aborting) =>
                      Registered(t, isListed)
<1> DEFINE r == [s EXCEPT !.strand = Tail(@)]
           h == Head(s.strand)
           t == run(r, h)
<1>1. runNext(s) = t
  BY DEF runNext
<1>2. /\ Sound(r)
      /\ r.m_state = s.m_state
      /\ h \in Handler
      /\ h.type \in Reads =>
           /\ none(r.strand, Reads)
           /\ r.reading = "none"
           /\ \/ r.lateRequests = 0
              \/ h.type = "header" /\ ~h.ok
      /\ h.type \in Writes =>
           /\ none(r.strand, Writes)
           /\ r.writing = NoWrite
           /\ r.m_state = "RUNNING" => r.m_writeQueue # <<>>
      /\ h.type \notin Writes /\ Flows(s) => Flows(r)
      /\ none(s.strand, Stops) <=> none(r.strand, Stops) /\ h.type # "stop"
  BY Taken
<1>3. r \in SessionRecord
  BY <1>2 DEF Sound
<1> HIDE DEF r, h
<1>4. \/ h.type \in {"stop", "send"}
      \/ h.type \in {"header", "body", "written"} /\ h.ok \in BOOLEAN
  BY <1>2 DEF Handler
<1> SUFFICES /\ Sound(t)
             /\ \A isListed \in BOOLEAN :
                  Registered(s, isListed) /\ (isListed => ~t.aborting) =>
                      Registered(t, isListed)
  BY <1>1
\* An aborted session differs from the one before in nothing else.
<1>5. ASSUME t = abortSession(r)
      PROVE  /\ Sound(t)
             /\ t.strand = r.strand
             /\ t.m_state = r.m_state
             /\ t.aborting <=> r.m_state = "RUNNING"
             /\ Flows(r) => Flows(t)
  BY <1>2, <1>3, <1>5, Aborting
  DEF Sound, ReadsInTurn, WritesInTurn, Stopped, SameConnection, Flows
\* What is left to show of every handler but a stop.
<1>6. ASSUME Sound(t), t.strand = r.strand, t.m_state = r.m_state,
             h.type # "stop",
             ~t.aborting /\ r.m_state = "RUNNING" =>
                 \/ Flows(t)
                 \/ (Flows(r) => Flows(t)) /\ h.type \notin Writes
      PROVE  /\ Sound(t)
             /\ \A isListed \in BOOLEAN :
                  Registered(s, isListed) /\ (isListed => ~t.aborting) =>
                      Registered(t, isListed)
  BY <1>2, <1>6 DEF Registered
<1>7. CASE h.type = "stop"
  <2>1. t = stop(r)
    BY <1>7 DEF run
  <2>2. Sound(t) /\ t.m_state = "STOPPED"
    BY <1>2, <2>1, Stopping
  <2> QED
    BY <1>2, <1>7, <2>2 DEF Registered
<1>8. CASE h.type = "send"
  <2>1. t = send(r, "message", "Append")
    BY <1>8 DEF run
  <2>2. WritesInTurn(r) /\ Stopped(r)
    BY <1>2 DEF Sound
  <2>3. /\ t \in SessionRecord
        /\ SameConnection(r, t)
        /\ WritesInTurn(t)
        /\ Stopped(t)
        /\ Flows(r) => Flows(t)
    BY <1>3, <2>1, <2>2, Sent DEF OutboundWrite
  <2>4. Sound(t)
    BY <1>2, <2>3 DEF Sound, ReadsInTurn, SameConnection
  <2> HIDE DEF t
  <2> QED
    BY <1>6, <1>8, <2>3, <2>4 DEF SameConnection, Writes
<1>9. CASE h.type = "header" /\ h.ok
  <2>1. t = [r EXCEPT !.reading = "body"]
    BY <1>9 DEF run, headerRead
  <2>2. /\ none(r.strand, Reads)
        /\ r.reading = "none"
        /\ r.lateRequests = 0
    BY <1>2, <1>9 DEF Reads
  <2>3. /\ Sound(t)
        /\ t.strand = r.strand
        /\ t.m_state = r.m_state
        /\ Flows(r) => Flows(t)
    <3>1. WritesInTurn(r) /\ Stopped(r)
      BY <1>2 DEF Sound
    <3> QED
      BY <1>2, <1>3, <2>1, <2>2, <3>1, ReadOn
  <2> HIDE DEF t
  <2> QED
    BY <1>6, <1>9, <2>3 DEF Writes
<1>10. CASE h.type = "body" /\ h.ok
  <2> DEFINE d == dispatch(r, h.message)
  <2>1. t = [d EXCEPT !.reading = "header"]
    BY <1>10 DEF run, bodyRead
  <2>2. /\ none(r.strand, Reads)
        /\ r.reading = "none"
        /\ r.lateRequests = 0
    BY <1>2, <1>10 DEF Reads
  <2>3. /\ d \in SessionRecord
        /\ d.strand = r.strand
        /\ d.left = r.left
        /\ d.m_state = r.m_state
        /\ \/ d.lateRequests = r.lateRequests
           \/ r.left /\ d.lateRequests = r.lateRequests + 1
        /\ WritesInTurn(d)
        /\ Stopped(d)
        /\ Flows(r) => Flows(d)
    BY <1>2, <1>10, Dispatched
  <2> HIDE DEF d
  <2>4. /\ Sound(t)
        /\ t.strand = r.strand
        /\ t.m_state = r.m_state
        /\ Flows(r) => Flows(t)
    BY <1>2, <2>1, <2>2, <2>3, ReadOn
  <2> HIDE DEF t
  <2> QED
    BY <1>6, <1>10, <2>4 DEF Writes
<1>11. CASE h.type = "written" /\ h.ok
  <2>1. t = written(r)
    BY <1>11 DEF run
  <2>2. /\ Sound(t)
        /\ t.strand = r.strand
        /\ t.m_state = r.m_state
        /\ ~t.aborting => Flows(t)
    BY <1>2, <1>11, <2>1, Written DEF Writes
  <2> HIDE DEF t
  <2> QED
    BY <1>6, <1>11, <2>2
<1>12. CASE h.type \in {"header", "body", "written"} /\ ~h.ok
  <2>1. t = abortSession(r)
    BY <1>12 DEF run, headerRead, bodyRead
  <2> HIDE DEF t
  <2> QED
    BY <1>5, <1>6, <1>12, <2>1
<1> QED
  BY <1>4, <1>7, <1>8, <1>9, <1>10, <1>11, <1>12

\* A chat does nothing to the session but ask for the next header.
LEMMA Chatted ==
  ASSUME NEW s, Sound(s), s.strand # <<>>, loggedIn(s),
         Head(s.strand).type = "body", Head(s.strand).ok,
         Head(s.strand).message = "globalChat"
  PROVE  LET t == runNext(s)
         IN  /\ Sound(t)
             /\ \A isListed \in BOOLEAN :
                  Registered(s, isListed) => Registered(t, isListed)
<1> DEFINE r == [s EXCEPT !.strand = Tail(@)]
           h == Head(s.strand)
           t == runNext(s)
<1>1. /\ Sound(r)
      /\ r.m_state = s.m_state
      /\ none(r.strand, Reads)
      /\ r.reading = "none"
      /\ r.lateRequests = 0
      /\ Flows(s) => Flows(r)
      /\ none(s.strand, Stops) <=> none(r.strand, Stops)
  BY Taken DEF Reads, Writes
<1>2. loggedIn(r)
  BY DEF loggedIn, Sound, SessionRecord
<1>3. t = run(r, h)
  BY DEF runNext
<1> HIDE DEF r
<1>4. dispatch(r, "globalChat") = r
  BY <1>2 DEF dispatch
<1>5. t = [r EXCEPT !.reading = "header"]
  BY <1>3, <1>4 DEF run, bodyRead
<1>6. r \in SessionRecord /\ WritesInTurn(r) /\ Stopped(r)
  BY <1>1 DEF Sound
<1>7. /\ Sound(t)
      /\ t.strand = r.strand
      /\ t.m_state = r.m_state
      /\ Flows(r) => Flows(t)
  BY <1>1, <1>5, <1>6, ReadOn
<1> HIDE DEF t
<1>8. \A isListed \in BOOLEAN :
        Registered(s, isListed) => Registered(t, isListed)
  BY <1>1, <1>7 DEF Registered
<1> QED
  BY <1>7, <1>8 DEF t

\* Once the manager has answered, nothing is asked for any more.
LEMMA Answered ==
  ASSUME NEW s, Sound(s)
  PROVE  LET t == [s EXCEPT !.aborting = FALSE]
         IN  /\ Sound(t)
             /\ \A isListed \in BOOLEAN :
                  Registered(s, isListed) => Registered(t, isListed)
<1> DEFINE t == [s EXCEPT !.aborting = FALSE]
<1>1. s \in SessionRecord
  BY DEF Sound
<1>2. /\ t \in SessionRecord
      /\ SameConnection(s, t)
      /\ t.m_writeQueue = s.m_writeQueue
      /\ t.writing = s.writing
      /\ t.undefined = s.undefined
  BY <1>1 DEF SessionRecord, SameConnection
<1> HIDE DEF t
<1>3. Sound(t)
  BY <1>2 DEF Sound, ReadsInTurn, WritesInTurn, Stopped, SameConnection
<1>4. \A isListed \in BOOLEAN :
        Registered(s, isListed) => Registered(t, isListed)
  BY <1>2 DEF Registered, Flows, SameConnection
<1> QED
  BY <1>3, <1>4 DEF t

LEMMA Created ==
  Sound(newSession) /\ Registered(newSession, TRUE)
<1> DEFINE s == newSession
<1>1. /\ <<>> \in Seq(OutboundWrite)
      /\ <<>> \in Seq(Handler)
      /\ Len(<<>>) = 0
      /\ DOMAIN <<>> = {}
  BY EmptySeq
<1>2. /\ s \in SessionRecord
      /\ s.strand = <<>>
      /\ s.m_writeQueue = <<>>
      /\ s.writing = NoWrite
      /\ s.lateRequests = 0
      /\ s.m_state = "RUNNING"
      /\ ~s.undefined
      /\ ~s.left
  BY <1>1 DEF newSession, SessionRecord
<1>3. \A types : none(<<>>, types) /\ alone(<<>>, types)
  BY <1>1 DEF none, alone
<1> HIDE DEF s
<1>4. ReadsInTurn(s)
  BY <1>2, <1>3 DEF ReadsInTurn
<1>5. WritesInTurn(s)
  BY <1>1, <1>2, <1>3, QueueAssumption DEF WritesInTurn
<1>6. Sound(s)
  BY <1>2, <1>4, <1>5 DEF Sound, Stopped
<1>7. Registered(s, TRUE)
  BY <1>2, <1>3 DEF Registered, Flows
<1> QED
  BY <1>6, <1>7 DEF s

\* A handler of another thread waits for the strand.
LEMMA Waits ==
  ASSUME NEW s, Sound(s), NEW type \in {"stop", "send"}
  PROVE  LET t == enqueue(s, [type |-> type])
         IN  /\ Sound(t)
             /\ t.m_writeQueue = s.m_writeQueue
             /\ type = "stop" => Registered(t, FALSE)
             /\ type = "send" =>
                  \A isListed \in BOOLEAN :
                      Registered(s, isListed) => Registered(t, isListed)
<1> DEFINE h == [type |-> type]
           t == enqueue(s, h)
<1>1. s \in SessionRecord /\ s.strand \in Seq(Handler)
  BY Types DEF Sound
<1>2. h \in Handler /\ h.type = type
  BY DEF Handler
<1> HIDE DEF h
<1>3. /\ t \in SessionRecord
      /\ t = [s EXCEPT !.strand = t.strand]
      /\ t.strand = Append(s.strand, h)
  BY <1>1, <1>2, Enqueued
<1>4. /\ t.m_state = s.m_state /\ t.m_writeQueue = s.m_writeQueue
      /\ t.writing = s.writing /\ t.undefined = s.undefined
      /\ t.reading = s.reading /\ t.lateRequests = s.lateRequests
      /\ t.left = s.left /\ t.socketOpen = s.socketOpen
  BY <1>1, <1>3 DEF SessionRecord
<1> HIDE DEF t
<1>5. /\ \A types :
           /\ none(t.strand, types) <=>
                none(s.strand, types) /\ type \notin types
           /\ alone(s.strand, types) /\ type \notin types =>
                alone(t.strand, types)
      /\ noMoreMessages(s.strand) => noMoreMessages(t.strand)
  BY <1>1, <1>2, <1>3, Appended DEF Reads
<1>6. type \notin Reads /\ type \notin Writes
  BY DEF Reads, Writes
<1>7. ReadsInTurn(t) /\ WritesInTurn(t)
  BY <1>4, <1>5, <1>6 DEF Sound, ReadsInTurn, WritesInTurn
<1>8. Sound(t)
  BY <1>3, <1>4, <1>7 DEF Sound, Stopped
<1>9. Flows(s) => Flows(t)
  BY <1>4, <1>5, <1>6 DEF Flows
<1>10. type = "stop" => Registered(t, FALSE)
  BY <1>5 DEF Registered, Stops
<1>11. type = "send" =>
         \A isListed \in BOOLEAN :
             Registered(s, isListed) => Registered(t, isListed)
  BY <1>4, <1>5, <1>9 DEF Registered, Stops
<1> QED
  BY <1>4, <1>8, <1>10, <1>11 DEF t, h

LEMMA ReadCompleted ==
  ASSUME NEW s, Sound(s), s.reading # "none", NEW result \in readResults(s)
  PROVE  LET t == readCompletes(s, result)
         IN  /\ Sound(t)
             /\ t.m_writeQueue = s.m_writeQueue
             /\ \A isListed \in BOOLEAN :
                  Registered(s, isListed) => Registered(t, isListed)
<1> DEFINE r == [s EXCEPT !.reading = "none"]
           t == enqueue(r, result)
<1>1. s \in SessionRecord /\ s.strand \in Seq(Handler)
  BY Types DEF Sound
<1>2. /\ r \in SessionRecord
      /\ r.strand = s.strand
      /\ r = [s EXCEPT !.reading = "none"]
  BY <1>1 DEF SessionRecord
<1>3. /\ result \in Handler
      /\ result.type = s.reading
      /\ result.type \in Reads
      /\ \/ ~result.ok
         \/ s.socketOpen \/ result.type = "body"
  <2>1. s.reading \in {"header", "body"}
    BY <1>1, Types
  <2>2. CASE result = [type |-> s.reading, ok |-> FALSE, message |-> NoMessage]
    BY <2>1, <2>2 DEF Handler, Reads
  <2>3. CASE /\ result \in [type : {s.reading}, ok : {TRUE},
                            message : IF s.reading = "body" THEN Incoming
                                      ELSE {NoMessage}]
             /\ s.socketOpen \/ result.message \in Bodiless
    <3>1. NoMessage \notin Bodiless
      BY DEF NoMessage, Bodiless
    <3>2. CASE s.reading = "body"
      BY <2>3, <3>2 DEF Handler, Reads
    <3>3. CASE s.reading = "header"
      BY <2>3, <3>1, <3>3 DEF Handler, Reads
    <3> QED
      BY <2>1, <3>2, <3>3
  <2> QED
    BY <2>2, <2>3 DEF readResults
<1> HIDE DEF r
<1>4. /\ t \in SessionRecord
      /\ t = [r EXCEPT !.strand = t.strand]
      /\ t.strand = Append(s.strand, result)
  BY <1>2, <1>3, Enqueued
<1> HIDE DEF t
<1>5. /\ t.m_state = s.m_state /\ t.m_writeQueue = s.m_writeQueue
      /\ t.writing = s.writing /\ t.undefined = s.undefined
      /\ t.reading = "none" /\ t.lateRequests = s.lateRequests
      /\ t.left = s.left /\ t.socketOpen = s.socketOpen
  <2>1. /\ r.m_state = s.m_state /\ r.m_writeQueue = s.m_writeQueue
        /\ r.writing = s.writing /\ r.undefined = s.undefined
        /\ r.reading = "none" /\ r.lateRequests = s.lateRequests
        /\ r.left = s.left /\ r.socketOpen = s.socketOpen
    BY <1>1, <1>2 DEF SessionRecord
  <2> QED
    BY <1>2, <1>4, <2>1 DEF SessionRecord
<1>6. /\ \A types :
           /\ none(t.strand, types) <=>
                none(s.strand, types) /\ result.type \notin types
           /\ alone(s.strand, types)
                /\ (none(s.strand, types) \/ result.type \notin types) =>
                alone(t.strand, types)
      /\ noMoreMessages(s.strand)
           /\ (result.type = "header" /\ ~result.ok) =>
           noMoreMessages(t.strand)
  BY <1>1, <1>3, <1>4, Appended
<1>7. result.type \notin Writes /\ result.type \notin Stops
  BY <1>3 DEF Reads, Writes, Stops
<1>8. ReadsInTurn(t)
  <2>1. s.lateRequests > 0 => result.type = "header" /\ ~result.ok
    BY <1>1, <1>3, Types DEF Sound, ReadsInTurn, Stopped, Reads
  <2> QED
    BY <1>3, <1>5, <1>6, <2>1 DEF Sound, ReadsInTurn
<1>9. WritesInTurn(t)
  BY <1>5, <1>6, <1>7 DEF Sound, WritesInTurn
<1>10. Sound(t)
  BY <1>4, <1>5, <1>8, <1>9 DEF Sound, Stopped
<1>11. \A isListed \in BOOLEAN :
         Registered(s, isListed) => Registered(t, isListed)
  BY <1>5, <1>6, <1>7 DEF Registered, Flows
<1>12. readCompletes(s, result) = t
  BY DEF readCompletes, t, r
<1> QED
  BY <1>5, <1>10, <1>11, <1>12

LEMMA WriteCompleted ==
  ASSUME NEW s, Sound(s), s.writing # NoWrite, NEW ok \in BOOLEAN
  PROVE  LET t == writeCompletes(s, ok)
         IN  /\ Sound(t)
             /\ t.m_writeQueue = s.m_writeQueue
             /\ \A isListed \in BOOLEAN :
                  Registered(s, isListed) => Registered(t, isListed)
<1> DEFINE r == [s EXCEPT !.writing = NoWrite]
           h == [type |-> "written", ok |-> ok, message |-> NoMessage]
           t == enqueue(r, h)
<1>1. s \in SessionRecord /\ s.strand \in Seq(Handler)
  BY Types DEF Sound
<1>2. /\ r \in SessionRecord
      /\ r.strand = s.strand
      /\ r = [s EXCEPT !.writing = NoWrite]
  BY <1>1 DEF SessionRecord
<1>3. h \in Handler /\ h.type = "written"
  BY DEF Handler
<1> HIDE DEF r, h
<1>4. /\ t \in SessionRecord
      /\ t = [r EXCEPT !.strand = t.strand]
      /\ t.strand = Append(s.strand, h)
  BY <1>2, <1>3, Enqueued
<1> HIDE DEF t
<1>5. /\ t.m_state = s.m_state /\ t.m_writeQueue = s.m_writeQueue
      /\ t.writing = NoWrite /\ t.undefined = s.undefined
      /\ t.reading = s.reading /\ t.lateRequests = s.lateRequests
      /\ t.left = s.left /\ t.socketOpen = s.socketOpen
  <2>1. /\ r.m_state = s.m_state /\ r.m_writeQueue = s.m_writeQueue
        /\ r.writing = NoWrite /\ r.undefined = s.undefined
        /\ r.reading = s.reading /\ r.lateRequests = s.lateRequests
        /\ r.left = s.left /\ r.socketOpen = s.socketOpen
    BY <1>1, <1>2 DEF SessionRecord
  <2> QED
    BY <1>2, <1>4, <2>1 DEF SessionRecord
<1>6. /\ \A types :
           /\ none(t.strand, types) <=>
                none(s.strand, types) /\ "written" \notin types
           /\ alone(s.strand, types)
                /\ (none(s.strand, types) \/ "written" \notin types) =>
                alone(t.strand, types)
      /\ noMoreMessages(s.strand) => noMoreMessages(t.strand)
  BY <1>1, <1>3, <1>4, Appended DEF Reads
<1>7. ReadsInTurn(t)
  BY <1>5, <1>6 DEF Sound, ReadsInTurn, Reads
<1>8. WritesInTurn(t)
  BY <1>5, <1>6 DEF Sound, WritesInTurn
<1>9. Sound(t)
  BY <1>4, <1>5, <1>7, <1>8 DEF Sound, Stopped
<1>10. \A isListed \in BOOLEAN :
         Registered(s, isListed) => Registered(t, isListed)
  <2>1. ~none(t.strand, Writes)
    BY <1>6 DEF Writes
  <2> QED
    BY <1>5, <1>6, <2>1 DEF Registered, Flows, Stops
<1>11. writeCompletes(s, ok) = t
  BY DEF writeCompletes, t, r, h
<1> QED
  BY <1>5, <1>9, <1>10, <1>11

(*************************************************************************)
(* Part 2: the manager                                                   *)
(*************************************************************************)

\* Sessions and indexes point to each other.
Mapped(map) ==
    /\ map.m_sessions \in Seq(Nat)
    /\ \A i \in DOMAIN map.m_sessions :
         /\ map.m_sessions[i] \in DOMAIN map.m_idToIndex
         /\ map.m_idToIndex[map.m_sessions[i]] = i
    /\ \A id \in DOMAIN map.m_idToIndex :
         /\ map.m_idToIndex[id] \in DOMAIN map.m_sessions
         /\ map.m_sessions[map.m_idToIndex[id]] = id

-----------------------------------------------------------------------------
(* Removing all sessions *)

\* Induction for a set of numbers: of the numbers up to a counterexample, the
\* successors of those in the set would be as many, and without zero.
LEMMA Induction ==
  ASSUME NEW T, 0 \in T, \A n \in Nat : n \in T => n + 1 \in T
  PROVE  Nat \subseteq T
<1> SUFFICES ASSUME NEW n \in Nat, n \notin T PROVE FALSE
  OBVIOUS
<1> DEFINE D == T \cap (0 .. n)
           next == [i \in D |-> i + 1]
<1>1. IsFiniteSet(D)
  <2>1. IsFiniteSet(0 .. n)
    BY FS_Interval
  <2>2. D \in SUBSET (0 .. n)
    OBVIOUS
  <2> HIDE DEF D
  <2> QED
    BY <2>1, <2>2, FS_Subset
<1>2. 0 \in D
  OBVIOUS
<1>3. next \in [D -> D \ {0}]
  <2> SUFFICES ASSUME NEW i \in D PROVE i + 1 \in D \ {0}
    OBVIOUS
  <2>1. i \in T /\ i \in Nat /\ i < n
    OBVIOUS
  <2>2. i + 1 \in T
    BY <2>1
  <2> QED
    BY <2>1, <2>2
<1>4. \A i \in D : i \in Nat /\ next[i] = i + 1
  OBVIOUS
<1> HIDE DEF D, next
<1>5. /\ IsFiniteSet(D \ {0})
      /\ Cardinality(D \ {0}) = Cardinality(D) - 1
      /\ Cardinality(D) \in Nat
  BY <1>1, <1>2, FS_RemoveElement, FS_CardinalityType
<1>6. \E i, j \in D : i # j /\ next[i] = next[j]
  BY <1>1, <1>3, <1>5, FS_PigeonHole
<1> QED
  BY <1>4, <1>6

LEMMA SwapAndPop ==
  ASSUME NEW map, Mapped(map), NEW id \in DOMAIN map.m_idToIndex
  PROVE  LET rest == swapAndPop(map, id)
         IN  /\ Mapped(rest)
             /\ DOMAIN rest.m_idToIndex = DOMAIN map.m_idToIndex \ {id}
             /\ Len(rest.m_sessions) = Len(map.m_sessions) - 1
<1> DEFINE s == map.m_sessions
           x == map.m_idToIndex
           index == x[id]
           last == Len(s)
           moved == s[last]
           r == Front([s EXCEPT ![index] = moved])
           y == [other \in DOMAIN x \ {id} |->
                    IF other = moved THEN index ELSE x[other]]
<1>1. swapAndPop(map, id) = [m_sessions |-> r, m_idToIndex |-> y]
  BY DEF swapAndPop
<1>2. /\ s \in Seq(Nat)
      /\ last \in Nat
      /\ id \in DOMAIN x
      /\ DOMAIN s = 1 .. last
      /\ \A i \in DOMAIN s : s[i] \in DOMAIN x /\ x[s[i]] = i /\ s[i] \in Nat
      /\ \A other \in DOMAIN x : x[other] \in DOMAIN s /\ s[x[other]] = other
  BY LenProperties DEF Mapped
<1> HIDE DEF s, x
<1>3. /\ index \in 1 .. last
      /\ s[index] = id
      /\ last \in 1 .. last
      /\ moved \in DOMAIN x
      /\ moved \in Nat
      /\ x[moved] = last
      /\ moved = s[last]
  <2>1. index \in DOMAIN s /\ s[index] = id
    BY <1>2
  <2>2. last \in DOMAIN s
    BY <1>2, <2>1
  <2> QED
    BY <1>2, <2>1, <2>2
<1>4. /\ DOMAIN y = DOMAIN x \ {id}
      /\ \A other \in DOMAIN x \ {id} :
           y[other] = IF other = moved THEN index ELSE x[other]
  OBVIOUS
<1> HIDE DEF y, index, moved, last
<1>5. /\ r \in Seq(Nat)
      /\ Len(r) = last - 1
      /\ DOMAIN r = 1 .. last - 1
      /\ \A i \in 1 .. last - 1 : r[i] = IF i = index THEN moved ELSE s[i]
  <2> DEFINE e == [s EXCEPT ![index] = moved]
  <2>1. /\ e \in Seq(Nat)
        /\ Len(e) = last
        /\ \A i \in 1 .. last : e[i] = IF i = index THEN moved ELSE s[i]
    BY <1>2, <1>3, ExceptSeq DEF last
  <2>2. \A i \in 1 .. last - 1 : e[i] \in Nat
    BY <1>2, <1>3, <2>1
  <2> DEFINE q == SubSeq(e, 1, last - 1)
  <2> HIDE DEF e
  <2>3. last - 1 \in Nat /\ (last - 1) - 1 + 1 = last - 1
    BY <1>2, <1>3
  <2>4. /\ q \in Seq(Nat)
        /\ Len(q) = IF 1 <= last - 1 THEN (last - 1) - 1 + 1 ELSE 0
        /\ \A i \in 1 .. (last - 1) - 1 + 1 : q[i] = e[1 + i - 1]
    BY <2>2, <2>3, SubSeqProperties
  <2> HIDE DEF q
  <2>5. q = r
    BY <2>1 DEF q, e, Front
  <2>6. Len(q) = last - 1 /\ DOMAIN q = 1 .. last - 1
    BY <2>3, <2>4, LenProperties
  <2>7. \A i \in 1 .. last - 1 : q[i] = IF i = index THEN moved ELSE s[i]
    BY <2>1, <2>3, <2>4
  <2> QED
    BY <2>4, <2>5, <2>6, <2>7
<1> HIDE DEF r
<1>6. ASSUME NEW i \in 1 .. last - 1
      PROVE  r[i] \in DOMAIN x \ {id} /\ y[r[i]] = i
  <2>1. i \in DOMAIN s /\ i # last
    BY <1>2, <1>3
  <2>2. s[i] \in DOMAIN x /\ x[s[i]] = i
    BY <1>2, <2>1
  <2>3. CASE i = index
    <3>1. r[i] = moved /\ moved # id
      BY <1>2, <1>3, <1>5, <2>1, <2>3 DEF index
    <3> QED
      BY <1>3, <1>4, <2>3, <3>1
  <2>4. CASE i # index
    <3>1. r[i] = s[i] /\ s[i] # id /\ s[i] # moved
      BY <1>2, <1>3, <1>5, <2>1, <2>2, <2>4 DEF index
    <3> QED
      BY <1>4, <2>2, <3>1
  <2> QED
    BY <2>3, <2>4
<1>7. ASSUME NEW other \in DOMAIN x \ {id}
      PROVE  y[other] \in 1 .. last - 1 /\ r[y[other]] = other
  <2>1. x[other] \in 1 .. last /\ s[x[other]] = other
    BY <1>2
  <2>2. x[other] # index
    BY <1>3, <2>1
  <2>3. CASE other = moved
    <3>1. y[other] = index /\ index # last
      BY <1>3, <1>4, <2>2, <2>3
    <3>2. index \in 1 .. last - 1
      BY <1>2, <1>3, <3>1
    <3> QED
      BY <1>5, <2>3, <3>1, <3>2
  <2>4. CASE other # moved
    <3>1. y[other] = x[other] /\ x[other] # last
      BY <1>3, <1>4, <2>1, <2>4
    <3>2. x[other] \in 1 .. last - 1
      BY <1>2, <2>1, <3>1
    <3> QED
      BY <1>5, <2>1, <2>2, <3>1, <3>2
  <2> QED
    BY <2>3, <2>4
<1>8. /\ swapAndPop(map, id).m_sessions = r
      /\ swapAndPop(map, id).m_idToIndex = y
  BY <1>1
<1>9. Mapped(swapAndPop(map, id))
  BY <1>4, <1>5, <1>6, <1>7, <1>8 DEF Mapped
<1> QED
  BY <1>4, <1>5, <1>8, <1>9 DEF x, last, s

\* The recursive function is what its definition says.
LEMMA WithoutFirst ==
  ASSUME Len(registry.m_sessions) \in Nat
  PROVE  /\ withoutFirst[0] = registry
         /\ \A n \in 1 .. Len(registry.m_sessions) :
              withoutFirst[n] =
                  swapAndPop(withoutFirst[n - 1], registry.m_sessions[n])
<1> DEFINE N == Len(registry.m_sessions)
           Def(f, n) ==
             f = [k \in 0 .. n |-> IF k = 0 THEN registry
                                   ELSE swapAndPop(f[k - 1],
                                                   registry.m_sessions[k])]
           T == {n \in Nat : \E f : Def(f, n)}
<1>1. 0 \in T
  <2> DEFINE f == [k \in 0 .. 0 |-> registry]
  <2>1. Def(f, 0)
    OBVIOUS
  <2> QED
    BY <2>1
<1>2. \A n \in Nat : n \in T => n + 1 \in T
  <2> SUFFICES ASSUME NEW n \in Nat, n \in T PROVE n + 1 \in T
    <3> HIDE DEF T
    <3> QED
      OBVIOUS
  <2>0. PICK f : Def(f, n)
    OBVIOUS
  <2>1. \A k \in 0 .. n : f[k] = IF k = 0 THEN registry
                                ELSE swapAndPop(f[k - 1],
                                                registry.m_sessions[k])
    BY <2>0
  <2> DEFINE g == [k \in 0 .. n + 1 |->
                     IF k = n + 1
                     THEN swapAndPop(f[n], registry.m_sessions[n + 1])
                     ELSE f[k]]
             h == [k \in 0 .. n + 1 |-> IF k = 0 THEN registry
                                        ELSE swapAndPop(g[k - 1],
                                                 registry.m_sessions[k])]
  <2>2. \A k \in 0 .. n + 1 : g[k] = h[k]
    <3> TAKE k \in 0 .. n + 1
    <3>1. CASE k = n + 1
      <4>1. g[k] = swapAndPop(f[n], registry.m_sessions[n + 1])
        BY <3>1
      <4>2. k # 0 /\ k - 1 = n /\ n \in 0 .. n + 1 /\ n # n + 1
        BY <3>1
      <4>3. g[k - 1] = f[n]
        BY <4>2
      <4> QED
        BY <3>1, <4>1, <4>2, <4>3
    <3>2. CASE k = 0
      BY <2>1, <3>2
    <3>3. CASE k \in 1 .. n
      <4>1. k - 1 \in 0 .. n + 1 /\ k - 1 # n + 1 /\ k # n + 1 /\ k # 0
        BY <3>3
      <4>2. g[k] = f[k] /\ g[k - 1] = f[k - 1]
        BY <4>1
      <4>3. f[k] = swapAndPop(f[k - 1], registry.m_sessions[k])
        BY <2>1, <3>3
      <4>4. h[k] = swapAndPop(g[k - 1], registry.m_sessions[k])
        BY <4>1
      <4> QED
        BY <4>2, <4>3, <4>4
    <3> QED
      BY <3>1, <3>2, <3>3
  <2>3. g = h
    BY <2>2
  <2>4. Def(g, n + 1)
    BY <2>3
  <2> HIDE DEF Def, g, h
  <2> QED
    BY <2>4
<1>3. N \in T
  <2> HIDE DEF T
  <2> QED
    BY <1>1, <1>2, Induction
<1>4. PICK f : Def(f, N)
  BY <1>3
<1>5. Def(withoutFirst, N)
  BY <1>4 DEF withoutFirst
<1>6. \A k \in 0 .. N :
        withoutFirst[k] = IF k = 0 THEN registry
                          ELSE swapAndPop(withoutFirst[k - 1],
                                          registry.m_sessions[k])
  BY <1>5
<1> HIDE DEF N
<1>7. 0 \in 0 .. N /\ (\A n \in 1 .. N : n \in 0 .. N /\ n # 0)
  BY DEF N
<1> QED
  BY <1>6, <1>7 DEF N

LEMMA AllRemoved ==
  ASSUME Mapped(registry)
  PROVE  /\ Mapped(allRemoved)
         /\ DOMAIN allRemoved.m_idToIndex = {}
         /\ allRemoved.m_sessions = <<>>
<1> DEFINE s == registry.m_sessions
           x == registry.m_idToIndex
           N == Len(s)
           w == withoutFirst
           Gone(n) == {s[i] : i \in 1 .. n}
           T == {n \in Nat : n <= N =>
                    /\ Mapped(w[n])
                    /\ DOMAIN w[n].m_idToIndex = DOMAIN x \ Gone(n)}
<1>1. /\ s \in Seq(Nat)
      /\ N \in Nat
      /\ DOMAIN s = 1 .. N
      /\ \A i \in 1 .. N : s[i] \in DOMAIN x /\ x[s[i]] = i
      /\ \A id \in DOMAIN x : x[id] \in 1 .. N /\ s[x[id]] = id
  BY LenProperties DEF Mapped
<1>2. /\ w[0] = registry
      /\ \A n \in 1 .. N : w[n] = swapAndPop(w[n - 1], s[n])
  BY <1>1, WithoutFirst
<1> HIDE DEF w, N
<1>3. 0 \in T
  <2>1. Gone(0) = {}
    OBVIOUS
  <2> QED
    BY <1>2, <2>1
<1>4. \A n \in Nat : n \in T => n + 1 \in T
  <2> SUFFICES ASSUME NEW n \in Nat, n \in T, n + 1 <= N
               PROVE  /\ Mapped(w[n + 1])
                      /\ DOMAIN w[n + 1].m_idToIndex =
                           DOMAIN x \ Gone(n + 1)
    OBVIOUS
  <2>1. /\ Mapped(w[n])
        /\ DOMAIN w[n].m_idToIndex = DOMAIN x \ Gone(n)
    BY <1>1
  <2>2. n + 1 \in 1 .. N /\ (n + 1) - 1 = n
    BY <1>1
  <2>3. w[n + 1] = swapAndPop(w[n], s[n + 1])
    BY <1>2, <2>2
  <2>4. s[n + 1] \in DOMAIN x /\ s[n + 1] \notin Gone(n)
    <3> SUFFICES ASSUME NEW i \in 1 .. n, s[i] = s[n + 1] PROVE FALSE
      BY <1>1, <2>2
    <3>1. i \in 1 .. N /\ i # n + 1
      BY <1>1
    <3> QED
      BY <1>1, <2>2, <3>1
  <2>5. Gone(n + 1) = Gone(n) \cup {s[n + 1]}
    <3>1. 1 .. n + 1 = (1 .. n) \cup {n + 1}
      OBVIOUS
    <3> QED
      BY <3>1
  <2> HIDE DEF Gone
  <2> QED
    BY <2>1, <2>3, <2>4, <2>5, SwapAndPop
<1>5. N \in T
  <2> HIDE DEF T
  <2> QED
    BY <1>1, <1>3, <1>4, Induction
<1>6. Mapped(w[N]) /\ DOMAIN w[N].m_idToIndex = DOMAIN x \ Gone(N)
  BY <1>1, <1>5
<1>7. DOMAIN x \ Gone(N) = {}
  BY <1>1
<1>8. allRemoved = w[N]
  BY DEF allRemoved, w, N
<1>9. w[N].m_sessions = <<>>
  <2>1. w[N].m_sessions \in Seq(Nat) /\ DOMAIN w[N].m_sessions = {}
    BY <1>6, <1>7 DEF Mapped
  <2>2. ASSUME NEW q \in Seq(Nat), DOMAIN q = {} PROVE q = <<>>
    <3>1. Len(q) \in Nat /\ DOMAIN q = 1 .. Len(q)
      BY LenProperties
    <3>2. Len(q) = 0
      BY <2>2, <3>1
    <3> QED
      BY <3>2, EmptySeq
  <2> QED
    BY <2>1, <2>2
<1> QED
  BY <1>6, <1>7, <1>8, <1>9

-----------------------------------------------------------------------------
(* The sessions, the map and the mutex *)

SessionsSound ==
    \A id \in DOMAIN session :
        Sound(session[id]) /\ Registered(session[id], listed(id))

\* What the sessions, the session map and the mutex are at any time.
Keeping ==
    /\ session \in Seq(SessionRecord)
    /\ Len(session) <= MaxSessions
    /\ stuck \subseteq Strand
    /\ Mapped(registry)
    /\ DOMAIN registry.m_idToIndex \subseteq DOMAIN session
    /\ SessionsSound
    /\ MutexLostOnFullQueueOnly

LEMMA SessionTypes ==
  ASSUME Keeping
  PROVE  /\ Len(session) \in Nat
         /\ DOMAIN session = 1 .. Len(session)
         /\ \A id \in DOMAIN session : session[id] \in SessionRecord
BY LenProperties DEF Keeping

\* One session changes, and is in the map if it was there.
LEMMA OneSession ==
  ASSUME Keeping, NEW id \in DOMAIN session, NEW t,
         session' = [session EXCEPT ![id] = t],
         Sound(t), Registered(t, listed(id)),
         id \in stuck => t.m_writeQueue = session[id].m_writeQueue,
         UNCHANGED <<registry, stuck>>
  PROVE  Keeping'
<1>1. t \in SessionRecord /\ id \in 1 .. Len(session)
  BY SessionTypes DEF Sound
<1>2. /\ session' \in Seq(SessionRecord)
      /\ DOMAIN session' = DOMAIN session
      /\ \A other \in DOMAIN session :
           session'[other] = IF other = id THEN t ELSE session[other]
      /\ Len(session') = Len(session)
  BY <1>1, ExceptSeq DEF Keeping
<1>3. SessionsSound'
  BY <1>2 DEF Keeping, SessionsSound, listed
<1>4. MutexLostOnFullQueueOnly'
  BY <1>2 DEF Keeping, MutexLostOnFullQueueOnly, mutexFree, listed
<1> QED
  BY <1>2, <1>3, <1>4 DEF Keeping

\* A session that a message is sent to has it in its queue, waits for its
\* strand with it, or is full and jams the strand that sends.
LEMMA Message ==
  ASSUME Keeping, NEW before, NEW targets, NEW caller,
         DOMAIN before = DOMAIN session,
         \A id \in DOMAIN session :
             /\ Sound(before[id])
             /\ Registered(before[id], listed(id))
             /\ id \in stuck =>
                  before[id].m_writeQueue = session[id].m_writeQueue,
         targets \subseteq DOMAIN session,
         \A id \in targets : listed(id),
         caller \in Strand \ stuck,
         messageSession(before, targets, caller),
         registry' = registry
  PROVE  Keeping'
<1> DEFINE jammed == {id \in targets : inline(id, caller)
                                        /\ sendAborts(before[id], "Append")}
           delivered(served) ==
             [id \in DOMAIN before |->
                 CASE id \notin served -> before[id]
                   [] id \in served /\ inline(id, caller) ->
                        send(before[id], "message", "Append")
                   [] OTHER -> enqueue(before[id], [type |-> "send"])]
<1>1. PICK served \in SUBSET (targets \ jammed) :
        /\ session' = delivered(served)
        /\ \/ stuck' = stuck
           \/ \E id \in jammed : stuck' = stuck \cup {id, caller}
  <2>1. CASE jammed = {} /\ session' = delivered(targets) /\ stuck' = stuck
    BY <2>1
  <2>2. CASE \E id \in jammed, served \in SUBSET (targets \ jammed) :
               /\ session' = delivered(served)
               /\ stuck' = stuck \cup {id, caller}
    BY <2>2
  <2> QED
    BY <2>1, <2>2 DEF messageSession
<1>2. ASSUME NEW id \in DOMAIN session
      PROVE  /\ Sound(session'[id])
             /\ Registered(session'[id], listed(id))
             /\ id \notin served => session'[id] = before[id]
             /\ id \in stuck =>
                  session'[id].m_writeQueue = session[id].m_writeQueue
  <2> DEFINE s == before[id]
  <2>1. /\ Sound(s)
        /\ Registered(s, listed(id))
        /\ id \in stuck => s.m_writeQueue = session[id].m_writeQueue
    OBVIOUS
  <2>2. session'[id] = delivered(served)[id]
    BY <1>1
  <2> HIDE DEF s
  <2>3. CASE id \notin served
    BY <2>1, <2>2, <2>3 DEF s
  <2>4. CASE id \in served /\ inline(id, caller)
    <3>1. ~sendAborts(s, "Append")
      BY <1>1, <2>4 DEF s
    <3>2. session'[id] = send(s, "message", "Append")
      BY <2>2, <2>4 DEF s
    <3>3. /\ s \in SessionRecord
          /\ WritesInTurn(s)
          /\ Stopped(s)
      BY <2>1 DEF Sound
    <3> DEFINE t == send(s, "message", "Append")
    <3>4. /\ t \in SessionRecord
          /\ SameConnection(s, t)
          /\ WritesInTurn(t)
          /\ Stopped(t)
          /\ Flows(s) => Flows(t)
      BY <3>3, Sent DEF OutboundWrite
    <3> HIDE DEF t
    <3>5. Sound(t)
      BY <2>1, <3>4 DEF Sound, ReadsInTurn, SameConnection
    <3>6. Registered(t, listed(id))
      BY <2>1, <3>4 DEF Registered, SameConnection
    <3>7. id \notin stuck
      BY <2>4 DEF inline
    <3> QED
      BY <2>4, <3>2, <3>5, <3>6, <3>7 DEF t
  <2>5. CASE id \in served /\ ~inline(id, caller)
    <3>1. session'[id] = enqueue(s, [type |-> "send"])
      BY <2>2, <2>5 DEF s
    <3>2. listed(id) \in BOOLEAN
      BY DEF listed
    <3> QED
      BY <2>1, <2>5, <3>1, <3>2, Waits
  <2> QED
    BY <2>3, <2>4, <2>5
<1>3. /\ DOMAIN session' = DOMAIN session
      /\ session' \in Seq(SessionRecord)
      /\ Len(session') = Len(session)
  <2>1. DOMAIN session' = 1 .. Len(session) /\ DOMAIN session' = DOMAIN session
    BY <1>1, SessionTypes
  <2>2. session' = [id \in 1 .. Len(session) |-> session'[id]]
    BY <1>1, <2>1
  <2>3. \A id \in 1 .. Len(session) : session'[id] \in SessionRecord
    BY <1>2, <2>1 DEF Sound
  <2>4. session' \in [1 .. Len(session) -> SessionRecord]
    BY <2>2, <2>3
  <2>5. session' \in Seq(SessionRecord)
    BY <2>4, SessionTypes, SeqDef
  <2>6. Len(session') \in Nat /\ DOMAIN session' = 1 .. Len(session')
    BY <2>5, LenProperties
  <2>7. Len(session') = Len(session)
    BY <2>1, <2>6, SessionTypes
  <2> QED
    BY <2>1, <2>5, <2>7
<1>4. SessionsSound'
  BY <1>2, <1>3 DEF SessionsSound, listed
<1>5. stuck' \subseteq Strand
  <2>1. DOMAIN session \subseteq Strand
    BY SessionTypes, BoundsAssumption DEF Keeping, Strand, SessionID
  <2> QED
    BY <1>1, <2>1 DEF Keeping
<1>6. MutexLostOnFullQueueOnly'
  <2>1. CASE stuck # {}
    <3>1. PICK id \in stuck \cap DOMAIN session :
            /\ listed(id)
            /\ Len(session[id].m_writeQueue) = MaxWriteQueueLength
      BY <2>1 DEF Keeping, MutexLostOnFullQueueOnly, mutexFree
    <3>2. id \in stuck' \cap DOMAIN session'
      BY <1>1, <1>3, <3>1
    <3>3. Len(session'[id].m_writeQueue) = MaxWriteQueueLength
      BY <1>2, <3>1
    <3> QED
      BY <3>1, <3>2, <3>3 DEF MutexLostOnFullQueueOnly, listed
  <2>2. CASE stuck = {} /\ stuck' = stuck
    BY <2>2 DEF MutexLostOnFullQueueOnly, mutexFree
  <2>3. CASE stuck = {} /\ \E id \in jammed : stuck' = stuck \cup {id, caller}
    <3>1. PICK id \in jammed : stuck' = stuck \cup {id, caller}
      BY <2>3
    <3>2. /\ id \in DOMAIN session
          /\ id \notin served
          /\ listed(id)
          /\ sendAborts(before[id], "Append")
      BY <1>1, <3>1
    <3>3. session'[id] = before[id] /\ Sound(before[id])
      BY <1>2, <3>2
    <3>4. /\ before[id] \in SessionRecord
          /\ Len(before[id].m_writeQueue) <= MaxWriteQueueLength
      BY <3>3 DEF Sound, WritesInTurn
    <3>5. Len(before[id].m_writeQueue) \in Nat
      BY <3>4, Types, LenProperties
    <3>6. Len(before[id].m_writeQueue) >= MaxWriteQueueLength
      BY <3>2, <3>4, Kept DEF sendAborts
    <3>7. Len(session'[id].m_writeQueue) = MaxWriteQueueLength
      BY <3>3, <3>4, <3>5, <3>6, QueueAssumption
    <3> QED
      BY <1>3, <3>1, <3>2, <3>7 DEF MutexLostOnFullQueueOnly, listed
  <2> QED
    BY <1>1, <2>1, <2>2, <2>3
<1> QED
  BY <1>3, <1>4, <1>5, <1>6 DEF Keeping

-----------------------------------------------------------------------------
(* Accepting *)

pending ==
    accepts["outstanding"] + accepts["connected"] + accepts["failed"]
        + accepts["admitting"]

\* No start makes more than one accept, and no accept becomes two.
OneAcceptPerStart ==
    /\ pending <= manager.starts
    /\ manager.uiThread = "startAccept" => pending < manager.starts

Accepting ==
    /\ manager \in [m_state : {"STOPPED", "RUNNING", "STOPPING"},
                     uiThread : {"idle", "startAccept", "removeSession"},
                     starts : 0 .. MaxStarts]
    /\ accepts \in [AcceptStage -> Nat]
    /\ Len(session) + accepts["connected"] + accepts["admitting"]
         <= MaxSessions
    /\ OneAcceptPerStart
    /\ AcceptChainSurvives
    /\ StopLeavesOnlyAdmissions

LEMMA AcceptTypes ==
  ASSUME Accepting
  PROVE  /\ accepts["outstanding"] \in Nat
         /\ accepts["connected"] \in Nat
         /\ accepts["failed"] \in Nat
         /\ accepts["admitting"] \in Nat
         /\ accepts = [stage \in AcceptStage |-> accepts[stage]]
         /\ manager.starts \in Nat
         /\ manager.starts <= MaxStarts
         /\ MaxStarts \in Nat
         /\ MaxSessions \in Nat
BY BoundsAssumption DEF Accepting, AcceptStage

LEMMA Pending ==
  ASSUME Accepting
  PROVE  /\ pending \in Nat
         /\ pending <= manager.starts
         /\ manager.uiThread = "startAccept" => pending < manager.starts
<1>1. pending \in Nat
  BY AcceptTypes DEF pending
<1> QED
  BY <1>1 DEF Accepting, OneAcceptPerStart

\* Fewer accepts, or as many, for the same starts.
LEMMA Counting ==
  ASSUME Accepting, pending' \in Int, pending' <= pending, UNCHANGED manager
  PROVE  OneAcceptPerStart'
<1>1. pending \in Nat /\ manager.starts \in Nat
  BY AcceptTypes DEF pending
<1> QED
  BY <1>1 DEF Accepting, OneAcceptPerStart

-----------------------------------------------------------------------------
(* The steps of the sessions and the map *)

LEMMA KeepingInit == Init => Keeping
<1> SUFFICES ASSUME Init PROVE Keeping
  OBVIOUS
<1>1. /\ <<>> \in Seq(SessionRecord)
      /\ <<>> \in Seq(Nat)
      /\ Len(<<>>) = 0
      /\ DOMAIN <<>> = {}
  BY EmptySeq
<1>2. Mapped(registry)
  BY <1>1 DEF Init, Mapped
<1> QED
  BY <1>1, <1>2, BoundsAssumption
  DEF Init, Keeping, SessionsSound, MutexLostOnFullQueueOnly, mutexFree, Strand

LEMMA CreateStep ==
  ASSUME Keeping, Accepting, CreateSession
  PROVE  Keeping'
<1> DEFINE id == Len(session) + 1
           n == Len(registry.m_sessions)
           x == registry.m_idToIndex
           y == [other \in DOMAIN x \cup {id} |->
                    IF other = id THEN n + 1 ELSE x[other]]
           q == Append(registry.m_sessions, id)
<1>1. /\ Len(session) \in Nat
      /\ DOMAIN session = 1 .. Len(session)
      /\ DOMAIN x \subseteq DOMAIN session
      /\ id \notin DOMAIN session
      /\ id \in Nat
  BY SessionTypes DEF Keeping
<1>2. /\ session' = Append(session, newSession)
      /\ registry' = [m_sessions |-> q, m_idToIndex |-> y]
      /\ stuck' = stuck
      /\ stuck = {}
  BY DEF CreateSession, mutexFree
<1>3. newSession \in SessionRecord
  BY Created DEF Sound
<1>4. /\ session' \in Seq(SessionRecord)
      /\ Len(session') = id
      /\ DOMAIN session' = DOMAIN session \cup {id}
      /\ \A other \in DOMAIN session : session'[other] = session[other]
      /\ session'[id] = newSession
  <2>1. /\ session' \in Seq(SessionRecord)
        /\ Len(session') = Len(session) + 1
        /\ DOMAIN session' = 1 .. Len(session) + 1
        /\ \A i \in 1 .. Len(session) : session'[i] = session[i]
        /\ session'[Len(session) + 1] = newSession
    BY <1>2, <1>3, AppendProperties, LenProperties DEF Keeping
  <2> QED
    BY <1>1, <2>1
<1>5. /\ registry.m_sessions \in Seq(Nat)
      /\ n \in Nat
      /\ DOMAIN registry.m_sessions = 1 .. n
      /\ \A i \in 1 .. n : registry.m_sessions[i] \in DOMAIN x
                           /\ x[registry.m_sessions[i]] = i
      /\ \A other \in DOMAIN x :
           x[other] \in 1 .. n /\ registry.m_sessions[x[other]] = other
  BY LenProperties DEF Keeping, Mapped
<1>6. /\ DOMAIN y = DOMAIN x \cup {id}
      /\ y[id] = n + 1
      /\ \A other \in DOMAIN x : y[other] = x[other]
  BY <1>1
<1>7. /\ q \in Seq(Nat)
      /\ DOMAIN q = 1 .. n + 1
      /\ \A i \in 1 .. n : q[i] = registry.m_sessions[i]
      /\ q[n + 1] = id
  BY <1>1, <1>5, AppendProperties, LenProperties
<1> HIDE DEF y, q, x, n, id
<1>8. /\ \A i \in 1 .. n + 1 : q[i] \in DOMAIN y /\ y[q[i]] = i
      /\ \A other \in DOMAIN y : y[other] \in 1 .. n + 1 /\ q[y[other]] = other
  <2>1. ASSUME NEW i \in 1 .. n + 1 PROVE q[i] \in DOMAIN y /\ y[q[i]] = i
    <3>1. CASE i = n + 1
      BY <1>6, <1>7, <3>1
    <3>2. CASE i \in 1 .. n
      BY <1>5, <1>6, <1>7, <3>2
    <3> QED
      BY <1>5, <3>1, <3>2
  <2>2. ASSUME NEW other \in DOMAIN y
        PROVE  y[other] \in 1 .. n + 1 /\ q[y[other]] = other
    <3>1. CASE other = id
      BY <1>5, <1>6, <1>7, <3>1
    <3>2. CASE other \in DOMAIN x
      <4>1. y[other] = x[other] /\ x[other] \in 1 .. n
        BY <1>5, <1>6, <3>2
      <4>2. q[x[other]] = registry.m_sessions[x[other]]
        BY <1>7, <4>1
      <4>3. registry.m_sessions[x[other]] = other
        BY <1>5, <3>2
      <4>4. x[other] \in 1 .. n + 1
        BY <1>5, <4>1
      <4> QED
        BY <4>1, <4>2, <4>3, <4>4
    <3> QED
      BY <1>6, <3>1, <3>2
  <2> QED
    BY <2>1, <2>2
<1>9. registry'.m_sessions = q /\ registry'.m_idToIndex = y
  BY <1>2
<1>10. Mapped(registry')
  BY <1>7, <1>8, <1>9 DEF Mapped
<1>11. SessionsSound'
  <2> SUFFICES ASSUME NEW other \in DOMAIN session'
               PROVE  /\ Sound(session'[other])
                      /\ Registered(session'[other], listed(other)')
    BY DEF SessionsSound
  <2>1. CASE other = id
    BY <1>4, <1>6, <1>9, <2>1, Created DEF listed
  <2>2. CASE other # id
    <3>1. other \in DOMAIN session
      BY <1>4, <2>2
    <3>2. listed(other)' <=> listed(other)
      BY <1>6, <1>9, <2>2 DEF listed, x
    <3>3. Sound(session[other]) /\ Registered(session[other], listed(other))
      BY <3>1 DEF Keeping, SessionsSound
    <3> QED
      BY <1>4, <3>1, <3>2, <3>3 DEF listed
  <2> QED
    BY <2>1, <2>2
<1>12. id <= MaxSessions
  <2>1. /\ Len(session) + accepts["connected"] + accepts["admitting"] <= MaxSessions
        /\ accepts["admitting"] > 0
    BY DEF Accepting, CreateSession
  <2>2. /\ accepts["connected"] \in Nat /\ accepts["admitting"] \in Nat
        /\ MaxSessions \in Nat /\ Len(session) \in Nat
    BY AcceptTypes, LenProperties DEF Keeping
  <2>3. id = Len(session) + 1
    BY DEF id
  <2> QED
    BY <2>1, <2>2, <2>3
<1>13. MutexLostOnFullQueueOnly'
  BY <1>2 DEF MutexLostOnFullQueueOnly, mutexFree
<1> QED
  BY <1>1, <1>2, <1>4, <1>6, <1>9, <1>10, <1>11, <1>12, <1>13
  DEF Keeping, x

LEMMA StopStep ==
  ASSUME Keeping, StopSessions
  PROVE  Keeping'
<1>1. /\ stuck' = stuck
      /\ stuck = {}
      /\ registry' = allRemoved
      /\ session' = [id \in DOMAIN session |->
                       IF listed(id)
                       THEN enqueue(session[id], [type |-> "stop"])
                       ELSE session[id]]
  BY DEF StopSessions, mutexFree
<1>2. Mapped(registry') /\ DOMAIN registry'.m_idToIndex = {}
  BY <1>1, AllRemoved DEF Keeping
<1>3. ASSUME NEW id \in DOMAIN session
      PROVE  Sound(session'[id]) /\ Registered(session'[id], FALSE)
  <2>1. Sound(session[id]) /\ Registered(session[id], listed(id))
    BY DEF Keeping, SessionsSound
  <2>2. CASE listed(id)
    BY <1>1, <2>1, <2>2, Waits
  <2>3. CASE ~listed(id)
    <3>1. session'[id] = session[id]
      BY <1>1, <2>3
    <3>2. listed(id) = FALSE
      BY <2>3 DEF listed
    <3> QED
      BY <2>1, <3>1, <3>2
  <2> QED
    BY <2>2, <2>3
<1>4. DOMAIN session' = DOMAIN session
  BY <1>1
<1>5. session' \in Seq(SessionRecord) /\ Len(session') = Len(session)
  <2>1. session' = [id \in 1 .. Len(session) |-> session'[id]]
    BY <1>1, <1>4, SessionTypes
  <2>2. \A id \in 1 .. Len(session) : session'[id] \in SessionRecord
    BY <1>3, SessionTypes DEF Sound
  <2>3. session' \in [1 .. Len(session) -> SessionRecord]
    BY <2>1, <2>2
  <2>4. session' \in Seq(SessionRecord)
    BY <2>3, SessionTypes, SeqDef
  <2>5. Len(session') \in Nat /\ DOMAIN session' = 1 .. Len(session')
    BY <2>4, LenProperties
  <2> QED
    BY <1>4, <2>4, <2>5, SessionTypes
<1>6. SessionsSound'
  <2> SUFFICES ASSUME NEW id \in DOMAIN session'
               PROVE  /\ Sound(session'[id])
                      /\ Registered(session'[id], listed(id)')
    BY DEF SessionsSound
  <2>1. listed(id)' = FALSE
    BY <1>2 DEF listed
  <2> QED
    BY <1>3, <1>4, <2>1
<1>7. MutexLostOnFullQueueOnly'
  BY <1>1 DEF MutexLostOnFullQueueOnly, mutexFree
<1> QED
  BY <1>1, <1>2, <1>4, <1>5, <1>6, <1>7 DEF Keeping

LEMMA RunStep ==
  ASSUME Keeping, NEW id, RunHandler(id)
  PROVE  Keeping'
<1> DEFINE t == runNext(session[id])
<1>1. /\ id \in DOMAIN session
      /\ id \notin stuck
      /\ session[id].strand # <<>>
      /\ ~t.aborting
      /\ session' = [session EXCEPT ![id] = t]
      /\ UNCHANGED <<registry, stuck>>
  BY DEF RunHandler, canRun
<1>2. /\ Sound(session[id])
      /\ Registered(session[id], listed(id))
      /\ listed(id) \in BOOLEAN
  BY <1>1 DEF Keeping, SessionsSound, listed
<1>3. Sound(t) /\ Registered(t, listed(id))
  BY <1>1, <1>2, Ran
<1> HIDE DEF t
<1> QED
  BY <1>1, <1>3, OneSession

LEMMA AbortStep ==
  ASSUME Keeping, NEW id, AbortSession(id)
  PROVE  /\ Keeping'
         /\ \/ registry' = registry
            \/ Len(registry'.m_sessions) = Len(registry.m_sessions) - 1
<1> DEFINE t == runNext(session[id])
           after == [t EXCEPT !.aborting = FALSE]
<1>1. /\ id \in DOMAIN session
      /\ session[id].strand # <<>>
      /\ stuck = {} /\ stuck' = {}
      /\ session' = [session EXCEPT ![id] = IF listed(id) THEN stop(after)
                                            ELSE after]
      /\ registry' = IF listed(id) THEN swapAndPop(registry, id) ELSE registry
  BY DEF AbortSession, canRun, mutexFree
<1>2. /\ Sound(session[id])
      /\ Registered(session[id], listed(id))
      /\ listed(id) \in BOOLEAN
  BY <1>1 DEF Keeping, SessionsSound, listed
<1>3. Sound(t) /\ (~listed(id) => Registered(t, FALSE))
  BY <1>1, <1>2, Ran
<1> HIDE DEF t
<1>4. Sound(after) /\ (~listed(id) => Registered(after, FALSE))
  BY <1>3, Answered
<1> HIDE DEF after
<1>5. CASE ~listed(id)
  <2>1. session' = [session EXCEPT ![id] = after]
    BY <1>1, <1>5
  <2>2. Registered(after, listed(id))
    BY <1>2, <1>4, <1>5
  <2> QED
    BY <1>1, <1>4, <1>5, <2>1, <2>2, OneSession
<1>6. CASE listed(id)
  <2> DEFINE u == stop(after)
  <2>1. Sound(u) /\ Registered(u, FALSE)
    BY <1>4, Stopping DEF Registered
  <2>2. session' = [session EXCEPT ![id] = u]
    BY <1>1, <1>6
  <2> HIDE DEF u
  <2>3. u \in SessionRecord /\ id \in 1 .. Len(session)
    BY <1>1, <2>1, SessionTypes DEF Sound
  <2>4. /\ session' \in Seq(SessionRecord)
        /\ DOMAIN session' = DOMAIN session
        /\ \A other \in DOMAIN session :
             session'[other] = IF other = id THEN u ELSE session[other]
        /\ Len(session') = Len(session)
    BY <2>2, <2>3, ExceptSeq DEF Keeping
  <2>5. registry' = swapAndPop(registry, id)
    BY <1>1, <1>6
  <2>6. /\ Mapped(registry')
        /\ DOMAIN registry'.m_idToIndex = DOMAIN registry.m_idToIndex \ {id}
        /\ Len(registry'.m_sessions) = Len(registry.m_sessions) - 1
    BY <1>6, <2>5, SwapAndPop DEF Keeping, listed
  <2>7. SessionsSound'
    <3> SUFFICES ASSUME NEW other \in DOMAIN session'
                 PROVE  /\ Sound(session'[other])
                        /\ Registered(session'[other], listed(other)')
      BY DEF SessionsSound
    <3>1. CASE other = id
      <4>1. listed(other)' = FALSE
        BY <2>6, <3>1 DEF listed
      <4> QED
        BY <2>1, <2>4, <3>1, <4>1
    <3>2. CASE other # id
      <4>1. listed(other)' = listed(other)
        BY <2>6, <3>2 DEF listed
      <4> QED
        BY <2>4, <3>2, <4>1 DEF Keeping, SessionsSound
    <3> QED
      BY <3>1, <3>2
  <2>8. MutexLostOnFullQueueOnly'
    BY <1>1 DEF MutexLostOnFullQueueOnly, mutexFree
  <2> QED
    BY <1>1, <2>4, <2>6, <2>7, <2>8 DEF Keeping
<1> QED
  BY <1>5, <1>6

LEMMA ChatStep ==
  ASSUME Keeping, NEW id, GlobalChat(id)
  PROVE  Keeping'
<1> DEFINE t == runNext(session[id])
           before == [session EXCEPT ![id] = t]
           targets == {other \in DOMAIN session :
                          listed(other) /\ loggedIn(session[other])}
<1>1. /\ id \in DOMAIN session
      /\ id \notin stuck
      /\ session[id].strand # <<>>
      /\ loggedIn(session[id])
      /\ Head(session[id].strand).type = "body"
      /\ Head(session[id].strand).ok
      /\ Head(session[id].strand).message = "globalChat"
      /\ messageSession(before, targets, id)
      /\ registry' = registry
  BY DEF GlobalChat, canRun, chats, dispatches
<1>2. /\ Sound(session[id])
      /\ Registered(session[id], listed(id))
      /\ listed(id) \in BOOLEAN
  BY <1>1 DEF Keeping, SessionsSound, listed
<1>3. Sound(t) /\ Registered(t, listed(id))
  BY <1>1, <1>2, Chatted
<1> HIDE DEF t
<1>4. /\ DOMAIN before = DOMAIN session
      /\ \A other \in DOMAIN session :
           before[other] = IF other = id THEN t ELSE session[other]
  OBVIOUS
<1>5. ASSUME NEW other \in DOMAIN session
      PROVE  /\ Sound(before[other])
             /\ Registered(before[other], listed(other))
             /\ other \in stuck =>
                  before[other].m_writeQueue = session[other].m_writeQueue
  <2>1. CASE other = id
    BY <1>1, <1>3, <1>4, <2>1
  <2>2. CASE other # id
    BY <1>4, <2>2 DEF Keeping, SessionsSound
  <2> QED
    BY <2>1, <2>2
<1>6. targets \subseteq DOMAIN session /\ \A other \in targets : listed(other)
  OBVIOUS
<1>7. id \in Strand \ stuck
  BY <1>1, SessionTypes, BoundsAssumption DEF Keeping, Strand, SessionID
<1> HIDE DEF before, targets
<1> QED
  BY <1>1, <1>4, <1>5, <1>6, <1>7, Message

LEMMA GameManagerStep ==
  ASSUME Keeping, NEW id, GameManagerSends(id)
  PROVE  Keeping'
<1>1. /\ id \in DOMAIN session
      /\ listed(id)
      /\ GameManagerStrand \in Strand \ stuck
      /\ messageSession(session, {id}, GameManagerStrand)
      /\ registry' = registry
  BY DEF GameManagerSends, Strand
<1>2. \A other \in DOMAIN session :
        Sound(session[other]) /\ Registered(session[other], listed(other))
  BY DEF Keeping, SessionsSound
<1>3. {id} \subseteq DOMAIN session /\ \A other \in {id} : listed(other)
  BY <1>1
<1> QED
  BY <1>1, <1>2, <1>3, Message

LEMMA ReadStep ==
  ASSUME Keeping, NEW id, ReadCompletes(id)
  PROVE  Keeping'
<1>1. PICK result \in readResults(session[id]) :
        session' = [session EXCEPT ![id] = readCompletes(session[id], result)]
  BY DEF ReadCompletes
<1>2. /\ id \in DOMAIN session
      /\ session[id].reading # "none"
      /\ UNCHANGED <<registry, stuck>>
  BY DEF ReadCompletes
<1>3. /\ Sound(session[id])
      /\ Registered(session[id], listed(id))
      /\ listed(id) \in BOOLEAN
  BY <1>2 DEF Keeping, SessionsSound, listed
<1> DEFINE t == readCompletes(session[id], result)
<1>4. /\ Sound(t)
      /\ Registered(t, listed(id))
      /\ t.m_writeQueue = session[id].m_writeQueue
  BY <1>2, <1>3, ReadCompleted
<1>5. session' = [session EXCEPT ![id] = t]
  BY <1>1
<1> HIDE DEF t
<1> QED
  BY <1>2, <1>4, <1>5, OneSession

LEMMA WriteStep ==
  ASSUME Keeping, NEW id, WriteCompletes(id)
  PROVE  Keeping'
<1>1. PICK ok \in {FALSE, session[id].socketOpen} :
        session' = [session EXCEPT ![id] = writeCompletes(session[id], ok)]
  BY DEF WriteCompletes
<1>2. /\ id \in DOMAIN session
      /\ session[id].writing # NoWrite
      /\ UNCHANGED <<registry, stuck>>
  BY DEF WriteCompletes
<1>3. /\ Sound(session[id])
      /\ Registered(session[id], listed(id))
      /\ listed(id) \in BOOLEAN
  BY <1>2 DEF Keeping, SessionsSound, listed
<1>4. ok \in BOOLEAN
  <2>1. session[id].socketOpen \in BOOLEAN
    BY <1>3, Types DEF Sound
  <2> QED
    BY <2>1
<1> DEFINE t == writeCompletes(session[id], ok)
<1>5. /\ Sound(t)
      /\ Registered(t, listed(id))
      /\ t.m_writeQueue = session[id].m_writeQueue
  BY <1>2, <1>3, <1>4, WriteCompleted
<1>6. session' = [session EXCEPT ![id] = t]
  BY <1>1
<1> HIDE DEF t
<1> QED
  BY <1>2, <1>5, <1>6, OneSession

LEMMA KeepingNext == Keeping /\ Accepting /\ [Next]_vars => Keeping'
<1> SUFFICES ASSUME Keeping, Accepting, [Next]_vars PROVE Keeping'
  OBVIOUS
<1>1. CASE UNCHANGED <<session, registry, stuck>>
  BY <1>1 DEF Keeping, SessionsSound, MutexLostOnFullQueueOnly, mutexFree,
              listed
<1>2. CASE \/ StartManager \/ StartAccepting \/ StopAccepting
           \/ AcceptCompletes \/ HandleFailedAccept \/ HandleAccept
           \/ UNCHANGED vars
  BY <1>1, <1>2 DEF StartManager, StartAccepting, StopAccepting,
     AcceptCompletes, HandleFailedAccept, HandleAccept, vars
<1>3. CASE CreateSession
  BY <1>3, CreateStep
<1>4. CASE StopSessions
  BY <1>4, StopStep
<1>5. CASE \E id \in SessionID : RunHandler(id)
  BY <1>5, RunStep
<1>6. CASE \E id \in SessionID : AbortSession(id)
  BY <1>6, AbortStep
<1>7. CASE \E id \in SessionID : GlobalChat(id)
  BY <1>7, ChatStep
<1>8. CASE \E id \in SessionID : ReadCompletes(id)
  BY <1>8, ReadStep
<1>9. CASE \E id \in SessionID : WriteCompletes(id)
  BY <1>9, WriteStep
<1>10. CASE \E id \in SessionID : GameManagerSends(id)
  BY <1>10, GameManagerStep
<1> QED
  BY <1>2, <1>3, <1>4, <1>5, <1>6, <1>7, <1>8, <1>9, <1>10 DEF Next

-----------------------------------------------------------------------------
(* The steps of the accepts *)

LEMMA AcceptingInit == Init => Accepting
<1> SUFFICES ASSUME Init PROVE Accepting
  OBVIOUS
<1>1. Len(<<>>) = 0
  BY EmptySeq
<1>2. /\ manager.m_state = "STOPPED"
      /\ manager.uiThread = "idle"
      /\ manager.starts = 0
      /\ Len(session) = 0
      /\ Len(registry.m_sessions) = 0
      /\ manager \in [m_state : {"STOPPED", "RUNNING", "STOPPING"},
                       uiThread : {"idle", "startAccept", "removeSession"},
                       starts : 0 .. MaxStarts]
  BY <1>1, BoundsAssumption DEF Init
<1>3. /\ accepts \in [AcceptStage -> Nat]
      /\ accepts["outstanding"] = 0
      /\ accepts["connected"] = 0
      /\ accepts["failed"] = 0
      /\ accepts["admitting"] = 0
  BY DEF Init, AcceptStage
<1>4. OneAcceptPerStart
  BY <1>2, <1>3 DEF OneAcceptPerStart, pending
<1> QED
  BY <1>2, <1>3, <1>4, BoundsAssumption
  DEF Accepting, AcceptChainSurvives, Running, StopLeavesOnlyAdmissions

\* A step of the sessions creates none and puts none in the map.
LEMMA Apart ==
  ASSUME Keeping, Keeping', Accepting, DOMAIN session' = DOMAIN session,
         UNCHANGED <<manager, accepts>>,
         \/ registry' = registry
         \/ Len(registry'.m_sessions) = Len(registry.m_sessions) - 1
  PROVE  Accepting'
<1>1. /\ Len(session) \in Nat /\ DOMAIN session = 1 .. Len(session)
      /\ Len(session') \in Nat /\ DOMAIN session' = 1 .. Len(session')
  BY LenProperties DEF Keeping
<1>2. Len(session') = Len(session)
  BY <1>1
<1>3. Len(registry.m_sessions) \in Nat
  BY LenProperties DEF Keeping, Mapped
<1>4. Len(registry'.m_sessions) <= Len(registry.m_sessions)
        /\ Len(registry'.m_sessions) \in Int
  BY <1>3
<1>5. OneAcceptPerStart'
  BY DEF Accepting, OneAcceptPerStart, pending
<1>6. AcceptChainSurvives'
  BY DEF Accepting, AcceptChainSurvives, Running
<1>7. StopLeavesOnlyAdmissions'
  <2>1. /\ manager' = manager /\ accepts' = accepts
        /\ StopLeavesOnlyAdmissions
    BY DEF Accepting
  <2>2. accepts["admitting"] \in Nat /\ manager.starts \in Nat
    BY AcceptTypes
  <2> QED
    BY <1>3, <1>4, <2>1, <2>2 DEF StopLeavesOnlyAdmissions
<1> QED
  BY <1>2, <1>5, <1>6, <1>7 DEF Accepting

LEMMA StartStep ==
  ASSUME Accepting, StartManager
  PROVE  Accepting'
<1>1. /\ manager.uiThread = "idle"
      /\ manager.starts < MaxStarts
      /\ manager' = [m_state |-> "RUNNING", uiThread |-> "startAccept",
                     starts |-> manager.starts + 1]
      /\ UNCHANGED <<session, registry, accepts>>
  BY DEF StartManager
<1>2. /\ manager'.m_state = "RUNNING"
      /\ manager'.uiThread = "startAccept"
      /\ manager'.starts = manager.starts + 1
      /\ manager' \in [m_state : {"STOPPED", "RUNNING", "STOPPING"},
                        uiThread : {"idle", "startAccept", "removeSession"},
                        starts : 0 .. MaxStarts]
  BY <1>1, AcceptTypes
<1>3. OneAcceptPerStart'
  <2>1. pending' = pending
    BY <1>1 DEF pending
  <2> QED
    BY <1>2, <2>1, Pending, AcceptTypes DEF OneAcceptPerStart
<1> QED
  BY <1>1, <1>2, <1>3
  DEF Accepting, AcceptChainSurvives, StopLeavesOnlyAdmissions

LEMMA StartAcceptingStep ==
  ASSUME Accepting, StartAccepting
  PROVE  Accepting'
<1>1. /\ manager.uiThread = "startAccept"
      /\ manager' = [manager EXCEPT !.uiThread = "idle"]
      /\ UNCHANGED <<session, registry>>
      /\ accepts' = [stage \in AcceptStage |->
                       accepts[stage] - (IF stage = "" THEN 1 ELSE 0)
                         + (IF stage = "outstanding" THEN 1 ELSE 0)]
  BY DEF StartAccepting, passes
<1>2. /\ accepts' \in [AcceptStage -> Nat]
      /\ accepts'["outstanding"] = accepts["outstanding"] + 1
      /\ accepts'["connected"] = accepts["connected"]
      /\ accepts'["failed"] = accepts["failed"]
      /\ accepts'["admitting"] = accepts["admitting"]
  BY <1>1, AcceptTypes DEF AcceptStage
<1>3. /\ manager'.uiThread = "idle"
      /\ manager'.starts = manager.starts
      /\ manager'.m_state = manager.m_state
      /\ manager' \in [m_state : {"STOPPED", "RUNNING", "STOPPING"},
                        uiThread : {"idle", "startAccept", "removeSession"},
                        starts : 0 .. MaxStarts]
  BY <1>1 DEF Accepting
<1>4. OneAcceptPerStart'
  <2>1. pending' = pending + 1
    BY <1>2, AcceptTypes DEF pending
  <2>2. pending < manager.starts /\ pending \in Nat
    BY <1>1, Pending
  <2> QED
    BY <1>3, <2>1, <2>2, AcceptTypes DEF OneAcceptPerStart
<1>5. AcceptChainSurvives'
  BY <1>2, AcceptTypes DEF AcceptChainSurvives, AcceptStage
<1> QED
  BY <1>1, <1>2, <1>3, <1>4, <1>5 DEF Accepting, StopLeavesOnlyAdmissions

LEMMA CompleteStep ==
  ASSUME Keeping, Accepting, AcceptCompletes
  PROVE  Accepting'
<1> USE AcceptTypes DEF AcceptStage
<1>1. /\ accepts["outstanding"] > 0
      /\ UNCHANGED <<session, registry, manager>>
      /\ Len(session) \in Nat
  BY SessionTypes DEF AcceptCompletes
<1>2. CASE /\ Len(session) + accepts["connected"] + accepts["admitting"]
                < MaxSessions
           /\ passes("outstanding", "connected")
  <2>1. /\ accepts' \in [AcceptStage -> Nat]
        /\ accepts'["outstanding"] = accepts["outstanding"] - 1
        /\ accepts'["connected"] = accepts["connected"] + 1
        /\ accepts'["failed"] = accepts["failed"]
        /\ accepts'["admitting"] = accepts["admitting"]
    BY <1>1, <1>2 DEF passes
  <2>2. OneAcceptPerStart'
    <3>1. pending' \in Int /\ pending' <= pending
      BY <2>1 DEF pending
    <3> QED
      BY <1>1, <3>1, Counting
  <2>3. AcceptChainSurvives'
    BY <2>1 DEF AcceptChainSurvives
  <2>4. (Len(session) + accepts["connected"] + accepts["admitting"]
           <= MaxSessions)'
    BY <1>1, <1>2, <2>1
  <2> QED
    BY <1>1, <2>1, <2>2, <2>3, <2>4 DEF Accepting, StopLeavesOnlyAdmissions
<1>3. CASE passes("outstanding", "failed")
  <2>1. /\ accepts' \in [AcceptStage -> Nat]
        /\ accepts'["outstanding"] = accepts["outstanding"] - 1
        /\ accepts'["connected"] = accepts["connected"]
        /\ accepts'["failed"] = accepts["failed"] + 1
        /\ accepts'["admitting"] = accepts["admitting"]
    BY <1>1, <1>3 DEF passes
  <2>2. OneAcceptPerStart'
    <3>1. pending' \in Int /\ pending' <= pending
      BY <2>1 DEF pending
    <3> QED
      BY <1>1, <3>1, Counting
  <2>3. AcceptChainSurvives'
    BY <2>1 DEF AcceptChainSurvives
  <2> QED
    BY <1>1, <2>1, <2>2, <2>3 DEF Accepting, StopLeavesOnlyAdmissions
<1> QED
  BY <1>2, <1>3 DEF AcceptCompletes

LEMMA FailedStep ==
  ASSUME Accepting, HandleFailedAccept
  PROVE  Accepting'
<1> USE AcceptTypes DEF AcceptStage
<1>1. /\ accepts["failed"] > 0
      /\ UNCHANGED <<session, registry, manager>>
  BY DEF HandleFailedAccept
<1>2. CASE Running
  <2>1. /\ accepts' \in [AcceptStage -> Nat]
        /\ accepts'["outstanding"] = accepts["outstanding"] + 1
        /\ accepts'["connected"] = accepts["connected"]
        /\ accepts'["failed"] = accepts["failed"] - 1
        /\ accepts'["admitting"] = accepts["admitting"]
    BY <1>1, <1>2 DEF HandleFailedAccept, rearms, passes
  <2>2. OneAcceptPerStart'
    <3>1. pending' \in Int /\ pending' <= pending
      BY <2>1 DEF pending
    <3> QED
      BY <1>1, <3>1, Counting
  <2>3. AcceptChainSurvives'
    BY <2>1 DEF AcceptChainSurvives
  <2> QED
    BY <1>1, <2>1, <2>2, <2>3 DEF Accepting, StopLeavesOnlyAdmissions
<1>3. CASE ~Running
  <2>1. /\ accepts' \in [AcceptStage -> Nat]
        /\ accepts'["outstanding"] = accepts["outstanding"]
        /\ accepts'["connected"] = accepts["connected"]
        /\ accepts'["failed"] = accepts["failed"] - 1
        /\ accepts'["admitting"] = accepts["admitting"]
    BY <1>1, <1>3 DEF HandleFailedAccept, rearms, passes
  <2>2. OneAcceptPerStart'
    <3>1. pending' \in Int /\ pending' <= pending
      BY <2>1 DEF pending
    <3> QED
      BY <1>1, <3>1, Counting
  <2>3. AcceptChainSurvives'
    BY <1>1, <1>3 DEF AcceptChainSurvives, Running
  <2> QED
    BY <1>1, <2>1, <2>2, <2>3 DEF Accepting, StopLeavesOnlyAdmissions
<1> QED
  BY <1>2, <1>3

LEMMA HandleStep ==
  ASSUME Keeping, Accepting, HandleAccept
  PROVE  Accepting'
<1> USE AcceptTypes DEF AcceptStage
<1>1. /\ accepts["connected"] > 0
      /\ UNCHANGED <<session, registry, manager>>
      /\ Len(session) \in Nat
  BY SessionTypes DEF HandleAccept
<1>2. CASE Running
  <2>1. /\ accepts' \in [AcceptStage -> Nat]
        /\ accepts'["outstanding"] = accepts["outstanding"]
        /\ accepts'["connected"] = accepts["connected"] - 1
        /\ accepts'["failed"] = accepts["failed"]
        /\ accepts'["admitting"] = accepts["admitting"] + 1
    BY <1>1, <1>2 DEF HandleAccept, passes
  <2>2. OneAcceptPerStart'
    <3>1. pending' \in Int /\ pending' <= pending
      BY <2>1 DEF pending
    <3> QED
      BY <1>1, <3>1, Counting
  <2>3. AcceptChainSurvives'
    BY <2>1 DEF AcceptChainSurvives
  <2>4. (Len(session) + accepts["connected"] + accepts["admitting"]
           <= MaxSessions)'
    BY <1>1, <2>1 DEF Accepting
  <2>5. StopLeavesOnlyAdmissions'
    BY <1>1, <1>2 DEF StopLeavesOnlyAdmissions, Running
  <2> QED
    BY <1>1, <2>1, <2>2, <2>3, <2>4, <2>5 DEF Accepting
<1>3. CASE ~Running
  <2>1. /\ accepts' \in [AcceptStage -> Nat]
        /\ accepts'["outstanding"] = accepts["outstanding"]
        /\ accepts'["connected"] = accepts["connected"] - 1
        /\ accepts'["failed"] = accepts["failed"]
        /\ accepts'["admitting"] = accepts["admitting"]
    BY <1>1, <1>3 DEF HandleAccept, passes
  <2>2. OneAcceptPerStart'
    <3>1. pending' \in Int /\ pending' <= pending
      BY <2>1 DEF pending
    <3> QED
      BY <1>1, <3>1, Counting
  <2>3. AcceptChainSurvives'
    BY <1>1, <1>3 DEF AcceptChainSurvives, Running
  <2>4. (Len(session) + accepts["connected"] + accepts["admitting"]
           <= MaxSessions)'
    BY <1>1, <2>1 DEF Accepting
  <2> QED
    BY <1>1, <2>1, <2>2, <2>3, <2>4 DEF Accepting, StopLeavesOnlyAdmissions
<1> QED
  BY <1>2, <1>3

LEMMA CreateAcceptStep ==
  ASSUME Keeping, Accepting, CreateSession
  PROVE  Accepting'
<1> USE AcceptTypes DEF AcceptStage
<1>1. /\ accepts["admitting"] > 0
      /\ manager' = manager
      /\ session' = Append(session, newSession)
      /\ registry'.m_sessions = Append(registry.m_sessions, Len(session) + 1)
  BY DEF CreateSession
<1>2. /\ Len(session') = Len(session) + 1
      /\ Len(session) \in Nat
      /\ Len(registry'.m_sessions) = Len(registry.m_sessions) + 1
      /\ Len(registry.m_sessions) \in Nat
  <2>1. newSession \in SessionRecord
    BY Created DEF Sound
  <2>2. Len(session) + 1 \in Nat
    BY SessionTypes
  <2>3. registry.m_sessions \in Seq(Nat) /\ session \in Seq(SessionRecord)
    BY DEF Keeping, Mapped
  <2> QED
    BY <1>1, <2>1, <2>2, <2>3, AppendProperties, LenProperties
<1>3. CASE Running
  <2>1. /\ accepts' \in [AcceptStage -> Nat]
        /\ accepts'["outstanding"] = accepts["outstanding"] + 1
        /\ accepts'["connected"] = accepts["connected"]
        /\ accepts'["failed"] = accepts["failed"]
        /\ accepts'["admitting"] = accepts["admitting"] - 1
    BY <1>1, <1>3 DEF CreateSession, rearms, passes
  <2>2. OneAcceptPerStart'
    <3>1. pending' \in Int /\ pending' <= pending
      BY <2>1 DEF pending
    <3> QED
      BY <1>1, <3>1, Counting
  <2>3. AcceptChainSurvives'
    BY <2>1 DEF AcceptChainSurvives
  <2>4. (Len(session) + accepts["connected"] + accepts["admitting"]
           <= MaxSessions)'
    BY <1>1, <1>2, <2>1 DEF Accepting
  <2>5. StopLeavesOnlyAdmissions'
    BY <1>1, <1>3 DEF StopLeavesOnlyAdmissions, Running
  <2> QED
    BY <1>1, <2>1, <2>2, <2>3, <2>4, <2>5 DEF Accepting
<1>4. CASE ~Running
  <2>1. /\ accepts' \in [AcceptStage -> Nat]
        /\ accepts'["outstanding"] = accepts["outstanding"]
        /\ accepts'["connected"] = accepts["connected"]
        /\ accepts'["failed"] = accepts["failed"]
        /\ accepts'["admitting"] = accepts["admitting"] - 1
    BY <1>1, <1>4 DEF CreateSession, rearms, passes
  <2>2. OneAcceptPerStart'
    <3>1. pending' \in Int /\ pending' <= pending
      BY <2>1 DEF pending
    <3> QED
      BY <1>1, <3>1, Counting
  <2>3. AcceptChainSurvives'
    BY <1>1, <1>4 DEF AcceptChainSurvives, Running
  <2>4. (Len(session) + accepts["connected"] + accepts["admitting"]
           <= MaxSessions)'
    BY <1>1, <1>2, <2>1 DEF Accepting
  <2>5. StopLeavesOnlyAdmissions'
    BY <1>1, <1>2, <2>1 DEF Accepting, StopLeavesOnlyAdmissions
  <2> QED
    BY <1>1, <2>1, <2>2, <2>3, <2>4, <2>5 DEF Accepting
<1> QED
  BY <1>3, <1>4

LEMMA StopAcceptingStep ==
  ASSUME Accepting, StopAccepting
  PROVE  Accepting'
<1> USE AcceptTypes DEF AcceptStage
<1>1. /\ manager' = [manager EXCEPT !.m_state = "STOPPING",
                                    !.uiThread = "removeSession"]
      /\ accepts' = [accepts EXCEPT !["outstanding"] = 0,
                         !["failed"] = @ + accepts["outstanding"]]
      /\ UNCHANGED <<session, registry>>
  BY DEF StopAccepting
<1>2. /\ manager'.m_state = "STOPPING"
      /\ manager'.uiThread = "removeSession"
      /\ manager'.starts = manager.starts
      /\ manager' \in [m_state : {"STOPPED", "RUNNING", "STOPPING"},
                        uiThread : {"idle", "startAccept", "removeSession"},
                        starts : 0 .. MaxStarts]
  BY <1>1 DEF Accepting
<1>3. /\ accepts' \in [AcceptStage -> Nat]
      /\ accepts'["outstanding"] = 0
      /\ accepts'["connected"] = accepts["connected"]
      /\ accepts'["failed"] = accepts["failed"] + accepts["outstanding"]
      /\ accepts'["admitting"] = accepts["admitting"]
  BY <1>1 DEF Accepting
<1>4. OneAcceptPerStart'
  BY <1>2, <1>3 DEF Accepting, OneAcceptPerStart, pending
<1> QED
  BY <1>1, <1>2, <1>3, <1>4
  DEF Accepting, AcceptChainSurvives, StopLeavesOnlyAdmissions

LEMMA StopSessionsStep ==
  ASSUME Keeping, Accepting, StopSessions
  PROVE  Accepting'
<1> USE AcceptTypes DEF AcceptStage
<1>1. /\ manager' = [manager EXCEPT !.m_state = "STOPPED", !.uiThread = "idle"]
      /\ accepts' = accepts
      /\ registry' = allRemoved
      /\ DOMAIN session' = DOMAIN session
  BY DEF StopSessions
<1>2. /\ manager'.m_state = "STOPPED"
      /\ manager'.uiThread = "idle"
      /\ manager'.starts = manager.starts
      /\ manager' \in [m_state : {"STOPPED", "RUNNING", "STOPPING"},
                        uiThread : {"idle", "startAccept", "removeSession"},
                        starts : 0 .. MaxStarts]
  BY <1>1 DEF Accepting
<1>3. Len(registry'.m_sessions) = 0
  BY <1>1, AllRemoved, EmptySeq DEF Keeping
<1>4. Len(session') = Len(session)
  <2>1. /\ Len(session) \in Nat /\ DOMAIN session = 1 .. Len(session)
        /\ Len(session') \in Nat /\ DOMAIN session' = 1 .. Len(session')
    BY StopStep, LenProperties DEF Keeping
  <2> QED
    BY <1>1, <2>1
<1>5. OneAcceptPerStart'
  BY <1>1, <1>2 DEF Accepting, OneAcceptPerStart, pending
<1>6. StopLeavesOnlyAdmissions'
  BY <1>1, <1>2, <1>3 DEF Accepting, OneAcceptPerStart, pending,
                          StopLeavesOnlyAdmissions
<1> QED
  BY <1>1, <1>2, <1>4, <1>5, <1>6 DEF Accepting, AcceptChainSurvives, Running

LEMMA AcceptingNext == Keeping /\ Accepting /\ [Next]_vars => Accepting'
<1> SUFFICES ASSUME Keeping, Accepting, [Next]_vars PROVE Accepting'
  OBVIOUS
<1>1. Keeping'
  BY KeepingNext
<1>2. CASE \/ StartManager
           \/ StartAccepting
           \/ StopAccepting
           \/ StopSessions
           \/ AcceptCompletes
           \/ HandleFailedAccept
           \/ HandleAccept
           \/ CreateSession
  BY <1>2, StartStep, StartAcceptingStep, StopAcceptingStep, StopSessionsStep,
     CompleteStep, FailedStep, HandleStep, CreateAcceptStep
<1>3. CASE \E id \in SessionID : RunHandler(id)
  BY <1>1, <1>3, Apart DEF RunHandler
<1>4. CASE \E id \in SessionID : AbortSession(id)
  <2>1. PICK id \in SessionID : AbortSession(id)
    BY <1>4
  <2>2. /\ DOMAIN session' = DOMAIN session
        /\ UNCHANGED <<manager, accepts>>
    BY <2>1 DEF AbortSession
  <2>3. \/ registry' = registry
        \/ Len(registry'.m_sessions) = Len(registry.m_sessions) - 1
    BY <2>1, AbortStep
  <2> QED
    BY <1>1, <2>2, <2>3, Apart
<1>5. CASE \E id \in SessionID : GlobalChat(id)
  BY <1>1, <1>5, Apart DEF GlobalChat, messageSession
<1>6. CASE \E id \in SessionID : ReadCompletes(id)
  BY <1>1, <1>6, Apart DEF ReadCompletes
<1>7. CASE \E id \in SessionID : WriteCompletes(id)
  BY <1>1, <1>7, Apart DEF WriteCompletes
<1>8. CASE \E id \in SessionID : GameManagerSends(id)
  BY <1>1, <1>8, Apart DEF GameManagerSends, messageSession
<1>9. CASE UNCHANGED vars
  BY <1>1, <1>9, Apart DEF vars
<1> QED
  BY <1>2, <1>3, <1>4, <1>5, <1>6, <1>7, <1>8, <1>9 DEF Next

-----------------------------------------------------------------------------
(* What holds of every behaviour *)

IInv == Keeping /\ Accepting

LEMMA Invariance == Spec => []IInv
<1>1. Init => IInv
  BY KeepingInit, AcceptingInit DEF IInv
<1>2. IInv /\ [Next]_vars => IInv'
  BY KeepingNext, AcceptingNext DEF IInv
<1> QED
  BY <1>1, <1>2, PTL DEF Spec

LEMMA ListedExist ==
  ASSUME Keeping
  PROVE  registry.m_sessions \in Seq(DOMAIN session)
<1>1. \A i \in DOMAIN registry.m_sessions :
        registry.m_sessions[i] \in DOMAIN session
  BY DEF Keeping, Mapped
<1>2. /\ registry.m_sessions \in Seq(Nat)
      /\ Len(registry.m_sessions) \in Nat
      /\ DOMAIN registry.m_sessions = 1 .. Len(registry.m_sessions)
      /\ registry.m_sessions
           = [i \in 1 .. Len(registry.m_sessions) |-> registry.m_sessions[i]]
  BY LenProperties DEF Keeping, Mapped
<1> DEFINE n == Len(registry.m_sessions)
           s == registry.m_sessions
<1> HIDE DEF n, s
<1> SUFFICES s \in [1 .. n -> DOMAIN session] /\ n \in Nat
  BY SeqDef DEF s
<1> QED
  BY <1>1, <1>2 DEF n, s

\* The state keeps its types: the map lists only sessions that were created, and
\* no more connections are admitted than there is room for.
THEOREM TypeCorrect == Spec => []TypeOK
<1>1. IInv => TypeOK
  BY ListedExist DEF IInv, Keeping, Accepting, TypeOK
<1> QED
  BY <1>1, Invariance, PTL

\* However often sessions abort, and in whatever order, swap-and-pop
\* (SessionManager::removeSession) never loses a session or misplaces its index.
THEOREM IndexesStayRight == Spec => []IndexesAgree
<1>1. IInv => IndexesAgree
  BY DEF IInv, Keeping, Mapped, IndexesAgree
<1> QED
  BY <1>1, Invariance, PTL

\* However many handlers of stopped accepts still run, a manager that runs has
\* an accept on its way (SessionManager::asyncAcceptSession).
THEOREM AcceptChainHolds == Spec => []AcceptChainSurvives
<1>1. IInv => AcceptChainSurvives
  BY DEF IInv, Accepting
<1> QED
  BY <1>1, Invariance, PTL

\* SessionManager::stop empties the map, for any number of sessions, but for
\* the admissions it races with: one for every start at most.
THEOREM StopEmptiesTheMap == Spec => []StopLeavesOnlyAdmissions
<1>1. IInv => StopLeavesOnlyAdmissions
  BY DEF IInv, Accepting
<1> QED
  BY <1>1, Invariance, PTL

\* There is no other way to lose the session map's mutex than a full queue met
\* by a broadcast.
THEOREM MutexLostInOneWay == Spec => []MutexLostOnFullQueueOnly
<1>1. IInv => MutexLostOnFullQueueOnly
  BY DEF IInv, Keeping
<1> QED
  BY <1>1, Invariance, PTL

\* The sets of waiting handlers, said with what the proofs say of the strand.
LEMMA WaitingHandlers ==
  ASSUME NEW s, NEW type
  PROVE  /\ waiting(s, type) = {} <=> none(s.strand, {type})
         /\ alone(s.strand, {type}) =>
              \A i, j \in waiting(s, type) : i = j
BY DEF waiting, none, alone

\* The session map and the strands agree at any time on which sessions are to be
\* reached (Session::stop, SessionManager::removeSession), for any number of
\* sessions and of handlers waiting.
THEOREM MapMatchesSessions == Spec => []ListMatchesSessions
<1>1. IInv => ListMatchesSessions
  <2> SUFFICES ASSUME IInv, NEW id \in DOMAIN session
               PROVE  listed(id) <=> /\ session[id].m_state = "RUNNING"
                                     /\ waiting(session[id], "stop") = {}
    BY DEF ListMatchesSessions
  <2>1. Registered(session[id], listed(id))
    BY DEF IInv, Keeping, SessionsSound
  <2>2. waiting(session[id], "stop") = {} <=> none(session[id].strand, Stops)
    BY WaitingHandlers DEF Stops
  <2> QED
    BY <2>1, <2>2 DEF Registered
<1> QED
  BY <1>1, Invariance, PTL

\* Session::doWrite never writes over a write under way, and a listed session
\* never lets its queue wait, for any length of the queue and any interleaving.
THEOREM WritesTakeTurns == Spec => []OneWriteAtATime
<1>1. IInv => OneWriteAtATime
  <2> SUFFICES ASSUME IInv, NEW id \in DOMAIN session
               PROVE
        /\ \A i, j \in waiting(session[id], "written") : i = j
        /\ session[id].writing # NoWrite =>
             waiting(session[id], "written") = {}
        /\ listed(id) =>
             (writeInFlight(session[id]) <=> session[id].m_writeQueue # <<>>)
        /\ listed(id) /\ session[id].writing # NoWrite =>
             session[id].writing = Head(session[id].m_writeQueue)
        /\ listed(id) => ~session[id].undefined
    BY DEF OneWriteAtATime
  <2>1. /\ WritesInTurn(session[id])
        /\ Registered(session[id], listed(id))
    BY DEF IInv, Keeping, SessionsSound, Sound
  <2>2. waiting(session[id], "written") = {}
          <=> none(session[id].strand, Writes)
    BY WaitingHandlers DEF Writes
  <2>3. \A i, j \in waiting(session[id], "written") : i = j
    BY <2>1, WaitingHandlers DEF Writes, WritesInTurn
  <2>4. /\ session[id].writing # NoWrite => none(session[id].strand, Writes)
        /\ listed(id) /\ session[id].writing # NoWrite =>
             session[id].writing = Head(session[id].m_writeQueue)
        /\ listed(id) => ~session[id].undefined
        /\ listed(id) =>
             (\/ session[id].writing # NoWrite
              \/ ~none(session[id].strand, Writes))
             <=> session[id].m_writeQueue # <<>>
    BY <2>1 DEF WritesInTurn, Registered, Flows
  <2> QED
    BY <2>2, <2>3, <2>4 DEF writeInFlight
<1> QED
  BY <1>1, Invariance, PTL

\* Session::dispatchIncomingMessage posts at most one request after the leave
\* that Session::stop has posted: a session that is gone can bother the game
\* manager once, and not again.
THEOREM LateRequestsAreFew == Spec => []FewLateRequests
<1>1. IInv => FewLateRequests
  <2> SUFFICES ASSUME IInv, NEW id \in DOMAIN session
               PROVE  session[id].lateRequests <= 1
    BY DEF FewLateRequests
  <2>1. /\ session[id] \in SessionRecord
        /\ session[id].lateRequests > 0 => session[id].lateRequests = 1
    BY DEF IInv, Keeping, SessionsSound, Sound, ReadsInTurn
  <2>2. session[id].lateRequests \in Nat
    BY <2>1, Types
  <2> QED
    BY <2>1, <2>2
<1> QED
  BY <1>1, Invariance, PTL
===========================================================================
