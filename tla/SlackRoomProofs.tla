--------------------------- MODULE SlackRoomProofs ---------------------------
(***************************************************************************)
(* Proofs about SlackRoom, for any number of people, messages, handlers,   *)
(* sessions, failures and restarts: the registry of the threads, whose     *)
(* thread is whose, and that a live session is rendered by one consumer.   *)
(***************************************************************************)
EXTENDS SlackRoom, FiniteSetTheorems, SequenceTheorems, WellFoundedInduction, TLAPS

-----------------------------------------------------------------------------
(* Operators.                                                              *)

\* A bounded set of numbers that is not empty has a maximum.
LEMMA MaxIn ==
    ASSUME NEW b \in Nat, NEW S, S \subseteq 0..b, S # {}
    PROVE  Max(S) \in S /\ \A x \in S : x <= Max(S)
<1> DEFINE R == OpToRel(<, Nat)
           T == {b - x : x \in S}
<1>1. \A x, y \in Nat : x < y => <<x, y>> \in R
  BY DEF OpToRel
<1>2. IsWellFoundedOn(R, Nat)
  BY NatLessThanWellFounded
<1>3. T \subseteq Nat /\ T # {}
  <2>1. \A x \in S : x \in Nat /\ x <= b /\ b - x \in Nat
    OBVIOUS
  <2>2. PICK x : x \in S
    OBVIOUS
  <2>3. b - x \in T
    BY <2>2
  <2> QED BY <2>1, <2>3
<1> HIDE DEF R
<1>4. PICK m \in T : \A y \in T : ~(<<y, m>> \in R)
  <2> HIDE DEF T
  <2> QED BY <1>2, <1>3, WFMin
<1>5. PICK z \in S : m = b - z
  BY <1>4
<1>6. ASSUME NEW x \in S PROVE z >= x
  <2>1. b - x \in T /\ b - x \in Nat /\ m \in Nat
    BY <1>3, <1>4
  <2>2. ~(b - x < m)
    BY <2>1, <1>1, <1>4
  <2> QED BY <2>1, <2>2, <1>5
<1> QED BY <1>5, <1>6 DEF Max


LEMMA IdleType ==
    /\ Idle \in HandlerState /\ Arrives \in HandlerState
    /\ Idle.t = 0 /\ Idle.others = {} /\ Idle.flipFrom = 0 /\ Idle.pc = "done"
    /\ Arrives.t = 0 /\ Arrives.others = {} /\ Arrives.flipFrom = 0 /\ Arrives.pc = "route"
<1>1. {} \in SUBSET Versions /\ {} \in SUBSET Nat
  OBVIOUS
<1> QED BY <1>1 DEF Idle, Arrives, HandlerState

LEMMA CountersFacts ==
    /\ DOMAIN Counters = {"messages", "edits", "answers", "stops", "failures", "restarts"}
    /\ \A c \in DOMAIN Counters : Counters[c] \in Nat
BY RoomAssumption DEF Counters

LEMMA SpendKeeps ==
    ASSUME BoundType, NEW what \in DOMAIN Counters, Spend(what)
    PROVE  BoundType'
<1>1. /\ bounds' = [bounds EXCEPT ![what] = @ + 1] /\ bounds[what] < Counters[what]
      /\ bounds \in [DOMAIN Counters -> Nat]
  BY DEF Spend, BoundType
<1>2. bounds' \in [DOMAIN Counters -> Nat]
  BY <1>1
<1>3. ASSUME NEW c \in DOMAIN Counters
      PROVE  bounds'[c] <= Counters[c]
  <2>1. Counters[c] \in Nat /\ bounds[c] \in Nat /\ bounds[c] <= Counters[c]
    BY <1>1, CountersFacts DEF BoundType
  <2>2. CASE c = what
    <3>1. bounds'[c] = bounds[c] + 1
      BY <1>1, <2>2
    <3> QED BY <3>1, <2>1, <2>2, <1>1
  <2>3. CASE c # what
    <3>1. bounds'[c] = bounds[c]
      BY <1>1, <2>3
    <3> QED BY <3>1, <2>1
  <2> QED BY <2>2, <2>3
<1> QED BY <1>2, <1>3 DEF BoundType

LEMMA BoundsKept ==
    ASSUME BoundType, UNCHANGED bounds
    PROVE  BoundType'
BY DEF BoundType

\* What is spent stays within its bound, or nothing is.
LEMMA MessagesSpent ==
    ASSUME BoundType, Spend("messages") PROVE BoundType'
<1>1. PICK w \in DOMAIN Counters : w = "messages"
  BY CountersFacts
<1> QED BY <1>1, SpendKeeps
LEMMA EditsSpent ==
    ASSUME BoundType, Spend("edits") PROVE BoundType'
<1>1. PICK w \in DOMAIN Counters : w = "edits"
  BY CountersFacts
<1> QED BY <1>1, SpendKeeps
LEMMA AnswersSpent ==
    ASSUME BoundType, Spend("answers") PROVE BoundType'
<1>1. PICK w \in DOMAIN Counters : w = "answers"
  BY CountersFacts
<1> QED BY <1>1, SpendKeeps
LEMMA StopsSpent ==
    ASSUME BoundType, Spend("stops") PROVE BoundType'
<1>1. PICK w \in DOMAIN Counters : w = "stops"
  BY CountersFacts
<1> QED BY <1>1, SpendKeeps
LEMMA FailuresSpent ==
    ASSUME BoundType, Spend("failures") PROVE BoundType'
<1>1. PICK w \in DOMAIN Counters : w = "failures"
  BY CountersFacts
<1> QED BY <1>1, SpendKeeps
LEMMA RestartsSpent ==
    ASSUME BoundType, Spend("restarts") PROVE BoundType'
<1>1. PICK w \in DOMAIN Counters : w = "restarts"
  BY CountersFacts
<1> QED BY <1>1, SpendKeeps

-----------------------------------------------------------------------------
(* What every step but a restart keeps.                                    *)

ChatGrows ==
    /\ now' >= now /\ Len(chat') >= Len(chat)
    /\ \A k \in DOMAIN chat : chat'[k].by = chat[k].by
SessGrows ==
    /\ Len(sess') >= Len(sess)
    /\ \A s \in Sessions : /\ sess'[s].user = sess[s].user
                           /\ Len(sess'[s].log) >= Len(sess[s].log)
                           /\ sess[s].state = "ended" => sess'[s].state = "ended"
ThreadsGrow ==
    /\ Len(th') >= Len(th)
    /\ \A t \in Threads : /\ th'[t].user = th[t].user /\ th'[t].room = th[t].room
                          /\ th[t].s # 0 => th'[t].s = th[t].s
Grows == ChatGrows /\ SessGrows /\ ThreadsGrow

LEMMA ChatKept ==
    ASSUME ChatType, UNCHANGED <<chat, now>>
    PROVE  ChatGrows /\ ChatType'
BY DEF ChatType, ChatGrows

LEMMA SessKept ==
    ASSUME SessionType, UNCHANGED sess
    PROVE  SessGrows
<1>1. \A s \in Sessions : sess[s] \in SessionState
  BY DEF SessionType, Sessions
<1>2. \A s \in Sessions : Len(sess[s].log) \in Nat
  BY <1>1 DEF SessionState
<1>3. Len(sess) \in Nat
  BY DEF SessionType
<1> QED BY <1>2, <1>3 DEF SessGrows

LEMMA ThreadsKept ==
    ASSUME ThreadType, UNCHANGED th
    PROVE  ThreadsGrow
BY DEF ThreadType, ThreadsGrow

\* Nothing is saved and no session is told anything.
LEMMA SessionsKept ==
    ASSUME SessionType, ChatType, ChatType', ChatGrows, UNCHANGED <<sess, saved, since, told>>
    PROVE  SessionType'
<1>1. now \in Nat /\ now' \in Nat /\ now' >= now
  BY DEF ChatType, ChatGrows
<1>2. \A s \in Sessions : saved[s] \in SavedState
  BY DEF SessionType, Sessions
<1>3. \A s \in Sessions : saved[s].seen \in Nat
  BY <1>2 DEF SavedState
<1>4. \A s \in Sessions : saved[s].seen <= now'
  BY <1>1, <1>3 DEF SessionType
<1> QED BY <1>4 DEF SessionType, Sessions

LEMMA RoomsKept ==
    ASSUME RoomType, UNCHANGED <<rooms, room, threads>>, Len(th') = Len(th)
    PROVE  RoomType'
BY DEF RoomType

LEMMA RegistryKept ==
    ASSUME Registry, RoomType, ThreadsGrow, UNCHANGED <<room, threads>>, Len(th') = Len(th),
           th \in Seq(ThreadState), th' \in Seq(ThreadState)
    PROVE  Registry'
<1>1. Threads' = Threads /\ participants' = participants
  BY DEF Threads, participants
<1>2. ASSUME NEW u \in Users, threads[u] # 0
      PROVE  th'[threads[u]].user = u /\ th'[threads[u]].room = room
  <2>1. threads[u] \in Threads
    BY <1>2 DEF RoomType, Threads
  <2> QED BY <2>1, <1>2 DEF Registry, ThreadsGrow
<1> QED BY <1>1, <1>2 DEF Registry

-----------------------------------------------------------------------------
(* What a step that does not touch them leaves true of the handlers and of  *)
(* the threads.                                                             *)

\* The shapes of the new state that these facts need.
Shapes ==
    /\ chat \in Seq(MessageType) /\ h \in Seq(HandlerState) /\ Len(h) = Len(chat)
    /\ th \in Seq(ThreadState) /\ sess \in Seq(SessionState)
    /\ threads \in [Users -> 0..Len(th)]
LEMMA ShapesHold ==
    ASSUME TypeOK
    PROVE  Shapes
BY DEF TypeOK, ChatType, HandlerType, ThreadType, RoomType, SessionType, Shapes

LEMMA HandlersAre ==
    ASSUME Shapes
    PROVE  Handlers = DOMAIN chat /\ \A k \in Handlers : h[k] \in HandlerState /\ chat[k] \in MessageType
BY DEF Shapes, Handlers

\* A handler that was left alone serves whom it served.
LEMMA ServesKept ==
    ASSUME TypeOK, Shapes', Grows, NEW k \in Handlers, h'[k] = h[k], Serves(k)
    PROVE  Serves(k)'
<1>1. k \in DOMAIN chat /\ chat'[k].by = chat[k].by /\ h[k] \in HandlerState
  BY HandlersAre, ShapesHold DEF Grows, ChatGrows
<1>2. h[k].t \in 0..Len(th)
  BY DEF TypeOK, HandlerType
<1>3. h[k].t # 0 => /\ h[k].t \in Threads /\ th'[h[k].t].user = th[h[k].t].user
                    /\ th[h[k].t].s # 0 => th'[h[k].t].s = th[h[k].t].s
  BY <1>2, ShapesHold DEF Shapes, Threads, Grows, ThreadsGrow
<1>4. \A s \in Sessions : /\ s \in Sessions' /\ sess'[s].user = sess[s].user
                          /\ Len(sess'[s].log) >= Len(sess[s].log)
                          /\ Len(sess'[s].log) \in Nat /\ Len(sess[s].log) \in Nat
  <2>1. ASSUME NEW s \in Sessions
        PROVE  /\ s \in Sessions' /\ sess'[s].user = sess[s].user
               /\ Len(sess'[s].log) >= Len(sess[s].log)
               /\ Len(sess'[s].log) \in Nat /\ Len(sess[s].log) \in Nat
    <3>1. s \in Sessions'
      BY ShapesHold DEF Shapes, Sessions, Grows, SessGrows
    <3>2. sess[s] \in SessionState /\ sess'[s] \in SessionState
      BY <3>1, ShapesHold DEF Shapes, Sessions
    <3>3. Len(sess'[s].log) \in Nat /\ Len(sess[s].log) \in Nat
      BY <3>2 DEF SessionState
    <3> QED BY <3>1, <3>3 DEF Grows, SessGrows
  <2> QED BY <2>1
<1>5. h[k].at \in Nat
  BY <1>1 DEF HandlerState
<1>6. At(k, "flip") => th[h[k].t].s \in Sessions
  <2>1. SUFFICES ASSUME At(k, "flip") PROVE th[h[k].t].s \in Sessions
    OBVIOUS
  <2>2. h[k].t \in Threads /\ th[h[k].t].s # 0
    BY <2>1, <1>3 DEF Serves, At, OnThread
  <2>3. th[h[k].t].s \in 0..Len(sess)
    BY <2>2 DEF TypeOK, ThreadType
  <2> QED BY <2>2, <2>3, ShapesHold DEF Shapes, Sessions
<1>7. (~At(k, "done") => Human(k))' /\ (h[k].pc \in OnThread => h[k].t # 0)'
  BY <1>1 DEF Serves, At, Human
<1>8. (h[k].t # 0 => th[h[k].t].user = By(k))'
  BY <1>1, <1>3 DEF Serves, By
<1>9. (At(k, "adopt") => /\ h[k].s \in Sessions /\ sess[h[k].s].user = By(k)
                         /\ h[k].at <= Len(sess[h[k].s].log))'
  <2>1. SUFFICES ASSUME At(k, "adopt")
                 PROVE  /\ h[k].s \in Sessions' /\ sess'[h[k].s].user = chat'[k].by
                        /\ h[k].at <= Len(sess'[h[k].s].log)
    BY DEF At, By
  <2>2. /\ h[k].s \in Sessions /\ sess[h[k].s].user = chat[k].by
        /\ h[k].at <= Len(sess[h[k].s].log)
    BY <2>1 DEF Serves, By
  <2>3. /\ h[k].s \in Sessions' /\ sess'[h[k].s].user = sess[h[k].s].user
        /\ Len(sess'[h[k].s].log) >= Len(sess[h[k].s].log)
        /\ Len(sess'[h[k].s].log) \in Nat /\ Len(sess[h[k].s].log) \in Nat
    BY <1>4, <2>2
  <2>4. h[k].at <= Len(sess'[h[k].s].log)
    <3>1. \A a, b, c \in Nat : a <= b /\ c >= b => a <= c
      OBVIOUS
    <3> QED BY <1>5, <2>2, <2>3, <3>1, Zenon
  <2> QED BY <1>1, <2>2, <2>3, <2>4, Zenon
<1>10. (h[k].pc \in {"over", "flip", "settle"} => th[h[k].t].s # 0)'
  BY <1>3 DEF Serves, OnThread
<1>11. (At(k, "flip") => h[k].at <= Len(sess[th[h[k].t].s].log))'
  <2>1. SUFFICES ASSUME At(k, "flip") PROVE h[k].at <= Len(sess'[th'[h[k].t].s].log)
    BY DEF At
  <2>2. th'[h[k].t].s = th[h[k].t].s
    BY <2>1, <1>3 DEF Serves, At, OnThread
  <2>3. h[k].at <= Len(sess[th[h[k].t].s].log)
    BY <2>1 DEF Serves
  <2> QED BY <2>1, <2>2, <2>3, <1>4, <1>5, <1>6
<1> QED BY <1>7, <1>8, <1>9, <1>10, <1>11 DEF Serves

\* A thread stays the current one of its person while nobody registers or
\* unregisters there.
LEMMA CurrentKept ==
    ASSUME TypeOK, Shapes', Grows, NEW t \in Threads, Current(t),
           threads[th[t].user] = t => threads'[th[t].user] = t
    PROVE  Current(t)'
<1>1. th'[t].user = th[t].user /\ (th[t].s # 0 => th'[t].s = th[t].s)
  BY DEF Grows, ThreadsGrow
<1>2. CASE threads[th[t].user] = t
  BY <1>1, <1>2 DEF Current
<1>3. CASE th[t].s # 0 /\ ~Live(th[t].s)
  <2>1. th[t].s \in Sessions
    BY <1>3, ShapesHold DEF TypeOK, ThreadType, Shapes, Sessions
  <2>2. sess'[th[t].s].state = "ended"
    BY <2>1, <1>3 DEF Live, Grows, SessGrows
  <2> QED BY <1>1, <1>3, <2>2 DEF Current, Live
<1> QED BY <1>2, <1>3 DEF Current

LEMMA ComesUpKept ==
    ASSUME TypeOK, Shapes', Grows, NEW k \in Handlers, h'[k] = h[k], Serves(k), ComesUp(k),
           BringsUp(k) => /\ threads[th[h[k].t].user] = h[k].t => threads'[th[h[k].t].user] = h[k].t
                          /\ th'[h[k].t].consumer = th[h[k].t].consumer
                          /\ th'[h[k].t].s = th[h[k].t].s
    PROVE  ComesUp(k)'
<1>1. SUFFICES ASSUME BringsUp(k)
               PROVE  /\ th'[h[k].t].consumer = "none" /\ Current(h[k].t)'
                      /\ At(k, "create") => th'[h[k].t].s = 0
  BY DEF ComesUp, BringsUp, At, Current, Live
<1>2. h[k].t \in Threads
  <2>1. h[k].t \in 0..Len(th) /\ h[k].t # 0
    BY <1>1 DEF TypeOK, HandlerType, BringsUp, Serves, OnThread
  <2> QED BY <2>1, ShapesHold DEF Shapes, Threads
<1>3. Current(h[k].t)'
  <2>1. PICK t \in Threads : t = h[k].t
    BY <1>2
  <2>2. Current(t)'
    BY <1>1, <2>1, CurrentKept DEF ComesUp
  <2> QED BY <2>1, <2>2 DEF Current, Live
<1> QED BY <1>1, <1>3 DEF ComesUp

\* A thread whose session, consumer and mention are left alone still belongs
\* to its person.
SameThread(t) ==
    /\ th'[t].s = th[t].s /\ th'[t].consumer = th[t].consumer
    /\ th'[t].at = th[t].at /\ th'[t].mention = th[t].mention
LEMMA BelongsKept ==
    ASSUME TypeOK, Shapes', Grows, NEW t \in Threads, Belongs(t), SameThread(t)
    PROVE  Belongs(t)'
<1>1. th'[t].user = th[t].user /\ th[t] \in ThreadState
  BY ShapesHold DEF Grows, ThreadsGrow, Shapes, Threads
<1>2. ASSUME th[t].s # 0
      PROVE  sess'[th[t].s].user = th[t].user /\ th[t].at <= Len(sess'[th[t].s].log)
  <2>1. th[t].s \in Sessions
    BY <1>2, ShapesHold DEF TypeOK, ThreadType, Shapes, Sessions
  <2>2. PICK s \in Sessions : s = th[t].s
    BY <2>1
  <2>3. s \in Sessions'
    BY ShapesHold DEF Shapes, Sessions, Grows, SessGrows
  <2>4. sess[s] \in SessionState /\ sess'[s] \in SessionState
    BY <2>3, ShapesHold DEF Shapes, Sessions
  <2>5. Len(sess'[s].log) \in Nat /\ Len(sess[s].log) \in Nat
    BY <2>4 DEF SessionState
  <2>6. th[t].at \in Nat
    BY <1>1 DEF ThreadState
  <2>7. Len(sess'[s].log) >= Len(sess[s].log) /\ sess'[s].user = sess[s].user
    BY DEF Grows, SessGrows
  <2>8. th[t].at <= Len(sess[s].log) /\ sess[s].user = th[t].user
    BY <1>2, <2>2 DEF Belongs
  <2>9. th[t].at <= Len(sess'[s].log) /\ sess'[s].user = th[t].user
    BY <2>5, <2>6, <2>7, <2>8
  <2> QED BY ONLY <2>2, <2>9
<1>3. ASSUME th[t].mention # 0
      PROVE  th[t].mention \in Handlers' /\ By(th[t].mention)' = th[t].user
  <2>1. th[t].mention \in DOMAIN chat /\ chat[th[t].mention].by = th[t].user
    BY <1>3, HandlersAre, ShapesHold DEF Belongs, By
  <2>2. th[t].mention \in DOMAIN chat'
    BY <2>1, ShapesHold DEF Shapes, Grows, ChatGrows
  <2>3. Handlers' = DOMAIN chat'
    BY DEF Shapes, Handlers
  <2>4. chat'[th[t].mention].by = th[t].user
    BY <2>1 DEF Grows, ChatGrows
  <2>5. th'[t].mention = th[t].mention
    BY DEF SameThread
  <2> QED BY <2>2, <2>3, <2>4, <2>5 DEF By
<1> QED BY <1>1, <1>2, <1>3 DEF Belongs, SameThread, By

LEMMA FollowsKept ==
    ASSUME TypeOK, Shapes', Grows, NEW t \in Threads, Follows(t), SameThread(t),
           threads[th[t].user] = t => threads'[th[t].user] = t
    PROVE  Follows(t)'
BY CurrentKept DEF Follows, SameThread

-----------------------------------------------------------------------------
(* Steps of one handler that bring no thread up.                           *)

LEMMA Parts ==
    ASSUME RoomInv
    PROVE  /\ TypeOK /\ Shapes /\ ChatType /\ HandlerType /\ ThreadType /\ RoomType /\ SessionType
           /\ BoundType /\ Registry /\ BroughtUpOnce
           /\ Handlers = DOMAIN chat
           /\ \A k \in Handlers : Serves(k) /\ ComesUp(k) /\ h[k] \in HandlerState /\ chat[k] \in MessageType
           /\ \A t \in Threads : Belongs(t) /\ Follows(t) /\ th[t] \in ThreadState
<1>1. TypeOK /\ Shapes
  BY ShapesHold DEF RoomInv
<1>2. \A t \in Threads : th[t] \in ThreadState
  BY <1>1 DEF Shapes, Threads
<1> QED BY <1>1, <1>2, HandlersAre DEF RoomInv, TypeOK, Handling, Following

\* The new state of one handler keeps the types.
LEMMA HandlerTyped ==
    ASSUME TypeOK, NEW k \in Handlers, NEW x \in HandlerState, h' = [h EXCEPT ![k] = x],
           Len(chat') = Len(chat), ChatType', ThreadType', ChatGrows, ThreadsGrow,
           seen' \subseteq DOMAIN chat',
           x.t \in 0..Len(th'), x.others \subseteq Threads', x.flipFrom <= now'
    PROVE  HandlerType'
<1>1. h \in Seq(HandlerState) /\ Len(h) = Len(chat) /\ k \in DOMAIN h
  BY DEF TypeOK, HandlerType, Handlers
<1>2. h' \in Seq(HandlerState) /\ Len(h') = Len(h) /\ DOMAIN h' = DOMAIN h
  BY <1>1
<1>3. /\ Len(th) \in Nat /\ Len(th') \in Nat /\ Len(th') >= Len(th)
      /\ Threads \subseteq Threads'
  BY DEF TypeOK, ThreadType, ThreadsGrow, Threads
<1>4. now \in Nat /\ now' \in Nat /\ now' >= now
  BY DEF TypeOK, ChatType, ChatGrows
<1>5. ASSUME NEW j \in Handlers'
      PROVE  h'[j].t \in 0..Len(th') /\ h'[j].others \subseteq Threads' /\ h'[j].flipFrom <= now'
  <2>1. CASE j = k
    BY <2>1, <1>1
  <2>2. CASE j # k
    <3>1. j \in Handlers /\ h'[j] = h[j]
      BY <1>1, <1>2, <2>2 DEF Handlers
    <3>2. h[j].t \in 0..Len(th) /\ h[j].others \subseteq Threads /\ h[j].flipFrom <= now
      BY <3>1 DEF TypeOK, HandlerType
    <3>3. h[j] \in HandlerState
      BY <3>1, <1>1 DEF Handlers
    <3>4. h[j].flipFrom \in Nat /\ h[j].t \in Nat
      BY <3>3 DEF HandlerState
    <3> QED BY <3>1, <3>2, <3>4, <1>3, <1>4
  <2> QED BY <2>1, <2>2
<1> QED BY <1>1, <1>2, <1>5 DEF HandlerType

LEMMA HandlerMoves ==
    ASSUME RoomInv, NEW k \in Handlers, NEW x \in HandlerState, h' = [h EXCEPT ![k] = x],
           Len(chat') = Len(chat), Len(th') = Len(th), UNCHANGED threads, Grows,
           ChatType', ThreadType', RoomType', SessionType', BoundType', Registry',
           seen' \subseteq DOMAIN chat',
           x.t \in 0..Len(th'), x.others \subseteq Threads', x.flipFrom <= now',
           x.pc \notin {"create", "settle", "flip"}, Serves(k)',
           \A t \in Threads : /\ Belongs(t)' /\ th'[t].s = th[t].s
                              /\ th'[t].consumer = th[t].consumer
    PROVE  RoomInv'
<1>1. HandlerType'
  BY HandlerTyped, Parts DEF Grows
<1>2. TypeOK'
  BY <1>1 DEF TypeOK
<1>3. Shapes'
  BY <1>2 DEF TypeOK, ChatType, HandlerType, ThreadType, RoomType, SessionType, Shapes
<1>4. Handlers' = Handlers /\ Threads' = Threads
  BY <1>3, Parts DEF Shapes, Handlers, Threads
<1>5. \A j \in Handlers : j # k => h'[j] = h[j]
  BY Parts DEF Shapes, Handlers
<1>6. h'[k] = x
  BY Parts DEF Shapes, Handlers
<1>7. ASSUME NEW j \in Handlers
      PROVE  Serves(j)' /\ ComesUp(j)'
  <2>1. CASE j = k
    <3>1. ComesUp(k)'
      BY <1>6 DEF ComesUp, BringsUp
    <3> QED BY <2>1, <3>1
  <2>2. CASE j # k
    <3>1. h'[j] = h[j]
      BY <2>2, <1>5
    <3>2. Serves(j)'
      BY <3>1, <1>3, Parts, ServesKept
    <3>3. BringsUp(j) => h[j].t \in Threads
      <4>1. h[j].t \in 0..Len(th)
        BY Parts DEF HandlerType
      <4>2. BringsUp(j) => h[j].t # 0
        BY Parts DEF BringsUp, Serves, OnThread
      <4> QED BY <4>1, <4>2, Parts DEF Shapes, Threads
    <3>4. ComesUp(j)'
      BY <3>1, <3>3, <1>3, Parts, ComesUpKept
    <3> QED BY <3>2, <3>4
  <2> QED BY <2>1, <2>2
<1>8. ASSUME NEW t \in Threads
      PROVE  Follows(t)'
  <2>1. th'[t].consumer = "on" => Current(t)
    BY Parts DEF Follows
  <2> QED BY <2>1, <1>3, Parts, CurrentKept DEF Follows
<1>9. BroughtUpOnce'
  BY <1>4, <1>5, <1>6, Parts DEF BroughtUpOnce, BringsUp
<1> QED BY <1>2, <1>4, <1>7, <1>8, <1>9 DEF RoomInv, Handling, Following

\* Nothing else changes but what a session was told and the bounds.
LEMMA HandlerOnly ==
    ASSUME RoomInv, NEW k \in Handlers, NEW x \in HandlerState, h' = [h EXCEPT ![k] = x],
           UNCHANGED <<chat, now, seen, th, threads, rooms, room, saved, since, sess, told>>,
           BoundType', x.t \in 0..Len(th), x.others \subseteq Threads, x.flipFrom <= now,
           x.pc \notin {"create", "settle", "flip"}, Serves(k)'
    PROVE  RoomInv'
<1>1. ChatType' /\ ChatGrows /\ SessGrows /\ ThreadsGrow /\ RoomType'
  BY Parts, ChatKept, SessKept, ThreadsKept, RoomsKept
<1>2. Grows
  BY <1>1 DEF Grows
<1>3. ThreadType' /\ SessionType'
  BY Parts DEF ThreadType, SessionType, Threads, Sessions
<1>4. Registry'
  BY Parts, <1>1, RegistryKept DEF Shapes
<1>5. seen' \subseteq DOMAIN chat'
  BY Parts DEF HandlerType
<1>6. Shapes'
  <2>1. h' \in Seq(HandlerState) /\ Len(h') = Len(h)
    BY Parts DEF Shapes, Handlers
  <2> QED BY <2>1, Parts DEF Shapes
<1>7. \A t \in Threads : SameThread(t)
  BY DEF SameThread
<1>8. \A t \in Threads : Belongs(t)'
  BY <1>2, <1>6, <1>7, Parts, BelongsKept
<1>9. Threads' = Threads
  BY DEF Threads
<1> QED BY <1>1, <1>2, <1>3, <1>4, <1>5, <1>8, <1>9, HandlerMoves

\* The handler returns.
LEMMA IdleServes ==
    ASSUME RoomInv, NEW k \in Handlers, h'[k] = Idle
    PROVE  Serves(k)'
BY IdleType DEF Serves, At, OnThread

LEMMA ReturnsOnly ==
    ASSUME RoomInv, NEW k \in Handlers, Returns(k), BoundType',
           UNCHANGED <<chat, now, seen, th, threads, rooms, room, saved, since, sess, told>>
    PROVE  RoomInv'
<1>1. h' = [h EXCEPT ![k] = Idle] /\ h'[k] = Idle
  BY Parts DEF Returns, Shapes, Handlers
<1>2. Serves(k)'
  BY <1>1, IdleServes
<1>3. /\ Idle \in HandlerState /\ Idle.t \in 0..Len(th) /\ Idle.others \subseteq Threads
      /\ Idle.flipFrom <= now /\ Idle.pc \notin {"create", "settle", "flip"}
  BY Parts, IdleType DEF Shapes, ChatType
<1> QED BY <1>1, <1>2, <1>3, HandlerOnly

-----------------------------------------------------------------------------
(* The handlers' steps, one by one.                                        *)

\* A handler that goes on without a thread serves the same person.
LEMMA GoesOn ==
    ASSUME RoomInv, NEW k \in Handlers, ~At(k, "done"), UNCHANGED chat,
           h'[k].pc \notin OnThread, h'[k].pc # "adopt", h'[k].t = 0
    PROVE  Serves(k)'
BY Parts DEF Serves, At, OnThread, Human, By

LEMMA HandleMentionStep ==
    ASSUME RoomInv, NEW k \in Handlers, HandleMention(k)
    PROVE  RoomInv'
<1>1. CASE Quiet(k) /\ UNCHANGED bounds
  BY <1>1, Parts, BoundsKept, ReturnsOnly DEF Quiet, app
<1>2. CASE Goes(k, "register")
  <2>1. PICK x \in HandlerState : x = [h[k] EXCEPT !.pc = "register"]
    BY Parts DEF HandlerState
  <2>2. h' = [h EXCEPT ![k] = x] /\ h'[k] = x
    BY <1>2, <2>1, Parts DEF Goes, Shapes, Handlers
  <2>3. At(k, "route") /\ UNCHANGED <<chat, now, seen, th, threads, rooms, room, saved, since, sess, told>> /\ BoundType'
    <3>1. UNCHANGED bounds /\ At(k, "route") /\ UNCHANGED <<chat, now, seen, app, sess, told>>
      BY <1>2 DEF HandleMention, Quiet
    <3> QED BY <3>1, Parts, BoundsKept DEF app
  <2>4. x.t \in 0..Len(th) /\ x.others \subseteq Threads /\ x.flipFrom <= now
    BY <2>1, Parts DEF HandlerType
  <2>5. Serves(k)'
    BY <2>1, <2>2, <2>3, Parts DEF Serves, At, OnThread, Human, By
  <2>6. x.pc = "register"
    BY <2>1
  <2> QED BY <2>2, <2>3, <2>4, <2>5, <2>6, HandlerOnly
<1> QED BY <1>1, <1>2 DEF HandleMention

LEMMA LookupFailsStep ==
    ASSUME RoomInv, NEW k \in Handlers, LookupFails(k)
    PROVE  RoomInv'
BY Parts, FailuresSpent, ReturnsOnly DEF LookupFails, Quiet, app

\* The newest session of a person is one of theirs.
LEMMA NewestIsTheirs ==
    ASSUME RoomInv, NEW k \in Handlers, Mine(k) # {}
    PROVE  Newest(k) \in Sessions /\ sess[Newest(k)].user = By(k)
<1>1. Len(sess) \in Nat /\ Mine(k) \subseteq 0..Len(sess)
  BY Parts DEF Shapes, Mine, Sessions
<1>2. Max(Mine(k)) \in Mine(k)
  BY <1>1, MaxIn
<1> QED BY <1>2 DEF Newest, Mine

LEMMA ViewType ==
    ASSUME RoomInv, NEW k \in Handlers, Mine(k) # {}
    PROVE  /\ View(k) \in HandlerState /\ View(k).t = 0 /\ View(k).others = {} /\ View(k).flipFrom = 0
           /\ View(k).pc = "adopt" /\ View(k).s = Newest(k)
           /\ View(k).at = Len(sess[Newest(k)].log)
<1>1. Newest(k) \in Sessions
  BY NewestIsTheirs
<1>2. Newest(k) \in Nat /\ sess[Newest(k)] \in SessionState
  BY <1>1, Parts DEF Shapes, Sessions
<1>3. PICK n \in Nat : n = Len(sess[Newest(k)].log)
  BY <1>2 DEF SessionState
<1>4. PICK m \in Nat : m = Newest(k)
  BY <1>2
<1>5. View(k) = [Idle EXCEPT !.pc = "adopt", !.s = m, !.at = n]
  BY <1>3, <1>4 DEF View
<1>6. {} \in SUBSET Versions /\ {} \in SUBSET Nat
  OBVIOUS
<1>7. [Idle EXCEPT !.pc = "adopt", !.s = m, !.at = n] \in HandlerState
  BY ONLY <1>6, m \in Nat, n \in Nat DEF Idle, HandlerState
<1>8. /\ View(k).t = 0 /\ View(k).others = {} /\ View(k).flipFrom = 0
      /\ View(k).pc = "adopt" /\ View(k).s = m /\ View(k).at = n
  BY <1>5 DEF Idle
<1> QED BY <1>3, <1>4, <1>5, <1>7, <1>8

\* Routing with no thread of theirs: it ends, joins or looks at the paused one.
LEMMA Routed ==
    ASSUME RoomInv, NEW k \in Handlers, At(k, "route"), NEW x \in HandlerState,
           h' = [h EXCEPT ![k] = x],
           UNCHANGED <<chat, now, seen, th, threads, rooms, room, saved, since, sess, told, bounds>>,
           x.t = 0, x.others = {}, x.flipFrom = 0,
           \/ x.pc \in {"done", "join"}
           \/ /\ x.pc = "adopt" /\ Mine(k) # {} /\ x.s = Newest(k)
              /\ x.at = Len(sess[Newest(k)].log)
    PROVE  RoomInv'
<1>1. h'[k] = x
  BY Parts DEF Shapes, Handlers
<1>2. Serves(k)'
  <2>1. CASE x.pc \in {"done", "join"}
    <3>1. ~At(k, "done")
      BY DEF At
    <3> QED BY <1>1, <2>1, <3>1, GoesOn DEF OnThread
  <2>2. CASE x.pc = "adopt" /\ Mine(k) # {} /\ x.s = Newest(k) /\ x.at = Len(sess[Newest(k)].log)
    <3>1. Newest(k) \in Sessions /\ sess[Newest(k)].user = By(k)
      BY <2>2, NewestIsTheirs
    <3>2. sess[Newest(k)] \in SessionState
      BY <3>1, Parts DEF Shapes, Sessions
    <3>3. Len(sess[Newest(k)].log) \in Nat
      BY <3>2 DEF SessionState
    <3>4. Human(k)
      BY Parts DEF Serves, At
    <3>5. x.pc # "done" /\ x.pc \notin OnThread /\ x.pc \notin {"over", "flip", "settle"}
      BY <2>2 DEF OnThread
    <3>6. h'[k].s \in Sessions' /\ sess'[h'[k].s].user = By(k)' /\ h'[k].at <= Len(sess'[h'[k].s].log)
      BY <1>1, <2>2, <3>1, <3>3 DEF Sessions, By
    <3> QED BY <1>1, <3>4, <3>5, <3>6 DEF Serves, At, Human
  <2> QED BY <2>1, <2>2
<1>3. x.t \in 0..Len(th) /\ x.others \subseteq Threads /\ x.flipFrom <= now
  BY Parts DEF Shapes, ChatType
<1>4. x.pc \notin {"create", "settle", "flip"}
  OBVIOUS
<1>5. BoundType'
  BY Parts, BoundsKept
<1> QED BY <1>2, <1>3, <1>4, <1>5, HandlerOnly

LEMMA handleThreadedMentionStep ==
    ASSUME RoomInv, NEW k \in Handlers, handleThreadedMention(k)
    PROVE  RoomInv'
<1>1. /\ At(k, "route")
      /\ UNCHANGED <<chat, now, seen, th, threads, rooms, room, saved, since, sess, told, bounds>>
  BY DEF handleThreadedMention, app
<1>2. CASE h' = [h EXCEPT ![k] = [Idle EXCEPT !.pc = "join"]]
  <2>1. PICK x \in HandlerState : x = [Idle EXCEPT !.pc = "join"]
    BY IdleType DEF HandlerState
  <2>2. x.t = 0 /\ x.others = {} /\ x.flipFrom = 0 /\ x.pc = "join"
    BY <2>1 DEF Idle
  <2> QED BY <1>1, <1>2, <2>1, <2>2, Routed
<1>3. CASE h' = [h EXCEPT ![k] = Idle]
  BY <1>1, <1>3, IdleType, Routed
<1>4. CASE h' = [h EXCEPT ![k] = View(k)] /\ Mine(k) # {}
  BY <1>1, <1>4, ViewType, Routed
<1> QED BY <1>2, <1>3, <1>4 DEF handleThreadedMention

LEMMA hintNoLiveSessionStep ==
    ASSUME RoomInv, NEW k \in Handlers, hintNoLiveSession(k)
    PROVE  RoomInv'
<1>1. /\ At(k, "route")
      /\ UNCHANGED <<chat, now, seen, th, threads, rooms, room, saved, since, sess, told, bounds>>
  BY DEF hintNoLiveSession, app
<1>2. CASE h' = [h EXCEPT ![k] = Idle]
  BY <1>1, <1>2, IdleType, Routed
<1>3. CASE h' = [h EXCEPT ![k] = [View(k) EXCEPT !.solo = TRUE]] /\ Mine(k) # {}
  <2>1. /\ View(k) \in HandlerState /\ View(k).t = 0 /\ View(k).others = {} /\ View(k).flipFrom = 0
        /\ View(k).pc = "adopt" /\ View(k).s = Newest(k) /\ View(k).at = Len(sess[Newest(k)].log)
    BY <1>3, ViewType
  <2>2. PICK v \in HandlerState : v = View(k)
    BY <2>1
  <2>3. PICK x \in HandlerState : x = [v EXCEPT !.solo = TRUE]
    BY DEF HandlerState
  <2>4. /\ x.t = 0 /\ x.others = {} /\ x.flipFrom = 0 /\ x.pc = "adopt"
        /\ x.s = Newest(k) /\ x.at = Len(sess[Newest(k)].log)
    BY <2>1, <2>2, <2>3 DEF HandlerState
  <2> QED BY <1>1, <1>3, <2>2, <2>3, <2>4, Routed
<1> QED BY <1>2, <1>3 DEF hintNoLiveSession

\* What a transcript quotes is versions of messages, and so is what is left of
\* it when it is capped.
LEMMA TranscriptType ==
    ASSUME RoomInv, NEW oldest, NEW after, NEW before, NEW self
    PROVE  transcriptMessages(ThreadReplies(oldest), after, before, self) \in SUBSET Versions
<1>1. \A k \in DOMAIN chat : k \in Nat /\ chat[k].ver \in Nat
  BY Parts DEF Shapes, MessageType
<1>2. ThreadReplies(oldest) \subseteq DOMAIN chat
  BY DEF ThreadReplies
<1> QED BY <1>1, <1>2 DEF transcriptMessages, Versions

LEMMA CapType ==
    ASSUME NEW ms, ms \in SUBSET Versions
    PROVE  capEntries(ms) \in SUBSET Versions /\ capEntries(ms) \subseteq ms
BY DEF capEntries

\* The time of the message before a request is not later than the request.
LEMMA PriorType ==
    ASSUME RoomInv, NEW k \in Handlers
    PROVE  priorTS(chat[k].ts) \in Nat /\ priorTS(chat[k].ts) <= now /\ chat[k].ts \in Nat /\ chat[k].ts <= now
<1>1. \A j \in DOMAIN chat : chat[j].ts \in Nat /\ chat[j].ts <= now
  <2>1. ASSUME NEW j \in DOMAIN chat
        PROVE  chat[j].ts \in Nat /\ chat[j].ts <= now
    <3>1. chat[j] \in MessageType /\ chat[j].ts <= chat[j].ver /\ chat[j].ver \in 2..now /\ now \in Nat
      BY Parts DEF Shapes, ChatType
    <3>2. chat[j].ts \in Nat
      BY <3>1 DEF MessageType
    <3> QED BY <3>1, <3>2
  <2> QED BY <2>1
<1>2. k \in DOMAIN chat /\ now \in Nat
  BY Parts DEF ChatType
<1> DEFINE prior == {chat[j].ts : j \in {i \in ThreadReplies(0) : chat[i].ts < chat[k].ts}}
<1>3. prior \subseteq 0..now
  <2>1. ThreadReplies(0) \subseteq DOMAIN chat
    BY DEF ThreadReplies
  <2> QED BY <1>1, <1>2, <2>1
<1>4. priorTS(chat[k].ts) = IF prior = {} THEN chat[k].ts ELSE Max(prior)
  BY DEF priorTS
<1>5. CASE prior = {}
  BY <1>1, <1>2, <1>4, <1>5
<1>6. CASE prior # {}
  <2> HIDE DEF prior
  <2>1. Max(prior) \in prior
    BY <1>2, <1>3, <1>6, MaxIn
  <2>2. PICK m \in 0..now : m = Max(prior)
    BY <1>3, <2>1
  <2>3. priorTS(chat[k].ts) = m
    BY <1>4, <1>6, <2>2
  <2>4. m \in Nat /\ m <= now
    BY <1>2
  <2> QED BY <1>1, <1>2, <2>3, <2>4
<1> QED BY <1>5, <1>6

\* A handler on its thread stays on it.
LEMMA StaysOn ==
    ASSUME RoomInv, NEW k \in Handlers, h[k].pc \in OnThread, UNCHANGED chat, ThreadsGrow,
           h'[k].t = h[k].t, h'[k].pc \in {"catchup", "prompt", "advance"}
    PROVE  Serves(k)'
<1>1. ~At(k, "done") /\ h[k].t # 0 /\ h[k].t \in Threads
  BY Parts DEF HandlerType, Serves, At, OnThread, Shapes, Threads
<1>2. th'[h[k].t].user = By(k) /\ Human(k)
  BY <1>1, Parts DEF Serves, ThreadsGrow
<1> QED BY <1>1, <1>2 DEF Serves, At, OnThread, Human, By

LEMMA catchupStep ==
    ASSUME RoomInv, NEW k \in Handlers, catchup(k)
    PROVE  RoomInv'
<1>1. /\ At(k, "catchup") /\ h[k].pc \in OnThread /\ BoundType'
      /\ UNCHANGED <<chat, now, seen, th, threads, rooms, room, saved, since, sess, told>>
  BY Parts, FailuresSpent, BoundsKept DEF catchup, At, OnThread
<1>2. \E C \in SUBSET Versions, b \in BOOLEAN, n \in Nat : Carries(k, n, C, b)
  <2>1. \A n : Carry(k, n) \in SUBSET Versions
    BY TranscriptType DEF Carry
  <2>2. 0 \in Nat /\ {} \in SUBSET Versions
    OBVIOUS
  <2>3. th[h[k].t].seen \in Nat
    <3>1. h[k].t \in 0..Len(th) /\ h[k].t # 0
      BY <1>1, Parts DEF HandlerType, Serves
    <3>2. h[k].t \in Threads
      BY <3>1, Parts DEF Shapes, Threads
    <3>3. th[h[k].t] \in ThreadState
      BY <3>2, Parts
    <3> QED BY <3>3 DEF ThreadState
  <2>4. tsBefore(th[h[k].t].seen) \in Nat
    BY <2>3, RoomAssumption DEF tsBefore
  <2> QED BY <2>1, <2>2, <2>4, Zenon DEF catchup
<1>3. PICK C \in SUBSET Versions, b \in BOOLEAN, n \in Nat :
         h' = [h EXCEPT ![k].pc = "prompt", ![k].from = n, ![k].carry = C, ![k].read = b]
  BY <1>2 DEF Carries
<1>4. PICK x \in HandlerState :
         x = [h[k] EXCEPT !.pc = "prompt", !.from = n, !.carry = C, !.read = b]
  BY Parts DEF HandlerState
<1>5. h' = [h EXCEPT ![k] = x] /\ h'[k] = x
  BY <1>3, <1>4, Parts DEF Shapes, Handlers
<1>6. x.t = h[k].t /\ x.others = h[k].others /\ x.flipFrom = h[k].flipFrom /\ x.pc = "prompt"
  BY <1>4, Parts DEF HandlerState
<1>7. x.t \in 0..Len(th) /\ x.others \subseteq Threads /\ x.flipFrom <= now
  BY <1>6, Parts DEF HandlerType
<1>8. Serves(k)'
  BY <1>1, <1>5, <1>6, Parts, ThreadsKept, StaysOn
<1> QED BY <1>1, <1>5, <1>6, <1>7, <1>8, HandlerOnly

LEMMA PromptRefusedStep ==
    ASSUME RoomInv, NEW k \in Handlers, PromptRefused(k)
    PROVE  RoomInv'
<1>1. /\ At(k, "prompt") /\ BoundType'
      /\ UNCHANGED <<chat, now, seen, th, threads, rooms, room, saved, since, sess, told>>
  BY Parts, FailuresSpent, BoundsKept DEF PromptRefused
<1>2. CASE Returns(k)
  BY <1>1, <1>2, ReturnsOnly
<1>3. CASE Goes(k, "over") /\ th[h[k].t].s # 0
  <2>1. PICK x \in HandlerState : x = [h[k] EXCEPT !.pc = "over"]
    BY Parts DEF HandlerState
  <2>2. h' = [h EXCEPT ![k] = x] /\ h'[k] = x
    BY <1>3, <2>1, Parts DEF Goes, Shapes, Handlers
  <2>3. x.t = h[k].t /\ x.others = h[k].others /\ x.flipFrom = h[k].flipFrom /\ x.pc = "over"
    BY <2>1, Parts DEF HandlerState
  <2>4. x.t \in 0..Len(th) /\ x.others \subseteq Threads /\ x.flipFrom <= now
    BY <2>3, Parts DEF HandlerType
  <2>5. Serves(k) /\ h[k].pc = "prompt"
    BY <1>1, Parts DEF At
  <2>6. Serves(k)'
    BY <1>1, <1>3, <2>2, <2>3, <2>5 DEF Serves, At, OnThread, Human, By
  <2> QED BY <1>1, <2>2, <2>3, <2>4, <2>6, HandlerOnly
<1> QED BY <1>2, <1>3 DEF PromptRefused

LEMMA Registering ==
    ASSUME NEW x \in HandlerState, NEW C \in SUBSET Versions, NEW b \in BOOLEAN,
           NEW j \in BOOLEAN, NEW p \in BOOLEAN, NEW n \in Nat
    PROVE  [x EXCEPT !.pc = "register", !.carry = C, !.read = b, !.joined = j,
                     !.parent = p, !.flipFrom = n] \in HandlerState
BY DEF HandlerState

LEMMA startJoinStep ==
    ASSUME RoomInv, NEW k \in Handlers, startJoin(k)
    PROVE  RoomInv'
<1>1. /\ At(k, "join") /\ BoundType'
      /\ UNCHANGED <<chat, now, seen, th, threads, rooms, room, saved, since, sess, told>>
  BY Parts, FailuresSpent, BoundsKept DEF startJoin, app
<1>2. \E C \in SUBSET Versions, b, j, p \in BOOLEAN, n \in 0..now :
         h' = [h EXCEPT ![k] = [@ EXCEPT !.pc = "register", !.carry = C, !.read = b,
                                         !.joined = j, !.parent = p, !.flipFrom = n]]
  <2>1. {} \in SUBSET Versions
    OBVIOUS
  <2>2. priorTS(chat[k].ts) \in 0..now /\ chat[k].ts \in 0..now
    BY PriorType, Parts DEF ChatType
  <2>3. \A ms : parentOf(ms) \in BOOLEAN /\ (~(h[k].solo /\ ms = {})) \in BOOLEAN
    BY DEF parentOf
  <2>4. transcriptMessages(ThreadReplies(0), 0, chat[k].ts, 0) \in SUBSET Versions
    BY TranscriptType
  <2>5. \E ms : \E C \in SUBSET Versions, b \in BOOLEAN, n \in 0..now : Joins(k, ms, C, b, n)
    <3>1. \E ms : \/ Joins(k, ms, transcriptMessages(ThreadReplies(0), 0, chat[k].ts, 0), TRUE, priorTS(chat[k].ts))
                  \/ Joins(k, ms, {}, FALSE, chat[k].ts)
      BY DEF startJoin
    <3>2. TRUE \in BOOLEAN /\ FALSE \in BOOLEAN
      OBVIOUS
    <3>3. PICK ms : \/ Joins(k, ms, transcriptMessages(ThreadReplies(0), 0, chat[k].ts, 0), TRUE, priorTS(chat[k].ts))
                    \/ Joins(k, ms, {}, FALSE, chat[k].ts)
      BY <3>1
    <3>4. CASE Joins(k, ms, transcriptMessages(ThreadReplies(0), 0, chat[k].ts, 0), TRUE, priorTS(chat[k].ts))
      BY ONLY <2>2, <2>4, <3>2, <3>4, Zenon
    <3>5. CASE Joins(k, ms, {}, FALSE, chat[k].ts)
      BY ONLY <2>1, <2>2, <3>2, <3>5, Zenon
    <3> QED BY <3>3, <3>4, <3>5
  <2>6. PICK ms : \E C \in SUBSET Versions, b \in BOOLEAN, n \in 0..now : Joins(k, ms, C, b, n)
    BY <2>5
  <2>7. PICK j, p \in BOOLEAN : j = (~(h[k].solo /\ ms = {})) /\ p = parentOf(ms)
    BY <2>3
  <2>8. PICK C \in SUBSET Versions, b \in BOOLEAN, n \in 0..now : Joins(k, ms, C, b, n)
    BY ONLY <2>6
  <2>9. h' = [h EXCEPT ![k] = [@ EXCEPT !.pc = "register", !.carry = C, !.read = b,
                                        !.joined = j, !.parent = p, !.flipFrom = n]]
    BY ONLY <2>7, <2>8, Zenon DEF Joins
  <2> QED BY ONLY <2>7, <2>8, <2>9
<1>3. PICK C \in SUBSET Versions, b \in BOOLEAN, j \in BOOLEAN, p \in BOOLEAN, n \in 0..now :
         h' = [h EXCEPT ![k] = [@ EXCEPT !.pc = "register", !.carry = C, !.read = b,
                                         !.joined = j, !.parent = p, !.flipFrom = n]]
  BY <1>2
<1>4. n \in Nat /\ h[k] \in HandlerState
  BY Parts DEF ChatType
<1>5. PICK x \in HandlerState : x = [h[k] EXCEPT !.pc = "register", !.carry = C, !.read = b,
                                                 !.joined = j, !.parent = p, !.flipFrom = n]
  <2>1. [h[k] EXCEPT !.pc = "register", !.carry = C, !.read = b, !.joined = j,
                     !.parent = p, !.flipFrom = n] \in HandlerState
    BY <1>4, Registering, Zenon
  <2> QED BY <2>1, Zenon
<1>6. h' = [h EXCEPT ![k] = x] /\ h'[k] = x
  BY <1>3, <1>5, Parts DEF Shapes, Handlers
<1>7. x.t = h[k].t /\ x.others = h[k].others /\ x.flipFrom = n /\ x.pc = "register"
  BY <1>5, Parts DEF HandlerState
<1>8. x.t \in 0..Len(th) /\ x.others \subseteq Threads /\ x.flipFrom <= now
  BY <1>7, Parts DEF HandlerType
<1>9. Serves(k)'
  <2>1. Serves(k) /\ h[k].pc = "join"
    BY <1>1, Parts DEF At
  <2> QED BY <1>1, <1>6, <1>7, <2>1 DEF Serves, At, OnThread, Human, By
<1> QED BY <1>1, <1>6, <1>7, <1>8, <1>9, HandlerOnly

-----------------------------------------------------------------------------
(* Steps of the harness and of the people that touch no handler.           *)

LEMMA Elsewhere ==
    ASSUME RoomInv, UNCHANGED <<h, threads, seen>>,
           Len(chat') = Len(chat), Len(th') = Len(th), Grows,
           ChatType', ThreadType', RoomType', SessionType', BoundType', Registry',
           \A t \in Threads : /\ Belongs(t)' /\ th'[t].s = th[t].s
                              /\ th'[t].consumer = th[t].consumer
    PROVE  RoomInv'
<1>1. Threads' = Threads /\ DOMAIN chat' = DOMAIN chat
  BY Parts DEF Threads, Shapes, ChatType, ThreadType
<1>2. HandlerType'
  <2>1. now \in Nat /\ now' \in Nat /\ now' >= now
    BY Parts DEF ChatType, Grows, ChatGrows
  <2>2. \A k \in Handlers : h[k].flipFrom <= now'
    <3>1. \A k \in Handlers : h[k].flipFrom \in Nat /\ h[k].flipFrom <= now
      BY Parts DEF HandlerType, HandlerState
    <3> QED BY <2>1, <3>1
  <2> QED BY <1>1, <2>2, Parts DEF HandlerType, Handlers
<1>3. TypeOK'
  BY <1>2 DEF TypeOK
<1>4. Shapes'
  BY <1>3 DEF TypeOK, ChatType, HandlerType, ThreadType, RoomType, SessionType, Shapes
<1>5. Handlers' = Handlers
  BY DEF Handlers
<1>6. ASSUME NEW j \in Handlers
      PROVE  Serves(j)' /\ ComesUp(j)'
  <2>1. Serves(j)'
    BY <1>4, Parts, ServesKept
  <2>2. BringsUp(j) => h[j].t \in Threads
    <3>1. h[j].t \in 0..Len(th)
      BY Parts DEF HandlerType
    <3>2. BringsUp(j) => h[j].t # 0
      BY Parts DEF BringsUp, Serves, OnThread
    <3> QED BY <3>1, <3>2, Parts DEF Shapes, Threads
  <2>3. ComesUp(j)'
    BY <2>2, <1>4, Parts, ComesUpKept
  <2> QED BY <2>1, <2>3
<1>7. ASSUME NEW t \in Threads
      PROVE  Follows(t)'
  <2>1. th'[t].consumer = "on" => Current(t)
    BY Parts DEF Follows
  <2> QED BY <2>1, <1>4, Parts, CurrentKept DEF Follows
<1>8. BroughtUpOnce'
  BY <1>5, Parts DEF BroughtUpOnce, BringsUp
<1> QED BY <1>1, <1>3, <1>5, <1>6, <1>7, <1>8 DEF RoomInv, Handling, Following

\* The step leaves the threads and the registry alone.
LEMMA ThreadsLeftAlone ==
    ASSUME RoomInv, UNCHANGED <<th, threads, rooms, room>>, ChatGrows, SessGrows, ChatType', Shapes'
    PROVE  /\ Grows /\ ThreadType' /\ RoomType' /\ Registry' /\ Threads' = Threads
           /\ \A t \in Threads : Belongs(t)'
<1>1. ThreadsGrow /\ RoomType'
  BY Parts, ThreadsKept, RoomsKept
<1>2. Grows
  BY <1>1 DEF Grows
<1>3. Registry'
  BY Parts, <1>1, RegistryKept DEF Shapes
<1>4. \A t \in Threads : SameThread(t)
  BY DEF SameThread
<1>5. \A t \in Threads : Belongs(t)'
  BY <1>2, <1>4, Parts, BelongsKept
<1>6. ThreadType'
  <2>1. now \in Nat /\ now' \in Nat /\ now' >= now
    BY Parts DEF ChatType, ChatGrows
  <2>2. \A t \in Threads : th[t].seen \in Nat /\ th[t].seen <= now
    BY Parts DEF ThreadType, ThreadState
  <2>3. Len(sess) \in Nat /\ Len(sess') \in Nat /\ Len(sess') >= Len(sess)
    BY Parts DEF Shapes, SessGrows
  <2>4. \A t \in Threads : th[t].s \in 0..Len(sess')
    BY <2>3, Parts DEF ThreadType
  <2> QED BY <2>1, <2>2, <2>4, Parts DEF ThreadType, Threads
<1> QED BY <1>1, <1>2, <1>3, <1>5, <1>6 DEF Threads

\* One session changes; its log only grows, and an end is final.
LEMMA SessMoves ==
    ASSUME RoomInv, NEW s \in Sessions, NEW y \in SessionState, sess' = [sess EXCEPT ![s] = y],
           y.user = sess[s].user, Len(y.log) >= Len(sess[s].log),
           sess[s].state = "ended" => y.state = "ended"
    PROVE  SessGrows /\ sess' \in Seq(SessionState) /\ Len(sess') = Len(sess) /\ Sessions' = Sessions
<1>1. sess \in Seq(SessionState) /\ s \in DOMAIN sess
  BY Parts DEF Shapes, Sessions
<1>2. sess' \in Seq(SessionState) /\ Len(sess') = Len(sess) /\ Sessions' = Sessions
  BY <1>1 DEF Sessions
<1>3. \A x \in Sessions : sess[x] \in SessionState
  BY <1>1 DEF Sessions
<1>4. \A x \in Sessions : Len(sess[x].log) \in Nat
  BY <1>3 DEF SessionState
<1>5. \A x \in Sessions : sess'[x] = IF x = s THEN y ELSE sess[x]
  BY <1>1 DEF Sessions
<1> QED BY <1>1, <1>2, <1>4, <1>5 DEF SessGrows

\* The log of a session takes one more event.
LEMMA LogGrows ==
    ASSUME NEW y \in SessionState, NEW e \in States \cup {"revFailed", "noResume"}
    PROVE  /\ Append(y.log, e) \in Seq(States \cup {"revFailed", "noResume"})
           /\ Len(Append(y.log, e)) >= Len(y.log) /\ Len(y.log) \in Nat
<1>1. y.log \in Seq(States \cup {"revFailed", "noResume"})
  BY DEF SessionState
<1> QED BY <1>1

LEMMA BecomesStep ==
    ASSUME RoomInv, NEW s \in Sessions, NEW state \in States,
           NEW e \in States \cup {"revFailed", "noResume"},
           Becomes(s, state, e), sess[s].state # "ended", BoundType'
    PROVE  RoomInv'
<1>1. sess[s] \in SessionState
  BY Parts DEF Shapes, Sessions
<1>2. PICK l \in Seq(States \cup {"revFailed", "noResume"}) :
         l = Append(sess[s].log, e) /\ Len(l) >= Len(sess[s].log)
  BY <1>1, LogGrows
<1>3. PICK b \in BOOLEAN : b = (sess[s].revived /\ state = "pending")
  OBVIOUS
<1>4. PICK y \in SessionState : y = [sess[s] EXCEPT !.state = state, !.log = l, !.revived = b]
  BY <1>1 DEF SessionState
<1>5. sess' = [sess EXCEPT ![s] = y]
  BY <1>2, <1>3, <1>4, Parts DEF Becomes, Shapes, Sessions
<1>6. y.user = sess[s].user /\ Len(y.log) >= Len(sess[s].log)
  BY <1>1, <1>2, <1>4 DEF SessionState
<1>7. SessGrows /\ sess' \in Seq(SessionState) /\ Len(sess') = Len(sess) /\ Sessions' = Sessions
  BY <1>5, <1>6, SessMoves
<1>8. UNCHANGED <<chat, now, h, seen, th, threads, rooms, room, saved, since, told>>
  BY DEF Becomes, app
<1>9. ChatGrows /\ ChatType' /\ Shapes'
  BY <1>7, <1>8, Parts, ChatKept DEF Shapes
<1>10. SessionType'
  BY <1>7, <1>8, Parts DEF SessionType
<1>11. \A t \in Threads : th'[t].s = th[t].s /\ th'[t].consumer = th[t].consumer
  BY <1>8
<1> QED BY <1>7, <1>8, <1>9, <1>10, <1>11, ThreadsLeftAlone, Elsewhere

LEMMA HarnessSteps ==
    ASSUME RoomInv, NEW s \in Sessions,
           HarnessRuns(s) \/ HarnessPauses(s) \/ HarnessReviveFails(s) \/ HarnessEnds(s)
    PROVE  RoomInv'
<1>1. PICK running \in States : running = "running"
  BY DEF States
<1>2. PICK suspended \in States : suspended = "suspended"
  BY DEF States
<1>3. PICK ended \in States : ended = "ended"
  BY DEF States
<1>4. CASE HarnessRuns(s)
  <2>1. Becomes(s, running, running) /\ BoundType' /\ sess[s].state # "ended"
    BY <1>1, <1>4, Parts, BoundsKept DEF HarnessRuns
  <2> QED BY <2>1, BecomesStep
<1>5. CASE HarnessPauses(s)
  <2>1. Becomes(s, suspended, suspended) /\ BoundType' /\ sess[s].state # "ended"
    BY <1>2, <1>5, Parts, StopsSpent DEF HarnessPauses
  <2> QED BY <2>1, BecomesStep
<1>6. CASE HarnessReviveFails(s)
  <2>1. PICK e \in {"revFailed", "noResume"} : Becomes(s, "suspended", e)
    BY <1>6 DEF HarnessReviveFails
  <2>2. BoundType' /\ sess[s].state # "ended" /\ Becomes(s, suspended, e)
    BY <2>1, <1>2, <1>6, Parts, FailuresSpent DEF HarnessReviveFails
  <2>3. e \in States \cup {"revFailed", "noResume"}
    OBVIOUS
  <2> QED BY <2>2, <2>3, BecomesStep
<1>7. CASE HarnessEnds(s)
  <2>1. Becomes(s, ended, ended) /\ BoundType' /\ sess[s].state # "ended"
    BY <1>3, <1>7, Parts, StopsSpent DEF HarnessEnds, Live
  <2> QED BY <2>1, BecomesStep
<1> QED BY <1>4, <1>5, <1>6, <1>7

LEMMA EditStep ==
    ASSUME RoomInv, NEW k \in Handlers, Edit(k)
    PROVE  RoomInv'
<1>1. /\ now' = now + 1 /\ chat' = [chat EXCEPT ![k].ver = now + 1] /\ BoundType'
      /\ UNCHANGED <<h, seen, th, threads, rooms, room, saved, since, sess, told>>
  BY Parts, EditsSpent DEF Edit, app
<1>2. now \in Nat /\ chat \in Seq(MessageType) /\ k \in DOMAIN chat /\ chat[k] \in MessageType
  BY Parts DEF ChatType
<1>3. PICK m \in MessageType : m = [chat[k] EXCEPT !.ver = now + 1]
  <2>1. PICK n \in Nat : n = now + 1
    BY <1>2
  <2>2. [chat[k] EXCEPT !.ver = n] \in MessageType
    BY <1>2 DEF MessageType
  <2> QED BY <2>1, <2>2
<1>4. chat' = [chat EXCEPT ![k] = m]
  BY <1>1, <1>2, <1>3
<1>5. m.by = chat[k].by /\ m.ts = chat[k].ts /\ m.ver = now + 1
  BY <1>2, <1>3 DEF MessageType
<1>6. chat' \in Seq(MessageType) /\ Len(chat') = Len(chat) /\ DOMAIN chat' = DOMAIN chat
  BY <1>2, <1>4
<1>7. \A j \in DOMAIN chat : chat'[j] = IF j = k THEN m ELSE chat[j]
  BY <1>2, <1>4
<1>8. \A j \in DOMAIN chat : /\ chat[j].ts <= chat[j].ver /\ chat[j].ver \in 2..now
                             /\ chat[j].ts \in Nat /\ chat[j].ver \in Nat
  <2>1. \A j \in DOMAIN chat : chat[j] \in MessageType
    BY <1>2
  <2> QED BY <2>1, Parts DEF ChatType, MessageType
<1>9. ChatType'
  <2>1. ASSUME NEW j \in DOMAIN chat
        PROVE  chat'[j].ts <= chat'[j].ver /\ chat'[j].ver \in 2..(now + 1)
    <3>1. CASE j = k
      <4>1. chat'[j].ts = chat[j].ts /\ chat'[j].ver = now + 1
        BY <3>1, <1>5, <1>7
      <4> QED BY <4>1, <1>2, <1>8
    <3>2. CASE j # k
      BY <3>2, <1>2, <1>7, <1>8
    <3> QED BY <3>1, <3>2
  <2> QED BY <2>1, <1>1, <1>2, <1>6 DEF ChatType
<1>10. ChatGrows
  BY <1>1, <1>2, <1>5, <1>6, <1>7 DEF ChatGrows
<1>11. SessGrows /\ SessionType' /\ Shapes'
  BY <1>1, <1>6, <1>9, <1>10, Parts, SessKept, SessionsKept DEF Shapes
<1>12. \A t \in Threads : th'[t].s = th[t].s /\ th'[t].consumer = th[t].consumer
  BY <1>1
<1> QED BY <1>1, <1>6, <1>9, <1>10, <1>11, <1>12, ThreadsLeftAlone, Elsewhere

-----------------------------------------------------------------------------
(* Steps of a handler that change a session or its thread.                 *)

\* The session changes with the handler's step.
LEMMA HandlerAndSession ==
    ASSUME RoomInv, NEW k \in Handlers, NEW x \in HandlerState, h' = [h EXCEPT ![k] = x],
           UNCHANGED <<chat, now, seen, th, threads, rooms, room, saved, since>>,
           SessGrows, sess' \in Seq(SessionState), Len(sess') = Len(sess),
           told' \in Seq(ToldState), Len(told') = Len(told),
           BoundType', x.t \in 0..Len(th), x.others \subseteq Threads, x.flipFrom <= now,
           x.pc \notin {"create", "settle", "flip"}, Serves(k)'
    PROVE  RoomInv'
<1>1. ChatType' /\ ChatGrows
  BY Parts, ChatKept
<1>2. Shapes'
  <2>1. h' \in Seq(HandlerState) /\ Len(h') = Len(h)
    BY Parts DEF Shapes, Handlers
  <2> QED BY <2>1, Parts DEF Shapes
<1>3. Sessions' = Sessions
  BY Parts DEF Sessions, Shapes
<1>4. SessionType'
  BY <1>3, Parts DEF SessionType
<1>5. seen' \subseteq DOMAIN chat'
  BY Parts DEF HandlerType
<1>6. \A t \in Threads : th'[t].s = th[t].s /\ th'[t].consumer = th[t].consumer
  OBVIOUS
<1>7. x.t \in 0..Len(th') /\ x.others \subseteq Threads' /\ x.flipFrom <= now'
  BY DEF Threads
<1>8. Grows /\ ThreadType' /\ RoomType' /\ Registry' /\ \A t \in Threads : Belongs(t)'
  BY <1>1, <1>2, ThreadsLeftAlone
<1>9. Len(chat') = Len(chat) /\ Len(th') = Len(th) /\ UNCHANGED threads
  OBVIOUS
<1> QED BY <1>1, <1>4, <1>5, <1>6, <1>7, <1>8, <1>9, HandlerMoves

\* What a session is told is versions of messages.
LEMMA ToldType ==
    ASSUME RoomInv, NEW k \in Handlers, NEW x \in ToldState
    PROVE  Told(x, k) \in ToldState
<1>1. h[k].carry \in SUBSET Versions /\ h[k].from \in Nat /\ k \in Nat
  <2>1. h[k] \in HandlerState
    BY Parts
  <2>2. k \in Nat
    BY Parts DEF Shapes, Handlers
  <2> QED BY <2>1, <2>2 DEF HandlerState
<1>2. x.turns \in SUBSET Nat /\ x.from \in Nat
  BY DEF ToldState
<1>3. PICK q \in SUBSET Versions : q = x.quoted \cup capEntries(h[k].carry)
  BY <1>1, CapType DEF ToldState
<1>4. PICK o \in SUBSET Versions : o = x.omitted \cup (h[k].carry \ capEntries(h[k].carry))
  BY <1>1, CapType DEF ToldState
<1>5. PICK y \in ToldState : y = [x EXCEPT !.quoted = q, !.omitted = o]
  BY DEF ToldState
<1>6. y = Quoting(x, h[k].carry) /\ y.turns = x.turns /\ y.from = x.from
  BY <1>3, <1>4, <1>5 DEF Quoting, ToldState
<1>7. PICK r \in SUBSET Nat : r = y.turns \cup {k}
  BY <1>1, <1>2, <1>6
<1>8. PICK n \in Nat : n = IF y.from < h[k].from THEN h[k].from ELSE y.from
  BY <1>1, <1>2, <1>6
<1>9. Told(x, k) = [y EXCEPT !.turns = r, !.from = n]
  BY <1>5, <1>6, <1>7, <1>8 DEF Told, ToldState
<1> QED BY <1>5, <1>9 DEF ToldState

LEMMA PromptAcceptedStep ==
    ASSUME RoomInv, NEW k \in Handlers, PromptAccepted(k)
    PROVE  RoomInv'
<1> DEFINE s == th[h[k].t].s
<1>1. /\ At(k, "prompt") /\ s # 0 /\ sess[s].state \in {"running", "suspended"}
      /\ told' = [told EXCEPT ![s] = Told(@, k)] /\ Goes(k, "advance")
      /\ UNCHANGED <<chat, now, seen, th, threads, rooms, room, saved, since>> /\ BoundType'
  BY Parts, BoundsKept DEF PromptAccepted, app
<1>2. h[k].pc \in OnThread /\ h[k].t \in Threads
  BY <1>1, Parts DEF At, OnThread, HandlerType, Serves, Shapes, Threads
<1>3. s \in Sessions
  <2>1. s \in 0..Len(sess)
    BY <1>2, Parts DEF ThreadType
  <2> QED BY <1>1, <2>1, Parts DEF Shapes, Sessions
<1>4. PICK z \in Sessions : z = s
  BY <1>3
<1>5. sess[z] \in SessionState
  BY Parts DEF Shapes, Sessions
<1>6. SessGrows /\ sess' \in Seq(SessionState) /\ Len(sess') = Len(sess)
  <2>1. PICK e \in States : e = "pending"
    BY DEF States
  <2>2. PICK l \in Seq(States \cup {"revFailed", "noResume"}) :
           /\ l = IF sess[z].state = "suspended" THEN Append(sess[z].log, "pending") ELSE sess[z].log
           /\ Len(l) >= Len(sess[z].log)
    <3>1. /\ Append(sess[z].log, "pending") \in Seq(States \cup {"revFailed", "noResume"})
          /\ Len(Append(sess[z].log, "pending")) >= Len(sess[z].log) /\ Len(sess[z].log) \in Nat
      BY <1>5, <2>1, LogGrows
    <3>2. sess[z].log \in Seq(States \cup {"revFailed", "noResume"})
      BY <1>5 DEF SessionState
    <3>3. CASE sess[z].state = "suspended"
      BY <3>1, <3>3
    <3>4. CASE sess[z].state # "suspended"
      BY <3>1, <3>2, <3>4
    <3> QED BY <3>3, <3>4
  <2>3. PICK st \in States : st = IF sess[z].state = "suspended" THEN "pending" ELSE sess[z].state
    BY <1>5, <2>1 DEF SessionState
  <2>4. PICK b \in BOOLEAN : b = (sess[z].revived \/ sess[z].state = "suspended")
    OBVIOUS
  <2>5. PICK y \in SessionState : y = [sess[z] EXCEPT !.state = st, !.revived = b, !.log = l]
    BY <1>5 DEF SessionState
  <2>6. sess' = [sess EXCEPT ![z].state = IF @ = "suspended" THEN "pending" ELSE @,
                             ![z].revived = @ \/ sess[z].state = "suspended",
                             ![z].log = IF sess[z].state = "suspended" THEN Append(@, "pending") ELSE @]
    BY <1>4 DEF PromptAccepted
  <2>7. sess' = [sess EXCEPT ![z] = y]
    BY <1>5, <2>2, <2>3, <2>4, <2>5, <2>6, Parts DEF Shapes, Sessions, SessionState
  <2>8. y.user = sess[z].user /\ y.log = l
    BY <1>5, <2>5 DEF SessionState
  <2>9. sess[z].state # "ended"
    BY <1>1, <1>4
  <2> QED BY <2>2, <2>7, <2>8, <2>9, SessMoves
<1>7. told' \in Seq(ToldState) /\ Len(told') = Len(told)
  <2>1. told \in Seq(ToldState) /\ z \in DOMAIN told
    BY Parts DEF SessionType, Sessions
  <2>2. PICK y \in ToldState : y = Told(told[z], k)
    BY <2>1, ToldType
  <2>3. told' = [told EXCEPT ![z] = y]
    BY <1>1, <1>4, <2>1, <2>2
  <2> QED BY <2>1, <2>3
<1>8. PICK x \in HandlerState : x = [h[k] EXCEPT !.pc = "advance"]
  BY Parts DEF HandlerState
<1>9. h' = [h EXCEPT ![k] = x] /\ h'[k] = x
  BY <1>1, <1>8, Parts DEF Goes, Shapes, Handlers
<1>10. x.t = h[k].t /\ x.others = h[k].others /\ x.flipFrom = h[k].flipFrom /\ x.pc = "advance"
  BY <1>8, Parts DEF HandlerState
<1>11. x.t \in 0..Len(th) /\ x.others \subseteq Threads /\ x.flipFrom <= now
  BY <1>10, Parts DEF HandlerType
<1>12. Serves(k)'
  BY <1>1, <1>2, <1>9, <1>10, Parts, ThreadsKept, StaysOn
<1>13. x.pc \notin {"create", "settle", "flip"}
  BY <1>10
<1> QED BY <1>1, <1>6, <1>7, <1>9, <1>11, <1>12, <1>13, HandlerAndSession

LEMMA reviveStatelessStep ==
    ASSUME RoomInv, NEW k \in Handlers, reviveStateless(k)
    PROVE  RoomInv'
<1> DEFINE s == h[k].s
<1>1. /\ At(k, "adopt") /\ BoundType'
      /\ UNCHANGED <<chat, now, seen, th, threads, rooms, room, saved, since, told>>
  BY Parts, BoundsKept DEF reviveStateless, app
<1>2. PICK z \in Sessions : z = s
  BY <1>1, Parts DEF Serves
<1>3. sess[z] \in SessionState
  BY Parts DEF Shapes, Sessions
<1>4. PICK ok \in BOOLEAN :
         /\ sess' = IF ok /\ Live(z)
                    THEN [sess EXCEPT ![z].state = "ended", ![z].log = Append(@, "ended")] ELSE sess
         /\ h' = [h EXCEPT ![k] = IF ok THEN [Idle EXCEPT !.pc = "join", !.solo = h[k].solo] ELSE Idle]
  BY <1>2 DEF reviveStateless
<1>5. SessGrows /\ sess' \in Seq(SessionState) /\ Len(sess') = Len(sess)
  <2>1. CASE sess' = sess
    BY <2>1, Parts, SessKept DEF Shapes
  <2>2. CASE sess' = [sess EXCEPT ![z].state = "ended", ![z].log = Append(@, "ended")]
    <3>1. PICK e \in States : e = "ended"
      BY DEF States
    <3>2. PICK l \in Seq(States \cup {"revFailed", "noResume"}) :
             l = Append(sess[z].log, e) /\ Len(l) >= Len(sess[z].log)
      BY <1>3, LogGrows
    <3>3. PICK y \in SessionState : y = [sess[z] EXCEPT !.state = e, !.log = l]
      BY <1>3 DEF SessionState
    <3>4. sess' = [sess EXCEPT ![z] = y]
      BY <2>2, <3>1, <3>2, <3>3, Parts DEF Shapes, Sessions
    <3>5. y.user = sess[z].user /\ y.log = l /\ y.state = "ended"
      BY <1>3, <3>1, <3>3 DEF SessionState
    <3> QED BY <3>2, <3>4, <3>5, SessMoves
  <2> QED BY <1>4, <2>1, <2>2
<1>6. told' \in Seq(ToldState) /\ Len(told') = Len(told)
  BY <1>1, Parts DEF SessionType, HandlerType
<1>7. PICK x \in HandlerState :
         /\ h' = [h EXCEPT ![k] = x] /\ x.t = 0 /\ x.others = {} /\ x.flipFrom = 0
         /\ x.pc \in {"done", "join"}
  <2>1. CASE ok
    <3>1. PICK b \in BOOLEAN : b = h[k].solo
      BY Parts DEF HandlerState
    <3>2. PICK x \in HandlerState : x = [Idle EXCEPT !.pc = "join", !.solo = b]
      BY IdleType DEF HandlerState
    <3>3. x.t = 0 /\ x.others = {} /\ x.flipFrom = 0 /\ x.pc = "join"
      BY <3>2 DEF Idle
    <3> QED BY <1>4, <2>1, <3>1, <3>2, <3>3
  <2>2. CASE ~ok
    BY <1>4, <2>2, IdleType
  <2> QED BY <2>1, <2>2
<1>8. h'[k] = x
  BY <1>7, Parts DEF Shapes, Handlers
<1>9. Serves(k)'
  <2>1. ~At(k, "done")
    BY <1>1 DEF At
  <2> QED BY <1>1, <1>7, <1>8, <2>1, GoesOn DEF OnThread
<1>10. x.t \in 0..Len(th) /\ x.others \subseteq Threads /\ x.flipFrom <= now
  BY <1>7, Parts DEF Shapes, ChatType
<1>11. x.pc \notin {"create", "settle", "flip"}
  BY <1>7
<1> QED BY <1>1, <1>5, <1>6, <1>7, <1>9, <1>10, <1>11, HandlerAndSession

\* One thread changes, and stays the thread of the same person and session in
\* the same room.
LEMMA ThreadMoves ==
    ASSUME RoomInv, NEW t \in Threads, NEW y \in ThreadState, th' = [th EXCEPT ![t] = y],
           y.user = th[t].user, y.room = th[t].room, y.s = th[t].s, y.seen <= now,
           UNCHANGED <<now, sess, rooms>>
    PROVE  /\ th' \in Seq(ThreadState) /\ Len(th') = Len(th) /\ Threads' = Threads
           /\ ThreadsGrow /\ ThreadType' /\ \A x \in Threads : x # t => th'[x] = th[x]
           /\ th'[t] = y
<1>1. th \in Seq(ThreadState) /\ t \in DOMAIN th
  BY Parts DEF Shapes, Threads
<1>2. th' \in Seq(ThreadState) /\ Len(th') = Len(th) /\ Threads' = Threads
  BY <1>1 DEF Threads
<1>3. th'[t] = y /\ \A x \in Threads : x # t => th'[x] = th[x]
  BY <1>1 DEF Threads
<1>4. ThreadsGrow
  BY <1>1, <1>2, <1>3 DEF ThreadsGrow
<1>5. ThreadType'
  <2>1. ASSUME NEW x \in Threads
        PROVE  th'[x].s \in 0..Len(sess) /\ th'[x].room \in DOMAIN rooms /\ th'[x].seen <= now
    <3>1. th[x].s \in 0..Len(sess) /\ th[x].room \in DOMAIN rooms /\ th[x].seen <= now
      BY Parts DEF ThreadType
    <3>2. CASE x = t
      BY <3>1, <3>2, <1>3
    <3>3. CASE x # t
      BY <3>1, <3>3, <1>3
    <3> QED BY <3>2, <3>3
  <2> QED BY <1>2, <2>1 DEF ThreadType
<1> QED BY <1>2, <1>3, <1>4, <1>5

\* The handler's step changes one thread, whose consumer it leaves alone.
LEMMA HandlerAndThread ==
    ASSUME RoomInv, NEW k \in Handlers, NEW x \in HandlerState, h' = [h EXCEPT ![k] = x],
           NEW t \in Threads, NEW y \in ThreadState, th' = [th EXCEPT ![t] = y],
           y.user = th[t].user, y.room = th[t].room, y.s = th[t].s, y.seen <= now,
           y.consumer = th[t].consumer, y.at = th[t].at,
           \/ y.mention = th[t].mention
           \/ y.mention \in Handlers /\ By(y.mention) = th[t].user,
           UNCHANGED <<chat, now, seen, threads, rooms, room, sess>>,
           SessionType', BoundType',
           x.t \in 0..Len(th), x.others \subseteq Threads, x.flipFrom <= now,
           x.pc \notin {"create", "settle", "flip"}, Serves(k)'
    PROVE  RoomInv'
<1>1. ChatType' /\ ChatGrows /\ SessGrows
  BY Parts, ChatKept, SessKept
<1>2. /\ th' \in Seq(ThreadState) /\ Len(th') = Len(th) /\ Threads' = Threads
      /\ ThreadsGrow /\ ThreadType' /\ th'[t] = y
      /\ \A z \in Threads : z # t => th'[z] = th[z]
  BY ThreadMoves
<1>3. Grows
  BY <1>1, <1>2 DEF Grows
<1>4. RoomType' /\ Registry'
  BY <1>2, Parts, RoomsKept, RegistryKept DEF Shapes
<1>5. Shapes'
  <2>1. h' \in Seq(HandlerState) /\ Len(h') = Len(h)
    BY Parts DEF Shapes, Handlers
  <2> QED BY <1>2, <2>1, Parts DEF Shapes
<1>6. ASSUME NEW z \in Threads
      PROVE  Belongs(z)' /\ th'[z].s = th[z].s /\ th'[z].consumer = th[z].consumer
  <2>1. CASE z # t
    <3>1. SameThread(z)
      BY <1>2, <2>1 DEF SameThread
    <3> QED BY <3>1, <1>3, <1>5, Parts, BelongsKept DEF SameThread
  <2>2. CASE z = t
    <3>1. Handlers' = Handlers /\ \A j \in Handlers : By(j)' = By(j)
      BY <1>5, Parts DEF Shapes, Handlers, By
    <3>2. Belongs(t)
      BY Parts
    <3>3. y.mention # 0 => y.mention \in Handlers /\ chat[y.mention].by = y.user
      BY <3>2 DEF Belongs, By
    <3>4. Belongs(t)'
      BY <1>2, <3>1, <3>2, <3>3 DEF Belongs, By
    <3> QED BY <1>2, <2>2, <3>4
  <2> QED BY <2>1, <2>2
<1>7. seen' \subseteq DOMAIN chat'
  BY Parts DEF HandlerType
<1>8. x.t \in 0..Len(th') /\ x.others \subseteq Threads' /\ x.flipFrom <= now'
  BY <1>2
<1>9. Len(chat') = Len(chat) /\ Len(th') = Len(th) /\ UNCHANGED threads
  BY <1>2
<1> QED BY <1>1, <1>2, <1>3, <1>4, <1>6, <1>7, <1>8, <1>9, HandlerMoves

\* The thread registered for the author of a message is theirs.
LEMMA HeldThread ==
    ASSUME RoomInv, NEW k \in Handlers, ~At(k, "done"), threads[By(k)] # 0
    PROVE  /\ By(k) \in Users /\ threads[By(k)] \in Threads
           /\ th[threads[By(k)]].user = By(k) /\ th[threads[By(k)]].room = room
<1>1. By(k) \in Users
  BY Parts DEF Serves, Human, By
<1>2. threads[By(k)] \in Threads
  BY <1>1, Parts DEF Shapes, Threads
<1> QED BY <1>1, <1>2, Parts DEF Registry

\* A message wakes the thread of its author.
LEMMA Woken ==
    ASSUME RoomInv, NEW k \in Handlers, NEW t \in Threads, th[t].user = By(k)
    PROVE  /\ [th[t] EXCEPT !.mention = k] \in ThreadState
           /\ \A y : y = [th[t] EXCEPT !.mention = k] =>
                 /\ y.user = th[t].user /\ y.room = th[t].room /\ y.s = th[t].s /\ y.seen <= now
                 /\ y.consumer = th[t].consumer /\ y.at = th[t].at /\ y.seen = th[t].seen
                 /\ y.mention \in Handlers /\ By(y.mention) = th[t].user
                 /\ [th EXCEPT ![t].mention = k] = [th EXCEPT ![t] = y]
<1>1. th[t] \in ThreadState /\ k \in Nat /\ th[t].seen <= now
  BY Parts DEF Shapes, ThreadType
<1>2. [th[t] EXCEPT !.mention = k] \in ThreadState
  BY <1>1 DEF ThreadState
<1>3. ASSUME NEW y, y = [th[t] EXCEPT !.mention = k]
      PROVE  /\ y.user = th[t].user /\ y.room = th[t].room /\ y.s = th[t].s /\ y.seen = th[t].seen
             /\ y.consumer = th[t].consumer /\ y.at = th[t].at /\ y.mention = k
  BY <1>1, <1>3 DEF ThreadState
<1>4. ASSUME NEW y, y = [th[t] EXCEPT !.mention = k]
      PROVE  [th EXCEPT ![t].mention = k] = [th EXCEPT ![t] = y]
  BY <1>4, Parts DEF Shapes, Threads
<1> QED BY <1>1, <1>2, <1>3, <1>4

LEMMA RouteHeldStep ==
    ASSUME RoomInv, NEW k \in Handlers, RouteHeld(k)
    PROVE  RoomInv'
<1>1. /\ At(k, "route") /\ threads[By(k)] # 0 /\ BoundType'
      /\ UNCHANGED <<chat, now, seen, threads, rooms, room, saved, since, sess, told>>
  BY Parts, BoundsKept DEF RouteHeld, Held
<1>2. ~At(k, "done")
  BY <1>1 DEF At
<1>3. PICK t \in Threads : t = threads[By(k)] /\ th[t].user = By(k) /\ t \in Nat /\ t # 0
  <2>1. threads[By(k)] \in Threads /\ th[threads[By(k)]].user = By(k)
    BY <1>1, <1>2, HeldThread
  <2> QED BY <1>1, <2>1, Parts DEF Shapes, Threads
<1>4. CASE h' = [h EXCEPT ![k] = Idle] /\ th' = th
  BY <1>1, <1>4, ReturnsOnly DEF Returns
<1>5. CASE h' = [h EXCEPT ![k] = [Idle EXCEPT !.pc = "catchup", !.t = t,
                                              !.revive = th[t].state = "suspended"]]
  <2>1. PICK b \in BOOLEAN : b = (th[t].state = "suspended")
    OBVIOUS
  <2>2. PICK x \in HandlerState : x = [Idle EXCEPT !.pc = "catchup", !.t = t, !.revive = b]
    BY <1>3, IdleType DEF HandlerState
  <2>3. x.t = t /\ x.others = {} /\ x.flipFrom = 0 /\ x.pc = "catchup"
    BY <2>2, <1>3 DEF Idle
  <2>4. h' = [h EXCEPT ![k] = x] /\ h'[k] = x
    BY <1>5, <2>1, <2>2, Parts DEF Shapes, Handlers
  <2>5. x.t \in 0..Len(th) /\ x.others \subseteq Threads /\ x.flipFrom <= now
    BY <1>3, <2>3, Parts DEF Shapes, Threads, ChatType
  <2>6. Human(k)
    BY <1>2, Parts DEF Serves
  <2>7. ASSUME th'[t].user = th[t].user PROVE Serves(k)'
    BY <1>1, <1>3, <2>3, <2>4, <2>6, <2>7 DEF Serves, At, OnThread, Human, By
  <2>8. CASE th' = th
    BY <1>1, <2>3, <2>4, <2>5, <2>7, <2>8, HandlerOnly
  <2>9. CASE th' = [th EXCEPT ![t].mention = k]
    <3>1. PICK y \in ThreadState : y = [th[t] EXCEPT !.mention = k]
      BY <1>3, Woken
    <3>2. /\ y.user = th[t].user /\ y.room = th[t].room /\ y.s = th[t].s /\ y.seen <= now
          /\ y.consumer = th[t].consumer /\ y.at = th[t].at
          /\ y.mention \in Handlers /\ By(y.mention) = th[t].user
          /\ th' = [th EXCEPT ![t] = y]
      BY <1>3, <2>9, <3>1, Woken
    <3>3. th'[t] = y
      BY <3>2, Parts DEF Shapes, Threads
    <3>4. SessionType'
      BY <1>1, Parts DEF SessionType, Sessions
    <3> QED BY <1>1, <2>3, <2>4, <2>5, <2>7, <3>2, <3>3, <3>4, HandlerAndThread
  <2>10. th' = th \/ th' = [th EXCEPT ![t].mention = k]
    BY <1>3 DEF RouteHeld
  <2> QED BY <2>8, <2>9, <2>10
<1>6. \/ h' = [h EXCEPT ![k] = Idle] /\ th' = th
      \/ h' = [h EXCEPT ![k] = [Idle EXCEPT !.pc = "catchup", !.t = t,
                                            !.revive = th[t].state = "suspended"]]
  BY <1>3 DEF RouteHeld
<1> QED BY <1>4, <1>5, <1>6

\* What is saved is the state of a thread.
LEMMA SaveType ==
    ASSUME RoomInv, NEW ts \in Seq(ThreadState), NEW which, which \subseteq DOMAIN ts,
           \A t \in DOMAIN ts : ts[t].seen <= now, Saves(ts, which)
    PROVE  /\ saved' \in Seq(SavedState) /\ Len(saved') = Len(saved)
           /\ \A s \in Sessions : saved'[s].seen <= now
<1>1. saved \in Seq(SavedState) /\ DOMAIN saved = Sessions /\ Len(saved) \in Nat
      /\ Sessions = 1..Len(saved)
  BY Parts DEF SessionType, Sessions
<1>2. ASSUME NEW s \in Sessions
      PROVE  saved'[s] \in SavedState /\ saved'[s].seen <= now
  <2>1. CASE \E t \in which : ts[t].s = s
    <3>1. PICK t \in which : t = CHOOSE x \in which : ts[x].s = s
      BY <2>1
    <3>2. saved'[s] = State(ts[t])
      BY <1>1, <2>1, <3>1 DEF Saves
    <3>3. ts[t] \in ThreadState /\ ts[t].seen <= now
      BY <3>1
    <3> QED BY <3>2, <3>3 DEF State, ThreadState, SavedState
  <2>2. CASE ~\E t \in which : ts[t].s = s
    <3>1. saved'[s] = saved[s]
      BY <1>1, <2>2 DEF Saves
    <3> QED BY <1>1, <3>1, Parts DEF SessionType
  <2> QED BY <2>1, <2>2
<1>3. saved' = [s \in 1..Len(saved) |-> saved'[s]]
  BY <1>1 DEF Saves
<1>4. saved' \in [1..Len(saved) -> SavedState]
  BY <1>1, <1>2, <1>3
<1> QED BY <1>1, <1>2, <1>4

LEMMA PostType ==
    ASSUME RoomInv, NEW ts \in Seq(ThreadState), NEW which, which \subseteq DOMAIN ts,
           \A t \in DOMAIN ts : ts[t].seen <= now, postStatus(ts, which)
    PROVE  /\ saved' \in Seq(SavedState) /\ Len(saved') = Len(saved)
           /\ \A s \in Sessions : saved'[s].seen <= now
           /\ BoundType'
<1>1. PICK lost \in SUBSET which : Fails(lost # {}) /\ Saves(ts, which \ lost)
  BY DEF postStatus
<1>2. BoundType'
  BY <1>1, Parts, FailuresSpent, BoundsKept DEF Fails
<1>3. PICK w : w = which \ lost /\ w \subseteq DOMAIN ts /\ Saves(ts, w)
  BY <1>1
<1> QED BY <1>2, <1>3, SaveType
LEMMA MetaType ==
    ASSUME RoomInv, NEW ts \in Seq(ThreadState), NEW which, which \subseteq DOMAIN ts,
           \A t \in DOMAIN ts : ts[t].seen <= now, saveMeta(ts, which)
    PROVE  /\ saved' \in Seq(SavedState) /\ Len(saved') = Len(saved)
           /\ \A s \in Sessions : saved'[s].seen <= now
           /\ BoundType'
<1>1. PICK w : w = {t \in which : HasStatus(t)} /\ w \subseteq DOMAIN ts /\ postStatus(ts, w)
  BY DEF saveMeta
<1> QED BY <1>1, PostType

LEMMA advanceCursorStep ==
    ASSUME RoomInv, NEW k \in Handlers, advanceCursor(k)
    PROVE  RoomInv'
<1>1. PICK moves \in BOOLEAN : Advances(k, moves)
  BY DEF advanceCursor
<1>2. /\ At(k, "advance") /\ Returns(k)
      /\ UNCHANGED <<chat, now, seen, threads, rooms, room, since, sess, told>>
      /\ th' = IF moves THEN [th EXCEPT ![h[k].t].seen = chat[k].ts] ELSE th
      /\ postStatus(th', {h[k].t}) \/ saveMeta(th', {h[k].t}) \/ saveMeta(th', {})
  BY <1>1 DEF Advances
<1>3. PICK t \in Threads : t = h[k].t
  BY <1>2, Parts DEF At, OnThread, HandlerType, Serves, Shapes, Threads
<1>4. chat[k].ts \in Nat /\ chat[k].ts <= now
  BY PriorType
<1>5. PICK y \in ThreadState : y = IF moves THEN [th[t] EXCEPT !.seen = chat[k].ts] ELSE th[t]
  BY <1>4, Parts DEF ThreadState
<1>6. /\ y.user = th[t].user /\ y.room = th[t].room /\ y.s = th[t].s /\ y.seen <= now
      /\ y.consumer = th[t].consumer /\ y.at = th[t].at /\ y.mention = th[t].mention
  BY <1>4, <1>5, Parts DEF ThreadState, ThreadType
<1>7. th' = [th EXCEPT ![t] = y]
  <2>1. th \in Seq(ThreadState) /\ t \in DOMAIN th /\ th[t] \in ThreadState
    BY Parts DEF Shapes, Threads
  <2>2. CASE moves
    <3>1. th' = [th EXCEPT ![t].seen = chat[k].ts] /\ y = [th[t] EXCEPT !.seen = chat[k].ts]
      BY <1>2, <1>3, <1>5, <2>2
    <3> QED BY <2>1, <3>1
  <2>3. CASE ~moves
    <3>1. th' = th /\ y = th[t]
      BY <1>2, <1>5, <2>3
    <3> QED BY <2>1, <3>1
  <2> QED BY <2>2, <2>3
<1>8. th' \in Seq(ThreadState) /\ Threads' = Threads /\ ThreadType'
  BY <1>2, <1>6, <1>7, ThreadMoves
<1>9. SessionType' /\ BoundType'
  <2>1. PICK ts \in Seq(ThreadState) : ts = th'
    BY <1>8
  <2>2. {t} \subseteq DOMAIN ts /\ {} \subseteq DOMAIN ts /\ \A x \in DOMAIN ts : ts[x].seen <= now
    BY <1>2, <1>8, <2>1 DEF ThreadType, Threads
  <2>3. postStatus(ts, {t}) \/ saveMeta(ts, {t}) \/ saveMeta(ts, {})
    BY <1>2, <1>3, <2>1
  <2>4. /\ saved' \in Seq(SavedState) /\ Len(saved') = Len(saved)
        /\ \A s \in Sessions : saved'[s].seen <= now
        /\ BoundType'
    <3>1. CASE postStatus(ts, {t})
      BY <2>2, <3>1, PostType
    <3>2. CASE saveMeta(ts, {t})
      BY <2>2, <3>2, MetaType
    <3>3. CASE saveMeta(ts, {})
      BY <2>2, <3>3, MetaType
    <3> QED BY <2>3, <3>1, <3>2, <3>3
  <2> QED BY <1>2, <2>4, Parts DEF SessionType, Sessions
<1>10. h' = [h EXCEPT ![k] = Idle] /\ h'[k] = Idle
  BY <1>2, Parts DEF Returns, Shapes, Handlers
<1>11. /\ Idle \in HandlerState /\ Idle.t \in 0..Len(th) /\ Idle.others \subseteq Threads
       /\ Idle.flipFrom <= now /\ Idle.pc \notin {"create", "settle", "flip"}
  BY Parts, IdleType DEF Shapes, ChatType
<1>12. Serves(k)'
  BY <1>10, IdleServes
<1> QED BY <1>2, <1>6, <1>7, <1>9, <1>10, <1>11, <1>12, HandlerAndThread

LEMMA RedeliverStep ==
    ASSUME RoomInv, NEW k \in Handlers, Redeliver(k)
    PROVE  RoomInv'
<1>1. /\ Human(k) /\ BoundType' /\ h' = [h EXCEPT ![k] = Arrives] /\ seen' = seen \cup {k}
      /\ UNCHANGED <<chat, now, th, threads, rooms, room, saved, since, sess, told>>
  BY Parts, MessagesSpent DEF Redeliver, CanArrive, app
<1>2. h'[k] = Arrives /\ h' \in Seq(HandlerState) /\ Len(h') = Len(h)
  BY <1>1, Parts, IdleType DEF Shapes, Handlers
<1>3. Serves(k)'
  BY <1>1, <1>2, IdleType DEF Serves, At, OnThread, Human
<1>4. ChatType' /\ ChatGrows /\ SessGrows /\ Shapes'
  BY <1>1, <1>2, Parts, ChatKept, SessKept DEF Shapes
<1>5. SessionType' /\ seen' \subseteq DOMAIN chat'
  BY <1>1, Parts DEF SessionType, Sessions, HandlerType
<1>6. Grows /\ ThreadType' /\ RoomType' /\ Registry' /\ Threads' = Threads
      /\ \A t \in Threads : Belongs(t)'
  BY <1>1, <1>4, ThreadsLeftAlone
<1>7. /\ Arrives \in HandlerState /\ Arrives.t \in 0..Len(th') /\ Arrives.others \subseteq Threads'
      /\ Arrives.flipFrom <= now' /\ Arrives.pc \notin {"create", "settle", "flip"}
  BY <1>1, Parts, IdleType DEF Shapes, ChatType
<1>8. \A t \in Threads : th'[t].s = th[t].s /\ th'[t].consumer = th[t].consumer
  BY <1>1
<1>9. Len(chat') = Len(chat) /\ Len(th') = Len(th) /\ UNCHANGED threads
  BY <1>1
<1> QED BY <1>1, <1>3, <1>4, <1>5, <1>6, <1>7, <1>8, <1>9, HandlerMoves

\* A message arrives, with a handler of its own that has no thread yet.
LEMMA Arrival ==
    ASSUME RoomInv, NEW m \in MessageType, NEW x \in HandlerState,
           now' = now + 1, m.ts = now + 1, m.ver = now + 1,
           chat' = Append(chat, m), h' = Append(h, x),
           x.t = 0, x.others = {}, x.flipFrom = 0,
           x.pc = "done" \/ (x.pc = "route" /\ m.by \in Users),
           seen' \subseteq DOMAIN chat', BoundType',
           UNCHANGED <<th, threads, rooms, room, since, sess, told>>,
           saved' \in Seq(SavedState), Len(saved') = Len(saved),
           \A s \in Sessions : saved'[s].seen <= now
    PROVE  RoomInv'
<1>1. /\ chat \in Seq(MessageType) /\ h \in Seq(HandlerState) /\ Len(h) = Len(chat) /\ now \in Nat
      /\ Len(chat) \in Nat
  BY Parts DEF Shapes, ChatType
<1>0. PICK n \in Nat : n = Len(chat) + 1
  BY <1>1
<1>2. /\ chat' \in Seq(MessageType) /\ Len(chat') = n /\ DOMAIN chat' = DOMAIN chat \cup {n}
      /\ chat'[n] = m /\ \A k \in DOMAIN chat : chat'[k] = chat[k]
  BY <1>0, <1>1
<1>3. /\ h' \in Seq(HandlerState) /\ Len(h') = n /\ Handlers' = Handlers \cup {n}
      /\ h'[n] = x /\ \A k \in Handlers : h'[k] = h[k]
  BY <1>0, <1>1 DEF Handlers
<1>4. n \notin Handlers
  BY <1>0, <1>1 DEF Handlers
<1>5. ChatType'
  <2>1. ASSUME NEW k \in DOMAIN chat'
        PROVE  chat'[k].ts <= chat'[k].ver /\ chat'[k].ver \in 2..now'
    <3>1. CASE k = n
      <4>1. chat'[k].ts = now + 1 /\ chat'[k].ver = now + 1
        BY <1>2, <3>1
      <4>2. now >= 2
        BY Parts DEF ChatType
      <4> QED BY <1>1, <4>1, <4>2
    <3>2. CASE k # n
      <4>1. k \in DOMAIN chat /\ chat'[k] = chat[k]
        BY <1>2, <3>2
      <4>2. chat[k].ts <= chat[k].ver /\ chat[k].ver \in 2..now
        BY <4>1, Parts DEF ChatType
      <4> QED BY <1>1, <4>1, <4>2
    <3> QED BY <3>1, <3>2
  <2>2. now' >= 2
    BY <1>1, Parts DEF ChatType
  <2> QED BY <1>1, <1>2, <2>1, <2>2 DEF ChatType
<1>6. ChatGrows /\ SessGrows /\ Shapes'
  <2>1. ChatGrows
    <3>1. Len(chat') >= Len(chat)
      BY <1>0, <1>1, <1>2
    <3> QED BY <1>1, <1>2, <3>1 DEF ChatGrows
  <2>2. SessGrows
    BY Parts, SessKept
  <2> QED BY <1>2, <1>3, <2>1, <2>2, Parts DEF Shapes
<1>7. Grows /\ ThreadType' /\ RoomType' /\ Registry' /\ Threads' = Threads
      /\ \A t \in Threads : Belongs(t)'
  BY <1>5, <1>6, ThreadsLeftAlone
<1>8. SessionType'
  <2>1. ASSUME NEW s \in Sessions PROVE saved'[s].seen <= now'
    <3>1. saved'[s] \in SavedState /\ saved'[s].seen <= now
      BY Parts DEF SessionType, Sessions
    <3> QED BY <1>1, <3>1 DEF SavedState
  <2> QED BY <2>1, Parts DEF SessionType, Sessions
<1>9. HandlerType'
  <2>1. ASSUME NEW k \in Handlers'
        PROVE  h'[k].t \in 0..Len(th) /\ h'[k].others \subseteq Threads /\ h'[k].flipFrom <= now'
    <3>1. CASE k = n
      BY <3>1, <1>1, <1>3, Parts DEF Shapes
    <3>2. CASE k # n
      <4>1. k \in Handlers /\ h'[k] = h[k]
        BY <1>3, <3>2
      <4>2. h[k].t \in 0..Len(th) /\ h[k].others \subseteq Threads /\ h[k].flipFrom <= now
        BY <4>1, Parts DEF HandlerType
      <4>3. h[k].flipFrom \in Nat
        BY <4>1, Parts DEF HandlerState
      <4> QED BY <1>1, <4>1, <4>2, <4>3
    <3> QED BY <3>1, <3>2
  <2> QED BY <1>2, <1>3, <1>7, <2>1 DEF HandlerType
<1>10. TypeOK'
  BY <1>5, <1>7, <1>8, <1>9 DEF TypeOK
<1>11. ~BringsUp(n)'
  BY <1>3 DEF BringsUp
<1>12. ASSUME NEW k \in Handlers'
       PROVE  Serves(k)' /\ ComesUp(k)'
  <2>1. CASE k = n
    <3>1. Serves(n)'
      BY <1>2, <1>3 DEF Serves, At, OnThread, Human
    <3> QED BY <2>1, <3>1, <1>11 DEF ComesUp
  <2>2. CASE k # n
    <3>1. k \in Handlers /\ h'[k] = h[k]
      BY <1>3, <2>2
    <3>2. Serves(k)' /\ ComesUp(k)'
      BY <3>1, <1>6, <1>7, Parts, ServesKept, ComesUpKept
    <3> QED BY <3>2
  <2> QED BY <2>1, <2>2
<1>13. BroughtUpOnce'
  <2>1. ASSUME NEW k \in Handlers', BringsUp(k)'
        PROVE  k \in Handlers /\ BringsUp(k) /\ h'[k].t = h[k].t
    BY <2>1, <1>3, <1>11 DEF BringsUp
  <2> QED BY <2>1, Parts DEF BroughtUpOnce
<1>14. \A t \in Threads : Follows(t)'
  <2>1. \A t \in Threads : SameThread(t)
    BY DEF SameThread
  <2> QED BY <1>6, <1>7, <2>1, Parts, FollowsKept
<1> QED BY <1>7, <1>10, <1>12, <1>13, <1>14 DEF RoomInv, Handling, Following

LEMMA MessageArrives ==
    ASSUME RoomInv, NEW u \in Users, NEW kind \in {"mention", "bare", "plain"},
           handleMessageEvent(u, kind)
    PROVE  RoomInv'
<1>1. /\ BoundType' /\ now' = now + 1 /\ h' = Append(h, Arrives)
      /\ chat' = Append(chat, Message(u, 0, kind)) /\ seen' = seen \cup {Len(chat) + 1}
      /\ UNCHANGED <<th, threads, rooms, room, saved, since, sess, told>>
  BY Parts, MessagesSpent DEF handleMessageEvent, CanArrive, app
<1>2. PICK n \in Nat : n = now + 1
  BY Parts DEF ChatType
<1>3. PICK m \in MessageType : m = Message(u, 0, kind)
  BY <1>2 DEF Message, MessageType
<1>4. m.ts = now + 1 /\ m.ver = now + 1 /\ m.by = u
  BY <1>3 DEF Message
<1>5. seen' \subseteq DOMAIN chat'
  <2>1. DOMAIN chat' = DOMAIN chat \cup {Len(chat) + 1}
    BY <1>1, <1>3, Parts DEF Shapes
  <2> QED BY <1>1, <2>1, Parts DEF HandlerType
<1>6. /\ saved' \in Seq(SavedState) /\ Len(saved') = Len(saved)
      /\ \A s \in Sessions : saved'[s].seen <= now
  BY <1>1, Parts DEF SessionType
<1> QED BY <1>1, <1>3, <1>4, <1>5, <1>6, IdleType, Arrival

LEMMA AnswerStep ==
    ASSUME RoomInv, NEW t \in Threads, Answer(t)
    PROVE  RoomInv'
<1>1. /\ th[t].consumer = "on" /\ BoundType' /\ now' = now + 1 /\ h' = Append(h, Idle)
      /\ chat' = Append(chat, Message("bot", th[t].s, "answer"))
      /\ UNCHANGED <<seen, th, threads, rooms, room, since, sess, told>>
      /\ Saves(th, {x \in {t} : HasStatus(x)}) \/ UNCHANGED saved
  BY Parts, AnswersSpent DEF Answer, Consumer
<1>2. PICK n \in Nat : n = now + 1
  BY Parts DEF ChatType
<1>3. PICK s \in Nat : s = th[t].s
  BY Parts DEF ThreadState
<1>4. PICK m \in MessageType : m = Message("bot", s, "answer")
  BY <1>2 DEF Message, MessageType
<1>5. m.ts = now + 1 /\ m.ver = now + 1 /\ chat' = Append(chat, m)
  BY <1>1, <1>3, <1>4 DEF Message
<1>6. seen' \subseteq DOMAIN chat'
  <2>1. DOMAIN chat' = DOMAIN chat \cup {Len(chat) + 1}
    BY <1>5, Parts DEF Shapes
  <2> QED BY <1>1, <2>1, Parts DEF HandlerType
<1>7. /\ saved' \in Seq(SavedState) /\ Len(saved') = Len(saved)
      /\ \A z \in Sessions : saved'[z].seen <= now
  <2>1. CASE UNCHANGED saved
    BY <2>1, Parts DEF SessionType
  <2>2. CASE Saves(th, {x \in {t} : HasStatus(x)})
    <3>1. PICK w : w = {x \in {t} : HasStatus(x)} /\ w \subseteq DOMAIN th
      BY DEF Threads
    <3>2. th \in Seq(ThreadState) /\ (\A x \in DOMAIN th : th[x].seen <= now) /\ Saves(th, w)
      BY <2>2, <3>1, Parts DEF ThreadType, Threads
    <3> QED BY <3>1, <3>2, SaveType
  <2> QED BY <1>1, <2>1, <2>2
<1> QED BY <1>1, <1>4, <1>5, <1>6, <1>7, IdleType, Arrival

-----------------------------------------------------------------------------
(* Registration.                                                           *)

\* Nobody loses their thread, and the new one is in the room of the others.
LEMMA Registers ==
    ASSUME RoomInv, NEW t \in ThreadState, threads[t.user] = 0, registerThread(t),
           t.s \in 0..Len(sess), t.seen <= now, UNCHANGED <<now, sess>>,
           NEW n \in Nat, n = Len(th) + 1
    PROVE  /\ th' \in Seq(ThreadState) /\ Len(th') = n /\ Threads' = Threads \cup {n} /\ n \notin Threads
           /\ \A x \in Threads : th'[x] = th[x]
           /\ th'[n] \in ThreadState /\ \E r \in Nat : th'[n] = [t EXCEPT !.room = r]
           /\ threads'[t.user] = n
           /\ \A x \in Threads : threads[th[x].user] = x => threads'[th[x].user] = x
           /\ ThreadsGrow /\ ThreadType' /\ RoomType' /\ Registry'
<1>1. /\ th \in Seq(ThreadState) /\ rooms \in Seq(RoomState) /\ room \in 0..Len(rooms)
      /\ threads \in [Users -> 0..Len(th)] /\ Len(th) \in Nat /\ Len(rooms) \in Nat
      /\ Threads = 1..Len(th)
  BY Parts DEF Shapes, RoomType, Threads
<1>2. t.user \in Users
  BY DEF ThreadState
<1>3. PICK was \in RoomState : was = IF room = 0 THEN NewRoom ELSE rooms[room]
  <2>1. NewRoom \in RoomState
    BY DEF NewRoom, RoomState
  <2>2. room # 0 => rooms[room] \in RoomState
    BY <1>1
  <2> QED BY <2>1, <2>2
<1>4. PICK is \in RoomState : is = [was EXCEPT !.flipped = @ \/ t.multi]
  <2>1. PICK b \in BOOLEAN : b = (was.flipped \/ t.multi)
    OBVIOUS
  <2>2. [was EXCEPT !.flipped = b] \in RoomState
    BY DEF RoomState
  <2> QED BY <2>1, <2>2
<1>5. PICK r \in Nat : r = IF room = 0 THEN Len(rooms) + 1 ELSE room
  BY <1>1
<1>6. /\ threads' = [threads EXCEPT ![t.user] = n] /\ room' = r
      /\ rooms' = IF room = 0 THEN Append(rooms, is) ELSE [rooms EXCEPT ![r] = is]
      /\ th' = Append(th, [t EXCEPT !.room = r])
  BY <1>3, <1>4, <1>5 DEF registerThread
<1>7. rooms' \in Seq(RoomState) /\ Len(rooms') >= Len(rooms) /\ Len(rooms') \in Nat /\ r \in 1..Len(rooms')
  <2>1. CASE room = 0
    <3>1. rooms' = Append(rooms, is) /\ r = Len(rooms) + 1
      BY <2>1, <1>5, <1>6
    <3> QED BY <3>1, <1>1
  <2>2. CASE room # 0
    <3>1. rooms' = [rooms EXCEPT ![r] = is] /\ r = room
      BY <2>2, <1>5, <1>6
    <3>2. rooms' \in Seq(RoomState) /\ Len(rooms') = Len(rooms)
      BY <1>1, <2>2, <3>1
    <3> QED BY <1>1, <2>2, <3>1, <3>2
  <2> QED BY <2>1, <2>2
<1>8. PICK y \in ThreadState : y = [t EXCEPT !.room = r]
  BY DEF ThreadState
<1>9. y.user = t.user /\ y.room = r /\ y.s = t.s /\ y.seen = t.seen
  BY <1>8 DEF ThreadState
<1>10. th' = Append(th, y)
  BY <1>6, <1>8
<1>11. /\ th' \in Seq(ThreadState) /\ Len(th') = n /\ Threads' = Threads \cup {n} /\ n \notin Threads
       /\ th'[n] = y /\ \A x \in Threads : th'[x] = th[x]
  BY <1>1, <1>10 DEF Threads
<1>12. \A u \in Users : threads'[u] = IF u = t.user THEN n ELSE threads[u]
  BY <1>1, <1>6
<1>13. \A x \in Threads : x # 0 /\ th[x] \in ThreadState /\ th[x].user \in Users
  <2>1. \A x \in Threads : x # 0 /\ th[x] \in ThreadState
    BY <1>1
  <2> QED BY <2>1 DEF ThreadState
<1>14. \A x \in Threads : threads[th[x].user] = x => threads'[th[x].user] = x
  BY <1>12, <1>13
<1>15. ThreadsGrow
  BY <1>1, <1>11 DEF ThreadsGrow
<1>16. ThreadType'
  <2>1. ASSUME NEW x \in Threads'
        PROVE  th'[x].s \in 0..Len(sess) /\ th'[x].room \in DOMAIN rooms' /\ th'[x].seen <= now
    <3>1. CASE x = n
      BY <3>1, <1>7, <1>9, <1>11
    <3>2. CASE x # n
      <4>1. x \in Threads /\ th'[x] = th[x]
        BY <3>2, <1>11
      <4>2. th[x].s \in 0..Len(sess) /\ th[x].room \in DOMAIN rooms /\ th[x].seen <= now
        BY <4>1, Parts DEF ThreadType
      <4>3. DOMAIN rooms \subseteq DOMAIN rooms'
        BY <1>1, <1>7
      <4> QED BY <4>1, <4>2, <4>3
    <3> QED BY <3>1, <3>2
  <2> QED BY <1>11, <2>1 DEF ThreadType
<1>17. RoomType'
  <2>1. threads' \in [Users -> 0..Len(th')]
    <3>1. \A u \in Users : threads'[u] \in 0..n
      BY <1>1, <1>12
    <3>2. threads' = [u \in Users |-> threads'[u]]
      BY <1>1, <1>6
    <3> QED BY <1>11, <3>1, <3>2
  <2>2. room' \in 0..Len(rooms')
    BY <1>6, <1>7
  <2> QED BY <1>7, <2>1, <2>2 DEF RoomType
<1>18. Registry'
  <2>1. ASSUME NEW u \in Users, threads'[u] # 0
        PROVE  th'[threads'[u]].user = u /\ th'[threads'[u]].room = r
    <3>1. CASE u = t.user
      BY <3>1, <1>9, <1>11, <1>12
    <3>2. CASE u # t.user
      <4>1. threads'[u] = threads[u] /\ threads[u] \in Threads
        BY <3>2, <2>1, <1>1, <1>12
      <4>2. th'[threads[u]] = th[threads[u]]
        BY <4>1, <1>11
      <4>3. th[threads[u]].user = u /\ th[threads[u]].room = room
        BY <4>1, <2>1, Parts DEF Registry
      <4>4. threads[u] \in participants
        BY <4>1 DEF participants
      <4>5. room # 0
        BY <4>4, Parts DEF Registry
      <4> QED BY <4>1, <4>2, <4>3, <4>5, <1>5
    <3> QED BY <3>1, <3>2
  <2>2. n \in participants'
    BY <1>2, <1>11, <1>12 DEF participants
  <2>3. room' # 0
    BY <1>6, <1>7
  <2> QED BY <1>6, <2>1, <2>2, <2>3 DEF Registry
<1>19. threads'[t.user] = n
  BY <1>2, <1>12
<1>20. \E z \in Nat : th'[n] = [t EXCEPT !.room = z]
  BY <1>8, <1>11
<1> QED BY <1>11, <1>14, <1>15, <1>16, <1>17, <1>18, <1>19, <1>20

\* The handler that registers a thread brings it up.
LEMMA RegisteredBy ==
    ASSUME RoomInv, NEW k \in Handlers, ~At(k, "done"), NEW t \in ThreadState,
           t.user = By(k), threads[t.user] = 0, registerThread(t),
           t.s \in 0..Len(sess), t.seen <= now, t.consumer = "none", t.at = 0, t.mention = 0,
           NEW x \in HandlerState, h' = [h EXCEPT ![k] = x],
           NEW n \in Nat, n = Len(th) + 1, x.t = n, x.others = participants, x.flipFrom <= now,
           \/ x.pc = "create" /\ t.s = 0
           \/ /\ x.pc = "flip" /\ t.s # 0 /\ sess[t.s].user = t.user
              /\ x.at <= Len(sess[t.s].log),
           UNCHANGED <<chat, now, seen, saved, sess, told>>, BoundType',
           since' \in Seq(Nat), Len(since') = Len(since)
    PROVE  RoomInv'
<1>1. /\ th' \in Seq(ThreadState) /\ Len(th') = n /\ Threads' = Threads \cup {n} /\ n \notin Threads
      /\ \A z \in Threads : th'[z] = th[z]
      /\ threads'[t.user] = n
      /\ \A z \in Threads : threads[th[z].user] = z => threads'[th[z].user] = z
      /\ ThreadsGrow /\ ThreadType' /\ RoomType' /\ Registry'
  BY Registers
<1>2. PICK r \in Nat : th'[n] = [t EXCEPT !.room = r]
  BY Registers
<1>3. /\ th'[n].user = t.user /\ th'[n].s = t.s /\ th'[n].consumer = "none"
      /\ th'[n].at = 0 /\ th'[n].mention = 0
  BY <1>2 DEF ThreadState
<1>4. ChatType' /\ ChatGrows /\ SessGrows /\ SessionType'
  BY Parts, ChatKept, SessKept DEF SessionType, Sessions
<1>5. Grows
  BY <1>1, <1>4 DEF Grows
<1>6. /\ h'[k] = x /\ Handlers' = Handlers
      /\ \A j \in Handlers : j # k => h'[j] = h[j]
  BY Parts DEF Shapes, Handlers
<1>7. HandlerType'
  <2>1. x.t \in 0..Len(th') /\ x.others \subseteq Threads' /\ x.flipFrom <= now'
    BY <1>1 DEF participants
  <2>2. seen' \subseteq DOMAIN chat' /\ Len(chat') = Len(chat)
    BY Parts DEF HandlerType
  <2> QED BY <1>1, <1>4, <2>1, <2>2, Parts, HandlerTyped
<1>8. TypeOK'
  BY <1>1, <1>4, <1>7 DEF TypeOK
<1>9. Shapes'
  BY <1>8 DEF TypeOK, ChatType, HandlerType, ThreadType, RoomType, SessionType, Shapes
<1>10. By(k) \in Users /\ Human(k) /\ n # 0
  BY Parts DEF Serves, Human, By
<1>11. t.s # 0 => Len(sess[t.s].log) \in Nat
  <2>1. t.s # 0 => sess[t.s] \in SessionState
    BY Parts DEF Shapes
  <2> QED BY <2>1 DEF SessionState
<1>12. ASSUME NEW j \in Handlers
       PROVE  Serves(j)' /\ ComesUp(j)'
  <2>1. CASE j = k
    <3>1. h'[j] = x /\ th'[h'[j].t].user = By(j) /\ th'[h'[j].t].s = t.s /\ UNCHANGED <<chat, sess>>
      BY <2>1, <1>3, <1>6
    <3>2. Serves(j)'
      BY <2>1, <3>1, <1>10 DEF Serves, At, OnThread, Human, By
    <3>3. th'[x.t].consumer = "none" /\ threads'[th'[x.t].user] = x.t
      BY <1>1, <1>3
    <3>4. ComesUp(j)'
      BY <3>1, <3>3, <1>3 DEF ComesUp, At, Current
    <3> QED BY <3>2, <3>4
  <2>2. CASE j # k
    <3>1. h'[j] = h[j]
      BY <2>2, <1>6
    <3>2. Serves(j)'
      BY <3>1, <1>5, <1>9, Parts, ServesKept
    <3>3. BringsUp(j) => h[j].t \in Threads
      <4>1. h[j].t \in 0..Len(th)
        BY Parts DEF HandlerType
      <4>2. BringsUp(j) => h[j].t # 0
        BY Parts DEF BringsUp, Serves, OnThread
      <4> QED BY <4>1, <4>2, Parts DEF Shapes, Threads
    <3>4. ComesUp(j)'
      BY <3>1, <3>3, <1>1, <1>5, <1>9, Parts, ComesUpKept
    <3> QED BY <3>2, <3>4
  <2> QED BY <2>1, <2>2
<1>13. ASSUME NEW z \in Threads'
       PROVE  Belongs(z)' /\ Follows(z)'
  <2>1. CASE z = n
    <3>1. Follows(z)'
      BY <2>1, <1>3 DEF Follows
    <3>2. t.s # 0 => sess[t.s].user = t.user
      OBVIOUS
    <3>3. Belongs(z)'
      BY <2>1, <1>3, <1>11, <3>2 DEF Belongs
    <3> QED BY <3>1, <3>3
  <2>2. CASE z # n
    <3>1. z \in Threads /\ th'[z] = th[z]
      BY <2>2, <1>1
    <3>2. SameThread(z)
      BY <3>1 DEF SameThread
    <3> QED BY <3>1, <3>2, <1>1, <1>5, <1>9, Parts, BelongsKept, FollowsKept
  <2> QED BY <2>1, <2>2
<1>14. BroughtUpOnce'
  <2>1. ASSUME NEW j \in Handlers, j # k, BringsUp(j)'
        PROVE  h'[j].t # n /\ BringsUp(j) /\ h'[j].t = h[j].t
    <3>1. h'[j] = h[j]
      BY <2>1, <1>6
    <3>2. h[j].t \in 0..Len(th) /\ Len(th) \in Nat
      BY Parts DEF HandlerType, Shapes
    <3> QED BY <2>1, <3>1, <3>2 DEF BringsUp
  <2>2. ASSUME NEW i \in Handlers, NEW j \in Handlers, BringsUp(i)', BringsUp(j)', h'[i].t = h'[j].t
        PROVE  i = j
    <3>1. CASE i = k \/ j = k
      BY <2>1, <2>2, <3>1, <1>6
    <3>2. CASE i # k /\ j # k
      BY <2>1, <2>2, <3>2, Parts DEF BroughtUpOnce
    <3> QED BY <3>1, <3>2
  <2> QED BY <2>2, <1>6 DEF BroughtUpOnce
<1> QED BY <1>1, <1>6, <1>8, <1>12, <1>13, <1>14 DEF RoomInv, Handling, Following

LEMMA NewThreadType ==
    ASSUME NEW u \in Users, NEW s \in Nat, NEW state \in States, NEW m \in SavedState
    PROVE  /\ NewThread(u, s, state, m) \in ThreadState
           /\ \A t : t = NewThread(u, s, state, m) =>
                 /\ t.user = u /\ t.s = s /\ t.seen = m.seen /\ t.consumer = "none"
                 /\ t.at = 0 /\ t.mention = 0
<1>1. m.multi \in BOOLEAN /\ m.seen \in Nat
  BY DEF SavedState
<1> QED BY <1>1 DEF NewThread, ThreadState

LEMMA ParticipantsType ==
    ASSUME RoomInv
    PROVE  participants \in SUBSET Nat
<1>1. Threads \subseteq Nat
  BY Parts DEF Shapes, Threads
<1>2. participants \subseteq Threads
  BY DEF participants
<1> QED BY <1>1, <1>2

LEMMA RegisterStep ==
    ASSUME RoomInv, NEW k \in Handlers, Register(k)
    PROVE  RoomInv'
<1>1. /\ At(k, "register") /\ UNCHANGED <<chat, now, seen, saved, since, sess, told>> /\ BoundType'
  BY Parts, BoundsKept DEF Register
<1>2. ~At(k, "done")
  BY <1>1 DEF At
<1>3. CASE Returns(k) /\ UNCHANGED <<th, threads, rooms, room>>
  BY <1>1, <1>3, ReturnsOnly
<1>4. CASE /\ CanRegister(By(k))
           /\ h' = [h EXCEPT ![k].pc = "create", ![k].t = Len(th) + 1, ![k].others = participants]
           /\ registerThread(NewThread(By(k), 0, "pending", NoState))
  <2>1. By(k) \in Users
    BY <1>2, Parts DEF Serves, Human, By
  <2>2. PICK m \in SavedState : m = NoState /\ m.seen = 0
    <3>1. NoState \in SavedState /\ NoState.seen = 0
      BY DEF NoState, SavedState
    <3> QED BY <3>1
  <2>3. PICK st \in States : st = "pending"
    BY DEF States
  <2>4. PICK z \in Nat : z = 0
    OBVIOUS
  <2>5. PICK t \in ThreadState : t = NewThread(By(k), z, st, m)
    BY <2>1, NewThreadType
  <2>6. t.user = By(k) /\ t.s = 0 /\ t.seen = 0 /\ t.consumer = "none" /\ t.at = 0 /\ t.mention = 0
    BY <2>1, <2>2, <2>4, <2>5, NewThreadType
  <2>7. PICK n \in Nat : n = Len(th) + 1
    BY Parts DEF Shapes
  <2>8. PICK ps \in SUBSET Nat : ps = participants
    BY ParticipantsType
  <2>9. PICK x \in HandlerState : x = [h[k] EXCEPT !.pc = "create", !.t = n, !.others = ps]
    BY Parts DEF HandlerState
  <2>10. h' = [h EXCEPT ![k] = x]
    BY <1>4, <2>7, <2>8, <2>9, Parts DEF Shapes, Handlers
  <2>11. x.t = n /\ x.others = participants /\ x.pc = "create" /\ x.flipFrom = h[k].flipFrom
    BY <2>8, <2>9, Parts DEF HandlerState
  <2>12. x.flipFrom <= now
    BY <2>11, Parts DEF HandlerType
  <2>13. registerThread(t) /\ threads[t.user] = 0
    BY <1>4, <2>2, <2>3, <2>4, <2>5, <2>6 DEF CanRegister
  <2>14. t.s \in 0..Len(sess) /\ t.seen <= now
    BY <2>6, Parts DEF Shapes, ChatType
  <2>15. since' \in Seq(Nat) /\ Len(since') = Len(since)
    BY <1>1, Parts DEF SessionType
  <2> QED BY <1>1, <1>2, <2>6, <2>7, <2>10, <2>11, <2>12, <2>13, <2>14, <2>15, RegisteredBy
<1> QED BY <1>3, <1>4 DEF Register

\* What is remembered of a session is from when on it must be told.
LEMMA RemembersType ==
    ASSUME RoomInv, NEW s \in Sessions, Remembers(s)
    PROVE  since' \in Seq(Nat) /\ Len(since') = Len(since)
<1>1. since \in Seq(Nat) /\ s \in DOMAIN since
  BY Parts DEF SessionType, Sessions
<1> QED BY <1>1 DEF Remembers

LEMMA adoptStep ==
    ASSUME RoomInv, NEW k \in Handlers, adopt(k)
    PROVE  RoomInv'
<1>1. /\ At(k, "adopt") /\ UNCHANGED <<chat, now, seen, saved, sess, told>> /\ BoundType'
  BY Parts, BoundsKept DEF adopt
<1>2. ~At(k, "done")
  BY <1>1 DEF At
<1>3. By(k) \in Users
  BY <1>2, Parts DEF Serves, Human, By
<1>4. CASE /\ CanRegister(By(k))
           /\ registerThread(NewThread(By(k), h[k].s, "suspended", saved[h[k].s]))
           /\ h' = [h EXCEPT ![k].pc = "flip", ![k].t = Len(th) + 1, ![k].others = participants]
           /\ Remembers(h[k].s)
  <2>1. PICK z \in Sessions : z = h[k].s /\ sess[z].user = By(k) /\ h[k].at <= Len(sess[z].log)
    BY <1>1, Parts DEF Serves
  <2>2. z \in Nat /\ z # 0 /\ z \in 0..Len(sess)
    BY Parts DEF Sessions, Shapes
  <2>3. PICK m \in SavedState : m = saved[z] /\ m.seen <= now
    BY Parts DEF SessionType, Sessions
  <2>4. PICK st \in States : st = "suspended"
    BY DEF States
  <2>5. PICK t \in ThreadState : t = NewThread(By(k), z, st, m)
    BY <1>3, <2>2, NewThreadType
  <2>6. t.user = By(k) /\ t.s = z /\ t.seen = m.seen /\ t.consumer = "none" /\ t.at = 0 /\ t.mention = 0
    BY <1>3, <2>2, <2>5, NewThreadType
  <2>7. PICK n \in Nat : n = Len(th) + 1
    BY Parts DEF Shapes
  <2>8. PICK ps \in SUBSET Nat : ps = participants
    BY ParticipantsType
  <2>9. PICK x \in HandlerState : x = [h[k] EXCEPT !.pc = "flip", !.t = n, !.others = ps]
    BY Parts DEF HandlerState
  <2>10. h' = [h EXCEPT ![k] = x]
    BY <1>4, <2>7, <2>8, <2>9, Parts DEF Shapes, Handlers
  <2>11. /\ x.t = n /\ x.others = participants /\ x.pc = "flip" /\ x.flipFrom = h[k].flipFrom
         /\ x.at = h[k].at
    BY <2>8, <2>9, Parts DEF HandlerState
  <2>12. x.flipFrom <= now /\ t.seen <= now
    BY <2>3, <2>6, <2>11, Parts DEF HandlerType
  <2>13. registerThread(t) /\ threads[t.user] = 0
    BY <1>4, <2>1, <2>3, <2>4, <2>5, <2>6 DEF CanRegister
  <2>14. t.s # 0 /\ sess[t.s].user = t.user /\ x.at <= Len(sess[t.s].log) /\ t.s \in 0..Len(sess)
    BY <2>1, <2>2, <2>6, <2>11
  <2>15. since' \in Seq(Nat) /\ Len(since') = Len(since)
    BY <1>4, <2>1, RemembersType
  <2> QED BY <1>1, <1>2, <2>6, <2>7, <2>10, <2>11, <2>12, <2>13, <2>14, <2>15, RegisteredBy
<1>5. CASE /\ ~CanRegister(By(k))
           /\ h' = [h EXCEPT ![k].pc = "catchup", ![k].t = threads[By(k)], ![k].revive = TRUE]
           /\ th' = [th EXCEPT ![threads[By(k)]].mention = k]
           /\ UNCHANGED <<threads, rooms, room, since>>
  <2>1. PICK t \in Threads : t = threads[By(k)] /\ th[t].user = By(k) /\ t \in Nat /\ t # 0
    <3>1. threads[By(k)] # 0
      BY <1>5 DEF CanRegister
    <3>2. threads[By(k)] \in Threads /\ th[threads[By(k)]].user = By(k)
      BY <1>2, <3>1, HeldThread
    <3> QED BY <3>1, <3>2, Parts DEF Shapes, Threads
  <2>2. PICK y \in ThreadState : y = [th[t] EXCEPT !.mention = k]
    BY <2>1, Woken
  <2>3. /\ y.user = th[t].user /\ y.room = th[t].room /\ y.s = th[t].s /\ y.seen <= now
        /\ y.consumer = th[t].consumer /\ y.at = th[t].at
        /\ y.mention \in Handlers /\ By(y.mention) = th[t].user
        /\ th' = [th EXCEPT ![t] = y]
    BY <1>5, <2>1, <2>2, Woken
  <2>4. th'[t] = y
    BY <2>3, Parts DEF Shapes, Threads
  <2>5. PICK x \in HandlerState : x = [h[k] EXCEPT !.pc = "catchup", !.t = t, !.revive = TRUE]
    <3>1. h[k] \in HandlerState /\ t \in Nat
      BY Parts DEF Shapes, Threads
    <3> QED BY ONLY <3>1 DEF HandlerState
  <2>6. h' = [h EXCEPT ![k] = x] /\ h'[k] = x
    BY <1>5, <2>1, <2>5, Parts DEF Shapes, Handlers
  <2>7. x.t = t /\ x.others = h[k].others /\ x.flipFrom = h[k].flipFrom /\ x.pc = "catchup"
    BY <2>5, Parts DEF HandlerState
  <2>8. x.t \in 0..Len(th) /\ x.others \subseteq Threads /\ x.flipFrom <= now
    BY <2>7, Parts DEF HandlerType, Shapes, Threads
  <2>9. Human(k)
    BY <1>2, Parts DEF Serves
  <2>10. Serves(k)'
    BY <1>1, <2>1, <2>3, <2>4, <2>6, <2>7, <2>9 DEF Serves, At, OnThread, Human, By
  <2>11. SessionType'
    BY <1>1, <1>5, Parts DEF SessionType, Sessions
  <2>12. UNCHANGED <<chat, now, seen, threads, rooms, room, sess>>
    BY <1>1, <1>5
  <2> QED BY <1>1, <2>3, <2>6, <2>7, <2>8, <2>10, <2>11, <2>12, HandlerAndThread
<1> QED BY <1>4, <1>5 DEF adopt

LEMMA AdoptFailsStep ==
    ASSUME RoomInv, NEW k \in Handlers, AdoptFails(k)
    PROVE  RoomInv'
BY Parts, FailuresSpent, BoundsKept, ReturnsOnly DEF AdoptFails, Quiet, app

-----------------------------------------------------------------------------
(* Steps that bring a thread up, stop its consumer or unregister it.       *)

\* It is enough to look at the handler that moves and at the threads.
LEMMA OneMoves ==
    ASSUME RoomInv, TypeOK', Registry', Grows, Handlers' = Handlers, Threads' = Threads,
           NEW k, \A j \in Handlers : j # k => h'[j] = h[j],
           k \in Handlers => /\ Serves(k)' /\ ComesUp(k)'
                             /\ BringsUp(k)' => BringsUp(k) /\ h'[k].t = h[k].t,
           \A j \in Handlers : j # k /\ BringsUp(j) =>
               /\ th'[h[j].t].consumer = th[h[j].t].consumer /\ th'[h[j].t].s = th[h[j].t].s
               /\ Current(h[j].t)',
           \A t \in Threads : Belongs(t)' /\ Follows(t)'
    PROVE  RoomInv'
<1>1. Shapes'
  BY DEF TypeOK, ChatType, HandlerType, ThreadType, RoomType, SessionType, Shapes
<1>2. ASSUME NEW j \in Handlers
      PROVE  Serves(j)' /\ ComesUp(j)' /\ (BringsUp(j)' => BringsUp(j) /\ h'[j].t = h[j].t)
  <2>1. CASE j = k
    BY <2>1
  <2>2. CASE j # k
    <3>1. h'[j] = h[j]
      BY <2>2
    <3>2. Serves(j)'
      BY <3>1, <1>1, Parts, ServesKept
    <3>3. BringsUp(j)' => BringsUp(j) /\ h'[j].t = h[j].t
      BY <3>1 DEF BringsUp
    <3>4. ComesUp(j)'
      <4>1. ComesUp(j)
        BY Parts
      <4>2. SUFFICES ASSUME BringsUp(j)
                     PROVE  /\ th'[h[j].t].consumer = "none" /\ Current(h[j].t)'
                            /\ At(j, "create") => th'[h[j].t].s = 0
        BY <3>1 DEF ComesUp, BringsUp, At, Current, Live
      <4> QED BY <2>2, <4>1, <4>2 DEF ComesUp
    <3> QED BY <3>2, <3>3, <3>4
  <2> QED BY <2>1, <2>2
<1>3. BroughtUpOnce'
  BY <1>2, Parts DEF BroughtUpOnce
<1> QED BY <1>2, <1>3 DEF RoomInv, Handling, Following

\* The thread that a handler brings up.
LEMMA ItsThread ==
    ASSUME RoomInv, NEW k \in Handlers, h[k].pc \in OnThread
    PROVE  h[k].t \in Threads /\ h[k].t # 0 /\ th[h[k].t].user = By(k) /\ Human(k)
<1>1. h[k].t \in 0..Len(th) /\ h[k].t # 0
  BY Parts DEF HandlerType, Serves
<1>2. h[k].t \in Threads
  BY <1>1, Parts DEF Shapes, Threads
<1>3. ~At(k, "done")
  BY DEF At, OnThread
<1> QED BY <1>1, <1>2, <1>3, Parts DEF Serves

LEMMA AlsoUp ==
    ASSUME RoomInv, NEW j \in Handlers, BringsUp(j)
    PROVE  h[j].t \in Threads /\ th[h[j].t].consumer = "none" /\ Current(h[j].t)
<1>1. h[j].pc \in OnThread
  BY DEF BringsUp, OnThread
<1> QED BY <1>1, ItsThread, Parts DEF ComesUp

\* Nobody else loses their thread; the room goes with the last one.
LEMMA Unregisters ==
    ASSUME RoomInv, NEW t \in Threads, unregisterThread(t), UNCHANGED rooms,
           ThreadsGrow, Len(th') = Len(th), th' \in Seq(ThreadState)
    PROVE  /\ RoomType' /\ Registry'
           /\ \A x \in Threads : x # t /\ threads[th[x].user] = x => threads'[th[x].user] = x
<1>1. /\ th \in Seq(ThreadState) /\ rooms \in Seq(RoomState) /\ room \in 0..Len(rooms)
      /\ threads \in [Users -> 0..Len(th)] /\ Len(th) \in Nat /\ Len(rooms) \in Nat
      /\ Threads = 1..Len(th) /\ Threads' = Threads
  BY Parts DEF Shapes, RoomType, Threads
<1>2. \A x \in Threads : x # 0 /\ th[x].user \in Users
  <2>1. \A x \in Threads : x # 0 /\ th[x] \in ThreadState
    BY <1>1
  <2> QED BY <2>1 DEF ThreadState
<1>3. /\ threads' = IF threads[th[t].user] = t THEN [threads EXCEPT ![th[t].user] = 0] ELSE threads
      /\ room' = IF \A u \in Users : threads'[u] = 0 THEN 0 ELSE room
  BY DEF unregisterThread
<1>4. \A u \in Users : threads'[u] = IF u = th[t].user /\ threads[u] = t THEN 0 ELSE threads[u]
  BY <1>1, <1>3
<1>5. threads' \in [Users -> 0..Len(th)]
  <2>1. CASE threads' = threads
    BY <1>1, <2>1
  <2>2. CASE threads' = [threads EXCEPT ![th[t].user] = 0]
    <3>1. \A u \in Users : threads'[u] \in 0..Len(th)
      BY <1>1, <1>4
    <3>2. threads' = [u \in Users |-> threads'[u]]
      BY <1>1, <2>2
    <3> QED BY <3>1, <3>2
  <2> QED BY <1>3, <2>1, <2>2
<1>6. RoomType'
  BY <1>1, <1>3, <1>5 DEF RoomType
<1>7. ASSUME NEW u \in Users, threads'[u] # 0
      PROVE  /\ th'[threads'[u]].user = u /\ th'[threads'[u]].room = room'
             /\ threads'[u] \in Threads /\ room # 0
  <2>1. threads'[u] = threads[u] /\ threads[u] \in Threads /\ room' = room
    BY <1>1, <1>3, <1>4, <1>7
  <2>2. th[threads[u]].user = u /\ th[threads[u]].room = room
    BY <1>7, <2>1, Parts DEF Registry
  <2>3. th'[threads[u]].user = u /\ th'[threads[u]].room = room
    BY <2>1, <2>2 DEF ThreadsGrow
  <2>4. threads[u] \in participants
    BY <2>1 DEF participants
  <2> QED BY <2>1, <2>3, <2>4, Parts DEF Registry
<1>8. room' = 0 <=> participants' = {}
  <2>1. CASE \A u \in Users : threads'[u] = 0
    <3>1. participants' = {}
      BY <1>1, <1>2, <2>1 DEF participants
    <3> QED BY <1>3, <2>1, <3>1
  <2>2. CASE ~\A u \in Users : threads'[u] = 0
    <3>1. PICK u \in Users : threads'[u] # 0
      BY <2>2
    <3>2. threads'[u] \in participants'
      BY <1>1, <1>7, <3>1 DEF participants
    <3>3. room' = room /\ room # 0
      BY <1>3, <1>7, <2>2, <3>1
    <3> QED BY <3>2, <3>3
  <2> QED BY <2>1, <2>2
<1>9. Registry'
  BY <1>7, <1>8 DEF Registry
<1>10. \A x \in Threads : x # t /\ threads[th[x].user] = x => threads'[th[x].user] = x
  BY <1>2, <1>4
<1> QED BY <1>6, <1>9, <1>10

LEMMA CreateFailsStep ==
    ASSUME RoomInv, NEW k \in Handlers, CreateFails(k)
    PROVE  RoomInv'
<1>1. /\ At(k, "create") /\ unregisterThread(h[k].t) /\ Returns(k) /\ BoundType'
      /\ UNCHANGED <<chat, now, seen, th, rooms, saved, since, sess, told>>
  BY Parts, BoundsKept, FailuresSpent DEF CreateFails
<1>2. BringsUp(k) /\ h[k].pc \in OnThread
  BY <1>1 DEF At, BringsUp, OnThread
<1>3. PICK t \in Threads : t = h[k].t /\ th[t].consumer = "none"
  BY <1>2, AlsoUp
<1>4. ChatType' /\ ChatGrows /\ SessGrows /\ ThreadsGrow /\ Grows
  BY <1>1, Parts, ChatKept, SessKept, ThreadsKept DEF Grows
<1>5. /\ RoomType' /\ Registry' /\ unregisterThread(t)
      /\ \A x \in Threads : x # t /\ threads[th[x].user] = x => threads'[th[x].user] = x
  BY <1>1, <1>3, <1>4, Parts, Unregisters DEF Shapes
<1>6. ThreadType' /\ SessionType' /\ Threads' = Threads
  BY <1>1, Parts DEF ThreadType, SessionType, Threads, Sessions
<1>7. h' = [h EXCEPT ![k] = Idle] /\ h'[k] = Idle /\ Handlers' = Handlers
      /\ \A j \in Handlers : j # k => h'[j] = h[j]
  BY <1>1, Parts DEF Returns, Shapes, Handlers
<1>8. HandlerType'
  <2>1. Idle \in HandlerState /\ Idle.t \in 0..Len(th') /\ Idle.others \subseteq Threads' /\ Idle.flipFrom <= now'
    BY <1>1, Parts, IdleType DEF Shapes, ChatType
  <2>2. seen' \subseteq DOMAIN chat' /\ Len(chat') = Len(chat)
    BY <1>1, Parts DEF HandlerType
  <2> QED BY <1>4, <1>6, <1>7, <2>1, <2>2, Parts, HandlerTyped
<1>9. TypeOK'
  BY <1>1, <1>4, <1>5, <1>6, <1>8 DEF TypeOK
<1>10. Shapes'
  BY <1>9 DEF TypeOK, ChatType, HandlerType, ThreadType, RoomType, SessionType, Shapes
<1>11. Serves(k)' /\ ComesUp(k)' /\ ~BringsUp(k)'
  <2>1. ~BringsUp(k)'
    BY <1>7, IdleType DEF BringsUp
  <2> QED BY <2>1, <1>7, IdleServes DEF ComesUp
<1>12. ASSUME NEW j \in Handlers, j # k, BringsUp(j)
       PROVE  Current(h[j].t)'
  <2>1. PICK x \in Threads : x = h[j].t /\ Current(x)
    BY <1>12, AlsoUp
  <2>2. x # t
    BY <1>2, <1>3, <1>12, <2>1, Parts DEF BroughtUpOnce
  <2>3. Current(x)'
    BY <1>4, <1>5, <1>10, <2>1, <2>2, Parts, CurrentKept
  <2>4. h'[j] = h[j]
    BY <1>7, <1>12
  <2> QED BY <2>1, <2>3, <2>4 DEF Current, Live
<1>13. ASSUME NEW x \in Threads
       PROVE  Belongs(x)' /\ Follows(x)'
  <2>1. SameThread(x)
    BY <1>1 DEF SameThread
  <2>2. Belongs(x)'
    BY <2>1, <1>4, <1>10, Parts, BelongsKept
  <2>3. CASE x = t
    BY <1>1, <1>3, <2>2, <2>3 DEF Follows
  <2>4. CASE x # t
    BY <2>1, <2>2, <2>4, <1>4, <1>5, <1>10, Parts, FollowsKept
  <2> QED BY <2>3, <2>4
<1>14. \A j \in Handlers : j # k /\ BringsUp(j) =>
               /\ th'[h[j].t].consumer = th[h[j].t].consumer /\ th'[h[j].t].s = th[h[j].t].s
               /\ Current(h[j].t)'
  BY <1>1, <1>12
<1> QED BY <1>4, <1>5, <1>6, <1>7, <1>9, <1>11, <1>13, <1>14, OneMoves

LEMMA UnregisterStep ==
    ASSUME RoomInv, NEW t \in Threads, Unregister(t)
    PROVE  RoomInv'
<1>1. /\ th[t].consumer = "stopping" /\ unregisterThread(t) /\ BoundType'
      /\ th' = [th EXCEPT ![t] = [@ EXCEPT !.consumer = "off", !.at = 0, !.mention = 0, !.state = "ended"]]
      /\ UNCHANGED <<chat, now, h, seen, rooms, saved, since, sess, told>>
  BY Parts, BoundsKept DEF Unregister, Consumer
<1>2. PICK y \in ThreadState : y = [th[t] EXCEPT !.consumer = "off", !.at = 0, !.mention = 0, !.state = "ended"]
  BY Parts DEF ThreadState, States
<1>3. /\ y.user = th[t].user /\ y.room = th[t].room /\ y.s = th[t].s /\ y.seen = th[t].seen
      /\ y.consumer = "off" /\ y.at = 0 /\ y.mention = 0
  BY <1>2, Parts DEF ThreadState
<1>4. th' = [th EXCEPT ![t] = y] /\ y.seen <= now
  BY <1>1, <1>2, <1>3, Parts DEF Shapes, Threads, ThreadType
<1>5. /\ th' \in Seq(ThreadState) /\ Len(th') = Len(th) /\ Threads' = Threads
      /\ ThreadsGrow /\ ThreadType' /\ th'[t] = y
      /\ \A z \in Threads : z # t => th'[z] = th[z]
  BY <1>1, <1>3, <1>4, ThreadMoves
<1>6. ChatType' /\ ChatGrows /\ SessGrows /\ Grows
  BY <1>1, <1>5, Parts, ChatKept, SessKept DEF Grows
<1>7. /\ RoomType' /\ Registry'
      /\ \A x \in Threads : x # t /\ threads[th[x].user] = x => threads'[th[x].user] = x
  BY <1>1, <1>5, Unregisters
<1>8. SessionType' /\ HandlerType' /\ Handlers' = Handlers
  BY <1>1, <1>5, Parts DEF SessionType, Sessions, HandlerType, Handlers
<1>9. TypeOK'
  BY <1>1, <1>5, <1>6, <1>7, <1>8 DEF TypeOK
<1>10. Shapes'
  BY <1>9 DEF TypeOK, ChatType, HandlerType, ThreadType, RoomType, SessionType, Shapes
<1>11. ASSUME NEW j \in Handlers, BringsUp(j)
       PROVE  /\ th'[h[j].t].consumer = th[h[j].t].consumer /\ th'[h[j].t].s = th[h[j].t].s
              /\ Current(h[j].t)'
  <2>1. PICK x \in Threads : x = h[j].t /\ Current(x) /\ th[x].consumer = "none"
    BY <1>11, AlsoUp
  <2>2. x # t
    BY <1>1, <2>1
  <2>3. Current(x)'
    BY <1>6, <1>7, <1>10, <2>1, <2>2, Parts, CurrentKept
  <2>4. Current(h[j].t)'
    BY <1>1, <2>1, <2>3 DEF Current, Live
  <2> QED BY <1>5, <2>1, <2>2, <2>4
<1>12. ASSUME NEW x \in Threads
       PROVE  Belongs(x)' /\ Follows(x)'
  <2>1. CASE x # t
    <3>1. SameThread(x)
      BY <1>5, <2>1 DEF SameThread
    <3> QED BY <2>1, <3>1, <1>6, <1>7, <1>10, Parts, BelongsKept, FollowsKept
  <2>2. CASE x = t
    <3>1. th[t].s # 0 /\ Belongs(t)
      BY <1>1, Parts DEF Belongs
    <3>2. sess[th[t].s].user = th[t].user
      BY <3>1 DEF Belongs
    <3>3. Len(sess[th[t].s].log) \in Nat
      <4>1. th[t].s \in 1..Len(sess)
        BY <3>1, Parts DEF ThreadType, Shapes
      <4>2. sess[th[t].s] \in SessionState
        BY <4>1, Parts DEF Shapes
      <4> QED BY <4>2 DEF SessionState
    <3>4. Belongs(t)'
      BY <1>1, <1>3, <1>5, <3>1, <3>2, <3>3 DEF Belongs
    <3>5. Follows(t)'
      BY <1>3, <1>5 DEF Follows
    <3> QED BY <2>2, <3>4, <3>5
  <2> QED BY <2>1, <2>2
<1>13. 0 \notin Handlers
  BY Parts DEF Shapes, Handlers
<1>14. \A j \in Handlers : h'[j] = h[j]
  BY <1>1
<1> QED BY <1>5, <1>6, <1>7, <1>8, <1>9, <1>11, <1>12, <1>13, <1>14, OneMoves

\* The handler stops the consumer of a thread whose session could not be
\* continued.
LEMMA Stopped ==
    ASSUME RoomInv, NEW t \in Threads, NEW state \in States
    PROVE  \E y \in ThreadState :
             /\ [[th EXCEPT ![t].mention = 0,
                            ![t].consumer = IF @ = "on" THEN "stopping" ELSE @] EXCEPT ![t].state = state]
                = [th EXCEPT ![t] = y]
             /\ y.user = th[t].user /\ y.room = th[t].room /\ y.s = th[t].s /\ y.seen = th[t].seen
             /\ y.at = th[t].at /\ y.mention = 0 /\ y.state = state
             /\ y.consumer = IF th[t].consumer = "on" THEN "stopping" ELSE th[t].consumer
<1>1. th[t] \in ThreadState /\ th \in Seq(ThreadState) /\ t \in DOMAIN th
  BY Parts DEF Shapes, Threads
<1>2. PICK c \in {"none", "on", "stopping", "off"} :
         c = IF th[t].consumer = "on" THEN "stopping" ELSE th[t].consumer
  BY <1>1 DEF ThreadState
<1>3. PICK y \in ThreadState : y = [th[t] EXCEPT !.mention = 0, !.consumer = c, !.state = state]
  BY <1>1 DEF ThreadState
<1>4. /\ y.user = th[t].user /\ y.room = th[t].room /\ y.s = th[t].s /\ y.seen = th[t].seen
      /\ y.at = th[t].at /\ y.mention = 0 /\ y.state = state /\ y.consumer = c
  BY <1>1, <1>3 DEF ThreadState
<1>5. [[th EXCEPT ![t].mention = 0,
                  ![t].consumer = IF @ = "on" THEN "stopping" ELSE @] EXCEPT ![t].state = state]
      = [th EXCEPT ![t] = y]
  BY <1>1, <1>2, <1>3 DEF ThreadState
<1> QED BY <1>2, <1>4, <1>5

LEMMA StopsFollowing ==
    ASSUME RoomInv, NEW k \in Handlers, NEW t \in Threads, NEW y \in ThreadState,
           th' = [th EXCEPT ![t] = y],
           y.user = th[t].user, y.room = th[t].room, y.s = th[t].s, y.seen = th[t].seen,
           y.at = th[t].at, y.mention = 0,
           y.consumer = IF th[t].consumer = "on" THEN "stopping" ELSE th[t].consumer,
           NEW x \in HandlerState, h' = [h EXCEPT ![k] = x],
           x.t = 0, x.others = {}, x.flipFrom = 0, x.pc \in {"done", "join"}, ~At(k, "done"),
           SessGrows, SessionType', Len(sess') = Len(sess), RoomType', Registry', BoundType',
           \A z \in Threads : Current(z) => Current(z)',
           UNCHANGED <<chat, now, seen, rooms>>
    PROVE  RoomInv'
<1>1. /\ th \in Seq(ThreadState) /\ t \in DOMAIN th
      /\ th' \in Seq(ThreadState) /\ Len(th') = Len(th) /\ Threads' = Threads
      /\ th'[t] = y /\ \A z \in Threads : z # t => th'[z] = th[z]
  BY Parts DEF Shapes, Threads
<1>2. ThreadsGrow
  BY <1>1 DEF ThreadsGrow
<1>3. ThreadType'
  <2>1. ASSUME NEW z \in Threads
        PROVE  th'[z].s \in 0..Len(sess') /\ th'[z].room \in DOMAIN rooms' /\ th'[z].seen <= now'
    <3>1. th[z].s \in 0..Len(sess) /\ th[z].room \in DOMAIN rooms /\ th[z].seen <= now
      BY Parts DEF ThreadType
    <3>2. CASE z = t
      BY <3>1, <3>2, <1>1
    <3>3. CASE z # t
      BY <3>1, <3>3, <1>1
    <3> QED BY <3>2, <3>3
  <2> QED BY <1>1, <2>1 DEF ThreadType
<1>4. ChatType' /\ ChatGrows /\ Grows
  BY <1>2, Parts, ChatKept DEF Grows
<1>5. /\ h'[k] = x /\ Handlers' = Handlers
      /\ \A j \in Handlers : j # k => h'[j] = h[j]
  BY Parts DEF Shapes, Handlers
<1>6. HandlerType'
  <2>1. x.t \in 0..Len(th') /\ x.others \subseteq Threads' /\ x.flipFrom <= now'
    BY <1>1, Parts DEF Shapes, ChatType
  <2>2. seen' \subseteq DOMAIN chat' /\ Len(chat') = Len(chat)
    BY Parts DEF HandlerType
  <2> QED BY <1>2, <1>3, <1>4, <2>1, <2>2, Parts, HandlerTyped
<1>7. TypeOK'
  BY <1>3, <1>4, <1>6 DEF TypeOK
<1>8. Shapes'
  BY <1>7 DEF TypeOK, ChatType, HandlerType, ThreadType, RoomType, SessionType, Shapes
<1>9. Serves(k)' /\ ComesUp(k)' /\ ~BringsUp(k)'
  <2>1. ~BringsUp(k)'
    BY <1>5 DEF BringsUp
  <2>2. h'[k].pc \notin OnThread /\ h'[k].pc # "adopt" /\ h'[k].t = 0
    BY <1>5 DEF OnThread
  <2> QED BY <2>1, <2>2, GoesOn DEF ComesUp
<1>10. ASSUME NEW j \in Handlers, j # k, BringsUp(j)
       PROVE  /\ th'[h[j].t].consumer = th[h[j].t].consumer /\ th'[h[j].t].s = th[h[j].t].s
              /\ Current(h[j].t)'
  <2>1. PICK z \in Threads : z = h[j].t /\ Current(z) /\ th[z].consumer = "none"
    BY <1>10, AlsoUp
  <2>2. Current(z)' /\ h'[j] = h[j]
    BY <1>5, <1>10, <2>1
  <2>3. Current(h[j].t)'
    BY <2>1, <2>2 DEF Current, Live
  <2>4. th'[z].consumer = th[z].consumer /\ th'[z].s = th[z].s
    BY <1>1, <2>1
  <2> QED BY <2>1, <2>3, <2>4
<1>11. ASSUME NEW z \in Threads
       PROVE  Belongs(z)' /\ Follows(z)'
  <2>1. CASE z # t
    <3>1. SameThread(z)
      BY <1>1, <2>1 DEF SameThread
    <3>2. Belongs(z)'
      BY <3>1, <1>4, <1>8, Parts, BelongsKept
    <3>3. Follows(z)'
      BY <3>1, Parts DEF Follows, SameThread
    <3> QED BY <3>2, <3>3
  <2>2. CASE z = t
    <3>1. Belongs(t)
      BY Parts
    <3>2. Follows(t)'
      BY <1>1 DEF Follows
    <3>3. ASSUME th[t].s # 0
          PROVE  sess'[th[t].s].user = th[t].user /\ th[t].at <= Len(sess'[th[t].s].log)
      <4>1. PICK s \in Sessions : s = th[t].s
        BY <3>3, Parts DEF ThreadType, Shapes, Sessions
      <4>2. s \in Sessions'
        BY Parts, <1>8 DEF Shapes, Sessions
      <4>3. sess[s] \in SessionState /\ sess'[s] \in SessionState
        BY <4>2, Parts, <1>8 DEF Shapes, Sessions
      <4>4. Len(sess'[s].log) \in Nat /\ Len(sess[s].log) \in Nat
        BY <4>3 DEF SessionState
      <4>5. th[t].at \in Nat
        BY Parts DEF ThreadState
      <4>6. Len(sess'[s].log) >= Len(sess[s].log) /\ sess'[s].user = sess[s].user
        BY DEF SessGrows
      <4>7. th[t].at <= Len(sess[s].log) /\ sess[s].user = th[t].user
        BY <3>1, <3>3, <4>1 DEF Belongs
      <4>8. th[t].at <= Len(sess'[s].log) /\ sess'[s].user = th[t].user
        BY <4>4, <4>5, <4>6, <4>7
      <4> QED BY ONLY <4>1, <4>8
    <3>4. Belongs(t)'
      BY <1>1, <3>1, <3>3 DEF Belongs
    <3> QED BY <2>2, <3>2, <3>4
  <2> QED BY <2>1, <2>2
<1> QED BY <1>1, <1>4, <1>5, <1>7, <1>9, <1>10, <1>11, OneMoves

LEMMA startOverStep ==
    ASSUME RoomInv, NEW k \in Handlers, startOver(k)
    PROVE  RoomInv'
<1>1. At(k, "over") /\ UNCHANGED <<chat, now, seen, rooms, since, told>>
  BY DEF startOver
<1>2. h[k].pc \in OnThread /\ ~At(k, "done")
  BY <1>1 DEF At, OnThread
<1>3. PICK t \in Threads : t = h[k].t
  BY <1>2, ItsThread
<1>4. PICK s \in Sessions : s = th[t].s
  <2>1. th[t].s # 0
    BY <1>1, <1>3, Parts DEF Serves, At
  <2>2. th[t].s \in 0..Len(sess)
    BY Parts DEF ThreadType
  <2> QED BY <2>1, <2>2, Parts DEF Shapes, Sessions
<1>5. CASE /\ th' = [[th EXCEPT ![t].mention = 0,
                                ![t].consumer = IF @ = "on" THEN "stopping" ELSE @] EXCEPT ![t].state = "ended"]
           /\ sess' = [sess EXCEPT ![s].state = "ended", ![s].log = Append(@, "ended")]
           /\ unregisterThread(t)
           /\ h' = [h EXCEPT ![k] = [Idle EXCEPT !.pc = "join", !.solo = ~multiplayer(t)]]
           /\ postStatus([th EXCEPT ![t].mention = 0,
                                    ![t].consumer = IF @ = "on" THEN "stopping" ELSE @], {t})
  <2>1. PICK e \in States : e = "ended"
    BY DEF States
  <2>2. PICK y \in ThreadState :
             /\ th' = [th EXCEPT ![t] = y]
             /\ y.user = th[t].user /\ y.room = th[t].room /\ y.s = th[t].s /\ y.seen = th[t].seen
             /\ y.at = th[t].at /\ y.mention = 0
             /\ y.consumer = IF th[t].consumer = "on" THEN "stopping" ELSE th[t].consumer
    <3>1. PICK y \in ThreadState :
             /\ [[th EXCEPT ![t].mention = 0,
                            ![t].consumer = IF @ = "on" THEN "stopping" ELSE @] EXCEPT ![t].state = e]
                = [th EXCEPT ![t] = y]
             /\ y.user = th[t].user /\ y.room = th[t].room /\ y.s = th[t].s /\ y.seen = th[t].seen
             /\ y.at = th[t].at /\ y.mention = 0 /\ y.state = e
             /\ y.consumer = IF th[t].consumer = "on" THEN "stopping" ELSE th[t].consumer
      BY Stopped
    <3>2. th' = [[th EXCEPT ![t].mention = 0,
                            ![t].consumer = IF @ = "on" THEN "stopping" ELSE @] EXCEPT ![t].state = e]
      BY <1>5, <2>1
    <3> QED BY <3>1, <3>2
  <2>3. sess[s] \in SessionState
    BY Parts DEF Shapes, Sessions
  <2>4. PICK l \in Seq(States \cup {"revFailed", "noResume"}) :
           l = Append(sess[s].log, e) /\ Len(l) >= Len(sess[s].log)
    BY <2>3, LogGrows
  <2>5. PICK z \in SessionState : z = [sess[s] EXCEPT !.state = e, !.log = l]
    BY <2>3 DEF SessionState
  <2>6. sess' = [sess EXCEPT ![s] = z]
    BY <1>5, <2>1, <2>4, <2>5, Parts DEF Shapes, Sessions
  <2>7. z.user = sess[s].user /\ z.log = l /\ z.state = "ended"
    BY <2>1, <2>3, <2>5 DEF SessionState
  <2>8. SessGrows /\ sess' \in Seq(SessionState) /\ Len(sess') = Len(sess) /\ Sessions' = Sessions
    BY <2>4, <2>6, <2>7, SessMoves
  <2>9. sess'[s].state = "ended"
    BY <2>6, <2>7, Parts DEF Shapes, Sessions
  <2>10. SessionType' /\ BoundType'
    <3>1. PICK c \in {"none", "on", "stopping", "off"} :
             c = IF th[t].consumer = "on" THEN "stopping" ELSE th[t].consumer
      BY Parts DEF ThreadState
    <3>2. PICK y2 \in ThreadState : y2 = [th[t] EXCEPT !.mention = 0, !.consumer = c] /\ y2.seen = th[t].seen
      <4>1. th[t] \in ThreadState
        BY Parts
      <4>2. PICK w \in ThreadState : w = [th[t] EXCEPT !.mention = 0, !.consumer = c]
        BY <4>1, <3>1 DEF ThreadState
      <4>3. w.seen = th[t].seen
        BY <4>1, <4>2 DEF ThreadState
      <4> QED BY <4>2, <4>3
    <3>3. PICK ts \in Seq(ThreadState) :
             /\ ts = [th EXCEPT ![t] = y2]
             /\ ts = [th EXCEPT ![t].mention = 0,
                                ![t].consumer = IF @ = "on" THEN "stopping" ELSE @]
      <4>1. th \in Seq(ThreadState) /\ t \in DOMAIN th /\ th[t] \in ThreadState
        BY Parts DEF Shapes, Threads
      <4>2. [th EXCEPT ![t] = y2] \in Seq(ThreadState)
        BY <4>1
      <4>3. [th EXCEPT ![t] = y2] = [th EXCEPT ![t].mention = 0,
                                               ![t].consumer = IF @ = "on" THEN "stopping" ELSE @]
        BY <3>1, <3>2, <4>1 DEF ThreadState
      <4> QED BY <4>2, <4>3
    <3>4. DOMAIN ts = Threads /\ \A x \in Threads : ts[x].seen <= now
      BY <3>2, <3>3, Parts DEF Shapes, Threads, ThreadType
    <3>5. {t} \subseteq DOMAIN ts /\ postStatus(ts, {t})
      BY <1>5, <3>3, <3>4
    <3>6. /\ saved' \in Seq(SavedState) /\ Len(saved') = Len(saved)
          /\ (\A x \in Sessions : saved'[x].seen <= now)
          /\ BoundType'
      BY <3>4, <3>5, PostType
    <3> QED BY <1>1, <2>8, <3>6, Parts DEF SessionType
  <2>11. /\ th' \in Seq(ThreadState) /\ Len(th') = Len(th) /\ ThreadsGrow
         /\ th'[t] = y
    <3>1. /\ th' \in Seq(ThreadState) /\ Len(th') = Len(th) /\ th \in Seq(ThreadState)
          /\ th'[t] = y /\ \A x \in Threads : x # t => th'[x] = th[x]
      BY <2>2, Parts DEF Shapes, Threads
    <3>2. ThreadsGrow
      BY <2>2, <3>1 DEF ThreadsGrow
    <3> QED BY <3>1, <3>2
  <2>12. /\ RoomType' /\ Registry'
         /\ \A x \in Threads : x # t /\ threads[th[x].user] = x => threads'[th[x].user] = x
    BY <1>1, <1>5, <2>11, Unregisters
  <2>13. ChatGrows /\ Grows
    BY <1>1, <2>8, <2>11, Parts, ChatKept DEF Grows
  <2>14. PICK x \in HandlerState :
           /\ h' = [h EXCEPT ![k] = x] /\ x.t = 0 /\ x.others = {} /\ x.flipFrom = 0
           /\ x.pc \in {"done", "join"}
    <3>1. PICK b \in BOOLEAN : b = (~multiplayer(t))
      OBVIOUS
    <3>2. PICK x \in HandlerState : x = [Idle EXCEPT !.pc = "join", !.solo = b]
      BY IdleType DEF HandlerState
    <3>3. x.t = 0 /\ x.others = {} /\ x.flipFrom = 0 /\ x.pc = "join"
      BY <3>2 DEF Idle
    <3> QED BY <1>5, <3>1, <3>2, <3>3
  <2>15. Shapes'
    <3>1. h' \in Seq(HandlerState) /\ Len(h') = Len(h)
      BY <2>14, Parts DEF Shapes, Handlers
    <3> QED BY <1>1, <2>8, <2>11, <2>12, <3>1, Parts DEF Shapes, RoomType
  <2>16. ASSUME NEW x2 \in Threads, Current(x2)
         PROVE  Current(x2)'
    <3>1. CASE x2 = t
      <4>1. th'[t].s = s /\ s # 0
        BY <1>4, <2>2, <2>11, Parts DEF Shapes, Sessions
      <4> QED BY <2>9, <3>1, <4>1 DEF Current, Live
    <3>2. CASE x2 # t
      BY <2>12, <2>13, <2>15, <2>16, <3>2, Parts, CurrentKept
    <3> QED BY <3>1, <3>2
  <2> QED BY <1>1, <1>2, <2>2, <2>8, <2>10, <2>12, <2>14, <2>16, StopsFollowing
<1>6. CASE /\ Spend("failures")
           /\ th' = [th EXCEPT ![t].mention = 0,
                               ![t].consumer = IF @ = "on" THEN "stopping" ELSE @]
           /\ Returns(k)
           /\ UNCHANGED <<sess, threads, room, saved>>
  <2>1. PICK st \in States : st = th[t].state
    BY Parts DEF ThreadState
  <2>2. PICK y \in ThreadState :
             /\ th' = [th EXCEPT ![t] = y]
             /\ y.user = th[t].user /\ y.room = th[t].room /\ y.s = th[t].s /\ y.seen = th[t].seen
             /\ y.at = th[t].at /\ y.mention = 0
             /\ y.consumer = IF th[t].consumer = "on" THEN "stopping" ELSE th[t].consumer
    <3>1. PICK y \in ThreadState :
             /\ [[th EXCEPT ![t].mention = 0,
                            ![t].consumer = IF @ = "on" THEN "stopping" ELSE @] EXCEPT ![t].state = st]
                = [th EXCEPT ![t] = y]
             /\ y.user = th[t].user /\ y.room = th[t].room /\ y.s = th[t].s /\ y.seen = th[t].seen
             /\ y.at = th[t].at /\ y.mention = 0 /\ y.state = st
             /\ y.consumer = IF th[t].consumer = "on" THEN "stopping" ELSE th[t].consumer
      BY Stopped
    <3>2. th' = [[th EXCEPT ![t].mention = 0,
                            ![t].consumer = IF @ = "on" THEN "stopping" ELSE @] EXCEPT ![t].state = st]
      BY <1>6, <2>1, Parts DEF Shapes, Threads, ThreadState
    <3> QED BY <3>1, <3>2
  <2>3. /\ th' \in Seq(ThreadState) /\ Len(th') = Len(th) /\ ThreadsGrow
    <3>1. /\ th' \in Seq(ThreadState) /\ Len(th') = Len(th) /\ th \in Seq(ThreadState)
          /\ th'[t] = y /\ \A x \in Threads : x # t => th'[x] = th[x]
      BY <2>2, Parts DEF Shapes, Threads
    <3>2. ThreadsGrow
      BY <2>2, <3>1 DEF ThreadsGrow
    <3> QED BY <3>1, <3>2
  <2>4. ChatGrows /\ SessGrows /\ Grows
    BY <1>1, <1>6, <2>3, Parts, ChatKept, SessKept DEF Grows
  <2>5. SessionType' /\ RoomType' /\ Registry' /\ BoundType'
    BY <1>1, <1>6, <2>3, Parts, RoomsKept, RegistryKept, FailuresSpent DEF SessionType, Sessions, Shapes
  <2>6. h' = [h EXCEPT ![k] = Idle]
    BY <1>6 DEF Returns
  <2>7. Shapes'
    <3>1. h' \in Seq(HandlerState) /\ Len(h') = Len(h)
      BY <2>6, IdleType, Parts DEF Shapes, Handlers
    <3> QED BY <1>1, <1>6, <2>3, <3>1, Parts DEF Shapes
  <2>8. \A z \in Threads : Current(z) => Current(z)'
    BY <1>6, <2>4, <2>7, Parts, CurrentKept
  <2>9. Len(sess') = Len(sess)
    BY <1>6
  <2> QED BY <1>1, <1>2, <2>2, <2>4, <2>5, <2>6, <2>8, <2>9, IdleType, StopsFollowing
<1> QED BY <1>3, <1>4, <1>5, <1>6 DEF startOver

-----------------------------------------------------------------------------
(* The consumers.                                                          *)

\* The consumer reads one state more, and may stop for it.
LEMMA FollowedOn ==
    ASSUME RoomInv, NEW t \in Threads, th[t].consumer = "on",
           NEW y \in ThreadState, th' = [th EXCEPT ![t] = y],
           y.user = th[t].user, y.room = th[t].room, y.s = th[t].s, y.seen = th[t].seen,
           y.at <= Len(sess[th[t].s].log), y.mention \in {0, th[t].mention},
           NEW k, h' \in Seq(HandlerState), Len(h') = Len(h),
           \A j \in Handlers : j # k => h'[j] = h[j],
           k \in Handlers => /\ h'[k] = [Idle EXCEPT !.pc = "over", !.t = t]
                             /\ By(k) = th[t].user /\ At(k, "done"),
           UNCHANGED <<chat, now, seen, threads, rooms, room, sess>>, SessionType', BoundType'
    PROVE  RoomInv'
<1>1. y.seen <= now
  BY Parts DEF ThreadType
<1>2. /\ th' \in Seq(ThreadState) /\ Len(th') = Len(th) /\ Threads' = Threads
      /\ ThreadsGrow /\ ThreadType' /\ th'[t] = y
      /\ \A z \in Threads : z # t => th'[z] = th[z]
  BY <1>1, ThreadMoves
<1>3. ChatType' /\ ChatGrows /\ SessGrows /\ Grows
  BY <1>2, Parts, ChatKept, SessKept DEF Grows
<1>4. RoomType' /\ Registry'
  BY <1>2, Parts, RoomsKept, RegistryKept DEF Shapes
<1>5. Handlers' = Handlers
  BY Parts DEF Shapes, Handlers
<1>6. t \in Nat /\ t # 0 /\ t \in 0..Len(th)
  BY Parts DEF Shapes, Threads
<1>7. k \in Handlers => /\ h'[k].t = t /\ h'[k].others = {} /\ h'[k].flipFrom = 0 /\ h'[k].pc = "over"
  BY <1>6 DEF Idle
<1>8. HandlerType'
  <2>1. ASSUME NEW j \in Handlers
        PROVE  h'[j].t \in 0..Len(th') /\ h'[j].others \subseteq Threads' /\ h'[j].flipFrom <= now'
    <3>1. CASE j = k
      BY <3>1, <1>2, <1>6, <1>7, Parts DEF ChatType
    <3>2. CASE j # k
      BY <3>2, <1>2, Parts DEF HandlerType
    <3> QED BY <3>1, <3>2
  <2>2. seen' \subseteq DOMAIN chat' /\ Len(h') = Len(chat')
    BY Parts DEF HandlerType
  <2> QED BY <1>5, <2>1, <2>2 DEF HandlerType
<1>9. TypeOK'
  BY <1>2, <1>3, <1>4, <1>5, <1>8 DEF TypeOK
<1>10. Shapes'
  BY <1>9 DEF TypeOK, ChatType, HandlerType, ThreadType, RoomType, SessionType, Shapes
<1>11. th[t].s # 0 /\ Belongs(t) /\ Current(t)
  BY Parts DEF Belongs, Follows
<1>12. ASSUME k \in Handlers
       PROVE  Serves(k)' /\ ComesUp(k)' /\ ~BringsUp(k)'
  <2>1. ~BringsUp(k)'
    BY <1>7, <1>12 DEF BringsUp
  <2>2. By(k) \in Users /\ th'[t].user = By(k) /\ th'[t].s # 0
    BY <1>2, <1>11, <1>12, Parts DEF ThreadState
  <2>3. Human(k)'
    BY <2>2 DEF Human, By
  <2>4. Serves(k)'
    BY <1>6, <1>7, <1>12, <2>2, <2>3 DEF Serves, At, OnThread, By
  <2> QED BY <2>1, <2>4 DEF ComesUp
<1>13. \A z \in Threads : Current(z) => Current(z)'
  BY <1>3, <1>10, Parts, CurrentKept
<1>14. ASSUME NEW j \in Handlers, j # k, BringsUp(j)
       PROVE  /\ th'[h[j].t].consumer = th[h[j].t].consumer /\ th'[h[j].t].s = th[h[j].t].s
              /\ Current(h[j].t)'
  <2>1. PICK z \in Threads : z = h[j].t /\ Current(z) /\ th[z].consumer = "none"
    BY <1>14, AlsoUp
  <2>2. z # t
    BY <2>1
  <2>3. Current(z)' /\ h'[j] = h[j]
    BY <1>13, <1>14, <2>1
  <2>4. Current(h[j].t)'
    BY <2>1, <2>3 DEF Current, Live
  <2> QED BY <1>2, <2>1, <2>2, <2>4
<1>15. ASSUME NEW z \in Threads
       PROVE  Belongs(z)' /\ Follows(z)'
  <2>1. CASE z # t
    <3>1. SameThread(z)
      BY <1>2, <2>1 DEF SameThread
    <3> QED BY <3>1, <1>3, <1>10, Parts, BelongsKept, FollowsKept
  <2>2. CASE z = t
    <3>1. Follows(t)'
      BY <1>11, <1>13 DEF Follows
    <3>2. sess[th[t].s].user = th[t].user
      BY <1>11 DEF Belongs
    <3>3. y.mention # 0 => y.mention \in Handlers' /\ By(y.mention) = th[t].user
      BY <1>5, <1>11 DEF Belongs
    <3>4. Belongs(t)'
      BY <1>2, <1>11, <3>2, <3>3 DEF Belongs, By
    <3> QED BY <2>2, <3>1, <3>4
  <2> QED BY <2>1, <2>2
<1> QED BY <1>2, <1>3, <1>4, <1>5, <1>9, <1>12, <1>14, <1>15, OneMoves

LEMMA FollowStep ==
    ASSUME RoomInv, NEW t \in Threads, Follow(t)
    PROVE  RoomInv'
<1>1. /\ th[t].consumer = "on" /\ th[t].at < Len(sess[th[t].s].log)
      /\ UNCHANGED <<chat, now, seen, threads, rooms, room, since, sess, told>>
      /\ postStatus(th, {t}) \/ postStatus(th, {})
  BY DEF Follow, Consumer
<1>2. PICK s \in Sessions : s = th[t].s
  <2>1. th[t].s # 0
    BY <1>1, Parts DEF Belongs
  <2>2. th[t].s \in 0..Len(sess)
    BY Parts DEF ThreadType
  <2> QED BY <2>1, <2>2, Parts DEF Shapes, Sessions
<1>3. th[t] \in ThreadState /\ th[t].at \in Nat
  BY Parts DEF ThreadState
<1>4. PICK n \in Nat : n = th[t].at + 1 /\ n <= Len(sess[s].log) /\ n \in 1..Len(sess[s].log)
  <2>1. sess[s] \in SessionState
    BY Parts DEF Shapes, Sessions
  <2>2. Len(sess[s].log) \in Nat
    BY <2>1 DEF SessionState
  <2> QED BY <1>1, <1>2, <1>3, <2>2
<1>5. PICK e \in States \cup {"revFailed", "noResume"} : e = sess[th[t].s].log[th[t].at + 1]
  <2>1. sess[s] \in SessionState
    BY Parts DEF Shapes, Sessions
  <2>2. sess[s].log \in Seq(States \cup {"revFailed", "noResume"})
    BY <2>1 DEF SessionState
  <2>3. sess[s].log[n] \in States \cup {"revFailed", "noResume"}
    BY <1>4, <2>2
  <2> QED BY <1>2, <1>4, <2>3
<1>6. PICK st \in States : st = IF e \in {"revFailed", "noResume"} THEN "suspended" ELSE e
  BY DEF States
<1>7. PICK m \in Nat : m = IF e \in {"revFailed", "noResume"} THEN 0 ELSE th[t].mention
  BY <1>3 DEF ThreadState
<1>8. PICK c \in {"none", "on", "stopping", "off"} :
         c = IF e \in {"suspended", "revFailed", "ended"} THEN "stopping" ELSE th[t].consumer
  BY <1>1
<1>9. PICK y \in ThreadState :
         y = [th[t] EXCEPT !.state = st, !.at = n, !.mention = m, !.consumer = c]
  BY <1>3 DEF ThreadState
<1>10. /\ y.user = th[t].user /\ y.room = th[t].room /\ y.s = th[t].s /\ y.seen = th[t].seen
       /\ y.at = n /\ y.mention = m
  BY <1>3, <1>9 DEF ThreadState
<1>11. th' = [th EXCEPT ![t] = y]
  <2>1. th' = [th EXCEPT ![t].state = IF e \in {"revFailed", "noResume"} THEN "suspended" ELSE e,
                         ![t].at = @ + 1,
                         ![t].mention = IF e \in {"revFailed", "noResume"} THEN 0 ELSE @,
                         ![t].consumer = IF e \in {"suspended", "revFailed", "ended"}
                                         THEN "stopping" ELSE @]
    BY <1>5 DEF Follow
  <2>2. th \in Seq(ThreadState) /\ t \in DOMAIN th
    BY Parts DEF Shapes, Threads
  <2>3. th' = [th EXCEPT ![t].state = st, ![t].at = n, ![t].mention = m, ![t].consumer = c]
    BY <2>1, <2>2, <1>3, <1>4, <1>6, <1>7, <1>8 DEF ThreadState
  <2> QED BY <2>2, <2>3, <1>3, <1>9 DEF ThreadState
<1>12. y.at <= Len(sess[th[t].s].log) /\ y.mention \in {0, th[t].mention}
  BY <1>2, <1>4, <1>7, <1>10
<1>13. SessionType' /\ BoundType'
  <2>1. /\ th \in Seq(ThreadState) /\ {t} \subseteq DOMAIN th /\ {} \subseteq DOMAIN th
        /\ \A x \in DOMAIN th : th[x].seen <= now
    BY Parts DEF ThreadType, Threads
  <2>2. /\ saved' \in Seq(SavedState) /\ Len(saved') = Len(saved)
        /\ \A z \in Sessions : saved'[z].seen <= now
        /\ BoundType'
    <3>1. CASE postStatus(th, {t})
      BY <2>1, <3>1, PostType
    <3>2. CASE postStatus(th, {})
      BY <2>1, <3>2, PostType
    <3> QED BY <1>1, <3>1, <3>2
  <2> QED BY <1>1, <2>2, Parts DEF SessionType, Sessions
<1>14. CASE h' = h
  <2>1. 0 \notin Handlers
    BY Parts DEF Shapes, Handlers
  <2>2. h' \in Seq(HandlerState) /\ Len(h') = Len(h) /\ \A j \in Handlers : h'[j] = h[j]
    BY <1>14, Parts DEF Shapes
  <2> QED BY <1>1, <1>10, <1>11, <1>12, <1>13, <2>1, <2>2, FollowedOn
<1>15. CASE /\ h' = [h EXCEPT ![th[t].mention] = [Idle EXCEPT !.pc = "over", !.t = t]]
            /\ th[t].mention # 0 /\ At(th[t].mention, "done")
  <2>1. PICK k \in Handlers : k = th[t].mention /\ By(k) = th[t].user /\ At(k, "done")
    BY <1>15, Parts DEF Belongs
  <2>2. t \in Nat
    BY Parts DEF Shapes, Threads
  <2>3. PICK x \in HandlerState : x = [Idle EXCEPT !.pc = "over", !.t = t]
    BY <2>2, IdleType DEF HandlerState
  <2>4. h' = [h EXCEPT ![k] = x]
    BY <1>15, <2>1, <2>3
  <2>5. /\ h' \in Seq(HandlerState) /\ Len(h') = Len(h) /\ h'[k] = x
        /\ \A j \in Handlers : j # k => h'[j] = h[j]
    BY <2>4, Parts DEF Shapes, Handlers
  <2> QED BY <1>1, <1>10, <1>11, <1>12, <1>13, <2>1, <2>3, <2>5, FollowedOn
<1> QED BY <1>14, <1>15 DEF Follow

LEMMA followAgainStep ==
    ASSUME RoomInv, NEW s \in Sessions, followAgain(s)
    PROVE  RoomInv'
<1>1. /\ BoundType' /\ UNCHANGED <<chat, now, h, seen, saved, sess, told>> /\ Remembers(s)
      /\ threads[sess[s].user] = 0
      /\ registerThread([NewThread(sess[s].user, s, sess[s].state, saved[s])
                            EXCEPT !.consumer = "on", !.at = Len(sess[s].log)])
  BY Parts, BoundsKept DEF followAgain, Consumer, CanRegister
<1>2. sess[s] \in SessionState /\ s \in Nat /\ s # 0 /\ s \in 0..Len(sess)
  BY Parts DEF Shapes, Sessions
<1>3. PICK l \in Nat : l = Len(sess[s].log)
  BY <1>2 DEF SessionState
<1>4. sess[s].user \in Users /\ sess[s].state \in States
  BY <1>2 DEF SessionState
<1>5. PICK m \in SavedState : m = saved[s] /\ m.seen <= now
  BY Parts DEF SessionType, Sessions
<1>6. PICK w \in ThreadState : w = NewThread(sess[s].user, s, sess[s].state, m)
  BY <1>2, <1>4, NewThreadType
<1>7. w.user = sess[s].user /\ w.s = s /\ w.seen = m.seen /\ w.mention = 0
  BY <1>2, <1>4, <1>6, NewThreadType
<1>8. PICK t \in ThreadState : t = [w EXCEPT !.consumer = "on", !.at = l]
  BY DEF ThreadState
<1>9. /\ t.user = sess[s].user /\ t.s = s /\ t.seen = m.seen /\ t.mention = 0
      /\ t.consumer = "on" /\ t.at = l
  BY <1>7, <1>8 DEF ThreadState
<1>10. registerThread(t) /\ threads[t.user] = 0 /\ t.seen <= now /\ t.s \in 0..Len(sess)
  BY <1>1, <1>2, <1>3, <1>5, <1>6, <1>8, <1>9
<1>11. PICK n \in Nat : n = Len(th) + 1
  BY Parts DEF Shapes
<1>12. /\ th' \in Seq(ThreadState) /\ Len(th') = n /\ Threads' = Threads \cup {n} /\ n \notin Threads
       /\ \A z \in Threads : th'[z] = th[z]
       /\ threads'[t.user] = n
       /\ \A z \in Threads : threads[th[z].user] = z => threads'[th[z].user] = z
       /\ ThreadsGrow /\ ThreadType' /\ RoomType' /\ Registry'
  BY <1>1, <1>10, <1>11, Registers
<1>13. PICK r \in Nat : th'[n] = [t EXCEPT !.room = r]
  BY <1>1, <1>10, <1>11, Registers
<1>14. /\ th'[n].user = sess[s].user /\ th'[n].s = s /\ th'[n].consumer = "on"
       /\ th'[n].at = l /\ th'[n].mention = 0
  BY <1>9, <1>13 DEF ThreadState
<1>15. ChatType' /\ ChatGrows /\ SessGrows /\ SessionType' /\ Grows
  <2>1. since' \in Seq(Nat) /\ Len(since') = Len(since)
    BY <1>1, RemembersType
  <2> QED BY <1>1, <1>12, <2>1, Parts, ChatKept, SessKept DEF SessionType, Sessions, Grows
<1>16. HandlerType' /\ Handlers' = Handlers
  <2>1. ASSUME NEW j \in Handlers
        PROVE  h[j].t \in 0..Len(th') /\ h[j].others \subseteq Threads'
    BY <1>11, <1>12, Parts DEF HandlerType, Shapes
  <2> QED BY <2>1, <1>1, Parts DEF HandlerType, Handlers
<1>17. TypeOK'
  BY <1>1, <1>12, <1>15, <1>16 DEF TypeOK
<1>18. Shapes'
  BY <1>17 DEF TypeOK, ChatType, HandlerType, ThreadType, RoomType, SessionType, Shapes
<1>19. ASSUME NEW j \in Handlers
       PROVE  Serves(j)' /\ ComesUp(j)'
  <2>1. h'[j] = h[j]
    BY <1>1
  <2>2. Serves(j)'
    BY <2>1, <1>15, <1>18, Parts, ServesKept
  <2>3. BringsUp(j) => h[j].t \in Threads
    BY AlsoUp
  <2>4. ComesUp(j)'
    BY <2>1, <2>3, <1>12, <1>15, <1>18, Parts, ComesUpKept
  <2> QED BY <2>2, <2>4
<1>20. ASSUME NEW z \in Threads'
       PROVE  Belongs(z)' /\ Follows(z)'
  <2>1. CASE z = n
    <3>1. Follows(z)'
      BY <2>1, <1>9, <1>12, <1>14 DEF Follows, Current
    <3>2. Belongs(z)'
      BY <2>1, <1>1, <1>2, <1>3, <1>14 DEF Belongs
    <3> QED BY <3>1, <3>2
  <2>2. CASE z # n
    <3>1. z \in Threads /\ th'[z] = th[z]
      BY <2>2, <1>12
    <3>2. SameThread(z)
      BY <3>1 DEF SameThread
    <3> QED BY <3>1, <3>2, <1>12, <1>15, <1>18, Parts, BelongsKept, FollowsKept
  <2> QED BY <2>1, <2>2
<1>21. BroughtUpOnce'
  BY <1>1, Parts DEF BroughtUpOnce, BringsUp, Handlers
<1> QED BY <1>12, <1>16, <1>17, <1>19, <1>20, <1>21 DEF RoomInv, Handling, Following

-----------------------------------------------------------------------------
(* Creation, and the start of the consumer.                                *)

\* A session is created for the thread that has none.
LEMMA CreateSessionStep ==
    ASSUME RoomInv, NEW k \in Handlers, CreateSession(k)
    PROVE  RoomInv'
<1>1. /\ At(k, "create") /\ Goes(k, "settle") /\ BoundType'
      /\ UNCHANGED <<chat, now, seen, threads, rooms, room>>
  BY Parts, BoundsKept DEF CreateSession
<1>2. BringsUp(k) /\ h[k].pc \in OnThread
  BY <1>1 DEF At, BringsUp, OnThread
<1>3. PICK t \in Threads : t = h[k].t /\ th[t].user = By(k) /\ Human(k) /\ t # 0
  BY <1>2, ItsThread
<1>4. th[t].consumer = "none" /\ th[t].s = 0 /\ threads[th[t].user] = t
  BY <1>1, <1>2, <1>3, Parts DEF ComesUp, Current
<1>5. PICK n \in Nat : n = Len(sess) + 1 /\ n # 0
  BY Parts DEF Shapes
<1>6. By(k) \in Users
  BY <1>3 DEF Human, By
<1>7. PICK z \in SessionState :
         z = [user |-> By(k), state |-> "pending", revived |-> FALSE, log |-> <<"pending">>]
  <2>1. <<"pending">> \in Seq(States \cup {"revFailed", "noResume"})
    BY DEF States
  <2>2. PICK l \in Seq(States \cup {"revFailed", "noResume"}) : l = <<"pending">>
    BY <2>1
  <2>3. [user |-> By(k), state |-> "pending", revived |-> FALSE, log |-> l] \in SessionState
    BY <1>6 DEF SessionState, States
  <2> QED BY <2>2, <2>3
<1>8. z.user = By(k) /\ Len(z.log) = 1
  BY <1>7
<1>9. sess' = Append(sess, z)
  BY <1>7 DEF CreateSession
<1>10. /\ sess' \in Seq(SessionState) /\ Len(sess') = n /\ Sessions' = Sessions \cup {n}
       /\ sess'[n] = z /\ n \notin Sessions /\ \A s \in Sessions : sess'[s] = sess[s]
  BY <1>5, <1>9, Parts DEF Shapes, Sessions
<1>11. SessGrows
  <2>1. Len(sess') >= Len(sess)
    BY <1>5, <1>10, Parts DEF Shapes
  <2>2. \A s \in Sessions : sess[s] \in SessionState
    BY Parts DEF Shapes, Sessions
  <2>3. \A s \in Sessions : Len(sess[s].log) \in Nat
    BY <2>2 DEF SessionState
  <2> QED BY <1>10, <2>1, <2>3 DEF SessGrows
<1>12. SessionType'
  <2>1. NoState \in SavedState /\ NoState.seen = 0
    BY DEF NoState, SavedState
  <2>2. /\ saved \in Seq(SavedState) /\ Len(saved) = Len(sess)
        /\ since \in Seq(Nat) /\ Len(since) = Len(sess)
        /\ told \in Seq(ToldState) /\ Len(told) = Len(sess)
    BY Parts DEF SessionType
  <2>3. saved' = Append(saved, NoState) /\ since' = Append(since, 0)
    BY DEF CreateSession
  <2>4. /\ saved' \in Seq(SavedState) /\ Len(saved') = n /\ saved'[n] = NoState
        /\ \A s \in Sessions : saved'[s] = saved[s]
    BY <1>5, <2>1, <2>2, <2>3, Parts DEF Sessions, Shapes
  <2>5. since' \in Seq(Nat) /\ Len(since') = n
    BY <1>5, <2>2, <2>3
  <2>6. Nothing \in ToldState
    <3>1. PICK e \in SUBSET Versions, f \in SUBSET Nat : e = {} /\ f = {}
      OBVIOUS
    <3>2. Nothing = [quoted |-> e, omitted |-> e, turns |-> f, from |-> 0]
      BY <3>1 DEF Nothing
    <3> QED BY <3>2 DEF ToldState
  <2>7. Told(Nothing, k) \in ToldState
    BY <2>6, ToldType
  <2>8. PICK w \in ToldState : told' = Append(told, w)
    BY <2>6, <2>7 DEF CreateSession
  <2>9. told' \in Seq(ToldState) /\ Len(told') = n
    BY <1>5, <2>2, <2>8
  <2>10. \A s \in Sessions' : saved'[s].seen <= now'
    BY <1>1, <1>10, <2>1, <2>4, Parts DEF SessionType, ChatType
  <2> QED BY <1>10, <2>4, <2>5, <2>9, <2>10 DEF SessionType
<1>13. PICK y \in ThreadState : y = [th[t] EXCEPT !.s = n]
  BY Parts DEF ThreadState
<1>14. /\ y.user = th[t].user /\ y.room = th[t].room /\ y.s = n /\ y.seen = th[t].seen
       /\ y.at = th[t].at /\ y.mention = th[t].mention /\ y.consumer = th[t].consumer
  BY <1>13, Parts DEF ThreadState
<1>15. th' = [th EXCEPT ![t] = y]
  <2>1. th' = [th EXCEPT ![t].s = n]
    BY <1>3, <1>5 DEF CreateSession
  <2> QED BY <2>1, <1>13, Parts DEF Shapes, Threads
<1>16. /\ th' \in Seq(ThreadState) /\ Len(th') = Len(th) /\ Threads' = Threads
       /\ th'[t] = y /\ \A x \in Threads : x # t => th'[x] = th[x]
  BY <1>15, Parts DEF Shapes, Threads
<1>17. ThreadsGrow
  <2>1. Len(th') >= Len(th)
    BY <1>16, Parts DEF Shapes
  <2>2. ASSUME NEW x \in Threads
        PROVE  /\ th'[x].user = th[x].user /\ th'[x].room = th[x].room
               /\ th[x].s # 0 => th'[x].s = th[x].s
    <3>1. CASE x = t
      BY <1>4, <1>14, <1>16, <3>1
    <3>2. CASE x # t
      BY <1>16, <3>2
    <3> QED BY <3>1, <3>2
  <2> QED BY <2>1, <2>2 DEF ThreadsGrow
<1>18. ThreadType'
  <2>1. ASSUME NEW x \in Threads
        PROVE  th'[x].s \in 0..Len(sess') /\ th'[x].room \in DOMAIN rooms' /\ th'[x].seen <= now'
    <3>1. th[x].s \in 0..Len(sess) /\ th[x].room \in DOMAIN rooms /\ th[x].seen <= now /\ Len(sess) \in Nat
      BY Parts DEF ThreadType, Shapes
    <3>2. CASE x = t
      BY <3>1, <3>2, <1>1, <1>5, <1>10, <1>14, <1>16
    <3>3. CASE x # t
      BY <3>1, <3>3, <1>1, <1>5, <1>10, <1>16
    <3> QED BY <3>2, <3>3
  <2> QED BY <1>16, <2>1 DEF ThreadType
<1>19. ChatType' /\ ChatGrows /\ Grows
  BY <1>1, <1>11, <1>17, Parts, ChatKept DEF Grows
<1>20. RoomType' /\ Registry'
  BY <1>1, <1>16, <1>17, Parts, RoomsKept, RegistryKept DEF Shapes
<1>21. PICK x \in HandlerState : x = [h[k] EXCEPT !.pc = "settle"]
  BY Parts DEF HandlerState
<1>22. h' = [h EXCEPT ![k] = x] /\ h'[k] = x /\ Handlers' = Handlers
       /\ \A j \in Handlers : j # k => h'[j] = h[j]
  BY <1>1, <1>21, Parts DEF Goes, Shapes, Handlers
<1>23. x.t = t /\ x.others = h[k].others /\ x.flipFrom = h[k].flipFrom /\ x.pc = "settle"
  BY <1>3, <1>21, Parts DEF HandlerState
<1>24. HandlerType'
  <2>1. x.t \in 0..Len(th') /\ x.others \subseteq Threads' /\ x.flipFrom <= now'
    <3>1. h[k].t \in 0..Len(th) /\ h[k].others \subseteq Threads /\ h[k].flipFrom <= now
      BY Parts DEF HandlerType
    <3> QED BY <1>1, <1>3, <1>16, <1>23, <3>1
  <2>2. seen' \subseteq DOMAIN chat' /\ Len(chat') = Len(chat)
    BY <1>1, Parts DEF HandlerType
  <2> QED BY <1>17, <1>18, <1>19, <1>22, <2>1, <2>2, Parts, HandlerTyped
<1>25. TypeOK'
  BY <1>1, <1>12, <1>18, <1>19, <1>20, <1>24 DEF TypeOK
<1>26. Shapes'
  BY <1>25 DEF TypeOK, ChatType, HandlerType, ThreadType, RoomType, SessionType, Shapes
<1>27. Serves(k)'
  BY <1>1, <1>3, <1>5, <1>14, <1>16, <1>22, <1>23 DEF Serves, At, OnThread, Human, By
<1>28. ComesUp(k)'
  BY <1>1, <1>4, <1>14, <1>16, <1>22, <1>23 DEF ComesUp, At, Current
<1>29. \A w \in Threads : Current(w) => Current(w)'
  BY <1>1, <1>19, <1>26, Parts, CurrentKept
<1>30. ASSUME NEW j \in Handlers, j # k, BringsUp(j)
       PROVE  /\ th'[h[j].t].consumer = th[h[j].t].consumer /\ th'[h[j].t].s = th[h[j].t].s
              /\ Current(h[j].t)'
  <2>1. PICK w \in Threads : w = h[j].t /\ Current(w)
    BY <1>30, AlsoUp
  <2>2. w # t
    BY <1>2, <1>3, <1>30, <2>1, Parts DEF BroughtUpOnce
  <2>3. Current(w)' /\ h'[j] = h[j]
    BY <1>22, <1>29, <1>30, <2>1
  <2>4. Current(h[j].t)'
    BY <2>1, <2>3 DEF Current, Live
  <2> QED BY <1>16, <2>1, <2>2, <2>4
<1>31. ASSUME NEW w \in Threads
       PROVE  Belongs(w)' /\ Follows(w)'
  <2>1. CASE w # t
    <3>1. SameThread(w)
      BY <1>16, <2>1 DEF SameThread
    <3> QED BY <3>1, <1>1, <1>19, <1>26, Parts, BelongsKept, FollowsKept
  <2>2. CASE w = t
    <3>1. Follows(t)'
      BY <1>4, <1>14, <1>16 DEF Follows
    <3>2. th[t].at = 0
      BY Parts, <1>4 DEF Belongs
    <3>3. th[t].mention # 0 => th[t].mention \in Handlers /\ By(th[t].mention) = th[t].user
      BY Parts DEF Belongs
    <3>4. Belongs(t)'
      <4>1. /\ th'[t].s = n /\ n # 0 /\ sess'[n].user = th'[t].user /\ th'[t].at = 0
            /\ Len(sess'[n].log) = 1 /\ th'[t].mention = th[t].mention /\ th'[t].user = th[t].user
        BY <1>3, <1>5, <1>8, <1>10, <1>14, <1>16, <3>2
      <4>2. th[t].mention # 0 => th[t].mention \in Handlers' /\ chat'[th[t].mention].by = th[t].user
        BY <1>1, <1>22, <3>3 DEF By
      <4>3. th'[t].at <= Len(sess'[n].log)
        BY <4>1
      <4> QED BY <4>1, <4>2, <4>3 DEF Belongs, By
    <3> QED BY <2>2, <3>1, <3>4
  <2> QED BY <2>1, <2>2
<1>32. BringsUp(k)' => BringsUp(k) /\ h'[k].t = h[k].t
  BY <1>2, <1>3, <1>22, <1>23
<1> QED BY <1>16, <1>19, <1>20, <1>22, <1>25, <1>27, <1>28, <1>30, <1>31, <1>32, OneMoves

\* Flipping the room changes the flag and the cursor of threads, no more.
Alike(x, y) ==
    /\ x.user = y.user /\ x.s = y.s /\ x.room = y.room /\ x.consumer = y.consumer
    /\ x.at = y.at /\ x.mention = y.mention
LEMMA Flips ==
    ASSUME RoomInv, NEW base \in Seq(ThreadState), \A t \in DOMAIN base : base[t].seen <= now,
           NEW others, NEW me, NEW at \in Nat, at <= now
    PROVE  /\ flipRoom(base, others, me, at) \in Seq(ThreadState)
           /\ DOMAIN flipRoom(base, others, me, at) = DOMAIN base
           /\ \A t \in DOMAIN base : /\ Alike(flipRoom(base, others, me, at)[t], base[t])
                                     /\ flipRoom(base, others, me, at)[t].seen <= now
<1> DEFINE ts == flipRoom(base, others, me, at)
           who == IF others = {} THEN {} ELSE others \cup {me}
<1>1. ts = [t \in DOMAIN base |-> Flipped(t, base[t], who, at)]
  BY DEF flipRoom
<1>2. Len(base) \in Nat /\ DOMAIN base = 1..Len(base)
  OBVIOUS
<1>3. ASSUME NEW t \in DOMAIN base
      PROVE  ts[t] \in ThreadState /\ Alike(ts[t], base[t]) /\ ts[t].seen <= now
  <2>1. ts[t] = Flipped(t, base[t], who, at)
    BY <1>1
  <2>2. base[t] \in ThreadState /\ base[t].seen <= now
    OBVIOUS
  <2>3. CASE ts[t] = base[t]
    BY <2>2, <2>3 DEF Alike
  <2>4. CASE ts[t] = [base[t] EXCEPT !.multi = TRUE, !.seen = IF @ = 0 THEN at ELSE @]
    <3>1. PICK c \in Nat : c = (IF base[t].seen = 0 THEN at ELSE base[t].seen) /\ c <= now
      BY <2>2 DEF ThreadState
    <3>2. ts[t] = [base[t] EXCEPT !.multi = TRUE, !.seen = c]
      BY <2>4, <3>1
    <3> HIDE DEF ts
    <3>3. ts[t] \in ThreadState
      BY <2>2, <3>2 DEF ThreadState
    <3>4. Alike(ts[t], base[t]) /\ ts[t].seen = c
      BY <2>2, <3>2 DEF ThreadState, Alike
    <3> QED BY <3>1, <3>3, <3>4
  <2>5. ts[t] = base[t] \/ ts[t] = [base[t] EXCEPT !.multi = TRUE, !.seen = IF @ = 0 THEN at ELSE @]
    BY <2>1 DEF Flipped
  <2> QED BY <2>3, <2>4, <2>5
<1>4. DOMAIN ts = DOMAIN base
  BY <1>1
<1> HIDE DEF ts
<1>5. ts \in Seq(ThreadState)
  <2>1. ts = [t \in 1..Len(base) |-> ts[t]]
    BY <1>1, <1>2
  <2>2. ts \in [1..Len(base) -> ThreadState]
    BY <1>2, <1>3, <2>1
  <2> QED BY <1>2, <2>2
<1>6. ts = flipRoom(base, others, me, at)
  BY DEF ts
<1> QED BY <1>3, <1>4, <1>5, <1>6

LEMMA SeqOf ==
    ASSUME NEW S, NEW n \in Nat, NEW f, f = [i \in 1..n |-> f[i]], \A i \in 1..n : f[i] \in S
    PROVE  f \in Seq(S) /\ Len(f) = n
<1>1. f \in [1..n -> S]
  OBVIOUS
<1> QED BY <1>1

\* The room of a thread is flipped, or not.
LEMMA MarkType ==
    ASSUME RoomInv, NEW t \in Threads, NEW flip, markMultiplayer(th[t].room, flip)
    PROVE  rooms' \in Seq(RoomState) /\ Len(rooms') = Len(rooms)
<1>1. PICK r \in DOMAIN rooms : r = th[t].room
  BY Parts DEF ThreadType
<1>2. rooms \in Seq(RoomState) /\ rooms[r] \in RoomState
  BY Parts DEF RoomType
<1>3. PICK b \in BOOLEAN : b = (rooms[r].flipped \/ flip)
  OBVIOUS
<1>4. PICK w \in RoomState : w = [rooms[r] EXCEPT !.flipped = b]
  BY <1>2 DEF RoomState
<1>5. rooms' = [rooms EXCEPT ![r] = w]
  BY <1>1, <1>2, <1>3, <1>4 DEF markMultiplayer
<1> QED BY <1>2, <1>5

\* The handler that brought the thread up starts its consumer, and the room is
\* flipped for the others in it.
LEMMA ConsumerStarts ==
    ASSUME RoomInv, NEW k \in Handlers, h[k].pc \in {"flip", "settle"},
           NEW t \in Threads, t = h[k].t,
           NEW ts \in Seq(ThreadState), DOMAIN ts = Threads,
           \A z \in Threads : Alike(ts[z], th[z]) /\ ts[z].seen <= now,
           NEW y \in ThreadState, th' = [ts EXCEPT ![t] = y],
           y.user = th[t].user, y.room = th[t].room, y.s = th[t].s, y.seen <= now,
           y.consumer = "on", y.at <= Len(sess[th[t].s].log),
           \/ y.mention = th[t].mention
           \/ y.mention \in Handlers /\ By(y.mention) = th[t].user,
           NEW x \in HandlerState, h' = [h EXCEPT ![k] = x],
           \/ x.pc = "done" /\ x.t = 0
           \/ x.pc = "catchup" /\ x.t = t,
           x.others \subseteq Threads, x.flipFrom <= now,
           rooms' \in Seq(RoomState), Len(rooms') = Len(rooms),
           saved' \in Seq(SavedState), Len(saved') = Len(saved),
           \A s \in Sessions : saved'[s].seen <= now,
           since' \in Seq(Nat), Len(since') = Len(since),
           BoundType', UNCHANGED <<chat, now, seen, threads, room, sess, told>>
    PROVE  RoomInv'
<1>1. BringsUp(k) /\ h[k].pc \in OnThread
  BY DEF BringsUp, OnThread
<1>2. th[t].user = By(k) /\ Human(k) /\ t # 0 /\ Current(t) /\ th[t].s # 0
  BY <1>1, ItsThread, AlsoUp, Parts DEF Serves
<1>3. /\ th \in Seq(ThreadState) /\ Len(ts) = Len(th) /\ Len(th) \in Nat
      /\ th' \in Seq(ThreadState) /\ Len(th') = Len(th) /\ Threads' = Threads
      /\ th'[t] = y /\ \A z \in Threads : z # t => th'[z] = ts[z]
  <2>1. th \in Seq(ThreadState) /\ DOMAIN ts = DOMAIN th /\ t \in DOMAIN ts
    BY Parts DEF Shapes, Threads
  <2>2. Len(ts) = Len(th) /\ Len(th) \in Nat
    BY <2>1
  <2>3. /\ th' \in Seq(ThreadState) /\ Len(th') = Len(ts) /\ DOMAIN th' = DOMAIN ts
        /\ th'[t] = y /\ \A z \in DOMAIN ts : z # t => th'[z] = ts[z]
    BY <2>1
  <2> QED BY <2>1, <2>2, <2>3 DEF Threads
<1>4. \A z \in Threads : /\ th'[z].user = th[z].user /\ th'[z].room = th[z].room
                         /\ th'[z].s = th[z].s /\ th'[z].seen <= now
  BY <1>3 DEF Alike
<1>5. ThreadsGrow
  BY <1>3, <1>4 DEF ThreadsGrow
<1>6. ThreadType'
  <2>1. DOMAIN rooms' = DOMAIN rooms
    BY Parts DEF RoomType
  <2> QED BY <1>3, <1>4, <2>1, Parts DEF ThreadType
<1>7. ChatType' /\ ChatGrows /\ SessGrows /\ Grows
  BY <1>5, Parts, ChatKept, SessKept DEF Grows
<1>8. RoomType' /\ Registry'
  BY <1>3, <1>5, Parts, RegistryKept DEF Shapes, RoomType
<1>9. SessionType'
  BY Parts DEF SessionType, Sessions
<1>10. /\ h'[k] = x /\ Handlers' = Handlers
       /\ \A j \in Handlers : j # k => h'[j] = h[j]
  BY Parts DEF Shapes, Handlers
<1>11. HandlerType'
  <2>1. x.t \in 0..Len(th') /\ x.others \subseteq Threads' /\ x.flipFrom <= now'
    BY <1>3 DEF Threads
  <2>2. seen' \subseteq DOMAIN chat' /\ Len(chat') = Len(chat)
    BY Parts DEF HandlerType
  <2> QED BY <1>5, <1>6, <1>7, <2>1, <2>2, Parts, HandlerTyped
<1>12. TypeOK'
  BY <1>6, <1>7, <1>8, <1>9, <1>11 DEF TypeOK
<1>13. Shapes'
  BY <1>12 DEF TypeOK, ChatType, HandlerType, ThreadType, RoomType, SessionType, Shapes
<1>14. ~BringsUp(k)' /\ ComesUp(k)'
  BY <1>10 DEF BringsUp, ComesUp
<1>15. Serves(k)'
  BY <1>2, <1>4, <1>10 DEF Serves, At, OnThread, Human, By
<1>16. \A w \in Threads : Current(w) => Current(w)'
  BY <1>7, <1>13, Parts, CurrentKept
<1>17. ASSUME NEW j \in Handlers, j # k, BringsUp(j)
       PROVE  /\ th'[h[j].t].consumer = th[h[j].t].consumer /\ th'[h[j].t].s = th[h[j].t].s
              /\ Current(h[j].t)'
  <2>1. PICK w \in Threads : w = h[j].t /\ Current(w)
    BY <1>17, AlsoUp
  <2>2. w # t
    BY <1>1, <1>17, <2>1, Parts DEF BroughtUpOnce
  <2>3. Current(w)' /\ h'[j] = h[j]
    BY <1>10, <1>16, <1>17, <2>1
  <2>4. Current(h[j].t)'
    BY <2>1, <2>3 DEF Current, Live
  <2> QED BY <1>3, <2>1, <2>2, <2>4 DEF Alike
<1>18. ASSUME NEW w \in Threads
       PROVE  Belongs(w)' /\ Follows(w)'
  <2>1. CASE w # t
    <3>1. SameThread(w)
      BY <1>3, <2>1 DEF SameThread, Alike
    <3> QED BY <3>1, <1>7, <1>13, Parts, BelongsKept, FollowsKept
  <2>2. CASE w = t
    <3>1. Follows(t)'
      BY <1>2, <1>16 DEF Follows
    <3>2. th[t].mention # 0 => th[t].mention \in Handlers /\ By(th[t].mention) = th[t].user
      BY Parts DEF Belongs
    <3>3. sess[th[t].s].user = th[t].user
      BY <1>2, Parts DEF Belongs
    <3>4. y.mention # 0 => y.mention \in Handlers' /\ chat'[y.mention].by = th[t].user
      BY <1>10, <3>2 DEF By
    <3>5. Belongs(t)'
      BY <1>2, <1>3, <3>3, <3>4 DEF Belongs, By
    <3> QED BY <2>2, <3>1, <3>5
  <2> QED BY <2>1, <2>2
<1>19. \A j \in Handlers : j # k /\ BringsUp(j) =>
          /\ th'[h[j].t].consumer = th[h[j].t].consumer /\ th'[h[j].t].s = th[h[j].t].s
          /\ Current(h[j].t)'
  BY <1>17
<1>20. k \in Handlers => /\ Serves(k)' /\ ComesUp(k)'
                         /\ BringsUp(k)' => BringsUp(k) /\ h'[k].t = h[k].t
  BY <1>14, <1>15
<1>21. Threads' = Threads /\ \A w \in Threads : Belongs(w)' /\ Follows(w)'
  BY <1>3, <1>18
<1>22. Registry' /\ Grows
  BY <1>7, <1>8
<1> QED BY <1>10, <1>12, <1>19, <1>20, <1>21, <1>22, OneMoves, Zenon

\* From when on each session must be told.
LEMMA LearnsType ==
    ASSUME RoomInv, NEW ts \in Seq(ThreadState), NEW which, which \subseteq DOMAIN ts,
           NEW seeded, Learns(ts, which, seeded)
    PROVE  since' \in Seq(Nat) /\ Len(since') = Len(since)
<1>1. since \in Seq(Nat) /\ now \in Nat /\ Len(since) \in Nat /\ DOMAIN since = 1..Len(since)
  BY Parts DEF SessionType, ChatType
<1>2. ASSUME NEW t \in DOMAIN ts
      PROVE  ToldFrom(t, ts[t]) \in Nat
  <2>1. ts[t] \in ThreadState
    OBVIOUS
  <2>2. ts[t].seen \in Nat
    BY <2>1 DEF ThreadState
  <2> QED BY <1>1, <2>2 DEF ToldFrom
<1>3. ASSUME NEW s \in 1..Len(since)
      PROVE  since'[s] \in Nat
  <2>1. CASE s \in seeded
    BY <1>1, <2>1 DEF Learns
  <2>2. CASE s \notin seeded /\ since[s] = 0 /\ \E t \in which : ts[t].s = s /\ ts[t].multi /\ ts[t].seen # 0
    <3>1. PICK t \in which : t = CHOOSE x \in which : ts[x].s = s
      BY <2>2
    <3>2. since'[s] = ToldFrom(t, ts[t])
      BY <1>1, <2>2, <3>1 DEF Learns
    <3> QED BY <1>2, <3>1, <3>2
  <2>3. CASE s \notin seeded /\ ~(since[s] = 0 /\ \E t \in which : ts[t].s = s /\ ts[t].multi /\ ts[t].seen # 0)
    <3>1. since'[s] = since[s]
      BY <1>1, <2>3 DEF Learns
    <3> QED BY <1>1, <3>1
  <2> QED BY <2>1, <2>2, <2>3
<1>4. since' = [s \in 1..Len(since) |-> since'[s]]
  BY <1>1 DEF Learns
<1> QED BY <1>1, <1>3, <1>4, SeqOf

LEMMA FlipAdoptedStep ==
    ASSUME RoomInv, NEW k \in Handlers, FlipAdopted(k)
    PROVE  RoomInv'
<1>1. /\ At(k, "flip") /\ UNCHANGED <<chat, now, seen, threads, room, sess, told>>
  BY DEF FlipAdopted
<1>2. h[k].pc \in OnThread /\ h[k].pc \in {"flip", "settle"}
  BY <1>1 DEF At, OnThread
<1>3. PICK t \in Threads : t = h[k].t /\ th[t].user = By(k) /\ t # 0
  BY <1>2, ItsThread
<1>4. PICK at \in Nat : at = chat[k].ts /\ at <= now
  BY PriorType
<1>5. th \in Seq(ThreadState) /\ \A z \in DOMAIN th : th[z].seen <= now
  BY Parts DEF ThreadType, Threads
<1>6. PICK ts \in Seq(ThreadState) :
         /\ ts = flipRoom(th, h[k].others, t, at) /\ DOMAIN ts = Threads
         /\ \A z \in Threads : Alike(ts[z], th[z]) /\ ts[z].seen <= now
  BY <1>4, <1>5, Flips DEF Threads
<1>7. /\ th' = [ts EXCEPT ![t].consumer = "on", ![t].at = h[k].at, ![t].mention = k]
      /\ saveMeta(ts, NewToRoom(h[k].others) \cup {t})
      /\ Learns(ts, h[k].others \cup {t}, {})
      /\ markMultiplayer(th[t].room, h[k].others # {})
      /\ h' = [h EXCEPT ![k].pc = "catchup", ![k].revive = TRUE]
  BY <1>3, <1>4, <1>6 DEF FlipAdopted
<1>8. ts[t] \in ThreadState /\ h[k].at \in Nat /\ k \in Nat
  <2>1. ts[t] \in ThreadState
    BY <1>6
  <2>2. k \in Nat
    BY Parts DEF Shapes, Handlers
  <2> QED BY <2>1, <2>2, Parts DEF HandlerState
<1>9. PICK y \in ThreadState : y = [ts[t] EXCEPT !.consumer = "on", !.at = h[k].at, !.mention = k]
  BY <1>8 DEF ThreadState
<1>10. /\ y.user = ts[t].user /\ y.room = ts[t].room /\ y.s = ts[t].s /\ y.seen = ts[t].seen
       /\ y.consumer = "on" /\ y.at = h[k].at /\ y.mention = k
  BY <1>8, <1>9 DEF ThreadState
<1>11. /\ y.user = th[t].user /\ y.room = th[t].room /\ y.s = th[t].s /\ y.seen <= now
       /\ y.at <= Len(sess[th[t].s].log) /\ y.mention \in Handlers /\ By(y.mention) = th[t].user
  <2>1. y.user = th[t].user /\ y.room = th[t].room /\ y.s = th[t].s /\ y.seen <= now
    BY <1>6, <1>10 DEF Alike
  <2>2. h[k].at <= Len(sess[th[t].s].log)
    BY <1>1, <1>3, Parts DEF Serves
  <2> QED BY <1>3, <1>10, <2>1, <2>2
<1>12. th' = [ts EXCEPT ![t] = y]
  BY <1>6, <1>7, <1>9
<1>13. PICK x \in HandlerState : x = [h[k] EXCEPT !.pc = "catchup", !.revive = TRUE]
  BY Parts DEF HandlerState
<1>14. h' = [h EXCEPT ![k] = x]
  BY <1>7, <1>13, Parts DEF Shapes, Handlers
<1>15. x.t = t /\ x.others = h[k].others /\ x.flipFrom = h[k].flipFrom /\ x.pc = "catchup"
  BY <1>3, <1>13, Parts DEF HandlerState
<1>16. x.others \subseteq Threads /\ x.flipFrom <= now
  BY <1>15, Parts DEF HandlerType
<1>17. rooms' \in Seq(RoomState) /\ Len(rooms') = Len(rooms)
  BY <1>7, MarkType
<1>18. /\ saved' \in Seq(SavedState) /\ Len(saved') = Len(saved)
       /\ \A s \in Sessions : saved'[s].seen <= now
       /\ BoundType'
  <2>1. NewToRoom(h[k].others) \cup {t} \subseteq DOMAIN ts
    BY <1>6, Parts DEF NewToRoom, HandlerType
  <2> QED BY <1>6, <1>7, <2>1, MetaType
<1>19. since' \in Seq(Nat) /\ Len(since') = Len(since)
  <2>1. h[k].others \cup {t} \subseteq DOMAIN ts
    BY <1>6, Parts DEF HandlerType
  <2> QED BY <1>7, <2>1, LearnsType
<1> QED BY <1>1, <1>2, <1>3, <1>6, <1>10, <1>11, <1>12, <1>14, <1>15, <1>16, <1>17, <1>18, <1>19, ConsumerStarts

LEMMA SettleStep ==
    ASSUME RoomInv, NEW k \in Handlers, Settle(k)
    PROVE  RoomInv'
<1>1. /\ At(k, "settle") /\ UNCHANGED <<chat, now, seen, threads, room, sess, told>>
      /\ Returns(k)
  BY DEF Settle
<1>2. h[k].pc \in OnThread /\ h[k].pc \in {"flip", "settle"}
  BY <1>1 DEF At, OnThread
<1>3. PICK t \in Threads : t = h[k].t /\ th[t].user = By(k) /\ t # 0
  BY <1>2, ItsThread
<1>4. PICK cursor \in Nat :
         /\ cursor <= now
         /\ cursor = IF ~h[k].joined THEN chat[k].ts
                     ELSE IF chat[k].kind = "bare" THEN ThreadStart ELSE chat[k].ts
  <2>1. chat[k].ts \in Nat /\ chat[k].ts <= now
    BY PriorType
  <2>2. ThreadStart \in Nat /\ ThreadStart <= now
    BY Parts DEF ThreadStart, ChatType
  <2> QED BY <2>1, <2>2
<1>5. /\ th \in Seq(ThreadState) /\ th[t] \in ThreadState /\ t \in DOMAIN th
      /\ \A z \in DOMAIN th : th[z].seen <= now
  BY Parts DEF ThreadType, Threads
<1>6. PICK b \in BOOLEAN : b = (th[t].multi \/ h[k].joined)
  OBVIOUS
<1>7. PICK c \in Nat : c = (IF th[t].seen = 0 THEN cursor ELSE th[t].seen) /\ c <= now
  BY <1>4, <1>5 DEF ThreadState
<1>8. PICK w \in ThreadState : w = [th[t] EXCEPT !.multi = b, !.seen = c]
  BY <1>5 DEF ThreadState
<1>9. Alike(w, th[t]) /\ w.seen = c
  BY <1>5, <1>8 DEF ThreadState, Alike
<1>10. PICK base \in Seq(ThreadState) : base = [th EXCEPT ![t] = w]
  <2>1. [th EXCEPT ![t] = w] \in Seq(ThreadState)
    BY <1>5
  <2> QED BY <2>1
<1>11. base = [th EXCEPT ![t].multi = @ \/ h[k].joined, ![t].seen = IF @ = 0 THEN cursor ELSE @]
  BY <1>5, <1>6, <1>7, <1>8, <1>10 DEF ThreadState
<1>12. DOMAIN base = DOMAIN th /\ \A z \in DOMAIN th : base[z] = IF z = t THEN w ELSE th[z]
  BY <1>5, <1>10
<1>13. \A z \in DOMAIN base : Alike(base[z], th[z]) /\ base[z].seen <= now
  BY <1>5, <1>7, <1>9, <1>12 DEF Alike
<1>14. PICK from \in Nat : from = h[k].flipFrom /\ from <= now
  BY Parts DEF HandlerType, HandlerState
<1>15. PICK ts \in Seq(ThreadState) :
         /\ ts = flipRoom(base, h[k].others, t, from) /\ DOMAIN ts = DOMAIN base
         /\ \A z \in DOMAIN base : Alike(ts[z], base[z]) /\ ts[z].seen <= now
  BY <1>13, <1>14, Flips
<1>16. DOMAIN ts = Threads /\ \A z \in Threads : Alike(ts[z], th[z]) /\ ts[z].seen <= now
  BY <1>12, <1>13, <1>15 DEF Threads, Alike
<1>17. /\ th' = [ts EXCEPT ![t].consumer = "on"]
       /\ postStatus(ts, {o \in NewToRoom(h[k].others) : HasStatus(o)} \cup {t})
       /\ Learns(ts, h[k].others \cup {t},
                  IF h[k].joined /\ h[k].read /\ SeedTold(k) THEN {th[t].s} ELSE {})
       /\ markMultiplayer(th[t].room, h[k].others # {} \/ h[k].parent)
  <2>1. ts = flipRoom([th EXCEPT ![h[k].t].multi = @ \/ h[k].joined,
                                 ![h[k].t].seen = IF @ = 0
                                                  THEN IF ~h[k].joined THEN chat[k].ts
                                                       ELSE IF chat[k].kind = "bare" THEN ThreadStart ELSE chat[k].ts
                                                  ELSE @], h[k].others, h[k].t, h[k].flipFrom)
    <3>1. base = [th EXCEPT ![h[k].t].multi = @ \/ h[k].joined,
                            ![h[k].t].seen = IF @ = 0
                                             THEN IF ~h[k].joined THEN chat[k].ts
                                                  ELSE IF chat[k].kind = "bare" THEN ThreadStart ELSE chat[k].ts
                                             ELSE @]
      BY <1>3, <1>4, <1>11
    <3> QED BY ONLY <3>1, <1>3, <1>14, <1>15
  <2>2. th' = [ts EXCEPT ![t].consumer = "on"]
    BY <2>1, <1>3 DEF Settle
  <2>3. postStatus(ts, {o \in NewToRoom(h[k].others) : HasStatus(o)} \cup {t})
    BY <2>1, <1>3 DEF Settle
  <2>4. markMultiplayer(th[t].room, h[k].others # {} \/ h[k].parent)
    BY <1>3 DEF Settle
  <2>5. Learns(ts, h[k].others \cup {t},
                  IF h[k].joined /\ h[k].read /\ SeedTold(k) THEN {th[t].s} ELSE {})
    BY <2>1, <1>3 DEF Settle
  <2> QED BY <2>2, <2>3, <2>4, <2>5
<1>18. ts[t] \in ThreadState
  BY <1>16
<1>19. PICK y \in ThreadState : y = [ts[t] EXCEPT !.consumer = "on"]
  BY <1>18 DEF ThreadState
<1>20. /\ y.user = ts[t].user /\ y.room = ts[t].room /\ y.s = ts[t].s /\ y.seen = ts[t].seen
       /\ y.consumer = "on" /\ y.at = ts[t].at /\ y.mention = ts[t].mention
  BY <1>18, <1>19 DEF ThreadState
<1>21. th[t].at <= Len(sess[th[t].s].log)
  BY <1>1, <1>3, Parts DEF At, Serves, Belongs
<1>22. /\ y.user = th[t].user /\ y.room = th[t].room /\ y.s = th[t].s /\ y.seen <= now
       /\ y.at <= Len(sess[th[t].s].log) /\ y.mention = th[t].mention
  BY <1>16, <1>20, <1>21 DEF Alike
<1>23. th' = [ts EXCEPT ![t] = y]
  BY <1>16, <1>17, <1>19
<1>24. h' = [h EXCEPT ![k] = Idle]
  BY <1>1 DEF Returns
<1>25. /\ Idle \in HandlerState /\ Idle.pc = "done" /\ Idle.t = 0 /\ Idle.others \subseteq Threads
       /\ Idle.flipFrom <= now
  BY IdleType, Parts DEF ChatType
<1>26. rooms' \in Seq(RoomState) /\ Len(rooms') = Len(rooms)
  BY <1>17, MarkType
<1>27. /\ saved' \in Seq(SavedState) /\ Len(saved') = Len(saved)
       /\ \A s \in Sessions : saved'[s].seen <= now
       /\ BoundType'
  <2>1. {o \in NewToRoom(h[k].others) : HasStatus(o)} \cup {t} \subseteq DOMAIN ts
    BY <1>16, Parts DEF NewToRoom, HandlerType
  <2> QED BY <1>16, <1>17, <2>1, PostType
<1>28. since' \in Seq(Nat) /\ Len(since') = Len(since)
  <2>1. h[k].others \cup {t} \subseteq DOMAIN ts
    BY <1>16, Parts DEF HandlerType
  <2> QED BY <1>17, <2>1, LearnsType
<1> QED BY <1>1, <1>2, <1>3, <1>16, <1>20, <1>22, <1>23, <1>24, <1>25, <1>26, <1>27, <1>28, ConsumerStarts

-----------------------------------------------------------------------------
(* The process, and the theorems.                                          *)

LEMMA RestartStep ==
    ASSUME RoomInv, Restart
    PROVE  RoomInv'
<1>1. /\ th' = <<>> /\ threads' = [u \in Users |-> 0] /\ rooms' = <<>> /\ room' = 0
      /\ h' = [k \in DOMAIN h |-> Idle] /\ seen' = {} /\ BoundType'
      /\ UNCHANGED <<chat, now, saved, since, sess, told>>
  BY Parts, RestartsSpent DEF Restart
<1>2. ChatType' /\ SessionType'
  BY <1>1, Parts, ChatKept DEF SessionType, Sessions
<1>3. th' \in Seq(ThreadState) /\ rooms' \in Seq(RoomState) /\ Len(th') = 0 /\ Len(rooms') = 0 /\ Threads' = {}
  BY <1>1 DEF Threads
<1>4. h' \in Seq(HandlerState) /\ Len(h') = Len(h) /\ Handlers' = Handlers /\ \A k \in Handlers : h'[k] = Idle
  <2>1. h \in Seq(HandlerState) /\ Len(h) \in Nat /\ DOMAIN h = 1..Len(h)
    BY Parts DEF Shapes
  <2>2. h' = [k \in 1..Len(h) |-> h'[k]] /\ \A k \in 1..Len(h) : h'[k] = Idle
    BY <1>1, <2>1
  <2>3. h' \in Seq(HandlerState) /\ Len(h') = Len(h)
    BY <2>1, <2>2, IdleType, SeqOf
  <2> QED BY <2>1, <2>2, <2>3 DEF Handlers
<1>5. HandlerType'
  <2>1. Idle.t = 0 /\ Idle.others = {} /\ Idle.flipFrom = 0 /\ now \in Nat
    BY IdleType, Parts DEF ChatType
  <2>2. Len(h') = Len(chat') /\ seen' \subseteq DOMAIN chat'
    BY <1>1, <1>4, Parts DEF HandlerType
  <2>3. ASSUME NEW k \in Handlers
        PROVE  h'[k].t \in 0..Len(th') /\ h'[k].others \subseteq Threads' /\ h'[k].flipFrom <= now'
    <3>1. h'[k].t = 0 /\ h'[k].others = {} /\ h'[k].flipFrom = 0 /\ now' \in Nat
      BY <1>1, <1>4, <2>1
    <3> QED BY <1>3, <3>1
  <2> QED BY <1>4, <2>2, <2>3 DEF HandlerType
<1>6. ThreadType' /\ RoomType' /\ Registry' /\ Following'
  <2>1. participants' = {}
    BY <1>3 DEF participants
  <2>2. RoomType'
    BY <1>1, <1>3 DEF RoomType
  <2> QED BY <1>1, <1>3, <2>1, <2>2 DEF ThreadType, Registry, Following
<1>7. ASSUME NEW k \in Handlers
      PROVE  Serves(k)' /\ ComesUp(k)' /\ ~BringsUp(k)'
  <2>1. ~BringsUp(k)'
    BY <1>4, IdleType DEF BringsUp
  <2> QED BY <1>4, <2>1, IdleServes DEF ComesUp
<1> QED BY <1>1, <1>2, <1>4, <1>5, <1>6, <1>7 DEF RoomInv, TypeOK, Handling, BroughtUpOnce

LEMMA InitHolds ==
    ASSUME Init
    PROVE  RoomInv
<1>1. PICK m \in MessageType : m = [by |-> Starter, sess |-> 0, kind |-> "mention", ts |-> 2, ver |-> 2]
  BY RoomAssumption DEF MessageType
<1>2. /\ chat = <<m>> /\ h = <<Arrives>> /\ now = 2 /\ seen = {1}
      /\ m.by \in Users /\ m.ts = 2 /\ m.ver = 2
  BY <1>1, RoomAssumption DEF Init
<1>3. chat \in Seq(MessageType) /\ Len(chat) = 1 /\ DOMAIN chat = {1} /\ chat[1] = m
  BY <1>2
<1>4. h \in Seq(HandlerState) /\ Len(h) = 1 /\ Handlers = {1} /\ h[1] = Arrives
  BY <1>2, IdleType DEF Handlers
<1>5. /\ th = <<>> /\ rooms = <<>> /\ sess = <<>> /\ saved = <<>> /\ told = <<>> /\ since = <<>>
      /\ threads = [u \in Users |-> 0] /\ room = 0 /\ bounds = [c \in DOMAIN Counters |-> 0]
  BY DEF Init
<1>6. /\ th \in Seq(ThreadState) /\ rooms \in Seq(RoomState) /\ sess \in Seq(SessionState)
      /\ saved \in Seq(SavedState) /\ told \in Seq(ToldState) /\ since \in Seq(Nat)
      /\ Len(th) = 0 /\ Len(rooms) = 0 /\ Threads = {} /\ Sessions = {}
      /\ Len(sess) = 0 /\ Len(saved) = 0 /\ Len(told) = 0 /\ Len(since) = 0
  BY <1>5 DEF Threads, Sessions
<1>7. ChatType
  BY <1>2, <1>3 DEF ChatType
<1>8. HandlerType
  BY <1>2, <1>3, <1>4, <1>6, IdleType DEF HandlerType
<1>9. ThreadType /\ RoomType /\ SessionType
  <2>1. RoomType
    BY <1>5, <1>6 DEF RoomType
  <2> QED BY <1>6, <2>1 DEF ThreadType, SessionType
<1>10. BoundType
  BY <1>5, CountersFacts DEF BoundType
<1>11. Registry /\ Following
  <2>1. participants = {}
    BY <1>6 DEF participants
  <2> QED BY <1>5, <1>6, <2>1 DEF Registry, Following
<1>12. Handling /\ BroughtUpOnce
  <2>1. Serves(1) /\ ~BringsUp(1)
    BY <1>2, <1>3, <1>4, IdleType DEF Serves, At, OnThread, Human, BringsUp
  <2> QED BY <1>4, <2>1 DEF Handling, BroughtUpOnce, ComesUp
<1> QED BY <1>7, <1>8, <1>9, <1>10, <1>11, <1>12 DEF RoomInv, TypeOK

LEMMA HandlerStep ==
    ASSUME RoomInv, NEW k \in Handlers, Handler(k)
    PROVE  RoomInv'
BY HandleMentionStep, RouteHeldStep, handleThreadedMentionStep, hintNoLiveSessionStep, LookupFailsStep,
   adoptStep, AdoptFailsStep, reviveStatelessStep, FlipAdoptedStep, catchupStep, PromptAcceptedStep, PromptRefusedStep,
   advanceCursorStep, startOverStep, startJoinStep, RegisterStep, CreateSessionStep, CreateFailsStep,
   SettleStep DEF Handler

LEMMA Unmoved ==
    ASSUME RoomInv, UNCHANGED vars
    PROVE  RoomInv'
BY DEF RoomInv, vars, TypeOK, ChatType, HandlerType, ThreadType, RoomType, SessionType, BoundType,
       Registry, Handling, BroughtUpOnce, Following, Serves, ComesUp, Belongs, Follows, BringsUp, Current,
       Live, Human, At, By, participants, Threads, Sessions, Handlers

\* The registry, the handlers and the consumers agree, whatever the people do
\* and however the handlers of their messages interleave, fail or are restarted:
\* whoever is registered is in the room and the room exists as long as somebody
\* is; a handler works on its author's thread and session; a thread is brought
\* up by one handler, and it is registered while a live session is rendered.
THEOREM RoomSafety == Spec => []RoomInv
<1>1. RoomInv /\ [Next]_vars => RoomInv'
  <2> SUFFICES ASSUME RoomInv, [Next]_vars PROVE RoomInv'
    OBVIOUS
  <2>1. CASE \E u \in Users, kind \in {"mention", "bare", "plain"} : handleMessageEvent(u, kind)
    BY <2>1, MessageArrives
  <2>2. CASE \E k \in Handlers : Redeliver(k) \/ Edit(k) \/ Handler(k)
    BY <2>2, RedeliverStep, EditStep, HandlerStep
  <2>3. CASE \E t \in Threads : Consumes(t)
    BY <2>3, FollowStep, UnregisterStep, AnswerStep DEF Consumes
  <2>4. CASE \E s \in Sessions : \/ followAgain(s) \/ HarnessRuns(s) \/ HarnessPauses(s)
                                 \/ HarnessReviveFails(s) \/ HarnessEnds(s)
    BY <2>4, followAgainStep, HarnessSteps
  <2>5. CASE Restart
    BY <2>5, RestartStep
  <2>6. CASE UNCHANGED vars
    BY <2>6, Unmoved
  <2> QED BY <2>1, <2>2, <2>3, <2>4, <2>5, <2>6 DEF Next
<1> QED BY <1>1, InitHolds, PTL DEF Spec

\* Two threads with a consumer that show the same live session are the one that
\* is registered for its owner.
LEMMA OneFollower ==
    ASSUME RoomInv, NEW s \in Sessions, Live(s), NEW t \in Threads, NEW z \in Threads,
           th[t].s = s, th[t].consumer = "on", th[z].s = s, th[z].consumer = "on"
    PROVE  t = z
<1>1. s # 0
  BY Parts DEF Shapes, Sessions
<1>2. th[t].user = sess[s].user /\ th[z].user = sess[s].user
  BY <1>1, Parts DEF Belongs
<1>3. threads[th[t].user] = t /\ threads[th[z].user] = z
  BY Parts DEF Follows, Current
<1> QED BY <1>2, <1>3

\* A live session is rendered by one consumer, however its thread was taken up.
THEOREM FollowsOnce == Spec => []FollowedOnce
<1>1. RoomInv => FollowedOnce
  <2> SUFFICES ASSUME RoomInv, NEW s \in Sessions, Live(s)
               PROVE  Cardinality({t \in Threads : th[t].s = s /\ th[t].consumer = "on"}) <= 1
    BY DEF FollowedOnce
  <2> DEFINE F == {t \in Threads : th[t].s = s /\ th[t].consumer = "on"}
  <2>1. CASE F = {}
    BY <2>1, FS_EmptySet
  <2>2. CASE F # {}
    <3>1. PICK t : t \in F
      BY <2>2
    <3>2. F = {t}
      BY <3>1, OneFollower
    <3>3. Cardinality({t}) = 1
      BY FS_Singleton
    <3>4. Cardinality(F) = 1
      <4> HIDE DEF F
      <4> QED BY <3>2, <3>3
    <3> QED BY <3>4
  <2> QED BY <2>1, <2>2
<1> QED BY <1>1, RoomSafety, PTL

=============================================================================
