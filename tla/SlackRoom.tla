----------------------------- MODULE SlackRoom -----------------------------
(***************************************************************************)
(* One Slack thread and the people in it: the handlers that the gateway    *)
(* starts for their messages, the registry of the sessions this process    *)
(* follows in the thread (threads, rooms), how a mention starts, joins,    *)
(* continues or starts over a session, when the thread becomes             *)
(* multiplayer, and the catch-up every turn of a session then carries.     *)
(*                                                                         *)
(* Sources: slackbot/internal/gateway/gateway.go, slackbot/internal/app    *)
(* (app.go, start.go, transcript.go, and the parts of render.go, status.go *)
(* and sweep.go that change the registry).                                 *)
(*                                                                         *)
(* What is abstracted: a message is its author and the time of its last    *)
(* version (texts, labels and quoting are left out); the bot's lifecycle   *)
(* lines, which no carryover contains, are not messages of the model; the  *)
(* session itself (harness API) is the environment.  A handler takes one   *)
(* step per call to Slack or to the harness API, or per use of a.mu.       *)
(***************************************************************************)
EXTENDS Naturals, Sequences, FiniteSets, FiniteSetsExt

CONSTANTS Users,       \* the people in the thread
          Starter,     \* the one whose mention started it
          MaxMessages, \* bound on their replies and on redeliveries
          MaxEdits,    \* bound on the edits of messages
          MaxHandlers, \* bound on the handlers at work at a time
          MaxSessions, \* bound on the sessions
          MaxAnswers,  \* bound on the answers
          MaxCarry,    \* transcriptMaxMessages: messages one carryover quotes
          MaxRead,     \* transcriptFetchMax: the last messages that a read keeps
          Lookback,    \* catchupLookback: how far before the cursor the second read starts
          MaxStops,    \* bound on the pauses and ends of sessions
          MaxFailures, \* bound on the failed calls
          MaxRestarts, \* bound on the restarts of the bot
          MaxEvents    \* bound on all that is bounded, taken together

ASSUME RoomAssumption ==
    /\ IsFiniteSet(Users) /\ Starter \in Users
    /\ \A n \in {MaxMessages, MaxHandlers, MaxEdits, MaxSessions, MaxAnswers, MaxCarry, MaxRead,
                 Lookback, MaxStops, MaxFailures, MaxRestarts, MaxEvents} : n \in Nat

VARIABLES chat,    \* Slack: the messages of the thread, oldest first
          now,     \* Slack: the time
          h,       \* the handler of each message
          seen,    \* gateway: the events received
          th,      \* the thread objects of this process
          threads, \* App.threads: the thread registered for each person, or 0
          rooms,   \* the room objects
          room,    \* App.rooms: the room of this thread, or 0
          sess,    \* harness API: the sessions
          saved,   \* Slack: the state saved with each session's status message
          told,    \* history: what each session was told of the thread
          since,   \* history: from when on each session must be told, 0 for not yet
          bounds   \* how often what is bounded has happened

app  == <<th, threads, rooms, room, saved, since>>
vars == <<chat, now, h, seen, th, threads, rooms, room, sess, saved, told, since, bounds>>

Sessions == DOMAIN sess
Handlers == DOMAIN h
Threads  == DOMAIN th
NoState  == [posted |-> FALSE, multi |-> FALSE, seen |-> 0]
Nothing  == [quoted |-> {}, omitted |-> {}, turns |-> {}, from |-> 0]
Live(s)  == sess[s].state # "ended"

Counters == [messages |-> MaxMessages, edits |-> MaxEdits, answers |-> MaxAnswers, stops |-> MaxStops,
             failures |-> MaxFailures, restarts |-> MaxRestarts]
Spend(what) ==
    /\ bounds[what] < Counters[what]
    /\ MapThenSumSet(LAMBDA c : bounds[c], DOMAIN bounds) < MaxEvents
    /\ bounds' = [bounds EXCEPT ![what] = @ + 1]
\* A call of the step fails, or none does.
Fails(failed) == IF failed THEN Spend("failures") ELSE UNCHANGED bounds

\* The handler of a message: what it knows is what its goroutine carries.
Idle == [pc |-> "done", t |-> 0, s |-> 0, at |-> 0, solo |-> FALSE, joined |-> FALSE, parent |-> FALSE,
         carry |-> {}, from |-> 0, read |-> TRUE, revive |-> FALSE, others |-> {}, flipFrom |-> 0]
Arrives == [Idle EXCEPT !.pc = "route"]
At(k, pc) == h[k].pc = pc
Goes(k, pc) == h' = [h EXCEPT ![k].pc = pc]
Returns(k) == h' = [h EXCEPT ![k] = Idle]

\* Times are natural numbers: 0 is a cursor that is missing, 1 is
\* threadStartCursor, the first message has time 2.
ThreadStart == 1
Message(by, s, kind) == [by |-> by, sess |-> s, kind |-> kind, ts |-> now + 1, ver |-> now + 1]

NewThread(u, s, state, m) ==
    [user |-> u, s |-> s, state |-> state, multi |-> m.multi, seen |-> m.seen,
     room |-> 0, consumer |-> "none", at |-> 0, mention |-> 0]
NewRoom == [flipped |-> FALSE]

multiplayer(t) == rooms[th[t].room].flipped \/ th[t].multi

Init ==
    /\ now = 2
    /\ chat = <<[by |-> Starter, sess |-> 0, kind |-> "mention", ts |-> 2, ver |-> 2]>>
    /\ h = <<Arrives>> /\ seen = {1}
    /\ th = <<>> /\ threads = [u \in Users |-> 0] /\ rooms = <<>> /\ room = 0
    /\ sess = <<>> /\ saved = <<>>
    /\ told = <<>> /\ since = <<>>
    /\ bounds = [c \in DOMAIN Counters |-> 0]

----------------------------------------------------------------------------
(* The people.                                                             *)

Human(k) == chat[k].by \in Users

CanArrive ==
    /\ Cardinality({k \in Handlers : ~At(k, "done")}) < MaxHandlers
    /\ Spend("messages")
\* handleEvents, handleMessageEvent: a message the bot has not received before
\* is dispatched to a handler of its own, as a mention (bare when it says
\* nothing else) or as a plain reply.
handleMessageEvent(u, kind) ==
    /\ CanArrive
    /\ now' = now + 1
    /\ chat' = Append(chat, Message(u, 0, kind))
    /\ h' = Append(h, Arrives)
    /\ seen' = seen \cup {Len(chat) + 1}
    /\ UNCHANGED <<app, sess, told>>

\* Slack delivers an event again: a process that has seen it ignores it, one
\* that was restarted since handles it.
Redeliver(k) ==
    /\ Human(k) /\ k \notin seen /\ At(k, "done") /\ CanArrive
    /\ seen' = seen \cup {k}
    /\ h' = [h EXCEPT ![k] = Arrives]
    /\ UNCHANGED <<chat, now, app, sess, told>>

Edit(k) ==
    /\ Human(k) /\ Spend("edits")
    /\ now' = now + 1
    /\ chat' = [chat EXCEPT ![k].ver = now + 1]
    /\ UNCHANGED <<h, seen, app, sess, told>>

----------------------------------------------------------------------------
(* The registry.                                                           *)

participants == {t \in Threads : \E u \in Users : threads[u] = t}

\* registerThread: one thread for each person, in the room of the Slack thread.
CanRegister(u) == threads[u] = 0
registerThread(t) ==
    LET fresh == room = 0
        r == IF fresh THEN Len(rooms) + 1 ELSE room
        was == IF fresh THEN NewRoom ELSE rooms[room]
        is == [was EXCEPT !.flipped = @ \/ t.multi]
    IN  /\ threads' = [threads EXCEPT ![t.user] = Len(th) + 1]
        /\ room' = r
        /\ rooms' = IF fresh THEN Append(rooms, is) ELSE [rooms EXCEPT ![r] = is]
        /\ th' = Append(th, [t EXCEPT !.room = r])

\* Mutant: the room goes with whoever leaves.
RoomGoesWithAnyone(t) ==
    /\ threads' = IF threads[th[t].user] = t THEN [threads EXCEPT ![th[t].user] = 0] ELSE threads
    /\ room' = 0
\* Mutant: whatever thread the person has now is dropped.
DropsAnyThread(t) ==
    LET left == [threads EXCEPT ![th[t].user] = 0]
    IN  /\ threads' = left
        /\ room' = IF \A u \in Users : left[u] = 0 THEN 0 ELSE room
\* unregisterThread: a thread that is no longer the registered one stays out of
\* the way; the room goes with its last participant.
unregisterThread(t) ==
    LET left == IF threads[th[t].user] = t THEN [threads EXCEPT ![th[t].user] = 0] ELSE threads
    IN  /\ threads' = left
        /\ room' = IF \A u \in Users : left[u] = 0 THEN 0 ELSE room

\* flipRoom: the room becomes multiplayer (announced by the one that flips it)
\* and every session in it gets the flag and a cursor.
Flipped(t, x, others, at) ==
    IF others = {} \/ x.multi \/ t \notin others THEN x
    ELSE [x EXCEPT !.multi = TRUE, !.seen = IF @ = 0 THEN at ELSE @]
flipRoom(ts, others, me, at) ==
    [t \in DOMAIN ts |-> Flipped(t, ts[t], IF others = {} THEN {} ELSE others \cup {me}, at)]
markMultiplayer(r, flip) == rooms' = [rooms EXCEPT ![r].flipped = @ \/ flip]

\* A thread's state goes into its session's status message, which is posted
\* when the session has none and edited otherwise; calls that fail are lost.
State(t) == [posted |-> TRUE, multi |-> t.multi, seen |-> t.seen]
Saves(ts, which) ==
    saved' = [s \in DOMAIN saved |->
                IF \E t \in which : ts[t].s = s
                THEN State(ts[CHOOSE t \in which : ts[t].s = s]) ELSE saved[s]]
postStatus(ts, which) ==
    \E lost \in SUBSET which : Fails(lost # {}) /\ Saves(ts, which \ lost)
\* saveMeta: it is not saved before there is a status message.
HasStatus(t) == th[t].s # 0 /\ saved[th[t].s].posted
saveMeta(ts, which) == postStatus(ts, {t \in which : HasStatus(t)})

NewToRoom(ts) == {t \in ts : ~th[t].multi}

\* No turn is on its way that was read for before.
NoneUnderway(t) == \A k \in Handlers : h[k].t = t => ~(At(k, "prompt") \/ At(k, "advance"))
\* History: a session that has just learned of the room is told all that follows
\* its cursor; what a turn that is on its way leaves behind is skipped.
ToldFrom(t, x) == IF NoneUnderway(t) THEN x.seen + 1 ELSE now + 1
Learns(ts, which, seeded) ==
    since' = [s \in DOMAIN since |->
                IF s \in seeded THEN 1
                ELSE IF since[s] = 0 /\ \E t \in which : ts[t].s = s /\ ts[t].multi /\ ts[t].seen # 0
                THEN LET t == CHOOSE t \in which : ts[t].s = s IN ToldFrom(t, ts[t])
                ELSE since[s]]
\* A thread taken up from a state that does not know of the room starts anew.
Remembers(s) == since' = IF saved[s].multi THEN since ELSE [since EXCEPT ![s] = 0]

----------------------------------------------------------------------------
(* Carryover.                                                              *)

\* ThreadReplies: of the messages after a time, the last ones.
ThreadReplies(oldest) ==
    LET all == {k \in DOMAIN chat : chat[k].ts > oldest}
    IN  {k \in all : Cardinality({j \in all : j > k}) < MaxRead}
tsBefore(cursor) == IF cursor > Lookback THEN cursor - Lookback ELSE 0
\* transcriptMessages: the messages whose last version lies between the cursor
\* and the request, without the session's own answers; before = 0 has no end.
transcriptMessages(replies, after, before, self) ==
    {<<k, chat[k].ver>> : k \in {j \in replies :
        /\ chat[j].ver > after
        /\ before # 0 => chat[j].ver < before
        /\ self = 0 \/ chat[j].sess # self}}
\* capEntries: the most recent ones are quoted, the omission of others is said.
Newer(m, ms) == {n \in ms : n[1] > m[1]}
capEntries(ms) == {m \in ms : Cardinality(Newer(m, ms)) < MaxCarry}
Quoting(x, ms) == [x EXCEPT !.quoted = @ \cup capEntries(ms), !.omitted = @ \cup (ms \ capEntries(ms))]
\* A turn tells the session of a message and of what was carried over for it.
Told(x, k) == [Quoting(x, h[k].carry) EXCEPT !.turns = @ \cup {k},
                                             !.from = IF @ < h[k].from THEN h[k].from ELSE @]

\* priorTS: the time of the last message before a request.
priorTS(ts) ==
    LET prior == {chat[k].ts : k \in {j \in ThreadReplies(0) : chat[j].ts < ts}}
    IN  IF prior = {} THEN ts ELSE Max(prior)

----------------------------------------------------------------------------
(* Handlers.                                                               *)

By(k) == chat[k].by
Mention(k) == chat[k].kind \in {"mention", "bare"}
Mine(k) == {s \in Sessions : sess[s].user = By(k)}
\* sessionForParticipant: the person's newest session here.
Newest(k) == Max(Mine(k))
Held(k) == threads[By(k)] # 0
Quiet(k) == Returns(k) /\ UNCHANGED <<chat, now, seen, app, sess, told>>

\* The root of the thread is handled as a reply once the thread has a room.
InThread(k) == k # 1 \/ room # 0
\* HandleMention on a top-level message starts a session; it ignores the root
\* of the person's own thread.
HandleMention(k) ==
    /\ At(k, "route") /\ k = 1
    /\ \/ /\ Held(k)
          /\ Quiet(k) /\ UNCHANGED bounds
       \/ /\ room = 0
          /\ Goes(k, "register")
          /\ UNCHANGED <<chat, now, seen, app, sess, told, bounds>>

\* The person's own session here is followed: it takes the message as a turn,
\* or is continued by it, or is not ready; in a multiplayer thread a plain
\* reply is discussion.
RouteHeld(k) ==
    LET t == threads[By(k)]
        turn == /\ Mention(k) \/ ~multiplayer(t)
                /\ \/ th[t].state = "running" /\ chat[k].kind # "bare"
                   \/ th[t].state = "suspended"
    IN  /\ At(k, "route") /\ k # 1 /\ Held(k)
        /\ h' = [h EXCEPT ![k] = IF ~turn THEN Idle
                                 ELSE [Idle EXCEPT !.pc = "catchup", !.t = t,
                                                   !.revive = th[t].state = "suspended"]]
        /\ th' = IF turn /\ th[t].state = "suspended" THEN [th EXCEPT ![t].mention = k] ELSE th
        /\ UNCHANGED <<chat, now, seen, threads, rooms, room, saved, since, sess, told, bounds>>

\* The paused session as it was looked up, which the handler adopts.
View(k) == [Idle EXCEPT !.pc = "adopt", !.s = Newest(k), !.at = Len(sess[Newest(k)].log)]
\* handleThreadedMention, with no session of theirs followed here.
handleThreadedMention(k) ==
    /\ At(k, "route") /\ InThread(k) /\ ~Held(k) /\ Mention(k)
    /\ h' = [h EXCEPT ![k] = IF Mine(k) = {} \/ ~Live(Newest(k)) THEN [Idle EXCEPT !.pc = "join"]
                             ELSE IF sess[Newest(k)].state = "suspended" THEN View(k) ELSE Idle]
    /\ UNCHANGED <<chat, now, seen, app, sess, told, bounds>>

\* hintNoLiveSession: a plain reply continues the person's own paused session
\* of a solo thread; others are taught once, as is the owner of an ended one.
hintNoLiveSession(k) ==
    LET inRoom == room # 0 /\ rooms[room].flipped
        revives == /\ ~inRoom /\ Mine(k) # {}
                   /\ sess[Newest(k)].state = "suspended" /\ ~saved[Newest(k)].multi
    IN  /\ At(k, "route") /\ ~Held(k) /\ ~Mention(k)
        /\ h' = [h EXCEPT ![k] = IF revives THEN [View(k) EXCEPT !.solo = TRUE] ELSE Idle]
        /\ UNCHANGED <<chat, now, seen, app, sess, told, bounds>>

\* The session could not be looked up: a failed read never falls through.
LookupFails(k) ==
    /\ At(k, "route") /\ InThread(k) /\ ~Held(k)
    /\ Spend("failures")
    /\ Quiet(k)

\* adopt: the paused session's thread is registered from its saved state, or
\* another handler has just done so.
adopt(k) ==
    LET t == NewThread(By(k), h[k].s, "suspended", saved[h[k].s])
        me == Len(th) + 1
        others == participants
    IN  /\ At(k, "adopt") /\ saved[h[k].s].posted
        /\ \/ /\ CanRegister(By(k))
              /\ registerThread(t)
              /\ h' = [h EXCEPT ![k].pc = "flip", ![k].t = me, ![k].others = others]
              /\ Remembers(h[k].s)
           \/ /\ ~CanRegister(By(k))
              /\ h' = [h EXCEPT ![k].pc = "catchup", ![k].t = threads[By(k)], ![k].revive = TRUE]
              /\ th' = [th EXCEPT ![threads[By(k)]].mention = k]
              /\ UNCHANGED <<threads, rooms, room, since>>
        /\ UNCHANGED <<chat, now, seen, saved, sess, told, bounds>>
\* The thread cannot be read, or whoever was registered has gone again
\* (errBindingClaimed).
AdoptFails(k) ==
    /\ At(k, "adopt")
    /\ \/ Spend("failures")
       \/ saved[h[k].s].posted /\ ~CanRegister(By(k)) /\ UNCHANGED bounds
    /\ Quiet(k)
\* reviveDetached: a paused session without a status message in the thread is
\* ended, if it can be, and the person joins anew.
reviveStateless(k) ==
    LET s == h[k].s
    IN  /\ At(k, "adopt") /\ ~saved[s].posted
        /\ \E ok \in BOOLEAN :
              /\ sess' = IF ok /\ Live(s)
                         THEN [sess EXCEPT ![s].state = "ended", ![s].log = Append(@, "ended")] ELSE sess
              /\ h' = [h EXCEPT ![k] = IF ok THEN [Idle EXCEPT !.pc = "join", !.solo = h[k].solo] ELSE Idle]
        /\ UNCHANGED <<chat, now, seen, app, told, bounds>>
FlipAdopted(k) ==
    LET t == h[k].t
        ts == flipRoom(th, h[k].others, t, chat[k].ts)
    IN  /\ At(k, "flip")
        /\ th' = [ts EXCEPT ![t].consumer = "on", ![t].at = h[k].at, ![t].mention = k]
        /\ saveMeta(ts, NewToRoom(h[k].others) \cup {t})
        /\ Learns(ts, h[k].others \cup {t}, {})
        /\ markMultiplayer(th[t].room, h[k].others # {})
        /\ h' = [h EXCEPT ![k].pc = "catchup", ![k].revive = TRUE]
        /\ UNCHANGED <<chat, now, seen, threads, room, sess, told>>

\* sendTurn: catchup reads the thread from the session's cursor up to the
\* request.  When the whole thread cannot be read it reads again from a while
\* before the cursor; when that fails too, the turn goes without.
Carry(k, from) ==
    LET t == h[k].t
        cursor == th[t].seen
        before == IF Mention(k) \/ h[k].revive THEN chat[k].ts ELSE 0
    IN  IF ~multiplayer(t) \/ cursor = 0 THEN {}
        ELSE IF cursor = ThreadStart THEN transcriptMessages(ThreadReplies(from), 0, before, 0)
        ELSE transcriptMessages(ThreadReplies(from), cursor, before, th[t].s)
Carries(k, from, carry, read) ==
    h' = [h EXCEPT ![k].pc = "prompt", ![k].from = from, ![k].carry = carry, ![k].read = read]
catchup(k) ==
    LET t == h[k].t
        again == tsBefore(th[t].seen)
    IN  /\ At(k, "catchup")
        /\ \/ Carries(k, 0, Carry(k, 0), TRUE) /\ UNCHANGED bounds
           \/ /\ multiplayer(t) /\ th[t].seen # 0 /\ Spend("failures")
              /\ \/ Carries(k, again, Carry(k, again), TRUE)
                 \/ Carries(k, 0, {}, FALSE)
        /\ UNCHANGED <<chat, now, seen, th, threads, rooms, room, saved, since, sess, told>>

\* The harness takes the prompt as a turn of a running session, or continues a
\* paused one; the idempotency key makes a repeated prompt the same turn.
PromptAccepted(k) ==
    LET s == th[h[k].t].s
    IN  /\ At(k, "prompt") /\ s # 0 /\ sess[s].state \in {"running", "suspended"}
        /\ sess' = [sess EXCEPT ![s].state = IF @ = "suspended" THEN "pending" ELSE @,
                                ![s].revived = @ \/ sess[s].state = "suspended",
                                ![s].log = IF sess[s].state = "suspended" THEN Append(@, "pending") ELSE @]
        /\ told' = [told EXCEPT ![s] = Told(@, k)]
        /\ Goes(k, "advance")
        /\ UNCHANGED <<chat, now, seen, app, bounds>>
\* It is refused: the turn is not counted and the owner is told; a session that
\* cannot be continued is started over.
PromptRefused(k) ==
    LET t == h[k].t
        s == th[t].s
    IN  /\ At(k, "prompt")
        /\ \/ /\ s # 0 => sess[s].state \in {"ended", "pending"}
              /\ Returns(k) /\ UNCHANGED bounds
           \/ /\ s # 0 /\ Live(s) /\ Spend("failures")
              /\ Returns(k)
           \/ /\ s # 0 /\ sess[s].state = "suspended" /\ h[k].revive   \* ErrNotRevivable
              /\ Goes(k, "over") /\ UNCHANGED bounds
        /\ UNCHANGED <<chat, now, seen, th, threads, rooms, room, saved, since, sess, told>>

\* The cursor moves to the request; a continuation also restates the status.
Advances(k, moves) ==
    LET t == h[k].t
        ts == IF moves THEN [th EXCEPT ![t].seen = chat[k].ts] ELSE th
    IN  /\ At(k, "advance") /\ Returns(k)
        /\ th' = ts
        /\ IF h[k].revive THEN postStatus(ts, {t})
           ELSE saveMeta(ts, IF moves /\ multiplayer(t) THEN {t} ELSE {})
        /\ UNCHANGED <<chat, now, seen, threads, rooms, room, since, sess, told>>
\* Mutant: the cursor advances past a thread that could not be read.
AdvancesUnread(k) == Advances(k, th[h[k].t].seen < chat[k].ts)
\* advanceCursor, after the turn was accepted and if the thread could be read.
advanceCursor(k) == Advances(k, h[k].read /\ th[h[k].t].seen < chat[k].ts)

\* startOver: the session that cannot be continued is ended and its thread
\* unregistered; the person joins anew.
startOver(k) ==
    LET t == h[k].t
        s == th[t].s
        stopped == [th EXCEPT ![t].mention = 0,
                              ![t].consumer = IF @ = "on" THEN "stopping" ELSE @]
    IN  /\ At(k, "over")
        /\ \/ /\ th' = [stopped EXCEPT ![t].state = "ended"]
              /\ sess' = [sess EXCEPT ![s].state = "ended", ![s].log = Append(@, "ended")]
              /\ unregisterThread(t)
              /\ h' = [h EXCEPT ![k] = [Idle EXCEPT !.pc = "join", !.solo = ~multiplayer(t)]]
              /\ postStatus(stopped, {t})
           \/ /\ Spend("failures")
              /\ th' = stopped
              /\ Returns(k)
              /\ UNCHANGED <<sess, threads, room, saved>>
        /\ UNCHANGED <<chat, now, seen, rooms, since, told>>

\* startJoin: who else has a session here, from the registry or, when nobody
\* is registered, from the harness; the seed is read.
roommates(u) ==
    IF participants # {} THEN {th[t].s : t \in {x \in participants : th[x].user # u}}
    ELSE {s \in Sessions : Live(s) /\ sess[s].user # u}
\* parentOf: a roommate whose session is being created has no name yet.
parentOf(mates) == mates # {} /\ 0 \notin mates
Joins(k, mates, seed, read, from) ==
    h' = [h EXCEPT ![k] = [@ EXCEPT !.pc = "register", !.carry = seed, !.read = read,
                                    !.joined = ~(h[k].solo /\ mates = {}),
                                    !.parent = parentOf(mates), !.flipFrom = from]]
startJoin(k) ==
    LET seed == transcriptMessages(ThreadReplies(0), 0, chat[k].ts, 0)
    IN  /\ At(k, "join")
        /\ \/ /\ Joins(k, roommates(By(k)), seed, TRUE, priorTS(chat[k].ts))
              /\ UNCHANGED bounds
           \/ /\ Joins(k, roommates(By(k)), {}, FALSE, chat[k].ts)
              /\ Spend("failures")
           \/ /\ participants = {} /\ Joins(k, {}, seed, TRUE, priorTS(chat[k].ts))   \* no roster
              /\ Spend("failures")
        /\ UNCHANGED <<chat, now, seen, app, sess, told>>

\* startSession registers the thread before it creates the session; a person
\* with a thread here gets no second one.
Register(k) ==
    LET t == NewThread(By(k), 0, "pending", NoState)
    IN  /\ At(k, "register")
        /\ \/ /\ CanRegister(By(k))
              /\ h' = [h EXCEPT ![k].pc = "create", ![k].t = Len(th) + 1, ![k].others = participants]
              /\ registerThread(t)
           \/ /\ ~CanRegister(By(k))
              /\ Returns(k)
              /\ UNCHANGED <<th, threads, rooms, room>>
        /\ UNCHANGED <<chat, now, seen, saved, since, sess, told, bounds>>
CreateSession(k) ==
    LET s == Len(sess) + 1
        text == chat[k].kind # "bare"
    IN  /\ At(k, "create") /\ s <= MaxSessions
        /\ \A x \in Mine(k) : ~Live(x)
        /\ sess' = Append(sess, [user |-> By(k), state |-> "pending",
                                 revived |-> FALSE, log |-> <<"pending">>])
        /\ saved' = Append(saved, NoState) /\ since' = Append(since, 0)
        /\ told' = Append(told, IF text THEN Told(Nothing, k) ELSE Nothing)
        /\ th' = [th EXCEPT ![h[k].t].s = s]
        /\ Goes(k, "settle")
        /\ UNCHANGED <<chat, now, seen, threads, rooms, room, bounds>>
CreateFails(k) ==
    /\ At(k, "create")
    /\ \/ (\E x \in Mine(k) : Live(x)) /\ UNCHANGED bounds
       \/ Spend("failures")
    /\ unregisterThread(h[k].t)
    /\ Returns(k)
    /\ UNCHANGED <<chat, now, seen, th, rooms, saved, since, sess, told>>
\* History: a session that joins has the seed in its first turn and is told all
\* from then on.  What lies between is skipped if, while it was created, the flip
\* of another handler gave its thread a later cursor, or a handler that adopted the
\* person's former session got this thread and found no cursor to catch up from.
SeedTold(k) == th[h[k].t].seen = 0 /\ NoneUnderway(h[k].t)
\* The session has its state, the room is flipped for everyone in it, the
\* status is posted and the consumer started.
Settle(k) ==
    LET t == h[k].t
        cursor == IF ~h[k].joined THEN chat[k].ts
                  ELSE IF chat[k].kind = "bare" THEN ThreadStart ELSE chat[k].ts
        mine == [th EXCEPT ![t].multi = @ \/ h[k].joined,
                           ![t].seen = IF @ = 0 THEN cursor ELSE @]
        ts == flipRoom(mine, h[k].others, t, h[k].flipFrom)
    IN  /\ At(k, "settle")
        /\ th' = [ts EXCEPT ![t].consumer = "on"]
        /\ postStatus(ts, {o \in NewToRoom(h[k].others) : HasStatus(o)} \cup {t})
        /\ Learns(ts, h[k].others \cup {t},
                  IF h[k].joined /\ h[k].read /\ SeedTold(k) THEN {th[t].s} ELSE {})
        /\ markMultiplayer(th[t].room, h[k].others # {} \/ h[k].parent)
        /\ Returns(k)
        /\ UNCHANGED <<chat, now, seen, threads, room, sess, told>>

----------------------------------------------------------------------------
(* The consumers.                                                          *)

Consumer == UNCHANGED <<seen, told>>

\* renderState: the thread follows the session's states one by one.  A pause,
\* a failed continuation and the end stop the consumer.  The status says where
\* the session is and takes the thread's state along.
Follow(t) ==
    LET e == sess[th[t].s].log[th[t].at + 1]
        unresumed == e \in {"revFailed", "noResume"}
        over == e = "noResume" /\ th[t].mention # 0
    IN  /\ th[t].consumer = "on" /\ th[t].at < Len(sess[th[t].s].log)
        /\ over => At(th[t].mention, "done")
        /\ th' = [th EXCEPT ![t].state = IF unresumed THEN "suspended" ELSE e, ![t].at = @ + 1,
                            ![t].mention = IF unresumed THEN 0 ELSE @,
                            ![t].consumer = IF e \in {"suspended", "revFailed", "ended"}
                                            THEN "stopping" ELSE @]
        /\ h' = IF over THEN [h EXCEPT ![th[t].mention] = [Idle EXCEPT !.pc = "over", !.t = t]] ELSE h
        /\ postStatus(th, IF e \in {"running", "suspended", "revFailed", "ended"} THEN {t} ELSE {})
        /\ Consumer /\ UNCHANGED <<chat, now, threads, rooms, room, since, sess>>

\* The consumer was stopped or its stream ended.
Unregister(t) ==
    /\ th[t].consumer = "stopping"
    /\ unregisterThread(t)
    /\ th' = [th EXCEPT ![t] = [@ EXCEPT !.consumer = "off", !.at = 0, !.mention = 0, !.state = "ended"]]
    /\ Consumer /\ UNCHANGED <<chat, now, h, rooms, saved, since, sess, bounds>>

\* showFinal, endTurn: a turn's answer becomes a message of the thread, and the
\* thread's state is saved unless Slack fails.
Answer(t) ==
    /\ th[t].consumer = "on" /\ sess[th[t].s].state = "running"
    /\ Spend("answers")
    /\ now' = now + 1
    /\ chat' = Append(chat, Message("bot", th[t].s, "answer"))
    /\ h' = Append(h, Idle)
    /\ \/ Saves(th, {x \in {t} : HasStatus(x)})
       \/ UNCHANGED saved
    /\ Consumer /\ UNCHANGED <<th, threads, rooms, room, since, sess>>

\* reconcile, at startup and in a sweep: a live session that is not paused and
\* that nobody follows is followed again, as its saved state remembers it.
followAgain(s) ==
    LET u == sess[s].user
        t == NewThread(u, s, sess[s].state, saved[s])
    IN  /\ sess[s].state \in {"pending", "running"}
        /\ ~\E x \in participants : th[x].s = s
        /\ CanRegister(u)
        /\ registerThread([t EXCEPT !.consumer = "on", !.at = Len(sess[s].log)])
        /\ Remembers(s)
        /\ Consumer /\ UNCHANGED <<chat, now, h, saved, sess, bounds>>

----------------------------------------------------------------------------
(* The harness, and the process.                                           *)

Becomes(s, state, event) ==
    /\ sess' = [sess EXCEPT ![s].state = state, ![s].log = Append(@, event),
                            ![s].revived = @ /\ state = "pending"]
    /\ UNCHANGED <<chat, now, h, seen, app, told>>
HarnessRuns(s) == sess[s].state = "pending" /\ Becomes(s, "running", "running") /\ UNCHANGED bounds
HarnessPauses(s) ==
    sess[s].state = "running" /\ Spend("stops") /\ Becomes(s, "suspended", "suspended")
HarnessReviveFails(s) ==
    /\ sess[s].state = "pending" /\ sess[s].revived /\ Spend("failures")
    /\ \E e \in {"revFailed", "noResume"} : Becomes(s, "suspended", e)
HarnessEnds(s) == Live(s) /\ Spend("stops") /\ Becomes(s, "ended", "ended")

Restart ==
    /\ Spend("restarts")
    /\ th' = <<>> /\ threads' = [u \in Users |-> 0] /\ rooms' = <<>> /\ room' = 0
    /\ h' = [k \in DOMAIN h |-> Idle] /\ seen' = {}
    /\ UNCHANGED <<chat, now, saved, since, sess, told>>

Handler(k) ==
    \/ HandleMention(k) \/ RouteHeld(k) \/ handleThreadedMention(k) \/ hintNoLiveSession(k)
    \/ LookupFails(k) \/ adopt(k) \/ AdoptFails(k) \/ reviveStateless(k) \/ FlipAdopted(k) \/ catchup(k) \/ PromptAccepted(k)
    \/ PromptRefused(k) \/ advanceCursor(k) \/ startOver(k) \/ startJoin(k) \/ Register(k)
    \/ CreateSession(k) \/ CreateFails(k) \/ Settle(k)
Consumes(t) == Follow(t) \/ Unregister(t) \/ Answer(t)

Next ==
    \/ \E u \in Users, kind \in {"mention", "bare", "plain"} : handleMessageEvent(u, kind)
    \/ \E k \in Handlers : Redeliver(k) \/ Edit(k) \/ Handler(k)
    \/ \E t \in Threads : Consumes(t)
    \/ \E s \in Sessions : \/ followAgain(s) \/ HarnessRuns(s) \/ HarnessPauses(s)
                           \/ HarnessReviveFails(s) \/ HarnessEnds(s)
    \/ Restart

Spec == Init /\ [][Next]_vars

----------------------------------------------------------------------------
(* Types.                                                                  *)

States == {"pending", "running", "suspended", "ended"}
Versions == Nat \X Nat
MessageType == [by : Users \cup {"bot"}, sess : Nat, kind : {"mention", "bare", "plain", "answer"},
                ts : Nat, ver : Nat]
HandlerState == [pc : {"route", "catchup", "prompt", "advance", "adopt", "flip", "join", "register",
                       "create", "settle", "over", "done"},
                 t : Nat, s : Nat, at : Nat, solo : BOOLEAN, joined : BOOLEAN, parent : BOOLEAN,
                 carry : SUBSET Versions, from : Nat, read : BOOLEAN, revive : BOOLEAN, others : SUBSET Nat,
                 flipFrom : Nat]
ThreadState == [user : Users, s : Nat, state : States, multi : BOOLEAN, seen : Nat, room : Nat,
                consumer : {"none", "on", "stopping", "off"}, at : Nat, mention : Nat]
RoomState == [flipped : BOOLEAN]
SessionState == [user : Users, state : States, revived : BOOLEAN,
                 log : Seq(States \cup {"revFailed", "noResume"})]
SavedState == [posted : BOOLEAN, multi : BOOLEAN, seen : Nat]
ToldState == [quoted : SUBSET Versions, omitted : SUBSET Versions, turns : SUBSET Nat, from : Nat]

ChatType ==
    /\ now \in Nat /\ now >= 2 /\ chat \in Seq(MessageType)
    /\ \A k \in DOMAIN chat : chat[k].ts <= chat[k].ver /\ chat[k].ver \in 2..now
HandlerType ==
    /\ h \in Seq(HandlerState) /\ Len(h) = Len(chat)
    /\ seen \subseteq DOMAIN chat
    /\ \A k \in Handlers : h[k].t \in 0..Len(th) /\ h[k].others \subseteq Threads /\ h[k].flipFrom <= now
ThreadType ==
    /\ th \in Seq(ThreadState)
    /\ \A t \in Threads : /\ th[t].s \in 0..Len(sess) /\ th[t].room \in DOMAIN rooms
                          /\ th[t].seen <= now
RoomType ==
    /\ rooms \in Seq(RoomState) /\ room \in 0..Len(rooms)
    /\ threads \in [Users -> 0..Len(th)]
SessionType ==
    /\ sess \in Seq(SessionState) /\ told \in Seq(ToldState) /\ Len(told) = Len(sess)
    /\ saved \in Seq(SavedState) /\ Len(saved) = Len(sess)
    /\ since \in Seq(Nat) /\ Len(since) = Len(sess)
    /\ \A s \in Sessions : saved[s].seen <= now
BoundType ==
    /\ bounds \in [DOMAIN Counters -> Nat]
    /\ \A c \in DOMAIN Counters : bounds[c] <= Counters[c]

TypeOK == ChatType /\ HandlerType /\ ThreadType /\ RoomType /\ SessionType /\ BoundType

----------------------------------------------------------------------------
(* Properties.                                                             *)

\* The registry: whoever is registered is in the room, and the room exists as
\* long as somebody is (registerThread, unregisterThread).
Registry ==
    /\ \A u \in Users : threads[u] # 0 => th[threads[u]].user = u /\ th[threads[u]].room = room
    /\ room = 0 <=> participants = {}

\* A handler at work serves somebody's message, and the thread or the paused
\* session it works on is theirs.
OnThread == {"flip", "catchup", "prompt", "advance", "over", "create", "settle"}
Serves(k) ==
    /\ ~At(k, "done") => Human(k)
    /\ h[k].pc \in OnThread => h[k].t # 0
    /\ h[k].t # 0 => th[h[k].t].user = By(k)
    /\ At(k, "adopt") => /\ h[k].s \in Sessions /\ sess[h[k].s].user = By(k)
                         /\ h[k].at <= Len(sess[h[k].s].log)
    /\ h[k].pc \in {"over", "flip", "settle"} => th[h[k].t].s # 0
    /\ At(k, "flip") => h[k].at <= Len(sess[th[h[k].t].s].log)
\* So are the session that a thread shows and the message that woke it.
Belongs(t) ==
    /\ th[t].s = 0 => th[t].consumer = "none" /\ th[t].at = 0
    /\ th[t].s # 0 => /\ sess[th[t].s].user = th[t].user
                      /\ th[t].at <= Len(sess[th[t].s].log)
    /\ th[t].mention # 0 => /\ th[t].mention \in Handlers
                            /\ By(th[t].mention) = th[t].user

\* One handler brings a thread up, and its consumer starts last; until then the
\* thread stays registered, unless its session was ended meanwhile.
BringsUp(k) == h[k].pc \in {"create", "settle", "flip"}
Current(t) == threads[th[t].user] = t \/ (th[t].s # 0 /\ ~Live(th[t].s))
ComesUp(k) ==
    BringsUp(k) => /\ th[h[k].t].consumer = "none" /\ Current(h[k].t)
                   /\ At(k, "create") => th[h[k].t].s = 0
BroughtUpOnce == \A j, k \in Handlers : BringsUp(j) /\ BringsUp(k) /\ h[j].t = h[k].t => j = k
\* Whoever renders a live session is registered for it.
Follows(t) == th[t].consumer = "on" => Current(t)

Handling == \A k \in Handlers : Serves(k) /\ ComesUp(k)
Following == \A t \in Threads : Belongs(t) /\ Follows(t)
RoomInv == TypeOK /\ Registry /\ Handling /\ BroughtUpOnce /\ Following

\* A live session is rendered by one consumer, however its thread was taken up:
\* by the start, by an adoption or by a bot that follows it again
\* (registerThread, holds).  Two would post every answer twice.
FollowedOnce == \A s \in Sessions : Live(s) =>
    Cardinality({t \in Threads : th[t].s = s /\ th[t].consumer = "on"}) <= 1

\* The cursors that the session's next turn in the room may be read from: that of
\* the thread that is registered for it and the saved one.
Cursors(s) == {th[t].seen : t \in {x \in participants : th[x].s = s}}
              \cup {m.seen : m \in {x \in {saved[s]} : x.multi}}
\* The session has been told the last version of a message, or that earlier ones
\* are omitted, or the message itself was one of its turns.
Knows(s, k) ==
    \/ <<k, chat[k].ver>> \in told[s].quoted \cup told[s].omitted
    \/ k \in told[s].turns /\ chat[k].ver = chat[k].ts
    \/ chat[k].sess = s
\* A cursor of the session, saved or in memory, has passed the message.
Passed(s, k) == since[s] # 0 /\ chat[k].ver >= since[s] /\ \E c \in Cursors(s) : chat[k].ver < c
\* It is in reach of every read so far: one of the last in the thread, and after
\* the time from which the session was caught up when the whole thread could not
\* be read.
InReach(s, k) == k \in ThreadReplies(0) /\ chat[k].ts > told[s].from

\* A session in a room misses nothing: once its cursor has passed a message in
\* reach, the session knows it, whoever wrote, edited or asked it (catchup,
\* advanceCursor, flipRoom, startJoin).
NothingSkipped ==
    \A s \in Sessions, k \in DOMAIN chat : Passed(s, k) /\ InReach(s, k) => Knows(s, k)
=============================================================================
