---------------------------- MODULE SlackRender ----------------------------
(***************************************************************************)
(* How the Slack bot shows one session in its thread: the consumer that    *)
(* follows the session's events and renders them, the answer, prompt and   *)
(* status messages it keeps in Slack, the state it saves as metadata of    *)
(* the status message, the queue of coalesced updates under it, and what a *)
(* bot that restarts does to catch up (ReconcileOnStartup, the sweeper, a  *)
(* continued thread).                                                      *)
(*                                                                         *)
(* Sources: slackbot/internal/app (render.go, meta.go, status.go, sweep.go,*)
(* start.go) and slackbot/internal/slackclient/limited.go.                 *)
(*                                                                         *)
(* What is abstracted: a text is the number of agent parts in it; an       *)
(* answer of n parts is split into pieces of PieceParts parts (mdsplit); a *)
(* message's timestamp is its index.  Each call to Slack is one step that  *)
(* succeeds or fails; the process can die between any two of them.  The    *)
(* harness (its event log) is the environment.                             *)
(***************************************************************************)
EXTENDS Naturals, Sequences, FiniteSets

CONSTANTS MaxTurns,     \* bound on the turns of the session
          MaxParts,     \* bound on the parts of an answer
          PieceParts,   \* parts that fit in one Slack message
          AskTurns,     \* the turns that ask for a permission
          MaxFaults,    \* bound on the bot's crashes and Slack's failures
          MaxSuspends,  \* bound on the pauses of the session
          MaxLag        \* bound on the events a consumer has yet to take

ASSUME RenderAssumption ==
    /\ MaxTurns \in Nat \ {0} /\ MaxParts \in Nat \ {0} /\ PieceParts \in Nat \ {0}
    /\ AskTurns \subseteq 1..MaxTurns
    /\ MaxFaults \in Nat /\ MaxSuspends \in Nat /\ MaxLag \in Nat

VARIABLES log,       \* the session's events, as the harness API lists them
          prompts,   \* prompts accepted by the harness whose turn has not begun
          view,      \* the session's state as the harness API answers it
          begun,     \* the turns that have begun
          current,   \* the turn that is open, 0 for none
          up,        \* whether the bot process runs
          c,         \* the thread's consumer: where it is and what it is doing
          r,         \* the thread's renderer
          meta,      \* the thread's sessionMeta in memory
          statusTS,  \* the status message the thread knows, 0 for none
          continuing,\* a mention handler has yet to restate the status
          retry,     \* the retryPrompt goroutine of each request
          pending,   \* Limited: the coalesced update parked for each message
          inflight,  \* Limited: the update the worker took and has yet to send
          posts,     \* Slack: answer and permission prompt messages
          statuses,  \* Slack: the status messages that are up, oldest first
          quiet,     \* complete sweeps since the session last changed
          faults,    \* how many faults have happened
          excused    \* history: the faults that touched each turn's messages (0: the status)

harness == <<log, prompts, view, begun, current>>
slack   == <<posts, statuses>>
limited == <<pending, inflight>>
thread  == <<c, r, meta, statusTS, continuing, retry>>
vars == <<log, prompts, view, begun, current, up, c, r, meta, statusTS, continuing, retry, pending,
          inflight, posts, statuses, quiet, faults, excused>>

Turns == 1..MaxTurns
Smaller(a, b) == IF a < b THEN a ELSE b
Larger(a, b)  == IF a > b THEN a ELSE b

\* mdsplit.Split: how many messages a text of n parts takes, and the parts of
\* the i-th one.
PieceCount(n) == (n + PieceParts - 1) \div PieceParts
PieceText(n, i) == Smaller(PieceParts, n - (i - 1) * PieceParts)
LaterPieces == 2..PieceCount(MaxParts)

----------------------------------------------------------------------------
(* The session's events.                                                   *)

Event(kind, turn, final) == [kind |-> kind, turn |-> turn, final |-> final]
Kinds == {"running", "part", "ask", "answered", "turnEnd", "suspended", "ended"}

Seqs(kind, t) == {k \in DOMAIN log : log[k].kind = kind /\ log[k].turn = t}
Has(kind, t) == Seqs(kind, t) # {}
PartsOf(t) == Cardinality(Seqs("part", t))
EndedTurns == (1..begun) \ {current}
EndSeq(t) == CHOOSE k \in Seqs("turnEnd", t) : TRUE
Finalled(t) == \E k \in Seqs("part", t) : log[k].final

\* turnBoundary: a turn's end and the session's end are boundaries; an event
\* of a turn is inside it; any other event is one unless a turn is open.
Closes(e) == e.kind \in {"turnEnd", "ended"}
InTurn(k) ==
    \E j \in 1..k : /\ log[j].turn # 0 /\ ~Closes(log[j])
                    /\ \A i \in j+1..k : ~Closes(log[i])
\* Mutant: every event is taken for a boundary.
AnyBoundary(k) == TRUE
turnBoundary(k) == Closes(log[k]) \/ (log[k].turn = 0 /\ ~InTurn(k - 1))

\* turnStartBefore: the last boundary at or before a saved cursor, from where
\* the turn it stops inside is rendered again.
turnStartBefore(cursor) ==
    LET at == {k \in 1..cursor : turnBoundary(k)}
    IN  IF at = {} THEN 0 ELSE CHOOSE k \in at : \A j \in at : j <= k

----------------------------------------------------------------------------
(* The thread in memory.                                                   *)

NoMeta == [watching |-> FALSE, lastSeq |-> 0, answerTurn |-> 0, answerTS |-> 0,
           pieces |-> [i \in LaterPieces |-> 0], prompts |-> [t \in Turns |-> 0]]

newRenderer == [turn |-> 0, cur |-> 0, pieces |-> [i \in LaterPieces |-> 0],
                text |-> 0, finished |-> FALSE, permTS |-> [t \in Turns |-> 0]]

NoConsumer == [pc |-> "none", at |-> 0, missed |-> FALSE, keep |-> FALSE,
               through |-> 0, mark |-> 0, replay |-> 0, piece |-> 0,
               delivered |-> TRUE, state |-> "pending", stopped |-> FALSE]

\* Mutant: the messages of the open answer are not restored.
ForgetsAnswer(m) == [newRenderer EXCEPT !.permTS = m.prompts]
\* Mutant: the open permission prompts are not restored.
ForgetsPrompts(m) ==
    [newRenderer EXCEPT
        !.turn = IF m.answerTS # 0 THEN m.answerTurn ELSE 0,
        !.cur = m.answerTS,
        !.pieces = IF m.answerTS # 0 THEN m.pieces ELSE @]
\* threadFromMeta: a thread as the saved state remembers it.
threadFromMeta(m) ==
    [newRenderer EXCEPT
        !.turn = IF m.answerTS # 0 THEN m.answerTurn ELSE 0,
        !.cur = m.answerTS,
        !.pieces = IF m.answerTS # 0 THEN m.pieces ELSE @,
        !.permTS = m.prompts]

beginTurn(rr, t) ==
    IF rr.turn = t THEN rr
    ELSE [rr EXCEPT !.turn = t, !.cur = 0, !.pieces = newRenderer.pieces,
                    !.text = 0, !.finished = FALSE]

\* loadMeta: the newest status message of the thread.
NoStatus == statuses = <<>>
loadMeta == IF NoStatus THEN NoMeta ELSE statuses[Len(statuses)].meta

Held == c.pc # "none"
Now == log[c.at]          \* the event being rendered

TypeOK ==
    /\ log \in Seq([kind : Kinds, turn : 0..MaxTurns, final : BOOLEAN])
    /\ prompts \in 0..MaxTurns /\ begun \in 0..MaxTurns /\ current \in {0, begun}
    /\ view \in {"running", "suspended", "ended"}
    /\ up \in BOOLEAN /\ continuing \in BOOLEAN
    /\ c.pc \in {"none", "start", "idle", "post", "remember", "final", "piece",
                 "endSave", "askPost", "askSave", "close", "closeSave", "edit",
                 "restate", "watch", "wrap", "exit"}
    /\ c.at \in 0..Len(log) /\ c.through \in 0..Len(log) /\ c.mark \in 0..Len(log)
    /\ statusTS \in 0..Len(statuses)
    /\ retry \in [Turns -> {"no", "waiting", "posting"}]
    /\ \A p \in DOMAIN posts : posts[p].turn \in Turns
    /\ DOMAIN pending = DOMAIN posts
    /\ inflight.ts \in 0..Len(posts)
    /\ quiet \in 0..2 /\ faults \in 0..MaxFaults

Init ==
    /\ log = <<Event("running", 0, FALSE)>>
    /\ prompts = 1 /\ view = "running" /\ begun = 0 /\ current = 0
    /\ up = TRUE
    /\ c = [NoConsumer EXCEPT !.pc = "start"]
    /\ r = newRenderer
    /\ meta = [NoMeta EXCEPT !.watching = TRUE]
    /\ statusTS = 0 /\ continuing = FALSE
    /\ retry = [t \in Turns |-> "no"]
    /\ pending = <<>> /\ inflight = [ts |-> 0, parts |-> 0]
    /\ posts = <<>> /\ statuses = <<>>
    /\ quiet = 0 /\ faults = 0
    /\ excused = [t \in 0..MaxTurns |-> {}]

----------------------------------------------------------------------------
(* Calls to Slack.                                                         *)

Excuse(t, why) == excused' = [excused EXCEPT ![t] = @ \cup {why}]
Faulty == faults < MaxFaults /\ faults' = faults + 1

\* saveMeta: memory always takes the edit, Slack takes it when the thread has
\* a status message and the update goes through.
saveMeta(m) ==
    /\ meta' = m
    /\ \/ /\ statusTS = 0
          /\ UNCHANGED <<statuses, faults>>
       \/ /\ statusTS # 0
          /\ statuses' = [statuses EXCEPT ![statusTS].meta = m]
          /\ UNCHANGED faults
       \/ /\ statusTS # 0
          /\ Faulty
          /\ UNCHANGED statuses
Saved(m) == statusTS # 0 /\ statuses' = [statuses EXCEPT ![statusTS].meta = m]

Status(m, text) == [meta |-> m, text |-> text]
Without(k) == SubSeq(statuses, 1, k - 1) \o SubSeq(statuses, k + 1, Len(statuses))

\* editStatus: edits the status message in place, or posts one when there is
\* none (a failed post leaves none).
editStatus(m, text) ==
    \/ /\ statusTS = 0
       /\ statuses' = Append(statuses, Status(m, text))
       /\ statusTS' = Len(statuses) + 1
       /\ UNCHANGED faults
    \/ /\ statusTS # 0
       /\ statuses' = [statuses EXCEPT ![statusTS] = Status(m, text)]
       /\ UNCHANGED <<statusTS, faults>>
    \/ /\ Faulty
       /\ UNCHANGED <<statuses, statusTS>>

\* restateStatus in a solo thread: posts the status at the end of the thread,
\* then takes the superseded one down; a failed post edits in place.
restateStatus(m, text) ==
    LET fresh(ss) == Append(ss, Status(m, text)) IN
    \/ /\ statuses' = fresh(IF statusTS = 0 THEN statuses ELSE Without(statusTS))
       /\ statusTS' = Len(statuses')
       /\ UNCHANGED faults
    \/ /\ Faulty                       \* the delete fails, or the first post
       /\ statuses' = fresh(statuses)
       /\ statusTS' = Len(statuses) + 1
    \/ /\ statusTS # 0                    \* the post fails
       /\ Faulty
       /\ statuses' = [statuses EXCEPT ![statusTS] = Status(m, text)]
       /\ UNCHANGED statusTS
    \/ /\ Faulty                          \* and so does the edit
       /\ UNCHANGED <<statuses, statusTS>>

Answer(t, i, n, live) ==
    [kind |-> "answer", turn |-> t, piece |-> i, parts |-> n, open |-> live]
Prompt(t) == [kind |-> "prompt", turn |-> t, piece |-> 0, parts |-> 0, open |-> TRUE]
Post(p) == posts' = Append(posts, p) /\ pending' = Append(pending, 0)

\* UpdateMessageDebounced: one update is parked per message, the newest.
UpdateMessageDebounced(ts, n) == pending' = [pending EXCEPT ![ts] = n]
\* cancelPending: a final update drops the parked one, if the worker has not
\* taken it yet.
cancelPending(ts) == pending' = [pending EXCEPT ![ts] = 0]

----------------------------------------------------------------------------
(* The harness and the people in the thread.                               *)

Bot == <<thread, limited, slack, faults, excused, up>>
CanEmit == Held => Len(log) - c.at <= MaxLag
Emit(e) ==
    /\ log' = Append(log, e)
    /\ quiet' = 0
    /\ view' = IF e.kind \in {"running", "suspended", "ended"} THEN e.kind ELSE view
    /\ UNCHANGED Bot
InState(s) == CanEmit /\ view = s

\* The first answer has up to MaxParts parts, a later one a single part.
PartsBound(t) == IF t = 1 THEN MaxParts ELSE 1

\* A turn begins when the one before it ended; the agent sends its answer in
\* parts.
HarnessPart(final) ==
    LET t == IF current = 0 THEN begun + 1 ELSE current
    IN  /\ InState("running")
        /\ current # 0 \/ prompts > 0
        /\ PartsOf(t) < PartsBound(t) /\ ~Finalled(t)
        /\ current' = t /\ begun' = t
        /\ prompts' = IF current = 0 THEN prompts - 1 ELSE prompts
        /\ Emit(Event("part", t, final))

\* The agent asks for a permission in its turn, and the request is resolved.
HarnessAsk ==
    /\ InState("running") /\ current \in AskTurns /\ ~Has("ask", current)
    /\ Emit(Event("ask", current, FALSE))
    /\ UNCHANGED <<prompts, begun, current>>
Resolves ==
    /\ InState("running") /\ Has("ask", current) /\ ~Has("answered", current)
    /\ Emit(Event("answered", current, FALSE))
    /\ UNCHANGED <<prompts, begun, current>>
\* Its deadline passes, or another client answers it.
HarnessAnswered == Resolves
\* handlePermissionClick: a click of the owner on the prompt is relayed when
\* the bot follows the thread; one on a request that is closed, or that the
\* bot does not follow, only gets a hint.
handlePermissionClick ==
    /\ up /\ Held
    /\ \E p \in DOMAIN posts : posts[p] = Prompt(current)
    /\ Resolves

HarnessTurnEnd ==
    /\ InState("running") /\ current # 0
    /\ Has("ask", current) => Has("answered", current)
    /\ Emit(Event("turnEnd", current, FALSE))
    /\ current' = 0
    /\ UNCHANGED <<prompts, begun>>

\* An idle session pauses; a session may end at any time.
HarnessSuspend ==
    /\ InState("running") /\ current = 0 /\ prompts = 0
    /\ Cardinality(Seqs("suspended", 0)) < MaxSuspends
    /\ Emit(Event("suspended", 0, FALSE))
    /\ UNCHANGED <<prompts, begun, current>>
HarnessEnd ==
    /\ CanEmit /\ view # "ended"
    /\ Emit(Event("ended", 0, FALSE))
    /\ UNCHANGED <<prompts, begun, current>>

\* Prompt: a running session queues the turn, a paused one is revived by it.
PromptAccepted ==
    /\ prompts + begun < MaxTurns
    /\ prompts' = prompts + 1
    /\ UNCHANGED <<begun, current>>
    /\ \/ /\ view = "running"
          /\ UNCHANGED <<log, view, quiet>>
       \/ /\ InState("suspended")
          /\ log' = Append(log, Event("running", 0, FALSE))
          /\ view' = "running" /\ quiet' = 0

\* sendTurn: the owner's message in a thread the bot takes for running.
sendTurn ==
    /\ up /\ Held /\ c.state = "running"
    /\ PromptAccepted
    /\ UNCHANGED Bot

\* reviveThread: the owner's message in a thread the bot takes for paused.
reviveThread ==
    /\ up /\ Held /\ c.state = "suspended" /\ ~c.missed /\ ~continuing
    /\ PromptAccepted
    /\ continuing' = TRUE
    /\ UNCHANGED <<c, r, meta, statusTS, retry, limited, slack, faults, excused, up>>

\* The mention handler restates the status after its prompt was taken.
RestateContinuing ==
    /\ up /\ continuing
    /\ continuing' = FALSE
    /\ restateStatus(meta, "continuing")
    /\ IF c.state = "ended" THEN Excuse(0, "overwritten") ELSE UNCHANGED excused
    /\ UNCHANGED <<harness, up, c, r, meta, retry, limited, posts, quiet>>

\* advanceCursor and flipRoom save the thread's state from a handler, whatever
\* the consumer is in the middle of.
HandlerSaves ==
    /\ up /\ Held /\ statusTS # 0
    /\ statuses[statusTS].meta # meta
    /\ statuses' = [statuses EXCEPT ![statusTS].meta = meta]
    /\ UNCHANGED <<harness, up, thread, limited, posts, quiet, faults, excused>>

----------------------------------------------------------------------------
(* Taking up a thread.                                                     *)

\* startSession: the session is created, its status posted, its consumer started.
startSession ==
    /\ up /\ c.pc = "start"
    /\ editStatus(meta, "live")
    /\ c' = [c EXCEPT !.pc = "idle"]
    /\ UNCHANGED <<harness, up, r, meta, continuing, retry, limited, posts, quiet, excused>>

\* Mutant: a catch-up does not start from the boundary it renders from.
MarksNothing(m, after, missed, keep, state) ==
    /\ up /\ ~Held
    /\ c' = [NoConsumer EXCEPT !.pc = "idle", !.at = after, !.missed = missed,
                !.keep = keep, !.state = state,
                !.through = IF missed THEN Len(log) ELSE 0,
                !.replay = IF missed THEN 0 ELSE Len(log)]
    /\ r' = threadFromMeta(m)
    /\ meta' = IF missed THEN m ELSE [m EXCEPT !.watching = TRUE]
    /\ statusTS' = Len(statuses)
    /\ statuses' = IF NoStatus THEN statuses
                   ELSE [statuses EXCEPT ![Len(statuses)].meta = meta']
    /\ UNCHANGED <<up, continuing, retry, limited, posts, faults, excused>>
\* registerThread and startConsumer for a thread made from the saved state m.
Register(m, after, missed, keep, state) ==
    /\ up /\ ~Held
    /\ c' = [NoConsumer EXCEPT !.pc = "idle", !.at = after, !.missed = missed,
                !.keep = keep, !.state = state,
                !.mark = IF missed THEN after ELSE 0,
                !.through = IF missed THEN Len(log) ELSE 0,
                !.replay = IF missed THEN 0 ELSE Len(log)]
    /\ r' = threadFromMeta(m)
    /\ meta' = IF missed THEN m ELSE [m EXCEPT !.watching = TRUE]
    /\ statusTS' = Len(statuses)
    /\ statuses' = IF NoStatus THEN statuses
                   ELSE [statuses EXCEPT ![Len(statuses)].meta = meta']
    /\ UNCHANGED <<up, continuing, retry, limited, posts, faults, excused>>

\* adopt: the owner's message in a paused thread nobody follows takes it up
\* (reviveDetached), from the turn the saved cursor stops in if it was watched;
\* reviveThread then sends the prompt.
adopt ==
    /\ view = "suspended" /\ ~NoStatus
    /\ prompts + begun < MaxTurns
    /\ LET m == loadMeta
       IN  Register(m, IF m.watching THEN turnStartBefore(m.lastSeq) ELSE Len(log),
                    FALSE, FALSE, "suspended")
    /\ UNCHANGED <<harness, quiet>>

\* reconcile, at startup and in each sweep of the sessions that changed since
\* the last complete one: follow a live session again, render what was missed
\* of a session that ended or paused, leave the others alone.  (A sweep that
\* finds the thread held does nothing; its consumer is taken to be quicker than
\* two sweeps.)
Sweeps == up /\ quiet < 2 /\ quiet' = quiet + 1 /\ UNCHANGED harness
followAgain ==
    /\ Sweeps
    /\ view = "running"
    /\ Register(loadMeta, turnStartBefore(loadMeta.lastSeq), FALSE, FALSE, "running")
\* Mutant: only a paused session is caught up.
MissesEnded ==
    /\ Sweeps
    /\ ~NoStatus /\ view = "suspended" /\ ~loadMeta.watching
    /\ Register(loadMeta, turnStartBefore(loadMeta.lastSeq), TRUE, TRUE, "suspended")
renderMissed ==
    /\ Sweeps
    /\ ~NoStatus
    /\ \/ view = "suspended" /\ ~loadMeta.watching
       \/ view = "ended" /\ loadMeta.watching
    /\ Register(loadMeta, turnStartBefore(loadMeta.lastSeq), TRUE,
                view = "suspended", "suspended")
LeaveAlone ==
    /\ Sweeps
    /\ ~Held
    /\ \/ view = "suspended" /\ (NoStatus \/ loadMeta.watching)
       \/ view = "ended" /\ (NoStatus \/ ~loadMeta.watching)
    /\ UNCHANGED Bot

----------------------------------------------------------------------------
(* The consumer: consume and renderMissed take the next event, renderEvent  *)
(* shows it.                                                                *)

Consumes == up /\ UNCHANGED <<harness, up, continuing, quiet>>

\* The cursor moves in memory at a boundary, before the event is rendered;
\* a catch-up only remembers the boundary.
Take(kind) ==
    /\ Consumes
    /\ c.pc = "idle" /\ ~c.stopped /\ c.at < Len(log)
    /\ log[c.at + 1].kind = kind
CursorAt(k) ==
    IF turnBoundary(k) /\ ~c.missed THEN [meta EXCEPT !.lastSeq = Larger(@, k)] ELSE meta
Taken(k) ==
    [c EXCEPT !.at = k, !.mark = IF c.missed /\ turnBoundary(k) THEN k ELSE @]

RenderRunning ==
    /\ Take("running")
    /\ c' = [Taken(c.at + 1) EXCEPT !.pc = "edit", !.state = "running"]
    /\ meta' = CursorAt(c.at + 1)
    /\ UNCHANGED <<r, statusTS, retry, limited, slack, faults, excused>>
ReadyStatus ==
    /\ Consumes /\ c.pc = "edit"
    /\ editStatus(meta, "live")
    /\ c' = [c EXCEPT !.pc = "idle"]
    /\ UNCHANGED <<r, meta, retry, limited, posts, excused>>

\* An agent message: the final part shows the whole answer, another part is
\* posted first and coalesced after.
appendPart(rr, final) == [rr EXCEPT !.text = @ + 1, !.finished = @ \/ final]
RenderPart ==
    LET k == c.at + 1
        e == log[k]
        rr == appendPart(beginTurn(r, e.turn), e.final)
    IN  /\ Take("part")
        /\ r' = rr
        /\ meta' = CursorAt(k)
        /\ \/ /\ e.final
              /\ c' = [Taken(k) EXCEPT !.pc = "final", !.piece = 1, !.delivered = TRUE]
              /\ UNCHANGED pending
           \/ /\ ~e.final /\ rr.cur # 0
              /\ UpdateMessageDebounced(rr.cur, PieceText(rr.text, 1))
              /\ c' = Taken(k)
           \/ /\ ~e.final /\ rr.cur = 0
              /\ c' = [Taken(k) EXCEPT !.pc = "post"]
              /\ UNCHANGED pending
        /\ UNCHANGED <<statusTS, retry, inflight, slack, faults, excused>>

\* showIntermediary posts the turn's first message, then records it.
showIntermediary ==
    /\ Consumes /\ c.pc = "post"
    /\ \/ /\ Post(Answer(r.turn, 1, PieceText(r.text, 1), TRUE))
          /\ r' = [r EXCEPT !.cur = Len(posts) + 1]
          /\ c' = [c EXCEPT !.pc = "remember"]
          /\ UNCHANGED faults
       \/ /\ Faulty
          /\ c' = [c EXCEPT !.pc = "idle"]
          /\ UNCHANGED <<r, posts, pending>>
    /\ UNCHANGED <<meta, statusTS, retry, inflight, statuses, excused>>
rememberAnswer ==
    LET m == [meta EXCEPT !.pieces = IF meta.answerTurn = r.turn THEN @ ELSE newRenderer.pieces,
                          !.answerTurn = r.turn, !.answerTS = r.cur]
    IN  /\ Consumes /\ c.pc = "remember"
        /\ saveMeta(m)
        /\ IF Saved(m) THEN UNCHANGED excused ELSE Excuse(r.turn, "unrecorded")
        /\ c' = IF c.piece = 0 THEN [c EXCEPT !.pc = "idle"]
                ELSE [c EXCEPT !.pc = "final", !.piece = 2]
        /\ UNCHANGED <<r, statusTS, retry, limited, posts>>

\* showFinal: piece after piece is updated where it is known, posted where it
\* is not; a failed one does not stop the others.
Known(i) == IF i = 1 THEN r.cur ELSE r.pieces[i]
Final(i) == Answer(r.turn, i, PieceText(r.text, i), FALSE)
InFinal == Consumes /\ c.pc = "final" /\ c.piece <= PieceCount(r.text)
Undelivered == IF Now.kind = "turnEnd" THEN Excuse(Now.turn, "failed") ELSE UNCHANGED excused
FinalUpdate ==
    /\ InFinal /\ Known(c.piece) # 0
    /\ cancelPending(Known(c.piece))
    /\ \/ /\ posts' = [posts EXCEPT ![Known(c.piece)] = Final(c.piece)]
          /\ c' = [c EXCEPT !.piece = @ + 1]
          /\ UNCHANGED <<faults, excused>>
       \/ /\ Faulty /\ Undelivered
          /\ c' = [c EXCEPT !.piece = @ + 1, !.delivered = FALSE]
          /\ UNCHANGED posts
    /\ UNCHANGED <<r, meta, statusTS, retry, inflight, statuses>>
FinalPost ==
    /\ InFinal /\ Known(c.piece) = 0
    /\ \/ /\ Post(Final(c.piece))
          /\ r' = IF c.piece = 1 THEN [r EXCEPT !.cur = Len(posts) + 1]
                  ELSE [r EXCEPT !.pieces[c.piece] = Len(posts) + 1]
          /\ c' = [c EXCEPT !.pc = IF c.piece = 1 THEN "remember" ELSE "piece"]
          /\ UNCHANGED <<faults, excused>>
       \/ /\ Faulty /\ Undelivered
          /\ c' = [c EXCEPT !.piece = @ + 1, !.delivered = FALSE]
          /\ UNCHANGED <<r, posts, pending>>
    /\ UNCHANGED <<meta, statusTS, retry, inflight, statuses>>
RememberPiece ==
    LET m == [meta EXCEPT !.pieces[c.piece] = r.pieces[c.piece]]
    IN  /\ Consumes /\ c.pc = "piece"
        /\ saveMeta(m)
        /\ IF Saved(m) /\ m.answerTurn = r.turn THEN UNCHANGED excused ELSE Excuse(r.turn, "unrecorded")
        /\ c' = [c EXCEPT !.pc = "final", !.piece = @ + 1]
        /\ UNCHANGED <<r, statusTS, retry, limited, posts>>
\* The answer is out: a final part that did not go through is retried by the
\* turn's end (unfinish).
FinalDone ==
    /\ Consumes /\ c.pc = "final" /\ c.piece > PieceCount(r.text)
    /\ \/ /\ Now.kind = "part"
          /\ r' = [r EXCEPT !.finished = c.delivered]
          /\ c' = [c EXCEPT !.pc = "idle", !.piece = 0, !.delivered = TRUE]
       \/ /\ Now.kind = "turnEnd"
          /\ c' = [c EXCEPT !.pc = "endSave", !.piece = 0]
          /\ UNCHANGED r
    /\ UNCHANGED <<meta, statusTS, retry, limited, slack, faults, excused>>

\* endTurn: a turn whose answer is not finished is finished now; once it is
\* delivered the saved state forgets the turn's messages.
RenderTurnEnd ==
    LET k == c.at + 1
        finish == r.turn = log[k].turn /\ ~r.finished /\ r.text # 0
    IN  /\ Take("turnEnd")
        /\ meta' = CursorAt(k)
        /\ r' = [r EXCEPT !.finished = @ \/ finish]
        /\ c' = [Taken(k) EXCEPT !.pc = IF finish THEN "final" ELSE "endSave",
                                 !.piece = IF finish THEN 1 ELSE 0, !.delivered = TRUE]
        /\ UNCHANGED <<statusTS, retry, limited, slack, faults, excused>>
endTurn ==
    /\ Consumes /\ c.pc = "endSave"
    /\ IF c.delivered
       THEN saveMeta([meta EXCEPT !.answerTurn = 0, !.answerTS = 0, !.pieces = newRenderer.pieces])
       ELSE UNCHANGED <<meta, statuses, faults>>
    /\ c' = [c EXCEPT !.pc = "idle", !.delivered = TRUE]
    /\ UNCHANGED <<r, statusTS, retry, limited, posts, excused>>

----------------------------------------------------------------------------
(* Permission prompts.                                                     *)

askPermission ==
    /\ Take("ask")
    /\ c' = [Taken(c.at + 1) EXCEPT
                !.pc = IF r.permTS[log[c.at + 1].turn] = 0 THEN "askPost" ELSE "idle"]
    /\ meta' = CursorAt(c.at + 1)
    /\ UNCHANGED <<r, statusTS, retry, limited, slack, faults, excused>>
PostPrompt(t) ==
    /\ Post(Prompt(t))
    /\ r' = [r EXCEPT !.permTS[t] = Len(posts) + 1]
postPrompt ==
    /\ Consumes /\ c.pc = "askPost"
    /\ \/ /\ PostPrompt(Now.turn)
          /\ c' = [c EXCEPT !.pc = "askSave"]
          /\ UNCHANGED <<retry, faults>>
       \/ /\ Faulty
          /\ retry' = [retry EXCEPT ![Now.turn] = "waiting"]
          /\ c' = [c EXCEPT !.pc = "idle"]
          /\ UNCHANGED <<r, posts, pending>>
    /\ UNCHANGED <<meta, statusTS, inflight, statuses, excused>>
WithPrompt(t, ts) == [meta EXCEPT !.prompts[t] = ts]
RememberPrompt ==
    /\ Consumes /\ c.pc = "askSave"
    /\ saveMeta(WithPrompt(Now.turn, r.permTS[Now.turn]))
    /\ IF Saved(WithPrompt(Now.turn, r.permTS[Now.turn])) THEN UNCHANGED excused
       ELSE Excuse(Now.turn, "promptUnrecorded")
    /\ c' = [c EXCEPT !.pc = "idle"]
    /\ UNCHANGED <<r, statusTS, retry, limited, posts>>

\* retryPrompt: a goroutine reads whether the request still waits, then posts.
RetryReads(t) ==
    /\ up /\ retry[t] = "waiting"
    /\ retry' = [retry EXCEPT ![t] = "posting"]
    /\ UNCHANGED <<harness, up, c, r, meta, statusTS, continuing, limited, slack, quiet, faults, excused>>
retryPrompt(t) ==
    /\ up /\ retry[t] = "posting"
    /\ PostPrompt(t)
    /\ saveMeta(WithPrompt(t, Len(posts) + 1))
    /\ retry' = [retry EXCEPT ![t] = "no"]
    /\ IF c.at > 0 /\ Has("answered", t) /\ c.at >= (CHOOSE k \in DOMAIN log :
                                 log[k].kind = "answered" /\ log[k].turn = t)
       THEN Excuse(t, "promptRaced")
       ELSE IF Saved(WithPrompt(t, Len(posts) + 1)) THEN UNCHANGED excused
       ELSE Excuse(t, "promptUnrecorded")
    /\ UNCHANGED <<harness, up, c, statusTS, continuing, inflight, quiet>>

\* closePermission: the waiting prompt is dropped, the shown one is closed; one
\* that cannot be closed is kept so that a replay closes it.
RenderAnswered ==
    LET t == log[c.at + 1].turn
    IN  /\ Take("answered")
        /\ retry' = [retry EXCEPT ![t] = IF @ = "waiting" THEN "no" ELSE @]
        /\ c' = [Taken(c.at + 1) EXCEPT !.pc = IF r.permTS[t] = 0 THEN "idle" ELSE "close"]
        /\ meta' = CursorAt(c.at + 1)
        /\ UNCHANGED <<r, statusTS, limited, slack, faults, excused>>
closePermission ==
    /\ Consumes /\ c.pc = "close"
    /\ \/ /\ posts' = [posts EXCEPT ![r.permTS[Now.turn]].open = FALSE]
          /\ r' = [r EXCEPT !.permTS[Now.turn] = 0]
          /\ c' = [c EXCEPT !.pc = "closeSave"]
          /\ UNCHANGED <<faults, excused>>
       \/ /\ Faulty
          /\ Excuse(Now.turn, "promptNotClosed")
          /\ c' = [c EXCEPT !.pc = "idle"]
          /\ UNCHANGED <<r, posts>>
    /\ UNCHANGED <<meta, statusTS, retry, limited, statuses>>
ForgetPrompt ==
    /\ Consumes /\ c.pc = "closeSave"
    /\ saveMeta(WithPrompt(Now.turn, 0))
    /\ c' = [c EXCEPT !.pc = "idle"]
    /\ UNCHANGED <<r, statusTS, retry, limited, posts, excused>>

----------------------------------------------------------------------------
(* Pauses and endings.                                                     *)

\* A pause the thread already showed before it was taken up is not shown again.
pastPause(k) == k <= c.replay
RenderSuspended ==
    LET k == c.at + 1
    IN  /\ Take("suspended")
        /\ c' = [Taken(k) EXCEPT !.state = "suspended",
                                 !.pc = IF pastPause(k) THEN "idle" ELSE "restate"]
        /\ meta' = CursorAt(k)
        /\ UNCHANGED <<r, statusTS, retry, limited, slack, faults, excused>>
renderEnded ==
    /\ Take("ended")
    /\ c' = [Taken(c.at + 1) EXCEPT !.state = "ended", !.pc = "restate"]
    /\ meta' = [CursorAt(c.at + 1) EXCEPT !.watching = FALSE]
    /\ UNCHANGED <<r, statusTS, retry, limited, slack, faults, excused>>
RestateOutcome ==
    /\ Consumes /\ c.pc = "restate"
    /\ restateStatus(meta, IF Now.kind = "ended" THEN "ended" ELSE "paused")
    /\ IF statuses' = statuses THEN Excuse(0, "failed") ELSE UNCHANGED excused
    /\ c' = [c EXCEPT !.pc = IF Now.kind = "ended" THEN "idle" ELSE "watch"]
    /\ UNCHANGED <<r, meta, retry, limited, posts>>
\* watchSuspended: the state says where the pause is and the stream is closed;
\* a catch-up has no stream to close.
watchSuspended ==
    /\ Consumes /\ c.pc = "watch"
    /\ saveMeta([meta EXCEPT !.watching = TRUE, !.lastSeq = c.at])
    /\ c' = [c EXCEPT !.pc = "idle", !.stopped = ~c.missed]
    /\ UNCHANGED <<r, statusTS, retry, limited, posts, excused>>

\* The thread is unregistered: the consumer was stopped or the stream ended.
\* (The handler of a prompt is taken to restate the status before that.)
Unregister ==
    /\ c' = NoConsumer /\ r' = newRenderer /\ meta' = NoMeta /\ statusTS' = 0
    /\ retry' = [t \in Turns |-> "no"]
unregisterThread ==
    /\ Consumes /\ c.pc = "idle" /\ ~c.missed /\ ~continuing
    /\ c.stopped \/ (c.at = Len(log) /\ view = "ended")
    /\ Unregister
    /\ UNCHANGED <<limited, slack, faults, excused>>

\* renderMissed ends: the cursor is saved, at the last event read or, when the
\* events could not be read, at the last boundary, for the next sweep.
MissedRendered ==
    /\ Consumes /\ c.pc = "idle" /\ c.missed /\ c.at >= c.through
    /\ saveMeta([meta EXCEPT !.watching = c.keep, !.lastSeq = c.at])
    /\ c' = [c EXCEPT !.pc = "exit"]
    /\ UNCHANGED <<r, statusTS, retry, limited, posts, excused>>
MissedReadFails ==
    /\ up /\ c.pc = "idle" /\ c.missed /\ c.at < c.through
    /\ Faulty
    /\ meta' = [meta EXCEPT !.lastSeq = c.mark]
    /\ statuses' = [statuses EXCEPT ![statusTS].meta = meta']
    /\ c' = [c EXCEPT !.pc = "exit"]
    /\ quiet' = 0
    /\ UNCHANGED <<harness, up, r, statusTS, continuing, retry, limited, posts, excused>>
MissedUnregisters ==
    /\ Consumes /\ c.pc = "exit"
    /\ Unregister
    /\ UNCHANGED <<limited, slack, faults, excused>>

----------------------------------------------------------------------------
(* Limited: coalesced updates.                                             *)

Clean(ts) == posts[ts].kind = "answer" /\ ~posts[ts].open
\* nextSendable takes the parked update out of the queue.
nextSendable(ts) ==
    /\ up /\ inflight.ts = 0 /\ pending[ts] # 0
    /\ inflight' = [ts |-> ts, parts |-> pending[ts]]
    /\ pending' = [pending EXCEPT ![ts] = 0]
    /\ UNCHANGED <<harness, up, thread, slack, quiet, faults, excused>>
\* drain sends it, or parks it again when that fails and no newer one is parked.
drain ==
    LET ts == inflight.ts
    IN  /\ up /\ ts # 0
        /\ inflight' = [ts |-> 0, parts |-> 0]
        /\ \/ /\ posts' = [posts EXCEPT ![ts].parts = inflight.parts, ![ts].open = TRUE]
              /\ IF Clean(ts) THEN Excuse(posts[ts].turn, "stale") ELSE UNCHANGED excused
              /\ UNCHANGED <<pending, faults>>
           \/ /\ Faulty
              /\ pending' = [pending EXCEPT ![ts] = IF @ = 0 THEN inflight.parts ELSE @]
              /\ UNCHANGED <<posts, excused>>
        /\ UNCHANGED <<harness, up, thread, statuses, quiet>>

----------------------------------------------------------------------------
(* The process dies and is started again.                                  *)

\* What the crash cut short: a final answer in the middle of being shown, a
\* message posted and not yet recorded, the turns a catch-up finished.
CutShort(t) ==
    (IF Held /\ c.at > 0 /\ c.pc \in {"final", "piece", "remember"} /\ Now = Event("turnEnd", t, FALSE)
     THEN {"cut"} ELSE {})
    \cup (IF c.pc \in {"remember", "piece"} /\ r.turn = t THEN {"unrecorded"} ELSE {})
    \cup (IF c.missed /\ t \in 1..begun /\ \E u \in EndedTurns : EndSeq(u) <= c.at
          THEN {"unrecorded"} ELSE {})
    \cup (IF c.pc = "askSave" /\ Now.turn = t THEN {"promptUnrecorded"} ELSE {})
    \cup (IF c.pc = "restate" /\ t = 0 THEN {"cut"} ELSE {})
Crash ==
    /\ up /\ Faulty
    /\ up' = FALSE
    /\ excused' = [t \in 0..MaxTurns |-> excused[t] \cup CutShort(t)]
    /\ Unregister /\ continuing' = FALSE
    /\ inflight' = [ts |-> 0, parts |-> 0]
    /\ pending' = [p \in DOMAIN posts |-> 0]
    /\ statuses' \in {statuses} \cup
          (IF c.pc = "restate"   \* between the new status and the old one's removal
           THEN {Append(statuses, Status(meta, IF Now.kind = "ended" THEN "ended" ELSE "paused"))}
           ELSE {})
    /\ UNCHANGED <<harness, posts, quiet>>
Restart ==
    /\ ~up
    /\ up' = TRUE /\ quiet' = 0
    /\ UNCHANGED <<harness, thread, limited, slack, faults, excused>>

Consumer ==
    \/ startSession \/ RenderRunning \/ ReadyStatus \/ RenderPart \/ showIntermediary
    \/ rememberAnswer \/ FinalUpdate \/ FinalPost \/ RememberPiece \/ FinalDone
    \/ RenderTurnEnd \/ endTurn \/ askPermission \/ postPrompt \/ RememberPrompt
    \/ RenderAnswered \/ closePermission \/ ForgetPrompt
    \/ RenderSuspended \/ renderEnded \/ RestateOutcome \/ watchSuspended
    \/ unregisterThread \/ MissedRendered \/ MissedReadFails \/ MissedUnregisters
Reconcile == followAgain \/ renderMissed \/ LeaveAlone
Worker == drain \/ \E ts \in DOMAIN posts : nextSendable(ts)
Retrier == \E t \in Turns : RetryReads(t) \/ retryPrompt(t)

Next ==
    \/ \E final \in BOOLEAN : HarnessPart(final)
    \/ HarnessAsk \/ HarnessAnswered \/ handlePermissionClick \/ HarnessTurnEnd \/ HarnessSuspend \/ HarnessEnd
    \/ sendTurn \/ reviveThread \/ RestateContinuing \/ HandlerSaves \/ adopt
    \/ Consumer \/ Reconcile \/ Worker \/ Retrier
    \/ Crash \/ Restart

Spec == Init /\ [][Next]_vars
\* The goroutines of the bot run, a dead bot is started again and the sweeper
\* ticks; nothing is assumed of the harness, the people or Slack's failures,
\* which the bounds make finite.
FairSpec ==
    /\ Spec
    /\ WF_vars(Consumer) /\ WF_vars(Reconcile) /\ WF_vars(Worker) /\ WF_vars(Retrier)
    /\ WF_vars(RestateContinuing) /\ WF_vars(Restart)

----------------------------------------------------------------------------
(* Properties.                                                             *)

AnswersOf(t, i) == {p \in DOMAIN posts : posts[p].kind = "answer" /\ posts[p].turn = t
                                         /\ posts[p].piece = i}
PromptsOf(t) == {p \in DOMAIN posts : posts[p].kind = "prompt" /\ posts[p].turn = t}

\* Each piece of a turn's answer is one message of the thread, however often
\* the turn is rendered again after a restart (threadFromMeta, rememberAnswer),
\* unless its timestamp, or that of the first piece, could not be recorded.
OneMessagePerPiece ==
    \A t \in Turns, i \in 1..PieceCount(MaxParts) :
        Cardinality(AnswersOf(t, i)) > 1 => "unrecorded" \in excused[t]

\* The thread keeps its shape, and OneMessagePerPiece.
RenderInv == TypeOK /\ OneMessagePerPiece

AnswerShown(t) ==
    \A i \in 1..PieceCount(PartsOf(t)) :
        \E p \in AnswersOf(t, i) : posts[p] = Answer(t, i, PieceText(PartsOf(t), i), FALSE)

\* The saved cursor never passes a turn whose whole answer is not in the
\* thread (turnBoundary, turnStartBefore): a restart renders again what is
\* missing.  The exceptions are Slack refusing the answer twice, a crash in
\* the middle of showing it and a coalesced update that lands after it.
CursorBehindAnswers ==
    \A t \in EndedTurns :
        \/ NoStatus \/ loadMeta.lastSeq < EndSeq(t)
        \/ AnswerShown(t)
        \/ excused[t] \cap {"failed", "cut", "stale"} # {}
        \/ Held /\ c.at = EndSeq(t) /\ c.pc \in {"final", "piece", "remember"}

\* A resolved permission request leaves no prompt with live buttons behind
\* once its resolution was rendered, also by a bot that was restarted in between
\* (threadFromMeta, closePermission).  Three are excused: a prompt that could not
\* be recorded, one that retryPrompt posted after its answer was rendered, and
\* one that Slack refused to close.
PromptsClosed ==
    \A t \in Turns :
        (Held /\ c.pc = "idle" /\ \E k \in 1..c.at : log[k] = Event("answered", t, FALSE))
        => \/ \A p \in PromptsOf(t) : ~posts[p].open
           \/ excused[t] \cap {"promptUnrecorded", "promptRaced", "promptNotClosed"} # {}

\* The cursor saved in Slack never moves back over a crash, a continuation or a
\* catch-up (saveMeta, watchSuspended, renderMissed).
CursorNeverRewinds ==
    [][~NoStatus /\ ~NoStatus' => loadMeta'.lastSeq >= loadMeta.lastSeq]_vars

\* Every turn that ended is shown in the end, whatever crashed in between: by
\* the consumer, by a bot that follows the session again or by a catch-up of
\* an ended one (reconcile); and so is the session's end.  A paused session is
\* caught up only when it is continued.  The end may be missed when the bot
\* dies while showing it or Slack refuses it twice, or be overwritten when the handler of a prompt that
\* revived the session says "picking this back up" after it.
EndShown == NoStatus \/ excused[0] # {} \/ \E k \in DOMAIN statuses : statuses[k].text = "ended"
CatchesUp ==
    []<>(/\ view = "ended" => EndShown
         /\ \A t \in EndedTurns : AnswerShown(t) \/ excused[t] # {} \/ NoStatus \/ view = "suspended")
=============================================================================
