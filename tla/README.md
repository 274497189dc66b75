# A TLA+ model of agentops

This directory holds a specification of agentops: how the events, prompts and
permission requests of an agent session travel between the agent's pod and the
platform, how the pod is attached, watched and given its token, who launches,
suspends, continues and ends a session and under which quotas, how a client
follows a session's event log, and how the Slack bot shows it. The modules are
translated from the Go source under `harness/` and `slackbot/`. TLC checks them
on small instances; for the link and its turns, the event stream, the owners of a
session, the admission of calls, permission requests, the control streams, the
token loop and the bot's registry of threads TLAPS proves safety properties for
every value of the constants.

## The system

A *session* is one agent in one sandbox pod. Its parts, from the agent outwards:

| part | code | state it keeps | operations | module |
|---|---|---|---|---|
| agent process | `harness/internal/runner` (`acp.go`, `process.go`, `reap.go`) | the process and its group, the text of a turn that is not sent yet | start, open or load an ACP session, cut text into parts, terminate, reap | `AgentRunner` |
| agent-runner | `harness/internal/runner` (`session.go`, `outbox.go`, `runner.go`) | the outbox (numbered events that are not acked), the prompt queue, the running turn, open permission requests | prompt, ack, replay, run a turn, answer a request, report the exit | `AgentLink`, `AgentRunner`, `Permissions` |
| sidecar client | `harness/internal/sidecar/harnessclient` | the streams to the runner and the platform, the number of replays asked for and started | attach, redial, spawn, open AgentIO, forward frames, relay commands, join a running agent | `AgentLink`, `Attach`, `TokenLoop` |
| sidecar token loop | `harness/internal/sidecar/agentic` | the run's token and its age | poll, rotate, wait, retry, give up | `TokenLoop` |
| agentlink server | `harness/internal/agentlink` | per run: the event last delivered, the event last acked, queued commands, the inbox, the control stream | Attach, AgentIO, Expect, heartbeats | `AgentLink`, `Attach` |
| harness API | `harness/internal/harnessapi` | per live session: the binding (outstanding turns, held prompts, gate, waiting permissions); the owners map; idempotency keys; quotas | CreateSession, Prompt, RespondPermission, EndSession, Subscribe, sweeps, startup reconcile | `AgentLink`, `Permissions`, `SessionOwner`, `Admission`, `EventStream` |
| session store | `harness/internal/sessionstore` | sessions, events, pod commands (SQLite) | one transaction per call | `SessionStore` and the modules that use it |
| sandbox orchestrator | `harness/internal/sandbox` | Kubernetes claims and sandboxes, the grace timer of an attachment | Prepare, Revive, Activate, Adopt, Suspend, Teardown | `SessionOwner`, `Attach` |
| client library | `harness/api/client`, SDKs | the last event delivered | Subscribe with reconnect | `EventStream` |
| slackbot | `slackbot/internal` | threads, rooms, cursors, parked message edits, state saved in Slack messages | follow a session, render, start, join, continue, start over, catch up | `SlackRender`, `SlackRoom` |

They interact through gRPC streams that may break at any frame (runner–sidecar,
sidecar–platform), through bounded Go channels, through the store, through
connect streams to clients, and, for the bot, through messages that Slack keeps.
Each process may restart without the others.

What is hard here, and what the properties are about:

* a stream breaks with frames, commands and acks under way, and the next one
  must resume at the right event while goroutines of the old one still run;
* the platform restarts between the record of an event and its ack, or between
  an event and the work that it starts;
* prompts and decisions have no stream position: they are saved, sent, resent
  after a reconnect, and the runner's snapshot of its state is older or newer
  than the events that the store has;
* a bounded outbox blocks the agent, and the report of its death, until acks
  come back or nobody wants them any more;
* subscribers read pages of the log while new events arrive in a bounded buffer
  that drops what it cannot hold;
* a caller, a lost tunnel, a revoked run, three sweeps, a launch that fails and
  a restart change one session at the same time, each in several calls to the
  store and to Kubernetes that may fail one by one;
* a caller, a deadline, a reconciliation and a stop reach for one permission
  request, over three stores that a crash leaves apart;
* streams that end and streams that start tell the grace timer about it on
  goroutines of their own;
* a token ages while it is fetched, while the server is down and while the
  client is denied;
* the bot renders over many calls to Slack, any of which may fail, has its only
  durable state in one of the messages, and serves several people at once.

## Modules

| module | what it models |
|---|---|
| `AgentLink` | runner, sidecar, agentlink server, the binding and its consumer, and the store, for one session |
| `PodLog` | what the link promises: a log, a stored prefix, a forgotten prefix of that |
| `AgentLinkProofs` | theorems about `AgentLink`: its events and its turns |
| `EventStream` | the durable log, one subscription with its pump, and the reconnecting client |
| `OrderedFeed` | what a subscription promises: the events in order, then done |
| `EventStreamProofs` | theorems about `EventStream` |
| `SessionOwner` | the owners map and the launches, revives, stops, sweeps and reconcile of one session, with the store and the sandbox |
| `SessionOwnerProofs` | theorems about `SessionOwner` |
| `SessionLifecycle` | what the API promises: the states of a session and the changes between them |
| `Permissions` | a permission request from the agent to its answer, with everybody who may close it |
| `PermissionsProofs` | theorem about `Permissions` |
| `AgentRunner` | the agent process, its ACP session, the parts of its text, its end |
| `SessionStore` | the statements of the store as functions of its tables |
| `Admission` | CreateSession and Prompt under quotas and idempotency keys, for several sessions |
| `AdmissionProofs` | theorems about `Admission` |
| `Attach` | the control streams of one run, the supervision of its sandbox and the sidecar's client |
| `AttachProofs` | theorems about `Attach` |
| `TokenLoop` | the sidecar's token: its loop, its two pollers, Envoy's secret and the client that is denied |
| `TokenLoopProofs` | theorems about `TokenLoop` |
| `SlackRender` | how the bot shows one session: consumer, messages, saved state, coalesced updates, catch-up |
| `SlackRoom` | one Slack thread and the people in it: handlers, registry, joins, cursors |
| `SlackRoomProofs` | theorems about `SlackRoom` |

The modules meet in this way. `Admission` extends `SessionStore`, and
`Permissions` instantiates it. `AgentLink`, `EventStream` and `SessionOwner` are
shown to implement `PodLog`, `OrderedFeed` and `SessionLifecycle`. `Permissions`
takes from `AgentLink` what `PodLog` promises (frames of a stream in order, a
new stream starts with a snapshot, a lost one takes what was under way);
`SlackRender` takes from `EventStream` what `OrderedFeed` promises. `Attach` and
`AgentLink` are two streams of one run that the code keeps apart: for `AgentLink`
the control stream is a session that stops, for `Attach` the end of the session
in the store is a step of `SessionOwner`.

`PROJECT.json` maps each definition to the lines it models.

### AgentLink

The state follows the code's: `emitted`/`rAcked` are the outbox (`acked`, and
the events after it), `queue`/`running`/`lastTurn` the runner's `session`,
`frames`/`replays`/`replayStarts` the sidecar's `AgentSession`,
`delivered`/`acked`/`commands`/`inbox` the server's `attachedRun`,
`turns`/`held`/`gated`/`syncing` the `binding`, and
`podSeq`/`recorded`/`cmds`/`turnSeq`/`session` the store.

The actions are the points where a goroutine takes a lock, or sends to or
receives from a channel. Steps that the code makes under one lock or in one
store transaction are one action (`Consume` is `AppendPodTurnEnd` with the
removal of the saved prompt, the ack and `leave`); steps that are not are
several: `AgentFinishTurn` and `AgentClearTurn`, the three steps of
`session.finish`, the three of `reconcileState`. A store error in `handleEvent`
or in the list of saved prompts is retried by the code without a change of
state, so it is a stutter; one in `startTurn` or in `dropCommand` is a choice
of the action.

`Disconnect` empties both directions of the AgentIO stream. What the dead
stream's relay was handing to the runner may still arrive (`strays`): one frame
after a break, because `relayCommands` is in one `Send`, and any prefix of what
was under way after a restart of the sidecar, because the runner's end of the
old stream still reads.

Payloads are reduced to a kind and a turn; a turn id and its `turn_seq` are one
number. Two fields of a frame are auxiliary, for the invariant only: `gen` and
the `seq` of an AgentState frame. No guard reads them.

Not in this module: permission requests (`Permissions`); the Attach stream
(`Attach`); SpawnAgent and the launch (the initial states are those in which the
launch has recorded the link and acked SessionReady, with or without an opening
prompt); suspend and revive; turns that are started while no binding is live.

### EventStream

`stored`, `endAt` and `published` are the log: `lockEvents` holds the session's
lock from the check of the status to the last `publish`, so an append waits
until `published = stored`. `phase` is where `Subscribe` and `pump` are, `batch`
what is left of the page, `live` and `stale` the two channels of a
subscription. `wire` is the stream with everything in it that the pump has
sent and `drain` has not read. A subscription's calls touch nothing that
another one's do, so one is enough.

The subscriber names its session by `session_id`. A reference by conversation
is resolved again on each reconnect and may name another session; that is not
modelled.

### SessionOwner

`owner` is the entry of the session in `Service.owners`, `own` has the record of
every owner that was made: the fields of `struct owner`, the locals of its
goroutine and `pc`, the call that comes next. A launch goes from `created` or
`claimed` through `read`, `begin`, `prepare`, `record`, `run`, `await`,
`activate`, `register` and `link` to `live`; every one of these may fail and
lead to `fail`, `teardown` and `end`, or for a revive to `unrevive` and
`resuspend`. A stop goes from `stopLive` or `detached` to `suspend` or `tear`,
then to `end` and `settle`. `status`, `claim`, `acp`, `approver` and `endings`
are the session's row and log, `sandbox` is what Kubernetes has for the claim.

One call to the store or to the orchestrator is one step. `write()` is two: it
reads the status and then updates it unconditionally. `detach`, `register`,
`finish` and `claim` run under `Service.mu` and are one step each. A call fails
while the bound on faults of its kind allows it; Prepare, Revive and Activate
may always fail, because the approver may refuse and the pod may never attach. A
snapshot that cannot be read counts as a fault of the store. The supervision of
an attachment (`watched`) fires once, at any time, also after another owner has
taken over.

`Restart` forgets all owners. `main` does not call `Service.Shutdown`, so a
normal shutdown is a restart too. The API is served and the sweeps run after the
reconcile (`phase = "up"`).

Reduced: `ended` and `interrupted` are one status, times are choices (a sweep
may find a session too old at any time), turns are the one that a launch
brings or a binding has.

### Permissions

`perms` and `got` are the runner's open requests and what the agent was told,
`emitted`/`delivered`/`inbox`/`down` the link, `log`, `cmds` and `podSeq` the
store, and `waiters`, `fired`, `memo`, `permMu` the sink and the memo of
resolved requests in memory. RespondPermission, the timer and the consumer each
take the request under `permMu` and then save the decision, record the event
and send the command, one step each; a stop and a shutdown close the sink
around them. A caller may name an option that was not offered. A save or an emit
may fail, and a crash may fall between any two steps but two: while it is read
what the log says of a request, and between a stop's DeletePodCommands and the
teardown. `RareFaults` adds these two, and no run has them; what they would do is
under *What the code does not keep*.

### AgentRunner

`proc`, `tracked`, `starting`, `reaping`, `term`, `stragglers` are the process,
the Reaper's table and `terminate`; `run` is where the session's goroutine is;
`agg` is the Aggregator with the goroutine that has its lock; `emitted` and
`acked` the outbox. A text is a sequence of bytes that know whether they start a
character, so that `cutPart` can be wrong about it. Updates arrive on the
connection's goroutine and block on a full outbox, while the turn's goroutine
ends the turn; the harness only acks, and may stop doing so. The pages of the
session list that a resumed session searches are counted up to `MaxPages`.

### SessionStore and Admission

`SessionStore` has the statements that the harness runs on the sessions, events
and pod commands tables, as functions from a table to a table. `Admission` has
several calls of CreateSession and Prompt at once, each a sequence of steps:
resolve, idempotency key, admission lock with its two reads, insert with the
claim of the owner, or the turn and the revive. `checkQuotas` reads the rows
before it counts the launches. A launch is the sequence of its writes; the end
of a session and the startup are the shortest that keep the counts right.
`UpdateSessionSandbox` and `UpdateSessionLink` are one step, and so are insert
and claim, which `SessionOwner` splits. Keys live in memory only, as in the
code, and expire.

### Attach

`handlers` are the server's Attach handlers by stream, with the goroutine that
notifies the session and the directives queued for the stream; `run` is
`attachedRun` and its entry in `s.runs`; `launch`, `spawned`, `grace`, `firing`
and `stop` are Activate, the Attachment and the session; `conn`, `up`, `down`
the streams; `client` and `runner` the pod's side. A stream may break, or fall
silent until the heartbeat gives it up; the sidecar and the harness may restart;
after a harness restart unknown runs are held off until the reconcile has
adopted its sessions.

`Silent` carries one timing assumption: the notification of an evicted stream
does not wait for a whole heartbeat interval. `orphan` marks an agent whose
start was cut off and that goes with the pod.

### TokenLoop

`loop`, `held`, `left`, `sleep`, `retry`, `refresh` are `Loop` and the locals of
its `Run`; `secret` is the file that Envoy reads; `client` has the locals of
`Client.Run`; `run` and `file` are the authorization server and the projected
file. No variable holds a date: each holds the time that is left or has passed,
in ticks, and a tick waits for whatever happens at once. `valid` is how long the
server honours the token, minted at any moment of the request. Token names are
only compared, so a new one is any that nobody holds. `RefreshTimeout >=
PollTimeout` is an assumption; both are 30 s in the code. An approval may lapse.
A restart of the sidecar starts from the initial state and is not an action.

Two things to know of the code that follow from the model: the poll at the
expiry of the token has a deadline of zero, so the last retry can only report
that the server is unreachable; and a denied client learns nothing from the
loop, it compares bearers.

### SlackRender

`log` and `view` are the session, `c` the consumer with the call that it makes
next, `r` the renderer, `meta`/`statusTS` the thread in memory, `statuses` and
`posts` what Slack has, with the saved state in the status message; `pending`
and `inflight` are the queue of coalesced updates and its worker; `retry` the
goroutines that post a refused permission prompt again. A text is the number of
parts in it. Each call to Slack is a step that may fail, and the process may die
between any two. `excused` is history: the turns for which a fault took away
what a property would ask for, with the reason. One failed try of `retryPrompt`
is not distinguished from a later one.

### SlackRoom

`h` are the handlers that the gateway starts, one per message, with their next
call; `threads`, `rooms`, `th` the registry and its records; `saved` the state in
the sessions' status messages; `told` and `since` are history: what each session
was told, and from when on it has to be. A handler takes one step per call to
Slack or to the harness and per use of `a.mu`; each call may fail, the reads of
the thread, the posts and edits of a status message and the lookups one by one.
The harness changes sessions as it likes.

A read returns the last `MaxRead` messages of the thread (`transcriptFetchMax`,
200 in the code). When the whole thread cannot be read, `catchup` reads again from
`Lookback` before the cursor, and what that read finds counts as the whole; only
when it fails too does the cursor stay. A state is saved only once the session has
its status message, and a failed save is lost. One that was saved by a thread that
was replaced since overwrites the newer one.

Not modelled: texts, the busy counters that decide on "queued" hints
(`app.go:479-504`), reloads of the channel map during a join.

## Runs

All bounds are constants in the `.cfg` files, named in the modules.
`CHECK_DEADLOCK` is off in each: a session that has no more prompts, or has
ended, stops.

| run | checks | bounds | distinct states |
|---|---|---|---|
| `link` | the inductive invariant, no failure of the link, record once and in order, `PodLog` with its liveness, the turn ends | 1 turn with a message, outbox of 1, channels of 2, any two of a lost stream, a sidecar restart and a platform restart | 540 k |
| `link_turns` | each turn runs once and in order; a working agent is never idle; the turn that was accepted last ends | 2 turns, outbox and channels of 2, a lost stream or a platform restart, an agent that may exit | 473 k |
| `prompt_lost_on_reconnect` | expects a violation, see below | 2 turns, a lost stream | |
| `feed` | the inductive invariant, events once and in order, nothing missed by a pump that waits, `OrderedFeed` with its liveness | 6 events, pages and buffer of 2, one of each fault | 697 k |
| `owner` | one goroutine at work, an end is final, `SessionLifecycle`, no workspace left by an ended session, a suspended one keeps its workspace, the turn of a revive ends once, an answered EndSession is done, every goroutine lets go | 4 owners, 1 call of EndSession or of the absolute sweep, a store fault, a cluster fault, a restart | 186 k |
| `permissions` | the log tells one answer and the agent got that one; a waiting agent is answered; a saved decision reaches it | 1 request, 2 callers, a lost stream, a store fault, a restart | 278 k |
| `runner` | text whole, in order and in parts that fit; ends come last; an exit is reaped and reported | 2 turns, 2 updates, parts of 2 bytes, outbox of 2 | 568 k |
| `admission` | quotas, adoptable rows, one turn per key; whoever waits waits for somebody at work | 2 sessions, 1 client, 2 calls, 1 key, 2 launches each, a fault | 1.2 M |
| `attach` | the grace timer is right, one stream serves; the agent of an ended session stops; a sidecar that gave up ends its session | 2 streams at once, any two faults | 329 k |
| `token` | no token used beyond its life, one token in Envoy and client, no client that gives up before the loop asked; a revoked run ends its sidecar | lifetime of 6 ticks, rotation and timeouts of 2, both modes | 1.2 M |
| `slack` | one message per piece, the cursor behind the answers, prompts closed, the cursor never back, every ended turn shown | 2 turns, the first of 2 pieces, the second with a permission request, 1 fault, 1 pause | 369 k |
| `slack_room` | the registry and its handlers, one consumer per live session, nothing in reach skipped by a cursor | 2 people, 2 messages after the first, 1 edit, 1 answer, 1 pause or end, 3 sessions, 2 failures, a restart, of all these at most 3 in one behaviour (`MaxEvents`); reads of 3 messages, of which 1 is quoted | 912 k |

The bounds are small and still reach the hard cases.

* Link: an outbox of one event fills with the first turn. Two queued frames are
  enough for a stale ReplayStart and an event behind it. Two faults give three
  streams, with frames of two replays in one channel; that a third fault adds
  nothing is, for the safety part, what the theorems say. Two turns meet one fault
  in `link_turns`; what two turns and more faults do to its two invariants is again
  a theorem.
* Feed: six events with pages and a buffer of two give a full page, a full
  buffer, the token, and a gap in one behaviour.
* Owner: four owners are a launch, its suspend, a revive and the stop that meets
  it, or the same with an adoption after a restart; lost tunnels, revoked runs
  and idle sweeps are not bounded otherwise.
* Permissions: two callers, the timer and the consumer are three rivals for one
  request; requests share nothing but `permMu`.
* Runner: two bytes are one long character or two short ones, so a part is cut
  before, at and inside one.
* Admission: two sessions of one client meet at a cap of one, and a key is
  repeated while its first call runs, after it failed and after it expired.
* Attach: two streams overlap and evict each other, twice, with a restart between.
* Token: a lifetime of six ticks is longer than a slow poll and a rotation
  together, so the loop reaches a held token of every age in every state.
* Slack: a first answer of two pieces and a second turn with a request, one crash
  or refused call anywhere, one pause.
* Room: two sessions and one that starts over. `MaxEvents = 3` is the bound that
  counts: a second person's mention, an edit or a pause, and one fault, in every
  order with the steps of two handlers and the consumers. Simulations with up to
  ten events, four messages and three handlers at once found no violation.

Some properties hold only under a condition, and the models show why each is
needed:

* `LastTurnEnds`: no later turn is accepted. A turn that another one follows may be
  dropped and never end, see `prompt_lost_on_reconnect` below. With one turn (`link`) it says
  that no loss leaves the outbox, a feed, a relay or the consumer waiting for the
  others; with two (`link_turns`) that the last prompt is sent again whatever
  became of the one before it.
* `EndIsFinal`: no client ends a session before CreateSession has returned
  (`EndsBeforeCreated = FALSE`).
* `EndAnsweredIsDone`: no fault and no restart. EndSession leaves its stop with
  a launch and returns OK; when the launch's Teardown fails, the session stays
  live and the stop is gone.
* `SuspendedHasWorkspace`: no restart and no store fault. A stop or a release
  removes the workspace first and records the end after that, and the reconcile
  skips suspended sessions.
* `RevivedTurnEndsOnce`: no store fault. A revive whose snapshot cannot be read
  ends the session without an end of the turn. A restart forgets the launch, so
  nothing is said of a turn whose launch it cuts off.
* `WorkspaceReleased`: no store fault, because a failed launch that cannot ask
  the store ends the session.
* `PermissionInv`: `RareFaults = {}`, and each request has its own tool call id.
* `ExitIsReported`: the runner is not closing.
* `OneMessagePerPiece`, `CursorBehindAnswers`, `PromptsClosed`, `CatchesUp`: the
  turn is not `excused`; the reasons are listed below.
* `FollowedOnce`: the session is live. With three handlers in one thread an ended
  one can have two consumers, see below.
* `NothingSkipped`: the message is in reach of the reads (`InReach`): one of the
  last `MaxRead` of the thread, and not posted before the time from which a turn of
  the session was caught up when the whole thread could not be read. And the
  session has learned of the room and still knows it (`since`):
  * a join has everything from the seed on, unless, until it was settled, another
    handler's flip set its cursor or another handler of the same person prompted
    through its thread without one (`SeedTold`); then it counts from the moment at
    which it is settled;
  * a session that was there counts from the cursor that the flip left it, which
    for a continuation is the continuing mention itself (`docs/threads.md:511-516`
    accepts the loss of that message), or from the flip when a turn was under way
    that had been read for before (`NoneUnderway`);
  * a flip that was not saved before a restart is forgotten (`Remembers`), and so
    is a cursor that a thread never had.

In `EventStream` an event may be appended after SessionEnded when the read of
the status fails (`MaxStatusErrors`); the properties hold all the same.

### What the code does not keep

One run checks a sentence of the repository that the code does not keep and
expects the violation; `PROJECT.json` quotes the sentence.

In `prompt_lost_on_reconnect` a prompt is lost with its stream; a second one,
queued meanwhile, is sent on the new stream before the runner takes the snapshot that answers the Replay. The
snapshot's `last_turn_seq` is then that of the second prompt, and
`reconcileState` deletes the first as finished.

What follows was met while modelling. Where the models can show it, the action
or the exception in the property says so; none of it has a run of its own.

Turns and sessions:

* A reconciliation replaces the outstanding turns by the runner's, in which a
  turn is finished whose TurnFinished is not recorded. A stop at this point ends
  the session without an end of that turn.
* TurnFinished is appended before `session.running` is cleared. A snapshot in
  between makes the turn outstanding again after its end was recorded, and a stop
  records TurnFailed for it.
* AgentExited is recorded and acked before the stop that it starts. A restart in
  between adopts a session whose agent is gone.
* CreateSession stores the row and then claims the session, and does not look at
  the result. An EndSession in between ends the session, and the launch, which
  nobody stops, may overwrite the end.

Permissions:

* When `recordedDeadlines` cannot read the log (`RareFaults = {"unreadLog"}`),
  the consumer registers a second waiter for a request that was answered, and the
  log tells two answers (`consume.go:294-304`).
* A crash between `stopLive`'s DeletePodCommands and the teardown
  (`RareFaults = {"cutStop"}`) does the same: the saved decision is gone and the
  agent still asks.
* A crash or a failed write between the saved decision and the event leaves a
  request that the agent got an answer to without a PermissionResolved.

Attach:

* The sidecar's redial reads `s.runs` before adopt's Expect and `s.holding` after
  EndStartupHold (`server.go:183-192`): it is told NotFound and stops the agent
  of a session that was just adopted.
* A Shutdown during a spawn cancels it, and the runner may keep an agent until
  the pod is deleted; so may a sidecar that fails before it joined its runner.
* Session.Close's Shutdown may never be sent, because `serveAttach` may pick
  `run.done` first; the client then learns NotFound from its redial.
* A SpawnAgent that is lost with its stream before `spawned.Store` is noticed
  only at the attach timeout; the READY of an earlier sidecar lets SpawnAgent go
  to a new one.
* A grace timer that already fires ends a session that has just attached again.

Agent-runner:

* As pid 1 the Reaper ends with the signal context that also closes the runner,
  before `terminate` waits for the exit (`reap.go:40`): after a SIGTERM the exit
  of the agent is never reported.
* The ids of parts that arrive between two turns ("t0.n") can repeat
  (`emitPartLocked`), text between End and Begin may be dropped, late text may
  follow AgentExited, and a thought overtakes text that is buffered before it.

Slack bot:

* "An edit after the cursor brings the message back into the next delta"
  (`docs/threads.md:217-219`), but when the next turn cannot read the whole thread,
  the second read, from an hour before the cursor, does not contain an edited
  message that was posted earlier. It counts as a read, the cursor moves to the
  request and so past the edit, and neither this turn nor a later one tells the
  session of it or says that it is omitted (`app.go:420-425`). In a thread of more
  than 3,000 replies the whole can never be read (`poster.go:80`). The same happens
  to an edited message that is not among the last 200 (`poster.go:72-74`). In
  `NothingSkipped` both are out of reach (`InReach`).
* A coalesced update that the worker has taken lands after the final one and
  stays (`limited.go:307-327`).
* `LastSeq` advances before the end of a turn is rendered (`render.go:151`); a
  save by another goroutine and a crash lose the rest of the answer.
* `renderMissed` clears the record of the answer and does not advance the cursor:
  a crash during the catch-up posts the answer again (`sweep.go:82-121`).
* `retryPrompt` reads `waiting`, and posts after `closePermission`
  (`render.go:538-557`).
* The handler of a prompt that revived a session may restate the status after the
  session has ended (`app.go:524`).
* `Watching` is cleared in memory before the status of the end is posted
  (`render.go:336`); a paused session is caught up only when it is continued.
* A later piece that was recorded while the first piece's post failed is ignored
  after a restart (`start.go:158`).
* A join that is registered and not settled gets the cursor of another handler's
  flip, and the messages in between are skipped (`start.go:86-90`,
  `app.go:814-830`).
* A handler that looked up the person's paused session, which another handler has
  ended since to start over, adopts the thread of the session that is being created
  (`start.go:131-134`). That thread has no cursor yet, so the turn carries nothing
  (`app.go:415-418`); the session id is read only for the prompt, by which time the
  session runs, and the cursor then moves to the turn's message
  (`app.go:399-408`). The messages between the two mentions are skipped. It takes a
  message more than `slack_room` has.
* `startOver` ends a session and unregisters its thread while another handler of
  the same person, which adopted that session, has not started its consumer yet;
  a third handler that looked the session up before it ended adopts it again, and
  two consumers follow the ended session (`start.go:123-144`,
  `render.go:379-397`). Both stop when they read its end.
* A flip of which the save failed, or that came before the session's status was
  posted, is lost with a restart: the session is followed again as one of a solo
  thread, and takes its owner's plain replies for turns (`meta.go:165-177`,
  `start.go:146-165`).
* A thread that was replaced by a newer one for the same session may still save:
  the older state, with a cursor or without the flip, overwrites the newer one
  (`app.go:468-477`, `render.go:347-367`).
* `startSession` drops a mention without a word when another handler registered
  first; a mention that reaches a registered thread with no session id yet is
  refused; the announcement of a multiplayer thread repeats after the room was
  empty.

### Fairness

`FairSpec` assumes weak fairness of each step of a goroutine that is ready: the
Go scheduler runs it, an AgentIO stream is opened again after a break
(`Client.Run` redials with backoff and no limit on the tries), and the client
library does the same. It assumes nothing about new prompts, the exit of the agent, a
caller's stop or the faults, and the faults are bounded: with breaks for ever
nothing need arrive. `WF(stopping /\ Stop)` is the goroutine that handles
AgentExited.

* `SessionOwner`: every goroutine that has an owner moves: its calls return,
  Activate when the attach timeout is over at the latest. Callers, sweeps, losses
  and restarts are the environment's, and so is the end of a turn (`FinishTurn`):
  an agent may work for ever, and a stop must not wait for it.
* `Permissions`: goroutines and timers run and the sandbox attaches again.
  `ExpireTake` is strongly fair: the timer's goroutine waits for `permMu`, a
  `sync.Mutex`, which hands itself to a waiter that starves.
* `AgentRunner`: the runner's goroutines run, and a process that was killed dies.
  The harness need not ack.
* `Attach`: handlers, the client and its redial, and the timers run; a person or
  a fault does not.
* `TokenLoop`: the loop runs, a request ends at its deadline, and time passes. A
  session may last for ever, and the server need not answer.
* `SlackRender`: the bot's goroutines run, a dead bot is started again and its
  sweeper ticks.

`Admission` and `SlackRoom` have no temporal property: `WaitersAreServed` says as
an invariant that nobody waits for somebody who waits.

## Proofs

`tlapm` checks each theorem from nothing. They hold for every value of the
constants that the named assumptions of their module allow: natural bounds,
channel and page sizes of at least one (`BoundsAssumption`, `StreamBounds`,
`OwnerBounds`); in `AdmissionAssumption` also finitely many sessions, and names
that differ from the values for "none"; in `TokenAssumption` also four token
names and `RefreshTimeout >= PollTimeout`; in `AttachAssumption` finitely many
streams, at least one; in `PermissionsAssumption` finitely many requests,
options and callers, whose names differ from the values for "none"; in `RoomAssumption`
finitely many people. `PermissionSafety` also assumes `RareFaults = {}`.

**AgentLink.** `TypeCorrect` is by induction over the actions. The safety
theorems need more than their own statements: that an event in the inbox is the
next one follows from what is on the stream, that from what the sidecar
forwards, and that from which Replay a frame answers. `LinkInv` says so from
end to end:

* `QueuesInv`: the inbox leads from `podSeq` to `delivered` without a gap, and
  each frame carries the event of its number;
* `StreamInv`: on a live stream, what is on it and what is in `frames` lead
  from `delivered` to the feed's `cursor`; on a stream that still replays, the
  ReplayStart it waits for starts after `delivered`;
* `ReplaysInv`: the ReplayStarts in `frames` are the ones between the count the
  sidecar has seen and the count of Replays, in order, so that the sidecar's
  comparison of two counters finds the right one;
* `FeedInv`: the feed is never behind `delivered` and never ahead of the outbox;
* `AcksInv`, `CountersInv`: no ack, on a stream or in a stray relay, is ahead of
  `podSeq`, hence the runner never drops what a replay can still ask for.

`LinkStep` has one lemma per action. From `LinkInvariant` follow `NeverFails`,
`RecordsOnce` and `AcksOnlyRecorded`, and with `LogStep`, `RefinesPodLog`: the
safety part of `ImplementsFairPodLog`.

**Turns of AgentLink.** Two more invariants, on top of `LinkInv`.

`OrderInv` is for `TurnsRunOnceInOrder`: the queued turns ascend, above the
running one, up to `lastTurnSeq`; so do the ones that `finish()` has still to
end; and every turn in the outbox that has finished is below all of them. A
prompt enters the queue only above `lastTurnSeq`, whatever stream it came on, so
no resend and no stray relay can disturb this (`RunsOnceInOrder`).

`BusyInv` is for `BusyWhileAgentWorks`, and follows a turn all the way round:

* `AgentSaved`: a turn that the agent has and has not finished is saved and
  outstanding;
* `WaySaved`: so is each prompt on the way (queued in the server or held in the
  binding, on a stream, in a stray relay) that the runner would still take;
* `SnapsOk`: each AgentState on the way up, however old, names every turn up to
  its `last_turn_seq` that the agent had then and still has: a snapshot grows
  stale only by naming turns that are over;
* `ReconOk`: a reconciliation works from such a snapshot, with new prompts held,
  and the list that it read misses only held ones.

A reconciliation then drops only turns that are not at the agent, and
`Consume` removes one only when it is recorded as finished, which by `LinkInv`
and `OrderInv` is a turn that the runner will not take again. Nothing here says
that a saved prompt reaches the agent; for more than one turn that is false
(*What the code does not keep*).

**EventStream.** `FeedInv` says that the client, the stream, the page and the
pump are at consecutive events (`WireInv`, `PageInv`), and that an event which
was published and not sent is in the page or in the buffer unless the pump is
bound to read the log again (`CoverInv`): its page was full, or the token is
there. `FeedInvariant` proves it together with the types, because the page that
`History` returns is a sequence only if the pump is not ahead of the store.
`ReceivesInOrder`, `EndsOnlyAtEnd`, `NothingMissed` and `RefinesFeed` follow; the
last is the safety part of `ImplementsFairFeed`.

**SessionOwner.** That one goroutine works on a session is not inductive: it
rests on who may have the entry of the owners map. `OwnerInv` says

* `EntryInv`: who is at work has the entry, except a launch that still records
  its link when a stop has taken the entry and waits for it;
* `CreatedInv`: nobody takes a session between the insert of its row and the
  claim;
* `StatusInv`: the status that a goroutine finds at each of its steps, so that
  `write()`, which reads it and updates without a condition, overwrites no end;
* `ReleaseInv`, `KeptInv`: where a goroutine knows the name of the claim, and at
  which steps the workspace is there or gone;
* `TurnInv`: the turn of a revive is open as long as its launch or its binding
  has it;
* `PromiseInv`: an answered EndSession is done, or the one at work owes it.

`OwnerInvariant` proves it, one lemma per action. `EndsOnce`,
`RefinesLifecycle`, `ReleasesWorkspace`, `KeepsWorkspace`, `EndsRevivedTurn` and
`KeepsPromise` follow from it. All of them assume `~EndsBeforeCreated`: with an
EndSession between the insert and the claim the code may overwrite an end (*What
the code does not keep*).

**TokenLoop.** `TokenInv` is its three claims (`NeverLate`, `SecretIsHeld`,
`AskedFirst`) with what they rest on: the token that Poll returned is valid for
as long as the loop will count on it (`ReturnedInv`), the client dials only with
a token (`ClientInv`), and while a denied client waits for a loop that has not
asked yet, the refresh channel has its value or the loop is about to poll, and
no time has passed but in the poll that was under way (`RefreshInv`). There the
assumption about the two timeouts is used. That there is always a name nobody
holds is a lemma about cardinalities. `TokensNeverLate` and `LoopAsksFirst` are
the two claims a reader would look for.

**Admission.** The caps hold because of what the holder of the lock knows
(`LockInv`): from each check on there is room for what it starts, and no step of
another call, launch, stop or startup takes it. The rows hold because a launch
has the entry of the owners map and its row has what it wrote (`LaunchInv`); the
keys, because a remembered key belongs to the call that works on it or that
started its turn (`KeyInv`, `CallInv`), and because turns are numbered afresh,
so that two calls have one only if one repeats the other (`TurnInv`). A few
lemmas count: a set that gains one element, or is part of another, has at most
that many. From `AdmissionInvariant` follow `QuotasAlwaysHold`,
`AlwaysAdoptable`, `OneTurnPerKey` and `WaitersServed`.

**Attach.** The three claims of `AttachInv` (`AttachedIsNotTimed`, `LostIsTimed`,
`OneStreamServes`) are about the run, its streams and the timer, which change
under two locks and on goroutines of their own. What relates them:

* `NotifyAt`: a handler is notified only while it serves, the notification that
  runs has `notifyMu`, and one that still waits belongs to the stream that the
  run has, unless the session is being stopped;
* `LiveAt`: the stream that the run has is served or about to be released, and
  once its notification has begun the timer is off;
* `ReleaseAt`: the handler that is about to call OnLost has `notifyMu`, so the
  session cannot have learned of the next stream: this is why a late OnLost
  does not arm the timer of a stream that is there;
* `RunOver`: a run that is not expected was forgotten with its session or is not
  adopted yet.

`NotifyAt` is where the timing assumption of `Silent` is used: a stream that is
evicted has been silent for a heartbeat interval, and its notification is over
by then. `AttachInvariant` proves all of it, and `AttachedNotTimed`, `LostTimed`
and `OneServes` name the three claims.

**Permissions.** That the log tells one answer (`AnsweredOnce`) and that the
agent got that one (`AgentGotTheAnswer`) is about five places that a crash leaves
apart: the log, the saved decision, the command on its way, what the agent got,
and the waiter in memory. `DecisionInv` says of them

* `OneVerdict`: every trace of an answer to a request tells the same one;
* `OpenWaits`: a request that has a waiter has no trace of an answer, so whoever
  takes the waiter is the first;
* `MuHeld`, `Claims`: who took a waiter holds `permMu` and decides alone: it saves
  before it tells anybody, and what it tells is what it saved;
* `Supersedes`: the reconciliation withdraws only requests with a waiter;
* `AskedOnce`, `HandledOnce`: a request is asked and recorded once, through
  replays and restarts;
* `FramesInOrder`, `SettledForGood`: the hard part. A saved decision is deleted
  when a State frame no longer names its request. From then on nothing in memory
  or in the store says that it was decided, and a State frame that names it would
  open it again; none can, because the frames are in order and the pod does not
  wait again for what it got.

`PermissionSafety` is by one lemma per action, with the fold of `reconcileState`
replaced by what it does to each request (`dropCommands`). The stop's deletion of
all decisions is harmless because the pod is gone before anybody reads the log
again: with `"cutStop"` it is not, and with `"unreadLog"` `OpenWaits` fails.

**SlackRoom.** One consumer per session is not inductive, and neither is "who
renders is registered", because a thread is registered, its session created and
its room flipped in separate steps before its consumer starts. `RoomInv` says

* `Registry`: a registered thread is its person's and in the room; the room is
  there as long as somebody is registered;
* `Serves`, `Belongs`: the thread that a handler works on, the session that a
  thread shows and the message that woke it all belong to one person;
* `BroughtUpOnce`, `ComesUp`: a thread that has no consumer yet has one handler
  that brings it up, and stays registered until it does, unless its session ends;
* `Follows`: a thread that is rendered is registered, or its session is over.

`RoomSafety` proves it, one lemma per action, over any number of people, messages,
handlers and sessions. `FollowsOnce` follows: two threads that render a live
session are both the one that is registered for its owner. The exception for
ended sessions is needed; the attempt to prove the property without it led to the
behaviour described under *What the code does not keep*.

Only model-checked:

* the liveness properties, which rest on fairness and ENABLED;
* `RunnerInv`: that the text of an answer is whole is induction over data;
* `NothingSkipped`, which relates two histories of a session to its cursors: its
  exceptions came from looking for its inductive invariant and from runs with
  larger bounds;
* `RenderInv`, `CursorBehindAnswers` and `PromptsClosed` of `SlackRender`.

## Simplifications

Where an action says less, or more, than the code, apart from the data that is
left out:

* `AgentLink`: at most one command that a relay had buffered survives a break
  (`RelaySurvives`); gRPC may hand over more of them.
* `EventStream`: `Finish` appends two events; a suspended session that is released
  has a third one before them (`lifecycle.go:396-400`). The errors after which the
  client library ends the subscription (`final`, `subscribe.go:231-236`) are left
  out: the modelled client never gives up.
* `SessionOwner`: the snapshot of a template that cannot be read on a revive is
  one of the store faults. A stop waits for `ready` and not for the consumer,
  `permMu` or `sendMu`, so `OwnerLetsGo` says nothing of those waits.
* `Permissions`: a caller answers a request that it saw in the log, the only place
  where a client learns its id. RespondPermission itself asks only for a registered
  waiter, and the consumer registers it before it records the event.
* `AgentRunner`: usage updates, which touch neither text nor turns, are left out.
* `Admission`: the caps of a client never change, so neither does what `Rebind`
  reads after the authorization.
* `Attach`: a stream falls silent only while it serves. A handler that ends has
  handled the frames that had arrived; in the code `ctx.Done` may win and drop
  them (`server.go:464`). Whether a Spawn that a restart of the sidecar cut off
  has reached the runner is decided at the restart.
* `SlackRender`: the end by release and the ready status that is settled at the
  end of a turn (`render.go:272-274`, `359`, `369-377`) are left out, and so is
  the resume from the saved cursor when the log cannot be read
  (`status.go:224-228`). A final update cancels the pending one and is sent in
  one step. Once `drain` has put a coalesced update over a final one, or
  `retryPrompt` has raced with the close, the turn is excused, so no property
  shows the harm.
* `SlackRoom`: a session that is followed again or adopted is read from the end of
  its log; the code starts at the turn of the saved cursor. The start-over of a
  failed continuation waits until the mention's handler is done. `HarnessRuns`,
  `HarnessPauses`, `HarnessReviveFails` and `HarnessEnds` let the harness do more
  than `launch.go` and `lifecycle.go` do.

## Not modelled

* Pod assertions and the authentication of the sidecar: cryptography and JSON.
* The Agentic Runs client, the Kubernetes objects and leases: their answers are
  inputs of the modules.
* Rendering of Envoy's bootstrap, Markdown and Slack text, Block Kit: formatting.
  The number of pieces of a text is in `SlackRender`.
* Configuration, templates, metrics, command wiring, the API server's HTTP layer
  and the API stub: no state worth checking.
* The TypeScript and Python SDKs: the subscription algorithm of `EventStream` in
  two other languages.
* Four hazards in `PROJECT.json` have no property: a restart between AgentExited
  and its stop, turns that were saved when a session is interrupted at startup,
  DeletePodCommands that fails before a suspend, and two writers of one Slack
  message. The code has no promise to state for the first two; the third needs
  `AgentLink` and `SessionOwner` composed, which is too large for TLC; of the
  fourth the code prevents nothing, see *What the code does not keep*.
