------------------------------ MODULE AgentLink ------------------------------
(***************************************************************************)
(* The event and command link between one agent session and the platform:  *)
(*                                                                         *)
(*   agent-runner  --frames-->  sidecar  --ioUp--->  agentlink server      *)
(*   (outbox,      <-relay----           <-ioDown--  (delivered, commands) *)
(*    turn queue)                                        | inbox           *)
(*                                            consumer, binding, store     *)
(*                                                                         *)
(* The agent-runner numbers its events and keeps each one until it is      *)
(* acked (harness/internal/runner).  The sidecar relays between its stream *)
(* to the runner and one AgentIO stream to the platform                    *)
(* (harness/internal/sidecar/harnessclient).  The platform delivers the    *)
(* events in order to one consumer, which records them in the session      *)
(* store and acks them (agentlink, harnessapi).  Prompts are saved in the  *)
(* store, sent down, and resent after a new stream's AgentState.           *)
(*                                                                         *)
(* A session starts here where the launch has recorded the link: the       *)
(* agent's SessionReady is event 1 and is recorded.                        *)
(*                                                                         *)
(* A turn id and its turn_seq are one number.  Event payloads are reduced  *)
(* to a kind and a turn.  Two fields of a frame are auxiliary, no guard    *)
(* reads them: gen counts the Replay that a frame answers, and the seq of  *)
(* an AgentState frame is the point that its replay starts after.          *)
(***************************************************************************)
EXTENDS Naturals, Sequences, FiniteSets

CONSTANTS
    MaxTurn,            \* bound: prompts of the session
    MaxMessages,        \* bound: messages that a turn streams
    OutboxMax,          \* outboxMax, in events
    InboxMax,           \* inboxSize
    ChanMax,            \* frames a stream takes before its sender blocks
    MaxDrops,           \* bound: AgentIO streams that are lost
    MaxSidecarRestarts, \* bound
    MaxHarnessRestarts, \* bound
    MaxFaults,          \* bound: the three together
    AgentMayExit        \* whether the agent process may end on its own

ASSUME BoundsAssumption ==
    /\ MaxTurn \in Nat /\ MaxMessages \in Nat
    /\ OutboxMax \in Nat \ {0} /\ InboxMax \in Nat \ {0} /\ ChanMax \in Nat \ {0}
    /\ MaxDrops \in Nat /\ MaxSidecarRestarts \in Nat
    /\ MaxHarnessRestarts \in Nat /\ MaxFaults \in Nat /\ AgentMayExit \in BOOLEAN

VARIABLES
    \* agent-runner: outbox and session
    emitted,      \* every event appended to the outbox, by its number
    rAcked,       \* outbox.acked; the outbox keeps the events after it
    lastTurn,     \* session.lastTurnSeq
    queue,        \* session.queue
    running,      \* session.running, 0 when nil
    left,         \* messages the running turn has still to stream
    proc,         \* the agent process, and how far session.finish() is
    ending,       \* the queued turns that session.finish() has still to end
    feed,         \* the feed goroutine of the last Replay
    cursor,       \* feed's cursor
    \* sidecar
    frames,       \* AgentSession.Frames
    replays,      \* AgentSession.replays
    replayStarts, \* AgentSession.replayStarts
    io,           \* where agentIO() is
    strays,       \* frames a dead stream's relay still hands to the runner
    \* the AgentIO stream
    ioUp, ioDown,
    \* agentlink server: attachedRun
    delivered, acked, commands, inbox,
    lastAck,      \* sendCommands' lastAck, of the current stream
    \* harnessapi: the binding
    turns, held, gated, syncing,
    recon,        \* reconcileState in progress
    stopping,     \* a goroutine runs stopOwned after an agent exit
    \* session store
    podSeq,       \* the session's pod_seq
    recorded,     \* the agent's events whose number the store has taken
    cmds,         \* the prompts saved as pod commands
    turnSeq, session,
    accepted,     \* turns whose id a caller was given
    ends,         \* turn-end events recorded, by turn
    \* how the link failed, and the faults used up
    failed, drops, sidecarRestarts, harnessRestarts

agentVars   == <<lastTurn, queue, running, left, proc, ending>>
runnerVars  == <<emitted, rAcked, feed, cursor>>
sidecarVars == <<frames, replays, replayStarts, strays>>
wireVars    == <<io, ioUp, ioDown>>
serverVars  == <<delivered, acked, commands, inbox, lastAck>>
bindingVars == <<turns, held, gated, syncing, recon, stopping>>
storeVars   == <<podSeq, recorded, cmds, turnSeq, session, accepted, ends>>
faultVars   == <<failed, drops, sidecarRestarts, harnessRestarts>>

vars == <<agentVars, runnerVars, sidecarVars, wireVars, serverVars,
          bindingVars, storeVars, faultVars>>

Turns == 1..MaxTurn

-----------------------------------------------------------------------------
(* Events and frames.                                                      *)

Event == [kind : {"ready", "message", "finished", "exited"}, turn : Nat]

Ready       == [kind |-> "ready", turn |-> 0]
Message(t)  == [kind |-> "message", turn |-> t]
Finished(t) == [kind |-> "finished", turn |-> t]
Exited      == [kind |-> "exited", turn |-> 0]

UpFrame == [type : {"state", "event"}, seq : Nat, gen : Nat, ev : Event,
            last : Nat, out : SUBSET Nat]

DownFrame == [type : {"open", "ack", "prompt"}, n : Nat]

\* AgentState: session.state()
StateFrame(after, gen) ==
    [type |-> "state", seq |-> after, gen |-> gen, ev |-> Ready, last |-> lastTurn,
     out |-> {queue[i] : i \in DOMAIN queue} \cup ({running} \ {0})]

EventFrame(n, gen) ==
    [type |-> "event", seq |-> n, gen |-> gen, ev |-> emitted[n],
     last |-> 0, out |-> {}]

Open(n)   == [type |-> "open", n |-> n]
Ack(n)    == [type |-> "ack", n |-> n]
Prompt(t) == [type |-> "prompt", n |-> t]

NoReconcile == [st |-> "idle", last |-> 0, out |-> {}, cmds |-> {}]

\* The orders release() may send the prompts of S in: by turn_seq.
Ascending(S) ==
    {q \in [1..Cardinality(S) -> S] : \A i, j \in DOMAIN q : i < j => q[i] < q[j]}

-----------------------------------------------------------------------------
(* The launch has recorded the link and acked SessionReady.  The opening   *)
(* prompt, when there is one, is saved and gated.                          *)

Init ==
    /\ emitted = <<Ready>> /\ rAcked = 0
    /\ lastTurn = 0 /\ queue = <<>> /\ running = 0 /\ left = 0 /\ proc = "alive"
    /\ ending = <<>>
    /\ feed = "on" /\ cursor = 1
    /\ frames = <<>> /\ replays = 1 /\ replayStarts = 1 /\ strays = <<>>
    /\ io = "live" /\ ioUp = <<>> /\ ioDown = <<>>
    /\ delivered = 1 /\ acked = 1 /\ lastAck = 0 /\ commands = <<>> /\ inbox = <<>>
    /\ gated \in BOOLEAN
    /\ held = (IF gated THEN {1} \cap Turns ELSE {})
    /\ turns = held /\ cmds = held /\ accepted = held
    /\ turnSeq = Cardinality(held)
    /\ syncing = FALSE /\ recon = NoReconcile /\ stopping = FALSE
    /\ podSeq = 1 /\ recorded = <<Ready>> /\ session = "running"
    /\ ends = [t \in Turns |-> 0]
    /\ failed = "none"
    /\ drops = 0 /\ sidecarRestarts = 0 /\ harnessRestarts = 0

-----------------------------------------------------------------------------
\* Once the session has stopped, its pod and its link are gone.
Linked == session = "running"

(* The agent: turns run one at a time, in queue order (session.run).       *)

\* nextTurn(): the oldest queued prompt becomes the running turn.
AgentTakeTurn ==
    /\ Linked
    /\ proc = "alive" /\ running = 0 /\ queue # <<>>
    /\ running' = Head(queue) /\ queue' = Tail(queue)
    /\ left' \in 0..MaxMessages
    /\ UNCHANGED <<lastTurn, proc, ending, runnerVars, sidecarVars, wireVars, serverVars,
                   bindingVars, storeVars, faultVars>>

FinishedTurn(t) == \E i \in DOMAIN emitted : emitted[i] = Finished(t)

\* outbox.append of an event that is not urgent waits for room, unless
\* watchExit() has released the outbox.
OutboxHasRoom == Len(emitted) - rAcked < OutboxMax \/ proc # "alive"

AgentEmit ==
    /\ Linked
    /\ running # 0 /\ left > 0
    /\ OutboxHasRoom
    /\ emitted' = Append(emitted, Message(running))
    /\ left' = left - 1
    /\ UNCHANGED <<lastTurn, queue, running, proc, ending, rAcked, feed, cursor,
                   sidecarVars, wireVars, serverVars, bindingVars, storeVars, faultVars>>

\* runTurn() appends TurnFinished, which is urgent, and clears session.running
\* in a later step.  The prompt also returns, with an error, when the agent dies.
AgentFinishTurn ==
    /\ Linked
    /\ running # 0 /\ ~FinishedTurn(running)
    /\ left = 0 \/ proc = "exited"
    /\ emitted' = Append(emitted, Finished(running))
    /\ left' = 0
    /\ UNCHANGED <<lastTurn, queue, running, proc, ending, rAcked, feed, cursor,
                   sidecarVars, wireVars, serverVars, bindingVars, storeVars, faultVars>>

AgentClearTurn ==
    /\ Linked
    /\ running # 0 /\ FinishedTurn(running)
    /\ running' = 0
    /\ UNCHANGED <<lastTurn, queue, left, proc, ending, runnerVars, sidecarVars, wireVars,
                   serverVars, bindingVars, storeVars, faultVars>>

AgentExit ==
    /\ Linked
    /\ proc = "alive" /\ AgentMayExit
    /\ proc' = "exited"
    /\ UNCHANGED <<lastTurn, queue, running, left, ending, runnerVars, sidecarVars, wireVars,
                   serverVars, bindingVars, storeVars, faultVars>>

\* finish() takes the queue, and later prompts are refused.
AgentFinish ==
    /\ Linked
    /\ proc = "exited" /\ running = 0
    /\ proc' = "finished"
    /\ queue' = <<>> /\ ending' = queue
    /\ UNCHANGED <<lastTurn, running, left, runnerVars, sidecarVars, wireVars, serverVars,
                   bindingVars, storeVars, faultVars>>

\* finish() then ends each turn it took ...
AgentEndQueued ==
    /\ Linked
    /\ proc = "finished" /\ ending # <<>>
    /\ emitted' = Append(emitted, Finished(Head(ending)))
    /\ ending' = Tail(ending)
    /\ UNCHANGED <<lastTurn, queue, running, left, proc, rAcked, feed, cursor, sidecarVars,
                   wireVars, serverVars, bindingVars, storeVars, faultVars>>

\* ... and AgentExited is the last event.
AgentReportExit ==
    /\ Linked
    /\ proc = "finished" /\ ending = <<>>
    /\ proc' = "reported"
    /\ emitted' = Append(emitted, Exited)
    /\ UNCHANGED <<lastTurn, queue, running, left, ending, rAcked, feed, cursor,
                   sidecarVars, wireVars, serverVars, bindingVars, storeVars, faultVars>>

-----------------------------------------------------------------------------
(* The runner: commands from the sidecar, and the feed of one Replay.      *)

RunnerPromptAgain(t) ==
    IF proc \in {"finished", "reported"} \/ t < lastTurn
    THEN UNCHANGED <<lastTurn, queue>>
    ELSE lastTurn' = t /\ queue' = Append(queue, t)

\* session.prompt(): a prompt that the runner already has is ignored.
RunnerPrompt(t) ==
    IF proc \in {"finished", "reported"} \/ t <= lastTurn
    THEN UNCHANGED <<lastTurn, queue>>
    ELSE lastTurn' = t /\ queue' = Append(queue, t)

\* outbox.ack(): cumulative, an old or impossible ack is ignored.
RunnerAck(n) == rAcked' = IF n <= rAcked \/ n > Len(emitted) THEN rAcked ELSE n

RunnerReceive(f) ==
    \/ /\ f.type = "ack"
       /\ RunnerAck(f.n)
       /\ UNCHANGED <<lastTurn, queue>>
    \/ /\ f.type = "prompt"
       /\ RunnerPrompt(f.n)
       /\ UNCHANGED rAcked

\* outbox.check()
Replayable(n) == rAcked <= n /\ n <= Len(emitted)

\* feed() begins with ReplayStart, which carries a snapshot of the session.
\* It always fits: one feed at a time waits to send it.
FeedStart ==
    /\ Linked
    /\ feed = "starting"
    /\ feed' = "on"
    /\ frames' = Append(frames, StateFrame(cursor, replays))
    /\ UNCHANGED <<agentVars, emitted, rAcked, cursor, replays, replayStarts, strays,
                   wireVars, serverVars, bindingVars, storeVars, faultVars>>

\* outbox.after(): the feed fails when an ack overtook it, and otherwise sends
\* the next event.  (The code checks once for each batch it copies.)
FeedEvent ==
    /\ Linked
    /\ feed = "on"
    /\ \/ /\ ~Replayable(cursor)
          /\ feed' = "off" /\ failed' = "replay_gone"
          /\ UNCHANGED <<cursor, frames>>
       \/ /\ Replayable(cursor) /\ cursor < Len(emitted) /\ Len(frames) < ChanMax
          /\ cursor' = cursor + 1
          /\ frames' = Append(frames, EventFrame(cursor + 1, replays))
          /\ UNCHANGED <<feed, failed>>
    /\ UNCHANGED <<agentVars, emitted, rAcked, replays, replayStarts, strays, wireVars,
                   serverVars, bindingVars, storeVars, drops, sidecarRestarts,
                   harnessRestarts>>

-----------------------------------------------------------------------------
(* The sidecar.                                                            *)

OpenIOKeepLastAck ==
    /\ Linked
    /\ io = "down" /\ failed = "none"
    /\ io' = "opening"
    /\ ioDown' = <<Open(delivered)>>
    /\ UNCHANGED <<agentVars, runnerVars, sidecarVars, ioUp, serverVars, bindingVars,
                   storeVars, faultVars>>

\* agentIO() opens a stream, and the server's AgentIO() answers with Open and
\* the last event it delivered.  claimIO() lets one stream in at a time.
OpenIO ==
    /\ Linked
    /\ io = "down" /\ failed = "none"
    /\ io' = "opening"
    /\ ioDown' = <<Open(delivered)>>
    /\ lastAck' = 0
    /\ UNCHANGED <<agentVars, runnerVars, sidecarVars, ioUp, delivered, acked, commands,
                   inbox, bindingVars, storeVars, faultVars>>

\* agentIO() hands Open's number to the runner as Replay, and the runner's Run()
\* replaces its feed: stopFeed() waits until an earlier one sent its ReplayStart.
SidecarOpen ==
    /\ Linked
    /\ io = "opening" /\ feed # "starting"
    /\ ioDown # <<>> /\ Head(ioDown).type = "open"
    /\ LET n == Head(ioDown).n
       IN  \/ /\ Replayable(n)
              /\ io' = "replaying" /\ ioDown' = Tail(ioDown)
              /\ feed' = "starting" /\ cursor' = n
              /\ replays' = replays + 1
              /\ UNCHANGED failed
           \/ /\ ~Replayable(n)
              /\ failed' = "replay_gone"
              /\ io' = "down" /\ ioDown' = <<>> /\ feed' = "off"
              /\ UNCHANGED <<cursor, replays>>
    /\ UNCHANGED <<agentVars, emitted, rAcked, frames, replayStarts, strays, ioUp,
                   serverVars, bindingVars, storeVars, drops, sidecarRestarts,
                   harnessRestarts>>

StaleNever(starts)    == FALSE
StaleOffByOne(starts) == starts <= replays

\* A ReplayStart that answers an earlier Replay than the last one.
Stale(starts) == starts < replays

\* agentIO()'s loop: events before the ReplayStart of its own Replay are left
\* over from an earlier stream and are dropped.
SidecarForward ==
    /\ Linked
    /\ io \in {"replaying", "live"} /\ frames # <<>> /\ Len(ioUp) < ChanMax
    /\ frames' = Tail(frames)
    /\ LET f == Head(frames)
       IN  \/ /\ f.type = "state"
              /\ replayStarts' = replayStarts + 1
              /\ IF Stale(replayStarts')
                 THEN UNCHANGED <<io, ioUp>>
                 ELSE io' = "live" /\ ioUp' = Append(ioUp, f)
           \/ /\ f.type = "event"
              /\ ioUp' = IF io = "live" THEN Append(ioUp, f) ELSE ioUp
              /\ UNCHANGED <<io, replayStarts>>
    /\ UNCHANGED <<agentVars, runnerVars, replays, strays, ioDown, serverVars,
                   bindingVars, storeVars, faultVars>>

\* relayCommands()
Relay ==
    /\ Linked
    /\ io \in {"replaying", "live"} /\ ioDown # <<>>
    /\ ioDown' = Tail(ioDown)
    /\ RunnerReceive(Head(ioDown))
    /\ UNCHANGED <<running, left, proc, ending, emitted, feed, cursor, sidecarVars, io, ioUp,
                   serverVars, bindingVars, storeVars, faultVars>>

\* A relay of a dead stream finishes the Send it was in.
StrayRelay ==
    /\ Linked
    /\ strays # <<>>
    /\ strays' = Tail(strays)
    /\ RunnerReceive(Head(strays))
    /\ UNCHANGED <<running, left, proc, ending, emitted, feed, cursor, frames, replays,
                   replayStarts, wireVars, serverVars, bindingVars, storeVars, faultVars>>

-----------------------------------------------------------------------------
(* The agentlink server: serveIO() and sendCommands().                     *)

\* sendCommands() sends the queued commands first.  A command that was sent is
\* committed: the server forgets it.
SendCommand ==
    /\ Linked
    /\ io # "down" /\ commands # <<>> /\ Len(ioDown) < ChanMax
    /\ ioDown' = Append(ioDown, Prompt(Head(commands)))
    /\ commands' = Tail(commands)
    /\ UNCHANGED <<agentVars, runnerVars, sidecarVars, io, ioUp, delivered, acked, inbox,
                   lastAck, bindingVars, storeVars, faultVars>>

\* sendCommands() acks what is recorded, when no command waits.
SendAck ==
    /\ Linked
    /\ io # "down" /\ commands = <<>> /\ acked > lastAck /\ Len(ioDown) < ChanMax
    /\ ioDown' = Append(ioDown, Ack(acked))
    /\ lastAck' = acked
    /\ UNCHANGED <<agentVars, runnerVars, sidecarVars, io, ioUp, delivered, acked,
                   commands, inbox, bindingVars, storeVars, faultVars>>

SetDeliveredLate(n) == UNCHANGED delivered

\* setDelivered(): a later stream starts after event n.
SetDelivered(n) == delivered' = IF n > delivered THEN n ELSE delivered

\* An event that was delivered is dropped, the next one goes to the inbox when
\* it has room, and any other one is a protocol violation.
ServerReceive ==
    /\ Linked
    /\ ioUp # <<>>
    /\ LET f == Head(ioUp)
       IN  \/ /\ f.type = "state" /\ Len(inbox) < InboxMax
              /\ inbox' = Append(inbox, f) /\ ioUp' = Tail(ioUp)
              /\ UNCHANGED <<delivered, failed, io, ioDown>>
           \/ /\ f.type = "event" /\ f.seq <= delivered
              /\ ioUp' = Tail(ioUp)
              /\ UNCHANGED <<inbox, delivered, failed, io, ioDown>>
           \/ /\ f.type = "event" /\ f.seq = delivered + 1 /\ Len(inbox) < InboxMax
              /\ inbox' = Append(inbox, f) /\ ioUp' = Tail(ioUp)
              /\ SetDelivered(f.seq)
              /\ UNCHANGED <<failed, io, ioDown>>
           \/ /\ f.type = "event" /\ f.seq > delivered + 1
              /\ failed' = "gap"
              /\ io' = "down" /\ ioUp' = <<>> /\ ioDown' = <<>>
              /\ UNCHANGED <<inbox, delivered>>
    /\ UNCHANGED <<agentVars, runnerVars, sidecarVars, acked, commands, lastAck,
                   bindingVars, storeVars, drops, sidecarRestarts, harnessRestarts>>

-----------------------------------------------------------------------------
(* harnessapi: turns, the consumer and the reconciliation of AgentState.   *)

\* binding.release(), with h the prompts that are held.
Release(h, g, s) ==
    IF g \/ s
    THEN held' = h /\ UNCHANGED commands
    ELSE held' = {} /\ \E q \in Ascending(h) : commands' = commands \o q

\* NextTurnSeq(): the store counts the session's turns.
NextTurnSeq == turnSeq' = turnSeq + 1

\* startTurn() of a running session.  A number whose prompt cannot be saved is
\* not used again, and the caller gets an error.
StartTurn ==
    /\ Linked
    /\ turnSeq < MaxTurn
    /\ NextTurnSeq
    /\ \/ /\ cmds' = cmds \cup {turnSeq'}
          /\ turns' = turns \cup {turnSeq'}
          /\ accepted' = accepted \cup {turnSeq'}
          /\ Release(held \cup {turnSeq'}, gated, syncing)
       \/ UNCHANGED <<cmds, turns, accepted, held, commands>>
    /\ UNCHANGED <<agentVars, runnerVars, sidecarVars, wireVars, delivered, acked, inbox,
                   lastAck, gated, syncing, recon, stopping, podSeq, recorded, session,
                   ends, faultVars>>

\* ungate(): the launch is over, the opening prompt may go.
Ungate ==
    /\ Linked
    /\ gated
    /\ gated' = FALSE
    /\ Release(held, FALSE, syncing)
    /\ UNCHANGED <<agentVars, runnerVars, sidecarVars, wireVars, delivered, acked, inbox,
                   lastAck, turns, syncing, recon, stopping, storeVars, faultVars>>

\* A turn-end event is recorded for each turn of S.
EndTurns(S) == [t \in Turns |-> IF t \in S THEN ends[t] + 1 ELSE ends[t]]

\* handleEvent(): one store transaction records the event, advances pod_seq and
\* deletes the saved prompt of a finished turn.  Then the event is acked.  While
\* the store fails the event is retried and nothing changes.
Consume ==
    /\ Linked
    /\ recon.st = "idle" /\ inbox # <<>> /\ Head(inbox).type = "event"
    /\ inbox' = Tail(inbox)
    /\ LET f == Head(inbox)
           over == IF f.ev.kind = "finished" THEN {f.ev.turn} ELSE {}
       IN  /\ recorded' = Append(recorded, f.ev)
           /\ podSeq' = f.seq
           /\ acked' = f.seq
           /\ cmds' = cmds \ over
           /\ turns' = turns \ over
           /\ ends' = EndTurns(over)
           /\ stopping' = (stopping \/ f.ev.kind = "exited")
    /\ UNCHANGED <<agentVars, runnerVars, sidecarVars, wireVars, delivered, commands,
                   lastAck, held, gated, syncing, recon, turnSeq, session, accepted,
                   faultVars>>

\* reconcileState(), first lock of sendMu: new turns wait.
ReconcileBegin ==
    /\ Linked
    /\ recon.st = "idle" /\ inbox # <<>> /\ Head(inbox).type = "state"
    /\ inbox' = Tail(inbox)
    /\ syncing' = TRUE
    /\ recon' = [st |-> "begun", last |-> Head(inbox).last, out |-> Head(inbox).out,
                 cmds |-> {}]
    /\ UNCHANGED <<agentVars, runnerVars, sidecarVars, wireVars, delivered, acked,
                   commands, lastAck, turns, held, gated, stopping, storeVars, faultVars>>

\* ListPodCommands(), without sendMu.
ReconcileList ==
    /\ Linked
    /\ recon.st = "begun"
    /\ recon' = [recon EXCEPT !.st = "listed", !.cmds = cmds]
    /\ UNCHANGED <<agentVars, runnerVars, sidecarVars, wireVars, serverVars, turns, held,
                   gated, syncing, stopping, storeVars, faultVars>>

\* Mutant: the prompt right after the runner's last one is taken for delivered.
ResendSkipsFirst == {t \in recon.cmds : t > recon.last + 1}
\* The saved prompts that the runner never got, by its last turn_seq.
Resend == {t \in recon.cmds : t > recon.last}

\* The saved prompts that the runner has finished.
Dropped == {t \in recon.cmds : t <= recon.last /\ t \notin recon.out}

\* Second lock of sendMu: the saved prompts that the runner never got are sent
\* again, the ones it has finished are dropped.  A drop that the store refuses
\* leaves the prompt saved.
ReconcileFinish ==
    /\ Linked
    /\ recon.st = "listed"
    /\ \E kept \in SUBSET Dropped : cmds' = cmds \ (Dropped \ kept)
    /\ turns' = recon.out \cup Resend \cup held
    /\ Release(held \cup Resend, gated, FALSE)
    /\ syncing' = FALSE
    /\ recon' = NoReconcile
    /\ UNCHANGED <<agentVars, runnerVars, sidecarVars, wireVars, delivered, acked, inbox,
                   lastAck, gated, stopping, podSeq, recorded, turnSeq, session, accepted,
                   ends, faultVars>>

\* stopLive(): the consumer is over (it gives up a reconciliation that has not
\* listed the saved prompts), and every outstanding turn gets TurnFailed.
Stop ==
    /\ Linked
    /\ recon.st # "listed"
    /\ ends' = EndTurns(turns)
    /\ turns' = {}
    /\ cmds' \in {{}, cmds}
    /\ session' = "stopped"
    /\ recon' = NoReconcile /\ stopping' = FALSE
    /\ io' = "down" /\ ioUp' = <<>> /\ ioDown' = <<>>
    /\ UNCHANGED <<agentVars, runnerVars, sidecarVars, serverVars, held, gated, syncing,
                   podSeq, recorded, turnSeq, accepted, faultVars>>

-----------------------------------------------------------------------------
(* Faults.                                                                 *)

\* The frames a relay of the current stream can be handing to the runner.
InRelay == IF io \in {"replaying", "live"} THEN ioDown ELSE <<>>

\* The AgentIO stream ends with what was under way on it.
Disconnect == io' = "down" /\ ioUp' = <<>> /\ ioDown' = <<>>

RelaySurvives ==
    \E n \in 0..1 : /\ n <= Len(InRelay)
                    /\ strays' = strays \o SubSeq(InRelay, 1, n)

MayFail == drops + sidecarRestarts + harnessRestarts < MaxFaults

Break ==
    /\ Linked /\ MayFail
    /\ io # "down" /\ drops < MaxDrops
    /\ drops' = drops + 1
    /\ Disconnect /\ RelaySurvives
    /\ UNCHANGED <<agentVars, runnerVars, frames, replays, replayStarts, serverVars,
                   bindingVars, storeVars, failed, sidecarRestarts, harnessRestarts>>

\* A new sidecar process joins the agent that runs.  The runner's old stream
\* may still handle frames that are in it.
SidecarRestart ==
    /\ Linked /\ MayFail
    /\ sidecarRestarts < MaxSidecarRestarts
    /\ sidecarRestarts' = sidecarRestarts + 1
    /\ Disconnect
    /\ \E n \in 0..Len(strays \o InRelay) : strays' = SubSeq(strays \o InRelay, 1, n)
    /\ frames' = <<>> /\ replays' = 0 /\ replayStarts' = 0
    /\ feed' = "off"
    /\ UNCHANGED <<agentVars, emitted, rAcked, cursor, serverVars, bindingVars, storeVars,
                   failed, drops, harnessRestarts>>

ExpectAfterDelivered ==
    /\ delivered' = delivered /\ acked' = podSeq /\ lastAck' = 0
    /\ commands' = <<>> /\ inbox' = <<>>

\* Expect() with resume: the run starts after pod_seq, with nothing queued.
Expect ==
    /\ delivered' = podSeq /\ acked' = podSeq /\ lastAck' = 0
    /\ commands' = <<>> /\ inbox' = <<>>

AdoptIdle ==
    /\ held' = {} /\ gated' = FALSE /\ syncing' = TRUE /\ recon' = NoReconcile
    /\ turns' = {} /\ stopping' = FALSE

\* adopt(): the saved prompts are outstanding, and wait for AgentState.
Adopt ==
    /\ held' = {} /\ gated' = FALSE /\ syncing' = TRUE /\ recon' = NoReconcile
    /\ turns' = cmds /\ stopping' = FALSE

\* The platform restarts and adopts the running session: what it had in memory
\* is gone, the stream resumes after pod_seq, and prompts wait for AgentState.
HarnessRestart ==
    /\ Linked /\ MayFail
    /\ harnessRestarts < MaxHarnessRestarts
    /\ harnessRestarts' = harnessRestarts + 1
    /\ Disconnect /\ RelaySurvives
    /\ Expect /\ Adopt
    /\ UNCHANGED <<agentVars, runnerVars, frames, replays, replayStarts, storeVars,
                   failed, drops, sidecarRestarts>>

-----------------------------------------------------------------------------

AgentNext == AgentTakeTurn \/ AgentEmit \/ AgentFinishTurn \/ AgentClearTurn
             \/ AgentExit \/ AgentFinish \/ AgentEndQueued \/ AgentReportExit
PodNext   == FeedStart \/ FeedEvent \/ OpenIO \/ SidecarOpen \/ SidecarForward
             \/ Relay \/ StrayRelay
LinkNext  == SendCommand \/ SendAck \/ ServerReceive
ApiNext   == StartTurn \/ Ungate \/ Consume \/ ReconcileBegin \/ ReconcileList
             \/ ReconcileFinish \/ Stop
FaultNext == Break \/ SidecarRestart \/ HarnessRestart

Next == AgentNext \/ PodNext \/ LinkNext \/ ApiNext \/ FaultNext

Spec == Init /\ [][Next]_vars

\* Every goroutine that can move does.  Prompts, the end of the agent process,
\* a caller's stop and the faults are the environment's.
Fairness ==
    /\ WF_vars(AgentTakeTurn) /\ WF_vars(AgentEmit) /\ WF_vars(AgentFinishTurn)
    /\ WF_vars(AgentClearTurn) /\ WF_vars(AgentFinish)
    /\ WF_vars(AgentEndQueued) /\ WF_vars(AgentReportExit)
    /\ WF_vars(FeedStart) /\ WF_vars(FeedEvent) /\ WF_vars(OpenIO) /\ WF_vars(SidecarOpen)
    /\ WF_vars(SidecarForward) /\ WF_vars(Relay) /\ WF_vars(StrayRelay)
    /\ WF_vars(SendCommand) /\ WF_vars(SendAck) /\ WF_vars(ServerReceive)
    /\ WF_vars(Ungate) /\ WF_vars(Consume) /\ WF_vars(ReconcileBegin) /\ WF_vars(ReconcileList)
    /\ WF_vars(ReconcileFinish) /\ WF_vars(stopping /\ Stop)

FairSpec == Spec /\ Fairness

-----------------------------------------------------------------------------
(* Properties.                                                             *)

AgentType ==
    /\ lastTurn \in Nat /\ queue \in Seq(Nat) /\ running \in Nat /\ left \in Nat
    /\ proc \in {"alive", "exited", "finished", "reported"} /\ ending \in Seq(Nat)
RunnerType ==
    /\ emitted \in Seq(Event) /\ rAcked \in Nat
    /\ feed \in {"off", "starting", "on"} /\ cursor \in Nat
SidecarType ==
    /\ frames \in Seq(UpFrame) /\ strays \in Seq(DownFrame)
    /\ replays \in Nat /\ replayStarts \in Nat
WireType ==
    /\ io \in {"down", "opening", "replaying", "live"}
    /\ ioUp \in Seq(UpFrame) /\ ioDown \in Seq(DownFrame)
ServerType ==
    /\ delivered \in Nat /\ acked \in Nat /\ lastAck \in Nat
    /\ commands \in Seq(Turns) /\ inbox \in Seq(UpFrame)
BindingType ==
    /\ turns \in SUBSET Nat /\ held \in SUBSET Turns
    /\ gated \in BOOLEAN /\ syncing \in BOOLEAN /\ stopping \in BOOLEAN
    /\ recon \in [st : {"idle", "begun", "listed"}, last : Nat, out : SUBSET Nat,
                  cmds : SUBSET Turns]
StoreType ==
    /\ podSeq \in Nat /\ recorded \in Seq(Event) /\ cmds \in SUBSET Turns
    /\ turnSeq \in 0..MaxTurn /\ session \in {"running", "stopped"}
    /\ accepted \in SUBSET Turns /\ ends \in [Turns -> Nat]
FaultType ==
    /\ failed \in {"none", "gap", "replay_gone"}
    /\ drops \in Nat /\ sidecarRestarts \in Nat /\ harnessRestarts \in Nat

\* Every variable has its type.
TypeOK == AgentType /\ RunnerType /\ SidecarType /\ WireType /\ ServerType
          /\ BindingType /\ StoreType /\ FaultType

\* Losing a stream, a sidecar or the platform never makes the link fail: the
\* server never sees a gap in the events (serveIO's errProtocol), and the runner
\* is never asked for an event it has dropped (errReplayGone).
LinkNeverFails == failed = "none"

\* The store holds exactly the first pod_seq events of the agent: across
\* reconnects and restarts each one is recorded once, in order, with no gap.
RecordedOnceInOrder ==
    /\ Len(recorded) = podSeq
    /\ podSeq <= Len(emitted)
    /\ \A i \in 1..Len(recorded) : recorded[i] = emitted[i]

\* The runner drops an event from its outbox only once the store has it.
AckedOnlyRecorded == rAcked <= podSeq

\* The agent runs no turn twice, and runs the turns in the order of turn_seq,
\* although prompts are resent after a drop and overtaken by stray relays.
TurnsRunOnceInOrder ==
    \A i, j \in DOMAIN emitted :
        (i < j /\ emitted[i].kind = "finished" /\ emitted[j].kind = "finished")
            => emitted[i].turn < emitted[j].turn

\* A turn the agent has not finished is outstanding in the binding, so that the
\* idle sweep cannot take a session whose agent works for an idle one.
BusyWhileAgentWorks ==
    Linked =>
        \A t \in Turns :
            (t = running \/ \E i \in DOMAIN queue : queue[i] = t) /\ ~FinishedTurn(t)
                => t \in turns

Unended(t) == t \in accepted /\ ends[t] = 0

\* An accepted turn without an end is saved, or its end is on the way.
NoTurnForgotten ==
    Linked =>
        \A t \in Turns : Unended(t) =>
            \/ t \in cmds
            \/ \E i \in DOMAIN ending : ending[i] = t
            \/ \E i \in DOMAIN emitted : i > podSeq /\ emitted[i] = Finished(t)

\* The turn that was accepted last ends in time, whatever was lost, unless the
\* session stops or its agent exits.  A turn that another one follows may never
\* end: that is what NoTurnForgotten shows for two turns.
LastTurnEnds ==
    \A t \in Turns :
        (t \in accepted) ~> \/ ~Unended(t) \/ session = "stopped" \/ proc # "alive"
                           \/ \E u \in accepted : u > t

\* The link implements the abstract event log: the agent writes, the store
\* holds a growing prefix, and the outbox forgets only what the store holds.
Log == INSTANCE PodLog WITH LogEvent <- Event, log <- emitted, stored <- recorded,
                            forgotten <- rAcked, status <- session

ImplementsPodLog == Log!LogSpec

\* The link implements the fair event log: whatever streams and processes were
\* lost, each event of the agent is stored in the end, unless the session stops.
ImplementsFairPodLog == Log!FairLogSpec

-----------------------------------------------------------------------------
(* The inductive invariant behind the first three safety properties: from  *)
(* the store to the feed, the queues hold consecutive event numbers.       *)

\* Frame f comes after event n.
Follows(n, f) == f.seq = IF f.type = "event" THEN n + 1 ELSE n

\* The frames of s lead from event from to event to.
Path(from, s, to) ==
    /\ s = <<>> => from = to
    /\ s # <<>> => Follows(from, s[1]) /\ s[Len(s)].seq = to
    /\ \A i \in 1..(Len(s) - 1) : Follows(s[i].seq, s[i + 1])

\* The event frames of s carry the events of log.
Genuine(s, log) ==
    \A i \in 1..Len(s) : s[i].type = "event" =>
        /\ s[i].seq \in 1..Len(log)
        /\ s[i].ev = log[s[i].seq]

\* In s an event follows the event, or the replay point, before it.
Consecutive(s) ==
    \A i \in 1..(Len(s) - 1) :
        s[i + 1].type = "event" => s[i + 1].seq = s[i].seq + 1

\* No frame of the last replay in s is ahead of n.
NotAhead(s, n) ==
    \A i \in 1..Len(s) :
        (\A j \in (i + 1)..Len(s) : s[j].type = "event") => s[i].seq <= n

\* The frames of s answer the Replays after the first starts ones, up to total.
Answers(starts, s, total) ==
    /\ s = <<>> => starts = total
    /\ s # <<>> =>
         /\ s[1].gen = IF s[1].type = "state" THEN starts + 1 ELSE starts
         /\ s[Len(s)].gen = total
    /\ \A i \in 1..(Len(s) - 1) :
         s[i + 1].gen = IF s[i + 1].type = "state" THEN s[i].gen + 1 ELSE s[i].gen
    /\ \A i \in 1..Len(s) : s[i].gen <= total
    /\ \A i, j \in 1..Len(s) : (i < j /\ s[j].type = "state") => s[i].gen < s[j].gen

EndOfUp == IF ioUp = <<>> THEN delivered ELSE ioUp[Len(ioUp)].seq

\* The Replays whose ReplayStart was sent.
StartsSent == IF feed = "starting" THEN replays - 1 ELSE replays

CountersInv ==
    /\ failed = "none"
    /\ rAcked <= podSeq /\ acked <= podSeq
    /\ podSeq <= delivered /\ delivered <= Len(emitted)
    /\ RecordedOnceInOrder

\* The ReplayStarts in frames answer the Replays the sidecar counts.
ReplaysInv ==
    /\ feed = "off" => frames = <<>>
    /\ feed = "starting" => replays > 0
    /\ Answers(replayStarts, frames, StartsSent)

FeedInv ==
    /\ feed # "off" => delivered <= cursor /\ cursor <= Len(emitted)
    /\ (feed = "on" /\ frames # <<>>) => frames[Len(frames)].seq = cursor
    /\ feed = "on" => NotAhead(frames, cursor)
    /\ Consecutive(frames)

\* Where a stream stands: what is on it starts after what was delivered.
StreamInv ==
    /\ io # "live" => ioUp = <<>>
    /\ io = "opening" => ioDown # <<>> /\ ioDown[1] = Open(delivered)
    /\ io = "replaying" =>
         /\ replayStarts < replays /\ feed # "off"
         /\ feed = "starting" => cursor = delivered
         /\ \A i \in 1..Len(frames) :
              (frames[i].type = "state" /\ frames[i].gen = replays)
                  => frames[i].seq = delivered
    /\ io = "live" =>
         /\ replayStarts = replays /\ feed = "on"
         /\ \A i \in 1..Len(frames) : frames[i].type = "event"
         /\ Path(delivered, ioUp, EndOfUp)
         /\ \A i \in 1..Len(ioUp) : ioUp[i].seq <= EndOfUp
         /\ Path(EndOfUp, frames, cursor) /\ EndOfUp <= cursor

AcksInv ==
    /\ \A i \in 1..Len(ioDown) : ioDown[i].type = "ack" => ioDown[i].n <= podSeq
    /\ \A i \in 1..Len(strays) : strays[i].type = "ack" => strays[i].n <= podSeq

QueuesInv ==
    /\ Path(podSeq, inbox, delivered)
    /\ \A i \in 1..Len(inbox) : inbox[i].seq <= delivered
    /\ Genuine(inbox, emitted) /\ Genuine(ioUp, emitted) /\ Genuine(frames, emitted)

\* The queues between the agent's outbox and the store hold consecutive events,
\* each frame answers the Replay the sidecar counts it for, and no ack on the
\* way down is ahead of the store.
LinkInv == CountersInv /\ ReplaysInv /\ FeedInv /\ StreamInv /\ AcksInv /\ QueuesInv

=============================================================================
