---------------------------- MODULE Permissions ----------------------------
(***************************************************************************)
(* A permission request from the agent to its answer.  The agent asks in   *)
(* the pod (runner/session.go), the consumer of the harness registers the  *)
(* request and records it (harnessapi/consume.go), and then three parties  *)
(* may close it: a caller (service.go), the deadline's timer (sink.go) and *)
(* the reconciliation with the pod's state after a reconnect.  They work   *)
(* under permMu but on three stores that a crash or a failed write leaves  *)
(* apart: the waiters in memory, the saved decisions, the event log.       *)
(*                                                                         *)
(* The AgentIO link is the one of AgentLink, reduced to its contract: the  *)
(* frames of a stream arrive in order, a new stream starts with the pod's  *)
(* state, a lost one takes the commands that were sent and not received.   *)
(* Each request has its own tool call id.                                  *)
(***************************************************************************)
EXTENDS Naturals, Sequences, FiniteSets, SequencesExt

Store == INSTANCE SessionStore

CONSTANTS
    Requests,       \* the requests that the agent may make
    Options,        \* the options that each one offers
    Callers,        \* the calls of RespondPermission
    InboxMax,       \* inboxSize
    MaxDrops,       \* bound: streams that are lost
    MaxRestarts,    \* bound: harness restarts
    MaxStoreFaults, \* bound: store writes and reads that fail
    RareFaults      \* "unreadLog": the reads of recordedDeadlines fail too;
                    \* "cutStop": a crash falls between the writes of a stop

None       == "none"
Cancelled  == "cancelled"
Expired    == "expired"
Superseded == "superseded"
Nobody     == "nobody"
Unoffered  == "unoffered"   \* an option that the request does not have
Dropped    == "dropped"     \* the agent ended before it got an answer

ASSUME PermissionsAssumption ==
    /\ IsFiniteSet(Requests) /\ IsFiniteSet(Options) /\ IsFiniteSet(Callers)
    /\ InboxMax \in Nat \ {0}
    /\ MaxDrops \in Nat /\ MaxRestarts \in Nat /\ MaxStoreFaults \in Nat
    /\ RareFaults \subseteq {"unreadLog", "cutStop"}
    /\ None \notin Requests
    /\ Options \cap {None, Cancelled, Expired, Superseded, Dropped, Unoffered} = {}
    /\ Callers \cap {Nobody, "consumer", "timer", "stop"} = {}

VARIABLES
    \* the pod: agent-runner's session
    emitted,   \* the events in the outbox, by number
    perms,     \* session.perms: the requests that wait
    got,       \* what RequestPermission returned to the agent, by request
    agent,     \* "up", or "exited" once the process ended
    \* the link
    stream,    \* whether an AgentIO stream is up
    inbox,     \* attachedRun's inbox: State and event frames
    delivered, \* the number of the last event put in the inbox
    down,      \* the decisions on their way to the pod
    \* the session store
    podSeq,    \* the number of the last agent event recorded
    log,       \* the permission events of the event log
    cmds,      \* the decisions saved as pod commands, by request
    ended,     \* whether the session has a terminal status
    \* the binding and its logSink
    waiters,   \* by request: no waiter, or what its timer does
    fired,     \* timer callbacks that have not got permMu yet, by request
    stopped,   \* logSink.stopped
    closed,    \* who closed b.done: a stop, a shutdown or nobody
    permMu,    \* who holds permMu
    consumer,  \* where consume() is
    expiry,    \* where the expirePermission that holds permMu is
    stopper,   \* where stopLive() is
    memo,      \* Service.resolved
    calls,     \* where each RespondPermission is
    \* the faults used up
    drops, restarts, storeFaults

podVars   == <<emitted, perms, got, agent>>
linkVars  == <<stream, inbox, delivered, down>>
storeVars == <<podSeq, log, cmds, ended>>
sinkVars  == <<waiters, fired, stopped>>
bindVars  == <<closed, permMu, consumer, expiry, stopper, memo, calls>>
faultVars == <<drops, restarts, storeFaults>>

vars == <<podVars, linkVars, storeVars, sinkVars, bindVars, faultVars>>

Outcomes == Options \cup {Cancelled}

\* A permission event of the log: a request, or how it closed.
Asked(r)       == [request |-> r, how |-> None]
Resolved(r, h) == [request |-> r, how |-> h]

Resolutions(r) == {i \in DOMAIN log : log[i].request = r /\ log[i].how # None}
InLog(r)       == \E i \in DOMAIN log : log[i] = Asked(r)

\* Frames of the inbox.
StateFrame(pending) == [type |-> "state", pending |-> pending, n |-> 0]
EventFrame(k)       == [type |-> "event", pending |-> {}, n |-> k]

Idle  == [at |-> "idle", req |-> None, opt |-> None, left |-> {}]
At(at, r, o, left) == [at |-> at, req |-> r, opt |-> o, left |-> left]

Init ==
    /\ emitted = <<>> /\ perms = {} /\ agent = "up"
    /\ got = [r \in Requests |-> None]
    /\ stream = FALSE /\ inbox = <<>> /\ delivered = 0 /\ down = <<>>
    /\ podSeq = 0 /\ log = <<>> /\ ended = FALSE
    /\ cmds = [r \in Requests |-> None]
    /\ waiters = [r \in Requests |-> "no"]
    /\ fired = [r \in Requests |-> 0]
    /\ stopped = FALSE /\ closed = Nobody /\ permMu = Nobody
    /\ consumer = Idle /\ expiry = Idle /\ stopper = Idle
    /\ memo = {}
    /\ calls = [c \in Callers |-> Idle]
    /\ drops = 0 /\ restarts = 0 /\ storeFaults = 0

-----------------------------------------------------------------------------
(* The agent and its runner.                                               *)

\* RequestPermission: the request waits before its event is in the outbox.
RequestPermission(r) ==
    /\ agent = "up"
    /\ got[r] = None /\ r \notin perms
    /\ perms' = perms \cup {r}
    /\ emitted' = Append(emitted, r)
    /\ UNCHANGED <<got, agent, linkVars, storeVars, sinkVars, bindVars, faultVars>>

\* session.decide: a decision for a request that does not wait is ignored.
decide ==
    /\ stream /\ down # <<>>
    /\ down' = Tail(down)
    /\ LET d == Head(down) IN
         IF d.req \in perms
         THEN /\ perms' = perms \ {d.req}
              /\ got' = [got EXCEPT ![d.req] = d.opt]
         ELSE UNCHANGED <<perms, got>>
    /\ UNCHANGED <<emitted, agent, stream, inbox, delivered, storeVars, sinkVars,
                   bindVars, faultVars>>

\* The process ends: every waiting RequestPermission returns "cancelled" to
\* nobody and leaves session.perms (dropPermission).
dropPermissions ==
    /\ agent = "up"
    /\ agent' = "exited"
    /\ got' = [r \in Requests |-> IF r \in perms THEN Dropped ELSE got[r]]
    /\ perms' = {}
    /\ UNCHANGED <<emitted, linkVars, storeVars, sinkVars, bindVars, faultVars>>

-----------------------------------------------------------------------------
(* The link.                                                               *)

\* A stream opens with the pod's state; the events follow it.
Attach ==
    /\ ~stream /\ closed = Nobody /\ ~ended
    /\ Len(inbox) < InboxMax
    /\ stream' = TRUE
    /\ inbox' = Append(inbox, StateFrame(perms))
    /\ UNCHANGED <<podVars, delivered, down, storeVars, sinkVars, bindVars, faultVars>>

Deliver ==
    /\ stream /\ delivered < Len(emitted) /\ Len(inbox) < InboxMax
    /\ delivered' = delivered + 1
    /\ inbox' = Append(inbox, EventFrame(delivered + 1))
    /\ UNCHANGED <<podVars, stream, down, storeVars, sinkVars, bindVars, faultVars>>

\* A stream is lost with the commands it had taken; the others wait for the
\* next one.
Drop ==
    /\ stream /\ drops < MaxDrops
    /\ drops' = drops + 1
    /\ stream' = FALSE
    /\ \E k \in 0..Len(down) : down' = SubSeq(down, k + 1, Len(down))
    /\ UNCHANGED <<podVars, inbox, delivered, storeVars, sinkVars, bindVars,
                   restarts, storeFaults>>

-----------------------------------------------------------------------------
(* logSink.                                                                *)

\* await and register refuse a request that has a waiter, and a stopped sink.
register(r) == waiters[r] = "no" /\ ~stopped

\* arm: a waiter that is still there and has no timer gets one.
arm(r) ==
    waiters' = [waiters EXCEPT ![r] = IF @ = "bare" /\ ~stopped THEN "armed" ELSE @]

take(r) == waiters' = [waiters EXCEPT ![r] = "no"]

\* restore puts a taken waiter back, with a timer.
restore(r) == waiters' = [waiters EXCEPT ![r] = IF register(r) THEN "armed" ELSE @]

Pending == {r \in Requests : waiters[r] # "no"}

\* The deadline passes: the timer's callback starts unless the sink stopped.
fire(r) ==
    /\ waiters[r] = "armed" /\ ~stopped
    /\ waiters' = [waiters EXCEPT ![r] = "spent"]
    /\ fired' = [fired EXCEPT ![r] = @ + 1]
    /\ UNCHANGED <<stopped, podVars, linkVars, storeVars, bindVars, faultVars>>

-----------------------------------------------------------------------------
(* The store.  A write of the store takes effect or fails.                 *)

StoreFault == /\ storeFaults < MaxStoreFaults
              /\ storeFaults' = storeFaults + 1

StoreOK == UNCHANGED storeFaults

\* recordEvent: an event of a session that ended is dropped, without an error.
recordEvent(e) ==
    log' = IF ended THEN log
           ELSE Store!InsertSessionEvent(log, Store!NextSessionEventSeq(log), e)

\* emit: a failed write is logged and forgotten.
emit(e) == \/ StoreOK /\ recordEvent(e)
           \/ StoreFault /\ UNCHANGED log

\* session.Decide: the command is queued for the stream.
Decide(r, o) == down' = Append(down, [req |-> r, opt |-> o])

-----------------------------------------------------------------------------
(* The consumer.                                                           *)

\* handleEvent, up to the write: the waiter is there before the request is
\* in the log, without a timer.
HandleEvent ==
    /\ consumer = Idle /\ inbox # <<>> /\ Head(inbox).type = "event"
    /\ inbox' = Tail(inbox)
    /\ LET n == Head(inbox).n
           r == emitted[n]
           fresh == IF register(r) THEN "fresh" ELSE "known"
       IN /\ waiters' = [waiters EXCEPT ![r] = IF register(r) THEN "bare" ELSE @]
          /\ consumer' = At("record", r, fresh, {n})
    /\ UNCHANGED <<podVars, stream, delivered, down, storeVars, fired, stopped,
                   closed, permMu, expiry, stopper, memo, calls, faultVars>>

\* recordPod: the event and its number are written together, again and again
\* while the session is bound.
RecordRequest ==
    /\ consumer.at = "record"
    /\ recordEvent(Asked(consumer.req))
    /\ podSeq' = IF ended THEN podSeq
                 ELSE Store!AdvancePodSeq(podSeq, CHOOSE n \in consumer.left : TRUE)
    /\ consumer' = [consumer EXCEPT !.at = "arm"]
    /\ UNCHANGED <<podVars, linkVars, cmds, ended, sinkVars, closed, permMu, expiry,
                   stopper, memo, calls, faultVars>>

\* The binding closed before the write: the waiter is dropped and consume()
\* returns.
DropRequest ==
    /\ consumer.at = "record" /\ closed # Nobody
    /\ IF consumer.opt = "fresh" THEN take(consumer.req) ELSE UNCHANGED waiters
    /\ consumer' = At("gone", None, None, {})
    /\ UNCHANGED <<podVars, linkVars, storeVars, fired, stopped, closed, permMu,
                   expiry, stopper, memo, calls, faultVars>>

ArmRequest ==
    /\ consumer.at = "arm"
    /\ IF consumer.opt = "fresh" THEN arm(consumer.req) ELSE UNCHANGED waiters
    /\ consumer' = Idle
    /\ UNCHANGED <<podVars, linkVars, storeVars, fired, stopped, closed, permMu,
                   expiry, stopper, memo, calls, faultVars>>

\* dropCommand, once for each request: the row with its key goes.
dropCommands(rs) ==
    [r \in Requests |-> IF r \in rs THEN Store!DeletePodCommand(cmds, r, None)[r] ELSE cmds[r]]

\* reconcileState, under permMu: the decisions the pod still waits for are sent
\* again, the others are dropped (dropCommand; a failed delete is only logged).
\* Mutant: every saved decision is dropped, as if the pod had it.
DropsDecisions ==
    /\ consumer = Idle /\ inbox # <<>> /\ Head(inbox).type = "state"
    /\ permMu = Nobody
    /\ permMu' = "consumer"
    /\ inbox' = Tail(inbox)
    /\ cmds' = [r \in Requests |-> None]
    /\ consumer' = At("await", None, None, Head(inbox).pending)
    /\ UNCHANGED <<podVars, stream, delivered, down, podSeq, log, ended, sinkVars, closed,
                   expiry, stopper, memo, calls, faultVars>>

reconcileState ==
    /\ consumer = Idle /\ inbox # <<>> /\ Head(inbox).type = "state"
    /\ permMu = Nobody
    /\ permMu' = "consumer"
    /\ inbox' = Tail(inbox)
    /\ LET pending == Head(inbox).pending
           saved   == Store!ListPodCommands(cmds, None)
           resend  == SetToSeq(saved \cap pending)
       IN /\ down' = down \o [i \in DOMAIN resend |->
                                [req |-> resend[i], opt |-> cmds[resend[i]]]]
          /\ \E kept \in SUBSET (saved \ pending) :
               /\ IF kept = {} THEN StoreOK ELSE StoreFault
               /\ cmds' = dropCommands((saved \ pending) \ kept)
          /\ consumer' = At("await", None, None, pending)
    /\ UNCHANGED <<podVars, stream, delivered, podSeq, log, ended, sinkVars, closed,
                   expiry, stopper, memo, calls, drops, restarts>>

\* The requests that the pod waits for, that no decision answers and that have
\* no waiter: the ones in the log get one for their recorded deadline.  When
\* the log cannot be read, all of them get one for a new deadline.
\* Mutant: a request without a waiter is left to the event that replays it.
AwaitsNothing ==
    /\ consumer.at = "await"
    /\ StoreOK
    /\ consumer' = At("supersede", None, None, Pending \ consumer.left)
    /\ UNCHANGED <<podVars, linkVars, storeVars, sinkVars, closed, permMu,
                   expiry, stopper, memo, calls, drops, restarts>>

recordedDeadlines ==
    /\ consumer.at = "await"
    /\ LET missing == {r \in consumer.left : cmds[r] = None /\ register(r)}
           history == Range(Store!ListSessionEvents(log, 0, Len(log)))
           recorded == {r \in missing : Asked(r) \in history}
       IN \E wait \in {missing, recorded} :
            /\ IF wait = recorded
               THEN StoreOK ELSE "unreadLog" \in RareFaults /\ StoreFault
            /\ waiters' = [r \in Requests |-> IF r \in wait THEN "armed" ELSE waiters[r]]
            /\ consumer' = At("supersede", None, None,
                              (Pending \cup wait) \ consumer.left)
    /\ UNCHANGED <<podVars, linkVars, storeVars, fired, stopped, closed, permMu,
                   expiry, stopper, memo, calls, drops, restarts>>

\* A waiter whose request the pod no longer has is closed as superseded, or put
\* back when the binding closes first.
SupersedeDropped(r) ==
    /\ consumer.at = "supersede" /\ r \in consumer.left
    /\ \/ /\ take(r)
          /\ recordEvent(Resolved(r, Superseded))
          /\ consumer' = [consumer EXCEPT !.at = "clear", !.req = r]
       \/ /\ closed # Nobody
          /\ waiters' = [waiters EXCEPT ![r] = "bare"]   \* reinstate: no timer
          /\ consumer' = [consumer EXCEPT !.left = @ \ {r}]
          /\ UNCHANGED log
    /\ UNCHANGED <<podVars, linkVars, podSeq, cmds, ended, fired, stopped, closed, permMu,
                   expiry, stopper, memo, calls, faultVars>>

ClearDropped ==
    /\ consumer.at = "clear"
    /\ \/ cmds' = Store!DeletePodCommand(cmds, consumer.req, None)
       \/ closed # Nobody /\ UNCHANGED cmds
    /\ consumer' = At("supersede", None, None, consumer.left \ {consumer.req})
    /\ UNCHANGED <<podVars, linkVars, podSeq, log, ended, sinkVars, closed, permMu,
                   expiry, stopper, memo, calls, faultVars>>

Reconciled ==
    /\ consumer.at = "supersede" /\ consumer.left = {}
    /\ consumer' = Idle /\ permMu' = Nobody
    /\ UNCHANGED <<podVars, linkVars, storeVars, sinkVars, closed, expiry, stopper,
                   memo, calls, faultVars>>

\* consume() returns once the binding is closed.
ConsumerReturns ==
    /\ consumer = Idle /\ closed # Nobody
    /\ consumer' = At("gone", None, None, {})
    /\ UNCHANGED <<podVars, linkVars, storeVars, sinkVars, closed, permMu, expiry,
                   stopper, memo, calls, faultVars>>

-----------------------------------------------------------------------------
(* RespondPermission.                                                      *)

\* A caller answers a request that it saw in the log.  A request answered
\* before is OK again, whatever the option; without a binding it is unknown.
Respond(c, r, o) ==
    /\ calls[c] = Idle /\ InLog(r) /\ ~ended
    /\ calls' = [calls EXCEPT ![c] =
                   At(CASE r \in memo -> "ok"
                        [] r \notin memo /\ closed # Nobody -> "refused"
                        [] OTHER -> "lock", r, o, {})]
    /\ UNCHANGED <<podVars, linkVars, storeVars, sinkVars, closed, permMu, consumer,
                   expiry, stopper, memo, faultVars>>

\* The request waits and offered the option.
validate(r, o) == r \in Pending /\ o \in Options

\* The call that takes the waiter answers the request.
RespondTake(c) ==
    /\ calls[c].at = "lock" /\ permMu = Nobody
    /\ IF validate(calls[c].req, calls[c].opt)
       THEN /\ take(calls[c].req)
            /\ permMu' = c
            /\ calls' = [calls EXCEPT ![c].at = "save"]
       ELSE /\ calls' = [calls EXCEPT ![c].at = "refused"]
            /\ UNCHANGED <<waiters, permMu>>
    /\ UNCHANGED <<podVars, linkVars, storeVars, fired, stopped, closed, consumer,
                   expiry, stopper, memo, faultVars>>

\* saveDecision; when it fails the request is open again.
RespondSave(c) ==
    /\ calls[c].at = "save"
    /\ \/ /\ StoreOK
          /\ cmds' = Store!PutPodCommand(cmds, calls[c].req, calls[c].opt)
          /\ calls' = [calls EXCEPT ![c].at = "emit"]
          /\ UNCHANGED <<waiters, permMu>>
       \/ /\ StoreFault
          /\ restore(calls[c].req)
          /\ calls' = [calls EXCEPT ![c].at = "refused"]
          /\ permMu' = Nobody
          /\ UNCHANGED cmds
    /\ UNCHANGED <<podVars, linkVars, podSeq, log, ended, fired, stopped, closed,
                   consumer, expiry, stopper, memo, drops, restarts>>

RespondEmit(c) ==
    /\ calls[c].at = "emit"
    /\ emit(Resolved(calls[c].req, calls[c].opt))
    /\ calls' = [calls EXCEPT ![c].at = "decide"]
    /\ UNCHANGED <<podVars, linkVars, podSeq, cmds, ended, sinkVars, closed, permMu,
                   consumer, expiry, stopper, memo, drops, restarts>>

RespondDecide(c) ==
    /\ calls[c].at = "decide"
    /\ Decide(calls[c].req, calls[c].opt)
    /\ memo' = memo \cup {calls[c].req}
    /\ calls' = [calls EXCEPT ![c].at = "ok"]
    /\ permMu' = Nobody
    /\ UNCHANGED <<podVars, stream, inbox, delivered, storeVars, sinkVars, closed,
                   consumer, expiry, stopper, faultVars>>

\* resolvedTTL passes.
ForgetResolved(r) ==
    /\ r \in memo
    /\ memo' = memo \ {r}
    /\ UNCHANGED <<podVars, linkVars, storeVars, sinkVars, closed, permMu, consumer,
                   expiry, stopper, calls, faultVars>>

-----------------------------------------------------------------------------
(* expirePermission, in a timer's callback.                                *)

\* Mutant: the callback does not ask whether the request is still open.
ExpiresTwice(r) ==
    /\ fired[r] > 0 /\ permMu = Nobody
    /\ fired' = [fired EXCEPT ![r] = @ - 1]
    /\ IF closed # Nobody
       THEN UNCHANGED <<waiters, permMu, expiry>>
       ELSE /\ take(r)
            /\ permMu' = "timer"
            /\ expiry' = At("save", r, Cancelled, {})
    /\ UNCHANGED <<podVars, linkVars, storeVars, stopped, closed, consumer, stopper,
                   memo, calls, faultVars>>

ExpireTake(r) ==
    /\ fired[r] > 0 /\ permMu = Nobody
    /\ fired' = [fired EXCEPT ![r] = @ - 1]
    /\ IF closed # Nobody \/ r \notin Pending
       THEN UNCHANGED <<waiters, permMu, expiry>>
       ELSE /\ take(r)
            /\ permMu' = "timer"
            /\ expiry' = At("save", r, Cancelled, {})
    /\ UNCHANGED <<podVars, linkVars, storeVars, stopped, closed, consumer, stopper,
                   memo, calls, faultVars>>

ExpireSave ==
    /\ expiry.at = "save"
    /\ \/ /\ StoreOK
          /\ cmds' = Store!PutPodCommand(cmds, expiry.req, Cancelled)
          /\ expiry' = [expiry EXCEPT !.at = "emit"]
          /\ UNCHANGED <<waiters, permMu>>
       \/ /\ StoreFault
          /\ restore(expiry.req)
          /\ expiry' = Idle
          /\ permMu' = Nobody
          /\ UNCHANGED cmds
    /\ UNCHANGED <<podVars, linkVars, podSeq, log, ended, fired, stopped, closed,
                   consumer, stopper, memo, calls, drops, restarts>>

ExpireEmit ==
    /\ expiry.at = "emit"
    /\ emit(Resolved(expiry.req, Expired))
    /\ expiry' = [expiry EXCEPT !.at = "decide"]
    /\ UNCHANGED <<podVars, linkVars, podSeq, cmds, ended, sinkVars, closed, permMu,
                   consumer, stopper, memo, calls, drops, restarts>>

ExpireDecide ==
    /\ expiry.at = "decide"
    /\ Decide(expiry.req, Cancelled)
    /\ expiry' = Idle
    /\ permMu' = Nobody
    /\ UNCHANGED <<podVars, stream, inbox, delivered, storeVars, sinkVars, closed,
                   consumer, stopper, memo, calls, faultVars>>

-----------------------------------------------------------------------------
(* Stop, shutdown and restart.                                             *)

\* detach closes the binding, for a stop of the session.
StopClose ==
    /\ closed = Nobody /\ ~ended
    /\ closed' = "stop"
    /\ UNCHANGED <<podVars, linkVars, storeVars, sinkVars, permMu, consumer, expiry,
                   stopper, memo, calls, faultVars>>

\* stopLive waits for the consumer, takes permMu and closes the link.
StopLive ==
    /\ closed = "stop" /\ stopper = Idle
    /\ consumer.at = "gone" /\ permMu = Nobody
    /\ permMu' = "stop"
    /\ stream' = FALSE
    /\ stopper' = At("supersede", None, None, {})
    /\ UNCHANGED <<podVars, inbox, delivered, down, storeVars, sinkVars, closed, consumer,
                   expiry, memo, calls, faultVars>>

supersedeAll(r) ==
    /\ stopper.at = "supersede" /\ r \in Pending
    /\ take(r)
    /\ emit(Resolved(r, Superseded))
    /\ UNCHANGED <<podVars, linkVars, podSeq, cmds, ended, fired, stopped, closed, permMu,
                   consumer, expiry, stopper, memo, calls, drops, restarts>>

\* DeletePodCommands; a failure is only logged.
StopDeletes ==
    /\ stopper.at = "supersede" /\ Pending = {}
    /\ \/ StoreOK /\ cmds' = Store!DeletePodCommandsForSession(cmds, None)
       \/ StoreFault /\ UNCHANGED cmds
    /\ permMu' = Nobody
    /\ stopper' = At("teardown", None, None, {})
    /\ UNCHANGED <<podVars, linkVars, podSeq, log, ended, sinkVars, closed, consumer,
                   expiry, memo, calls, drops, restarts>>

\* The workspace goes, with the agent in it, and the session ends.
StopEnds ==
    /\ stopper.at = "teardown" /\ ~ended
    /\ agent' = "exited"
    /\ got' = [r \in Requests |-> IF r \in perms THEN Dropped ELSE got[r]]
    /\ perms' = {}
    /\ ended' = TRUE
    /\ UNCHANGED <<emitted, linkVars, podSeq, log, cmds, sinkVars, bindVars, faultVars>>

\* Service.Shutdown closes the binding and stops the sink once the consumer
\* returned; it waits for the callbacks that fire() let through.
ShutdownClose ==
    /\ closed = Nobody /\ ~ended /\ restarts < MaxRestarts
    /\ closed' = "shutdown"
    /\ UNCHANGED <<podVars, linkVars, storeVars, sinkVars, permMu, consumer, expiry,
                   stopper, memo, calls, faultVars>>

ShutdownStop ==
    /\ closed = "shutdown" /\ consumer.at = "gone" /\ ~stopped
    /\ stopped' = TRUE
    /\ UNCHANGED <<podVars, linkVars, storeVars, waiters, fired, bindVars, faultVars>>

\* The new process adopts the session: its memory is empty and the stream
\* resumes after the recorded number.
Adopt ==
    /\ restarts' = restarts + 1
    /\ stream' = FALSE /\ inbox' = <<>> /\ delivered' = podSeq /\ down' = <<>>
    /\ waiters' = [r \in Requests |-> "no"]
    /\ fired' = [r \in Requests |-> 0]
    /\ stopped' = FALSE /\ closed' = Nobody /\ permMu' = Nobody
    /\ consumer' = Idle /\ expiry' = Idle /\ stopper' = Idle
    /\ memo' = {}
    /\ calls' = [c \in Callers |-> IF calls[c].at \in {"idle", "ok", "refused"}
                                    THEN calls[c] ELSE [calls[c] EXCEPT !.at = "refused"]]
    /\ UNCHANGED <<podVars, storeVars, drops, storeFaults>>

Crash ==
    /\ restarts < MaxRestarts /\ ~ended
    /\ stopper = Idle \/ "cutStop" \in RareFaults
    /\ Adopt

ShutdownDone ==
    /\ stopped /\ expiry = Idle /\ \A r \in Requests : fired[r] = 0
    /\ Adopt

-----------------------------------------------------------------------------
Agent == \/ \E r \in Requests : RequestPermission(r)
         \/ decide \/ dropPermissions

Link == Attach \/ Deliver \/ Drop

Consumer ==
    \/ HandleEvent \/ RecordRequest \/ DropRequest \/ ArmRequest
    \/ reconcileState \/ recordedDeadlines
    \/ \E r \in Requests : SupersedeDropped(r)
    \/ ClearDropped \/ Reconciled \/ ConsumerReturns

RespondPermission(c) ==
    \/ \E r \in Requests, o \in Options \cup {Unoffered} : Respond(c, r, o)
    \/ RespondTake(c) \/ RespondSave(c) \/ RespondEmit(c) \/ RespondDecide(c)

Timer ==
    \/ \E r \in Requests : fire(r) \/ ExpireTake(r)
    \/ ExpireSave \/ ExpireEmit \/ ExpireDecide

stopLive == \/ StopLive \/ StopDeletes \/ StopEnds
            \/ \E r \in Requests : supersedeAll(r)

Shutdown == ShutdownClose \/ ShutdownStop \/ ShutdownDone

Next ==
    \/ Agent \/ Link \/ Consumer \/ Timer
    \/ \E c \in Callers : RespondPermission(c)
    \/ \E r \in Requests : ForgetResolved(r)
    \/ StopClose \/ stopLive \/ Shutdown \/ Crash

Spec == Init /\ [][Next]_vars

\* The goroutines of the harness run, its timers fire, and the sandbox attaches
\* again and takes what it is sent.  Nothing is fair that a person, the agent
\* or a fault decides.
Fairness ==
    /\ WF_vars(Consumer)
    /\ WF_vars(Attach) /\ WF_vars(Deliver) /\ WF_vars(decide)
    /\ WF_vars(stopLive) /\ WF_vars(ShutdownStop \/ ShutdownDone)
    /\ WF_vars(ExpireSave \/ ExpireEmit \/ ExpireDecide)
    /\ \A r \in Requests : WF_vars(fire(r)) /\ SF_vars(ExpireTake(r))
    /\ \A c \in Callers :
         WF_vars(RespondSave(c) \/ RespondEmit(c) \/ RespondDecide(c))

FairSpec == Spec /\ Fairness

-----------------------------------------------------------------------------
Frame     == [type : {"state", "event"}, pending : SUBSET Requests, n : Nat]
Decision  == [req : Requests, opt : Outcomes]
Entry     == [request : Requests, how : Options \cup {None, Expired, Superseded}]
CallState == [at : {"idle", "lock", "save", "emit", "decide", "ok", "refused"},
              req : Requests \cup {None}, opt : Options \cup {None, Unoffered}, left : {{}}]
TimerState == [at : {"idle", "save", "emit", "decide"},
               req : Requests \cup {None}, opt : {None, Cancelled}, left : {{}}]
StopState  == [at : {"idle", "supersede", "teardown"}, req : {None}, opt : {None}, left : {{}}]
ConsumerState ==
    [at : {"idle", "record", "arm", "await", "supersede", "clear", "gone"},
     req : Requests \cup {None}, opt : {None, "fresh", "known"}, left : SUBSET (Requests \cup Nat)]

PodType ==
    /\ emitted \in Seq(Requests) /\ perms \subseteq Requests
    /\ got \in [Requests -> Outcomes \cup {None, Dropped}]
    /\ agent \in {"up", "exited"}
LinkType ==
    /\ stream \in BOOLEAN
    /\ inbox \in Seq(Frame) /\ Len(inbox) <= InboxMax
    /\ delivered \in 0..Len(emitted) /\ podSeq \in 0..delivered
    /\ down \in Seq(Decision)
StoreType ==
    /\ log \in Seq(Entry) /\ ended \in BOOLEAN
    /\ cmds \in [Requests -> Outcomes \cup {None}]
SinkType ==
    /\ waiters \in [Requests -> {"no", "bare", "armed", "spent"}]
    /\ fired \in [Requests -> Nat] /\ stopped \in BOOLEAN
BindType ==
    /\ closed \in {Nobody, "stop", "shutdown"}
    /\ permMu \in {Nobody, "consumer", "timer", "stop"} \cup Callers
    /\ consumer \in ConsumerState /\ expiry \in TimerState /\ stopper \in StopState
    /\ memo \subseteq Requests /\ calls \in [Callers -> CallState]
FaultType ==
    /\ drops \in 0..MaxDrops /\ restarts \in 0..MaxRestarts
    /\ storeFaults \in 0..MaxStoreFaults

TypeOK == PodType /\ LinkType /\ StoreType /\ SinkType /\ BindType /\ FaultType

-----------------------------------------------------------------------------
(* What the safety properties rest on.                                     *)

\* permMu serialises whoever decides: its holder is in the middle of a
\* reconciliation, an expiry, a stop or a call.
MuHeld ==
    /\ permMu = "consumer" <=> consumer.at \in {"await", "supersede", "clear"}
    /\ permMu = "timer" <=> expiry.at # "idle"
    /\ permMu = "stop" <=> stopper.at = "supersede"
    /\ \A c \in Callers : permMu = c <=> calls[c].at \in {"save", "emit", "decide"}

\* A stop and a shutdown wait for the consumer.
StopWaits ==
    /\ stopper.at # "idle" => closed = "stop" /\ consumer.at = "gone"
    /\ stopped => closed = "shutdown" /\ consumer.at = "gone"
    /\ closed = "shutdown" => restarts < MaxRestarts
    /\ ended => stopper.at = "teardown"

\* The agent asks for each request once, and waits until it got something.
AskedOnce ==
    /\ \A m, n \in DOMAIN emitted : emitted[m] = emitted[n] => m = n
    /\ \A n \in DOMAIN emitted : emitted[n] \in perms \/ got[emitted[n]] # None

\* A request is handled once: what is in the log lies behind podSeq, what the
\* consumer has at hand and what is in the inbox after it.
HandledOnce ==
    /\ \A r \in Requests : InLog(r) => \E n \in DOMAIN emitted : n <= podSeq /\ emitted[n] = r
    /\ \A i \in DOMAIN inbox : inbox[i].type = "event" => inbox[i].n \in (podSeq + 1)..delivered
    /\ \A i, j \in DOMAIN inbox :
         i < j /\ inbox[i].type = "event" /\ inbox[j].type = "event" => inbox[i].n < inbox[j].n
    /\ consumer.at = "record" =>
         \E n \in DOMAIN emitted :
            /\ consumer.left = {n} /\ emitted[n] = consumer.req /\ n \in (podSeq + 1)..delivered
            /\ \A i \in DOMAIN inbox : inbox[i].type = "event" => n < inbox[i].n
    /\ consumer.at = "arm" => consumer.req \in Requests /\ InLog(consumer.req)

\* A State frame without a request was sent before the request was asked for,
\* whose event then follows it, or after the agent stopped waiting for it.
FramesInOrder ==
    \A i \in DOMAIN inbox, n \in DOMAIN emitted :
        inbox[i].type = "state" /\ emitted[n] \notin inbox[i].pending =>
            \/ n > delivered
            \/ \E j \in DOMAIN inbox : j > i /\ inbox[j].type = "event" /\ inbox[j].n = n
            \/ /\ emitted[n] \notin perms
               /\ \A j \in DOMAIN inbox :
                    j > i /\ inbox[j].type = "state" => emitted[n] \notin inbox[j].pending

\* The answer to a request, wherever there is a trace of it.
Outcome(how) == IF how = Expired THEN Cancelled ELSE how
AnswersIt(i, r) == log[i].request = r /\ log[i].how \notin {None, Superseded}
Verdict(r, o) ==
    \/ \E i \in DOMAIN log : AnswersIt(i, r) /\ Outcome(log[i].how) = o
    \/ cmds[r] = o \/ got[r] = o
    \/ \E i \in DOMAIN down : down[i].req = r /\ down[i].opt = o
Decided(r) == \E o \in Outcomes : Verdict(r, o)

\* Every trace of an answer tells the same one, and the log tells it once.
OneVerdict ==
    /\ \A r \in Requests : \A o, p \in Outcomes : Verdict(r, o) /\ Verdict(r, p) => o = p
    /\ \A r \in Requests : \A i, j \in DOMAIN log : AnswersIt(i, r) /\ AnswersIt(j, r) => i = j
    /\ \A r \in Requests : Decided(r) => InLog(r)

\* A request that has a waiter is open, and in the log once it has a timer.
OpenWaits ==
    \A r \in Requests :
        /\ waiters[r] # "no" => ~Decided(r)
        /\ waiters[r] \in {"armed", "spent"} \/ fired[r] > 0 => InLog(r)
        /\ waiters[r] = "bare" =>
             \/ InLog(r)
             \/ consumer.at = "record" /\ consumer.opt = "fresh" /\ consumer.req = r

\* Whoever took a waiter decides alone.
ClaimOf(x) ==
    /\ x.at = "lock" => x.req \in Requests /\ InLog(x.req)
    /\ x.at \in {"save", "emit", "decide"} =>
         /\ x.req \in Requests /\ x.opt \in Outcomes
         /\ InLog(x.req) /\ waiters[x.req] = "no"
    /\ x.at = "save" => ~Decided(x.req)
    /\ x.at \in {"emit", "decide"} => cmds[x.req] = x.opt
    /\ x.at = "emit" => \A i \in DOMAIN log : ~AnswersIt(i, x.req)
Claims == ClaimOf(expiry) /\ \A c \in Callers : ClaimOf(calls[c])

\* What the reconciliation supersedes has waiters, so no decision is saved for it.
Supersedes ==
    /\ consumer.at \in {"await", "supersede", "clear"} => consumer.left \subseteq Requests
    /\ consumer.at = "supersede" => \A r \in consumer.left : waiters[r] # "no"
    /\ consumer.at = "clear" => /\ consumer.req \in Requests /\ cmds[consumer.req] = None
                                /\ \A r \in consumer.left \ {consumer.req} : waiters[r] # "no"

\* A decision is deleted only when the pod no longer waits for it, whatever
\* states the pod sent are still to be reconciled: the request is not reopened.
SettledForGood ==
    \A r \in Requests : Decided(r) /\ cmds[r] = None /\ stopper.at # "teardown" =>
        /\ r \notin perms
        /\ \A i \in DOMAIN inbox : inbox[i].type = "state" => r \notin inbox[i].pending
        /\ consumer.at = "await" => r \notin consumer.left

-----------------------------------------------------------------------------
\* The answers to a request that its readers were told of.
Answers(r) == {i \in Resolutions(r) : /\ log[i].how # Superseded
                                      /\ \E j \in 1..(i - 1) : log[j] = Asked(r)}

\* A caller, the deadline and a reconciliation may reach for one request at the
\* same time, before and after a restart: the log tells of at most one answer
\* to it (sink.take, consume.go reconcileState).
AnsweredOnce == \A r \in Requests : Cardinality(Answers(r)) <= 1

\* What the agent was told is what the log tells its readers: an answer in the
\* log is the one the agent got, and the agent never got an option for a
\* request that expired (service.go RespondPermission, consume.go
\* expirePermission, reconcileState).
AgentGotTheAnswer ==
    \A r \in Requests : \A i \in Answers(r) :
        got[r] \in Outcomes =>
            got[r] = (IF log[i].how = Expired THEN Cancelled ELSE log[i].how)

\* The inductive invariant.
DecisionInv ==
    /\ TypeOK /\ MuHeld /\ StopWaits /\ AskedOnce /\ HandledOnce /\ FramesInOrder
    /\ OneVerdict /\ OpenWaits /\ Claims /\ Supersedes /\ SettledForGood
PermissionInv == DecisionInv /\ AnsweredOnce /\ AgentGotTheAnswer

\* An agent that waits for a decision gets one, or its session stops: a lost
\* stream, a restart or a failed write leaves no request without a timer, a
\* saved decision or a replay (sink.restore, await, reconcileState).
AgentIsAnswered == \A r \in Requests : r \in perms ~> got[r] # None

\* A caller that got OK after it took the request is obeyed: the agent gets
\* that option, unless the agent is gone (saveDecision, reconcileState).
OkReachesAgent ==
    \A r \in Requests, o \in Options :
        cmds[r] = o ~> got[r] \in {o, Dropped}

=============================================================================
