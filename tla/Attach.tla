------------------------------- MODULE Attach -------------------------------
(***************************************************************************)
(* The control stream of a run: the sidecar's client (sidecar/             *)
(* harnessclient/client.go, cmd/sidecar), the Attach handlers of the       *)
(* harness (agentlink/server.go, agentlink/run.go) and the supervision of  *)
(* the sandbox (sandbox/orchestrator.go), from Expect to the end of the    *)
(* session.  AgentLink has the AgentIO stream and SessionOwner the end of  *)
(* a session in the store.  The pod is not modelled: a teardown may fail,  *)
(* and nothing here relies on it.                                          *)
(***************************************************************************)
EXTENDS Naturals, Sequences, FiniteSets

CONSTANTS
    Slots,     \* the Attach streams that exist at once
    MaxFaults  \* bound: streams that break, restarts of the sidecar and of the
               \* harness, and failures in the sandbox

None == "none"

ASSUME AttachAssumption ==
    IsFiniteSet(Slots) /\ Slots # {} /\ None \notin Slots /\ MaxFaults \in Nat

VARIABLES
    \* agentlink.Server: the handlers of the streams, and the run
    handlers,
    run,       \* [expected, live, attached, ready]: whether s.runs has it, the
               \* stream that it has, and its channels
    notifyMu,  \* the handler that has run.notifyMu
    holding,   \* the harness is starting (startupHold)
    \* Orchestrator, Attachment, and the session that they belong to
    launch,    \* how far Activate is: "attach", "ready", "spawn", "mark",
               \* "session", "live", "failed", or "adopt" at a startup
    spawned,
    grace,     \* the grace timer
    firing,    \* a timer has fired, and its function is about to run
    stop,      \* "no", "asked", "forget" or "done"
    \* the streams
    conn, up, down,
    \* Client, and the runner
    client,
    runner,    \* "none", "running" or "stopped": the agent session it holds
    orphan,    \* history: the start of the agent was cut off, and it runs
    faults

serverVars  == <<handlers, run, notifyMu, holding>>
sessionVars == <<launch, spawned, grace, firing, stop>>
streamVars  == <<conn, up, down>>
podVars     == <<client, runner, orphan>>
vars        == <<serverVars, sessionVars, streamVars, podVars, faults>>

\* The statuses that change something, and the manager's frames; heartbeats are
\* in Silent.
SidecarFrames == {"ready", "error"}
ManagerFrames == {"ack", "spawn", "shutdown"}

\* How a stream ends for the client: a status code, or without one.
AnswerCodes == {"Unavailable", "AlreadyExists", "NotFound", "eof"}

NoHandler == [at |-> "gone", running |-> FALSE, notify |-> "no", fired |-> FALSE,
              closed |-> FALSE, silent |-> FALSE, directives |-> <<>>]

NewRun == [expected |-> TRUE, live |-> None, attached |-> FALSE, ready |-> FALSE]
NoRun  == [NewRun EXCEPT !.expected = FALSE]

NewClient == [at |-> "start", slot |-> None, agent |-> FALSE, lost |-> FALSE, spawn |-> "no",
              proxy |-> FALSE]

\* The run was created and is expected; the sidecar has its token.
Init ==
    /\ handlers = [a \in Slots |-> NoHandler]
    /\ run = NewRun /\ notifyMu = None /\ holding = FALSE
    /\ launch = "attach" /\ spawned = FALSE /\ grace = "off" /\ firing = FALSE /\ stop = "no"
    /\ conn = [a \in Slots |-> "cut"]
    /\ up = [a \in Slots |-> <<>>] /\ down = [a \in Slots |-> <<>>]
    /\ client = NewClient /\ runner = "none" /\ orphan = FALSE
    /\ faults = 0

Fails == faults < MaxFaults /\ faults' = faults + 1
Works == UNCHANGED faults

-----------------------------------------------------------------------------
(* Attachment: what a session does about its sandbox.                      *)

\* fire: the session is stopped once, unless the run is forgotten.
Fire(cond) == stop' = IF cond /\ run.expected /\ stop = "no" THEN "asked" ELSE stop

\* A callback that fired returns when the session is stopped; a launch is only
\* told to stop.
Returned == launch # "live" \/ stop = "done"

\* The grace timer fires and its function runs, whatever becomes of the timer.
GraceFires ==
    /\ grace = "armed"
    /\ grace' = "off" /\ firing' = TRUE
    /\ UNCHANGED <<serverVars, launch, spawned, stop, streamVars, podVars, faults>>

TunnelLost ==
    /\ firing
    /\ firing' = FALSE
    /\ Fire(TRUE)
    /\ UNCHANGED <<serverVars, launch, spawned, grace, streamVars, podVars, faults>>

-----------------------------------------------------------------------------
(* Server.Attach.                                                          *)

At(a, at) == handlers[a].at = at

\* The stream ends with an answer for the client.
Answer(a, code) ==
    /\ handlers' = [handlers EXCEPT ![a] = NoHandler]
    /\ down' = [down EXCEPT ![a] = IF conn[a] = "up" THEN Append(@, code) ELSE @]
    /\ up' = [up EXCEPT ![a] = <<>>]
    /\ UNCHANGED conn

\* lookup reads the expectations, and then whether the harness is starting.
Lookup(a) ==
    /\ At(a, "lookup")
    /\ handlers' = [handlers EXCEPT ![a].at = IF run.expected THEN "hello" ELSE "unknown"]
    /\ UNCHANGED <<run, notifyMu, holding, sessionVars, streamVars, podVars, faults>>

\* Mutant: an unknown run is always to be tried again.
AlwaysHolds(a) ==
    /\ At(a, "unknown")
    /\ Answer(a, "Unavailable")
    /\ UNCHANGED <<run, notifyMu, holding, sessionVars, podVars, faults>>

LookupUnknown(a) ==
    /\ At(a, "unknown")
    /\ Answer(a, IF holding THEN "Unavailable" ELSE "NotFound")
    /\ UNCHANGED <<run, notifyMu, holding, sessionVars, podVars, faults>>

\* claim: a live stream is replaced when it has been silent for an interval.
Claim(a) ==
    /\ At(a, "hello")
    /\ \/ /\ ~run.expected
          /\ Answer(a, "NotFound") /\ UNCHANGED run
       \/ /\ run.expected /\ run.live # None /\ ~handlers[run.live].silent
          /\ Answer(a, "AlreadyExists") /\ UNCHANGED run
       \/ /\ run.expected /\ (run.live # None => handlers[run.live].silent)
          /\ handlers' = [b \in Slots |->
                 IF b = a THEN [handlers[a] EXCEPT !.at = "ack"]
                 ELSE IF b = run.live THEN [handlers[b] EXCEPT !.closed = TRUE]
                 ELSE handlers[b]]
          /\ run' = [run EXCEPT !.live = a]
          /\ UNCHANGED streamVars
    /\ UNCHANGED <<notifyMu, holding, sessionVars, podVars, faults>>

\* The stream breaks before Hello is read.
HelloLost(a) ==
    /\ At(a, "hello") /\ conn[a] = "cut"
    /\ Answer(a, "eof")
    /\ UNCHANGED <<run, notifyMu, holding, sessionVars, podVars, faults>>

\* serveAttach returns.
Leave(a) == handlers' = [handlers EXCEPT ![a] = [NoHandler EXCEPT !.at = "leave"]]

\* serveAttach sends HelloAck, and tells the session about the stream.  It
\* returns at once if the stream broke or the run is forgotten meanwhile.
AckSent(a) ==
    /\ At(a, "ack")
    /\ \/ /\ handlers' = [handlers EXCEPT ![a].at = "serve", ![a].notify = "waits"]
          /\ run' = [run EXCEPT !.attached = TRUE]
       \/ /\ conn[a] = "cut" \/ ~run.expected
          /\ Leave(a)
          /\ UNCHANGED run
    /\ down' = [down EXCEPT ![a] = IF conn[a] = "up" THEN Append(@, "ack") ELSE @]
    /\ UNCHANGED <<notifyMu, holding, sessionVars, conn, up, podVars, faults>>

\* notifyAttached, with OnAttached: the timer is stopped, and a sandbox that
\* lost its agent ends the session.
Notify(a) ==
    /\ handlers[a].notify = "waits" /\ notifyMu = None
    /\ notifyMu' = a
    /\ grace' = "off"
    /\ LET lost == spawned /\ ~handlers[a].running
       IN /\ handlers' = [handlers EXCEPT ![a].notify = "runs", ![a].running = FALSE,
                                           ![a].fired = lost]
          /\ Fire(lost)
    /\ UNCHANGED <<run, holding, launch, spawned, firing, streamVars, podVars, faults>>

Notified(a) ==
    /\ handlers[a].notify = "runs" /\ (handlers[a].fired => Returned)
    /\ notifyMu' = None
    /\ handlers' = [handlers EXCEPT ![a].notify = "done", ![a].fired = FALSE]
    /\ UNCHANGED <<run, holding, sessionVars, streamVars, podVars, faults>>

\* The frames of the sidecar are held back until the session knows about the
\* stream.  READY is for whoever waits for it; an error ends the session.
HandleSidecarFrame(a) ==
    /\ At(a, "serve") /\ handlers[a].notify = "done" /\ up[a] # <<>>
    /\ up' = [up EXCEPT ![a] = Tail(@)]
    /\ LET error == Head(up[a]) = "error"
       IN /\ run' = IF error THEN run ELSE [run EXCEPT !.ready = TRUE]
          /\ handlers' = IF error THEN [handlers EXCEPT ![a].at = "error"] ELSE handlers
          /\ Fire(error)
    /\ UNCHANGED <<notifyMu, holding, launch, spawned, grace, firing, conn, down, podVars, faults>>

ErrorHandled(a) ==
    /\ At(a, "error") /\ Returned
    /\ Leave(a)
    /\ UNCHANGED <<run, notifyMu, holding, sessionVars, streamVars, podVars, faults>>

\* A directive is sent once the stream is settled; one for a stream that broke
\* is lost.
SendDirective(a) ==
    /\ At(a, "serve") /\ handlers[a].notify = "done" /\ handlers[a].directives # <<>>
    /\ handlers' = [handlers EXCEPT ![a].directives = Tail(@)]
    /\ down' = [down EXCEPT ![a] = IF conn[a] = "up"
                                   THEN Append(@, Head(handlers[a].directives)) ELSE @]
    /\ UNCHANGED <<run, notifyMu, holding, sessionVars, conn, up, podVars, faults>>

\* No frame for an interval: nobody sends on a stream that broke.  By then the
\* session was told about the stream, unless a callback that stops it has the lock.
Silent(a) ==
    /\ At(a, "serve") /\ conn[a] = "cut" /\ ~handlers[a].silent
    /\ handlers[a].notify = "waits" => stop # "no"
    /\ handlers' = [handlers EXCEPT ![a].silent = TRUE]
    /\ UNCHANGED <<run, notifyMu, holding, sessionVars, streamVars, podVars, faults>>

\* The stream was closed or broke (which the handler sees,
\* or learns from the missing heartbeats), or the run is forgotten.
ServeEnds(a) ==
    /\ At(a, "serve") /\ handlers[a].notify = "done"
    /\ \/ handlers[a].closed
       \/ ~run.expected
       \/ conn[a] = "cut" /\ up[a] = <<>>
    /\ Leave(a)
    /\ UNCHANGED <<run, notifyMu, holding, sessionVars, streamVars, podVars, faults>>

\* release.  OnLost is called under the lock that notifyAttached takes.
\* Mutant: without it.
ReleasesUnlocked(a) ==
    /\ At(a, "leave")
    /\ handlers' = [handlers EXCEPT ![a].at = "lost"]
    /\ run' = [run EXCEPT !.live = IF @ = a THEN None ELSE @]
    /\ UNCHANGED <<notifyMu, holding, sessionVars, streamVars, podVars, faults>>

Release(a) ==
    /\ At(a, "leave") /\ notifyMu = None
    /\ IF run.live = a
       THEN /\ handlers' = [handlers EXCEPT ![a].at = "lost"]
            /\ run' = [run EXCEPT !.live = None]
            /\ notifyMu' = a
       ELSE /\ handlers' = [handlers EXCEPT ![a].at = "ended"]
            /\ UNCHANGED <<run, notifyMu>>
    /\ UNCHANGED <<holding, sessionVars, streamVars, podVars, faults>>

\* OnLost: the grace timer starts, unless the run is over.
OnLost(a, timer) ==
    /\ At(a, "lost")
    /\ handlers' = [handlers EXCEPT ![a].at = "ended"]
    /\ notifyMu' = IF notifyMu = a THEN None ELSE notifyMu
    /\ grace' = IF run.expected THEN timer ELSE grace
    /\ UNCHANGED <<run, holding, launch, spawned, firing, stop, streamVars, podVars, faults>>

\* Mutant: the session waits as long as it takes.
NeverTimes(a) == OnLost(a, grace)

Lost(a) == OnLost(a, "armed")

\* The handler returns, and with it the stream ends.
Ended(a) ==
    /\ At(a, "ended")
    /\ Answer(a, "eof")
    /\ UNCHANGED <<run, notifyMu, holding, sessionVars, podVars, faults>>

-----------------------------------------------------------------------------
(* Activate, the stop of the session, and a restart of the harness.        *)

\* finish and Forget: the run is no longer expected and its stream is closed.
Forget ==
    /\ run' = NoRun
    /\ handlers' = [a \in Slots |-> IF a = run.live THEN [handlers[a] EXCEPT !.closed = TRUE]
                                     ELSE handlers[a]]
    /\ grace' = "off"

\* dispatch: a directive for a stream that is closed is lost, or refused.
Dispatch(directive) ==
    handlers' = [handlers EXCEPT ![run.live].directives = Append(@, directive)]

\* Activate waits for the first hello and for READY.
awaitAttach ==
    /\ launch = "attach" /\ run.attached
    /\ launch' = "ready"
    /\ UNCHANGED <<serverVars, spawned, grace, firing, stop, streamVars, podVars, faults>>

AwaitReady ==
    /\ launch = "ready" /\ run.ready
    /\ launch' = "spawn"
    /\ UNCHANGED <<serverVars, spawned, grace, firing, stop, streamVars, podVars, faults>>

SpawnAgent ==
    /\ launch = "spawn" /\ run.live # None
    /\ Dispatch("spawn")
    /\ launch' = "mark"
    /\ UNCHANGED <<run, notifyMu, holding, spawned, grace, firing, stop, streamVars, podVars,
                   faults>>

MarkSpawned ==
    /\ launch = "mark"
    /\ spawned' = TRUE /\ launch' = "session"
    /\ UNCHANGED <<serverVars, grace, firing, stop, streamVars, podVars, faults>>

\* awaitReady: the first event arrives, over a stream that is up; the session is
\* registered unless it was told to stop.
SessionReady ==
    /\ launch = "session" /\ stop = "no"
    /\ runner = "running" /\ client.agent /\ client.at = "serve" /\ client.slot = run.live
    /\ launch' = "live"
    /\ UNCHANGED <<serverVars, spawned, grace, firing, stop, streamVars, podVars, faults>>

\* Activate returns an error.  Once the agent was spawned the session is closed.
Unactivated ==
    /\ \/ /\ launch \in {"attach", "ready", "spawn"}
          /\ launch' = "failed" /\ stop' = "done"
          /\ Forget
       \/ /\ launch = "session"
          /\ launch' = "failed" /\ stop' = "asked"
          /\ UNCHANGED <<run, handlers, grace>>
    /\ UNCHANGED <<notifyMu, holding, spawned, firing, streamVars, podVars, faults>>

\* The sandbox did not attach or open its session in time, the pod was replaced,
\* or the session is told to stop.
ActivateFails == Unactivated

\* pollRun cancels the launch: its run was revoked, was not approved before it
\* lapsed, or the authorization server does not know it any more.
pollRun == Unactivated

\* EndSession, a sweep, watchRun or the consumer asks for the end of a live
\* session.
StopAsked ==
    /\ stop = "no" /\ launch = "live"
    /\ stop' = "asked"
    /\ UNCHANGED <<serverVars, launch, spawned, grace, firing, streamVars, podVars, faults>>

\* Session.Close: the Shutdown directive, and then Forget.
CloseShutdown ==
    /\ stop = "asked" /\ launch \in {"live", "failed"}
    /\ stop' = "forget"
    /\ IF run.live = None THEN UNCHANGED handlers ELSE Dispatch("shutdown")
    /\ UNCHANGED <<run, notifyMu, holding, launch, spawned, grace, firing, streamVars, podVars,
                   faults>>

CloseForget ==
    /\ stop = "forget"
    /\ stop' = "done"
    /\ Forget
    /\ UNCHANGED <<notifyMu, holding, launch, spawned, firing, streamVars, podVars, faults>>

\* The process is replaced.  A running session will be adopted, also one whose
\* end was not recorded; a launch is interrupted.
HarnessRestart ==
    /\ Fails
    /\ handlers' = [a \in Slots |-> NoHandler]
    /\ run' = NoRun /\ notifyMu' = None /\ holding' = TRUE
    /\ spawned' = FALSE /\ grace' = "off" /\ firing' = FALSE
    /\ \/ launch \in {"live", "adopt"} /\ launch' = "adopt" /\ stop' = "no"
       \/ launch \notin {"live", "adopt"} /\ launch' = "failed" /\ stop' = "done"
       \/ launch = "live" /\ stop = "done" /\ UNCHANGED <<launch, stop>>
    /\ conn' = [a \in Slots |-> "cut"]
    /\ up' = [a \in Slots |-> <<>>] /\ down' = [a \in Slots |-> <<>>]
    /\ UNCHANGED podVars

\* adopt: the timer runs until the sandbox attaches; or its pod is gone and the
\* session is interrupted.
Adopt ==
    /\ launch = "adopt" /\ holding
    /\ \/ /\ run' = NewRun /\ spawned' = TRUE /\ grace' = "armed"
          /\ launch' = "live" /\ UNCHANGED stop
       \/ /\ launch' = "failed" /\ stop' = "done"
          /\ UNCHANGED <<run, spawned, grace>>
    /\ UNCHANGED <<handlers, notifyMu, holding, firing, streamVars, podVars, faults>>

EndStartupHold ==
    /\ holding /\ launch # "adopt"
    /\ holding' = FALSE
    /\ UNCHANGED <<handlers, run, notifyMu, sessionVars, streamVars, podVars, faults>>

-----------------------------------------------------------------------------
(* The sidecar.                                                            *)

\* A stream breaks; what is under way may be lost.  Each side finds out by
\* itself.
Cut(a) ==
    /\ conn[a] = "up" /\ Fails
    /\ conn' = [conn EXCEPT ![a] = "cut"]
    /\ \E keep \in BOOLEAN : up' = IF keep THEN up ELSE [up EXCEPT ![a] = <<>>]
    /\ down' = [down EXCEPT ![a] = <<>>]
    /\ UNCHANGED <<serverVars, sessionVars, podVars>>

\* The client lets go of its stream, if it has one, which ends it.
Hang ==
    /\ conn' = [a \in Slots |-> IF a = client.slot THEN "cut" ELSE conn[a]]
    /\ down' = [a \in Slots |-> IF a = client.slot THEN <<>> ELSE down[a]]

\* Run returns, and the agent is stopped (Close).
GiveUp ==
    /\ client' = [NewClient EXCEPT !.at = "over", !.spawn = client.spawn]
    /\ runner' = IF client.agent /\ runner = "running" THEN "stopped" ELSE runner
    /\ Hang

joinRunningAgent ==
    /\ client.at = "start"
    /\ client' = [client EXCEPT !.at = "redial", !.agent = runner # "none"]
    /\ UNCHANGED <<serverVars, sessionVars, streamVars, runner, orphan, faults>>

\* session: a stream is opened, with Hello.
Dial(a) ==
    /\ client.at = "redial" /\ At(a, "gone") /\ a = CHOOSE b \in Slots : At(b, "gone")
    /\ conn' = [conn EXCEPT ![a] = "up"]
    /\ handlers' = [handlers EXCEPT ![a] =
           [NoHandler EXCEPT !.at = "lookup", !.running = client.agent \/ client.spawn # "no"]]
    /\ client' = [client EXCEPT !.at = "hello", !.slot = a]
    /\ UNCHANGED <<run, notifyMu, holding, sessionVars, up, down, runner, orphan, faults>>

Gets(a, frame) == client.slot = a /\ down[a] # <<>> /\ Head(down[a]) = frame

Reads(a) == down' = [down EXCEPT ![a] = Tail(@)]

\* The configuration of HelloAck is applied once; READY, and then serve.
Configure(a) ==
    /\ client.at = "hello" /\ Gets(a, "ack")
    /\ \/ /\ Works /\ Reads(a)
          /\ up' = [up EXCEPT ![a] = Append(@, "ready")]
          /\ client' = [client EXCEPT !.at = "serve", !.proxy = TRUE]
          /\ UNCHANGED <<runner, conn>>
       \/ /\ ~client.proxy /\ Fails
          /\ up' = [up EXCEPT ![a] = Append(@, "error")]
          /\ GiveUp
    /\ UNCHANGED <<serverVars, sessionVars, orphan>>

\* The stream ended or was refused: the client tries again, unless the run is
\* not known.
Refused(a) ==
    /\ client.at \in {"hello", "serve"}
    /\ \/ Gets(a, "NotFound") /\ GiveUp
       \/ /\ \E code \in AnswerCodes \ {"NotFound"} : Gets(a, code)
          /\ client' = [client EXCEPT !.at = "redial", !.slot = None] /\ Hang
          /\ UNCHANGED runner
    /\ UNCHANGED <<serverVars, sessionVars, up, orphan, faults>>

\* The stream broke: an error, no heartbeat, or AgentIO was lost.
Drops(a) ==
    /\ client.slot = a /\ conn[a] = "cut"
    /\ client' = [client EXCEPT !.at = "redial", !.slot = None]
    /\ UNCHANGED <<serverVars, sessionVars, streamVars, runner, orphan, faults>>

startSpawn(a) ==
    /\ client.at = "serve" /\ Gets(a, "spawn") /\ Reads(a)
    /\ client' = [client EXCEPT !.spawn = IF client.agent \/ @ # "no" THEN @ ELSE "runs"]
    /\ UNCHANGED <<serverVars, sessionVars, conn, up, runner, orphan, faults>>

Shutdown(a) ==
    /\ client.at = "serve" /\ Gets(a, "shutdown")
    /\ GiveUp
    /\ UNCHANGED <<serverVars, sessionVars, up, orphan, faults>>

\* runSpawn: the runner starts the agent.  If the client stopped meanwhile its
\* request is cut off, or answered and the agent stopped: the runner may have an
\* agent that nobody stops.
SpawnReturns ==
    /\ client.spawn = "runs"
    /\ \/ /\ client.at = "over" /\ Works
          /\ client' = [client EXCEPT !.spawn = "no"]
          /\ \E r \in {"none", "running", "stopped"} : runner' = r /\ orphan' = (r = "running")
       \/ /\ client.at # "over" /\ Works
          /\ client' = [client EXCEPT !.spawn = "no", !.agent = TRUE]
          /\ runner' = "running" /\ UNCHANGED orphan
       \/ /\ client.at # "over" /\ Fails
          /\ client' = [client EXCEPT !.spawn = "failed"]
          /\ UNCHANGED <<runner, orphan>>
    /\ UNCHANGED <<serverVars, sessionVars, streamVars>>

\* The runner loses the agent session.
RunnerLost ==
    /\ client.agent /\ ~client.lost /\ Fails
    /\ client' = [client EXCEPT !.lost = TRUE] /\ runner' = "none"
    /\ UNCHANGED <<serverVars, sessionVars, streamVars, orphan>>

\* The agent did not start or was lost, or Envoy or the token failed (Fail): the
\* error is reported on the stream.
EndWithError(a) ==
    /\ client.at = "serve" /\ client.slot = a
    /\ up' = [up EXCEPT ![a] = IF conn[a] = "up" THEN Append(@, "error") ELSE @]
    /\ GiveUp
    /\ UNCHANGED <<serverVars, sessionVars, orphan>>

Terminal(a) == (client.spawn = "failed" \/ client.lost) /\ EndWithError(a) /\ Works

Fail(a) == EndWithError(a) /\ Fails

\* They fail while there is none, or the token is denied too often.  An agent that
\* was not joined yet stays with the runner.
Dies ==
    /\ client.at \in {"start", "redial", "hello"} /\ Fails
    /\ GiveUp
    /\ orphan' = (client.at = "start" /\ runner = "running")
    /\ UNCHANGED <<serverVars, sessionVars, up>>

\* The container restarts, and the runner keeps what it has.
SidecarRestart ==
    /\ client.at # "over" /\ Fails
    /\ client' = NewClient /\ Hang
    /\ runner' \in IF client.spawn = "runs" THEN {"none", "running"} ELSE {runner}
    /\ UNCHANGED <<serverVars, sessionVars, up, orphan>>

-----------------------------------------------------------------------------
Handler(a) ==
    \/ Lookup(a) \/ LookupUnknown(a) \/ HelloLost(a) \/ Claim(a) \/ AckSent(a)
    \/ Notify(a) \/ Notified(a) \/ HandleSidecarFrame(a) \/ ErrorHandled(a)
    \/ SendDirective(a) \/ ServeEnds(a) \/ Release(a) \/ Lost(a) \/ Ended(a)

\* What the session does by itself: its timers fire, its launch goes on or runs
\* into its deadline, its stop and its startup end.
SessionStep ==
    \/ GraceFires \/ TunnelLost \/ awaitAttach \/ AwaitReady \/ SpawnAgent \/ MarkSpawned \/ SessionReady
    \/ ActivateFails \/ pollRun \/ CloseShutdown \/ CloseForget \/ Adopt \/ EndStartupHold

ClientStep ==
    \/ joinRunningAgent \/ SpawnReturns
    \/ \E a \in Slots : Dial(a) \/ Configure(a) \/ Refused(a) \/ Drops(a) \/ startSpawn(a)
                          \/ Shutdown(a) \/ Terminal(a)

Next ==
    \/ \E a \in Slots : Handler(a) \/ Silent(a) \/ Cut(a) \/ Fail(a)
    \/ SessionStep \/ StopAsked \/ HarnessRestart
    \/ ClientStep \/ RunnerLost \/ Dies \/ SidecarRestart

Spec == Init /\ [][Next]_vars

\* Each handler, the session and the sidecar go on: goroutines run, timers fire,
\* a launch has a deadline, and the client dials until it is told that the run is
\* unknown.  Nothing has to fail.
Fairness ==
    /\ \A a \in Slots : WF_vars(Handler(a))
    /\ WF_vars(SessionStep) /\ WF_vars(ClientStep)

FairSpec == Spec /\ Fairness

-----------------------------------------------------------------------------
HandlerAt == {"gone", "lookup", "unknown", "hello", "ack", "serve", "error", "leave", "lost",
              "ended"}

HandlerType == [at : HandlerAt, running : BOOLEAN, notify : {"no", "waits", "runs", "done"},
                fired : BOOLEAN, closed : BOOLEAN, silent : BOOLEAN,
                directives : Seq({"spawn", "shutdown"})]
RunType == [expected : BOOLEAN, live : Slots \cup {None}, attached : BOOLEAN, ready : BOOLEAN]
ClientType == [at : {"start", "redial", "hello", "serve", "over"}, slot : Slots \cup {None},
               agent : BOOLEAN, lost : BOOLEAN, spawn : {"no", "runs", "failed"},
               proxy : BOOLEAN]

ServerType ==
    /\ handlers \in [Slots -> HandlerType] /\ run \in RunType
    /\ notifyMu \in Slots \cup {None} /\ holding \in BOOLEAN
SessionType ==
    /\ launch \in {"attach", "ready", "spawn", "mark", "session", "live", "failed", "adopt"}
    /\ spawned \in BOOLEAN /\ grace \in {"off", "armed"} /\ firing \in BOOLEAN
    /\ stop \in {"no", "asked", "forget", "done"}
StreamType ==
    /\ conn \in [Slots -> {"up", "cut"}]
    /\ up \in [Slots -> Seq(SidecarFrames)]
    /\ down \in [Slots -> Seq(ManagerFrames \cup AnswerCodes)]
PodType ==
    /\ client \in ClientType /\ runner \in {"none", "running", "stopped"}
    /\ orphan \in BOOLEAN /\ faults \in 0..MaxFaults

TypeOK == ServerType /\ SessionType /\ StreamType /\ PodType

\* The stream that the session knows about is not timed.
AttachedIsNotTimed ==
    \A a \in Slots : run.expected /\ run.live = a /\ handlers[a].notify = "done"
                        /\ At(a, "serve") => grace = "off"

\* A sandbox that had attached and has no stream is timed, or will be, or its
\* session is being stopped.
LostIsTimed ==
    run.expected /\ run.live = None /\ run.attached =>
        \/ grace = "armed" \/ firing \/ stop # "no"
        \/ \E a \in Slots : At(a, "lost")

\* One stream at a time serves the run: the others are closed or on their way out.
OneStreamServes ==
    \A a \in Slots : handlers[a].at \in {"ack", "serve"} /\ ~handlers[a].closed =>
        run.live = a

\* What the three rest on.  A session is told about a stream that it has, before
\* the stream's frames are read and before it can be evicted, unless the session
\* is being stopped.
NotifyAt(a) ==
    LET h == handlers[a]
    IN /\ h.notify # "no" \/ h.silent => h.at \in {"serve", "error"}
       /\ h.notify = "waits" => stop # "no" \/ (run.live = a /\ ~h.silent)
       /\ h.notify = "runs" => notifyMu = a
       /\ h.at = "ack" => run.live = a \/ ~run.expected

\* The stream that the run has is served or about to be released, and is timed
\* only before the session is told about it.
LiveAt(a) ==
    run.live = a =>
        /\ run.expected
        /\ handlers[a].at \in {"ack", "serve", "error", "leave"}
        /\ At(a, "serve") /\ handlers[a].notify \in {"runs", "done"} => grace = "off"

\* OnLost has the lock: the session cannot learn of the next stream meanwhile.
ReleaseAt(a) ==
    At(a, "lost") => /\ notifyMu = a
                     /\ \A b \in Slots : run.live = b => handlers[b].notify \in {"no", "waits"}

\* A run is forgotten with its session, or is not yet adopted; no stream is
\* served until it is.
RunOver ==
    /\ ~run.expected => stop = "done" \/ launch = "adopt"
    /\ stop \in {"forget", "done"} => launch \in {"live", "failed"}
    /\ launch = "adopt" => /\ ~run.expected
                           /\ \A a \in Slots : handlers[a].at \in {"gone", "lookup", "unknown"}

\* The grace timer is right about the stream however the ends and starts of
\* streams interleave (Server.release, notifyAttached, claim): an attached
\* sandbox is never timed out, a lost one always is.
AttachInv ==
    /\ TypeOK /\ AttachedIsNotTimed /\ LostIsTimed /\ OneStreamServes
    /\ \A a \in Slots : NotifyAt(a) /\ LiveAt(a) /\ ReleaseAt(a)
    /\ RunOver

\* When a session is over its agent is stopped, whatever was lost: by the
\* Shutdown directive, or since the sidecar that dials again learns that its run
\* is unknown (Session.Close, Server.lookup, Client.Run).  An agent whose start
\* was cut off goes with the pod.
EndedAgentStops ==
    stop = "done" ~> (runner # "running" \/ orphan \/ stop # "done")

\* A sidecar that gave up ends its session, also when nothing of what it said
\* arrived (Client.Run, serveAttach, startGrace).
SidecarOverEndsSession == client.at = "over" ~> stop = "done"

=============================================================================
