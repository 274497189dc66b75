----------------------------- MODULE AgentRunner -----------------------------
(***************************************************************************)
(* The agent-runner around one agent process (harness/internal/runner):    *)
(* how the process starts, is reaped and is terminated (process.go,        *)
(* reap.go), how its ACP session opens (acp.go openSession), how a turn's  *)
(* updates become events of a bounded size (acp.go Aggregator), and how    *)
(* the end of the process is reported (session.go run, watchExit, finish). *)
(*                                                                         *)
(* What the harness does with the events, and how turns reach the queue,   *)
(* is AgentLink; permission requests are Permissions.  Here the harness    *)
(* only acks, and may stop doing so.                                       *)
(***************************************************************************)
EXTENDS Naturals, Sequences, FiniteSets, SequencesExt

CONSTANTS
    PartMax,     \* partMax, in bytes
    OutboxMax,   \* outboxMax, in events
    MaxTurns,    \* bound: turns that are sent
    MaxUpdates,  \* bound: updates that the agent sends
    MaxPages,    \* maxSessionListPages
    UsageTurns,  \* the turns for which the agent may report its usage
    SendsLate    \* whether updates may arrive while no turn runs

ASSUME RunnerAssumption ==
    /\ PartMax \in Nat \ {0, 1}         \* a part has room for a character
    /\ OutboxMax \in Nat \ {0} /\ MaxTurns \in Nat /\ MaxUpdates \in Nat
    /\ MaxPages \in Nat \ {0} /\ SendsLate \in BOOLEAN
    /\ UsageTurns \subseteq 1..MaxTurns

VARIABLES
    \* runner.Service
    closed,     \* Service.closed
    \* agentProc and Reaper
    proc,       \* "none", "forked" (alive), "zombie" (ended, not reaped), "gone"
    tracked,    \* whether the reaper knows the pid
    starting,   \* Start holds the reaper's lock
    reaping,    \* Reaper.Run still runs
    done,       \* agentProc.done: the exit code arrived
    stragglers, \* whether processes of the agent's group are left
    term,       \* how far terminate() is; it runs once
    conn,       \* whether the pipes to the agent are open
    \* session
    run,        \* where session.run() is
    opening,    \* where openSession() is, for a new or a resumed session
    queue,      \* the turns that wait
    running,    \* session.running
    \* Aggregator
    agg,
    \* outbox
    emitted, acked,
    released,   \* outbox.open
    \* what the agent was asked and what it sent
    turns,      \* turns sent
    updates,    \* updates sent
    said,       \* by turn: the text and the tool calls of the answer, in order
    mused       \* by turn: the text of the thoughts

procVars == <<proc, tracked, starting, reaping, done, stragglers, term, conn>>
sessVars == <<run, opening, queue, running>>
outVars  == <<emitted, acked, released>>
histVars == <<turns, updates, said, mused>>

vars == <<closed, procVars, sessVars, agg, outVars, histVars>>

Turns == 1..MaxTurns
NoTurn == 0

\* A character is one or two bytes; a byte knows whether it starts one.
Byte(n, first) == [n |-> n, first |-> first]
Chars(n) == {<<Byte(n, TRUE)>>, <<Byte(n, TRUE), Byte(n, FALSE)>>}
Tool(n)  == [n |-> n, first |-> TRUE]

Event(kind, turn, part, text, final) ==
    [kind |-> kind, turn |-> turn, part |-> part, text |-> text, final |-> final]

Plain(kind, turn) == Event(kind, turn, NoTurn, <<>>, FALSE)

NotOpening == [at |-> "none", resume |-> FALSE, page |-> 0]

Init ==
    /\ closed = FALSE
    /\ proc = "none" /\ tracked = FALSE /\ starting = FALSE /\ reaping = TRUE
    /\ done = FALSE /\ stragglers = FALSE /\ term = "no" /\ conn = FALSE
    /\ run = "none" /\ opening = NotOpening
    /\ queue = <<>> /\ running = NoTurn
    /\ agg = [turn |-> NoTurn, part |-> 0, buf |-> <<>>, thought |-> <<>>,
              jobs |-> <<>>, by |-> "free"]
    /\ emitted = <<>> /\ acked = 0 /\ released = FALSE
    /\ turns = 0 /\ updates = 0
    /\ said = [t \in Turns |-> <<>>] /\ mused = [t \in Turns |-> <<>>]

-----------------------------------------------------------------------------
(* The outbox.                                                             *)

HasRoom == released \/ Len(emitted) - acked < OutboxMax

\* append with urgent: never waits.
emit(e) == emitted' = Append(emitted, e) /\ UNCHANGED <<acked, released>>

ack ==
    /\ acked < Len(emitted)
    /\ acked' = Len(emitted)
    /\ UNCHANGED <<closed, procVars, sessVars, agg, emitted, released, histVars>>

-----------------------------------------------------------------------------
(* The process.                                                            *)

\* Service.open with Spawn: the first one starts the agent, unless the runner
\* is closing; spawn fails when a pipe or the start does.  cmd.Start runs
\* under the reaper's lock.
open ==
    /\ run = "none" /\ ~closed /\ ~starting /\ proc = "none"
    /\ proc' = "forked" /\ starting' = TRUE
    /\ stragglers' = TRUE /\ conn' = TRUE
    /\ UNCHANGED <<closed, tracked, reaping, done, term, sessVars, agg, outVars, histVars>>

\* Reaper.Start ends: the pid is tracked, and newSession and run() follow.
Start ==
    /\ starting
    /\ starting' = FALSE /\ tracked' = TRUE
    /\ run' = "open"
    /\ \E resume \in BOOLEAN :
         opening' = [at |-> "initialize", resume |-> resume, page |-> 0]
    /\ UNCHANGED <<closed, proc, reaping, done, stragglers, term, conn, queue,
                   running, agg, outVars, histVars>>

\* The agent's process ends, on its own or after a signal.
ProcessEnds ==
    /\ proc = "forked"
    /\ proc' = "zombie"
    /\ UNCHANGED <<closed, tracked, starting, reaping, done, stragglers, term, conn,
                   sessVars, agg, outVars, histVars>>

\* Reaper.reap, on SIGCHLD or the ticker, under the lock: an unknown pid is an
\* orphan, and nobody is told.
\* Mutant: the lock does not cover the start.
ReapsUnlocked ==
    /\ reaping /\ proc = "zombie"
    /\ proc' = "gone" /\ tracked' = FALSE
    /\ done' = tracked
    /\ UNCHANGED <<closed, starting, reaping, stragglers, term, conn, sessVars, agg,
                   outVars, histVars>>

reap ==
    /\ reaping /\ ~starting /\ proc = "zombie"
    /\ proc' = "gone" /\ tracked' = FALSE
    /\ done' = tracked
    /\ UNCHANGED <<closed, starting, reaping, stragglers, term, conn, sessVars, agg,
                   outVars, histVars>>

\* terminate: TERM first unless the agent is done; KILL to what is left of its
\* group when it ends or the delay passes.  It runs once.
Terminate ==
    /\ term' = IF done THEN "kill" ELSE "term"
    /\ UNCHANGED <<closed, proc, tracked, starting, reaping, done, stragglers, conn,
                   sessVars, agg, outVars, histVars>>

\* session.stop: a Stop frame, or an ACP session that did not open.
Stop == run \notin {"none", "over"} /\ term = "no" /\ Terminate

KillDelay ==
    /\ term = "term"
    /\ term' = "kill"
    /\ UNCHANGED <<closed, proc, tracked, starting, reaping, done, stragglers, conn,
                   sessVars, agg, outVars, histVars>>

Kill ==
    /\ term = "kill"
    /\ term' = "over"
    /\ stragglers' = FALSE
    /\ proc' = IF proc = "forked" THEN "zombie" ELSE proc
    /\ UNCHANGED <<closed, tracked, starting, reaping, done, conn, sessVars, agg,
                   outVars, histVars>>

\* Service.Close: no session is spawned any more, and the agent is terminated.
Close ==
    /\ closed' = TRUE
    /\ term' = IF run # "none" /\ term = "no" THEN (IF done THEN "kill" ELSE "term") ELSE term

\* The runner's main on SIGTERM: the context of Reaper.Run ends, and Close.
Signalled ==
    /\ ~closed /\ ~starting
    /\ reaping' = FALSE
    /\ Close
    /\ UNCHANGED <<proc, tracked, starting, done, stragglers, conn, sessVars, agg,
                   outVars, histVars>>

\* watchExit: the outbox lets everything through, the group is killed, and
\* the pipes are closed at their end or after the drain grace.
ReleaseOutbox ==
    /\ done /\ ~released
    /\ released' = TRUE
    /\ term' = IF term = "no" THEN "kill" ELSE term
    /\ UNCHANGED <<closed, proc, tracked, starting, reaping, done, stragglers, conn,
                   sessVars, agg, emitted, acked, histVars>>

ClosePipes ==
    /\ released /\ term = "over" /\ conn
    /\ conn' = FALSE
    /\ UNCHANGED <<closed, proc, tracked, starting, reaping, done, stragglers, term,
                   sessVars, agg, outVars, histVars>>

-----------------------------------------------------------------------------
(* openSession.  The agent answers each request or fails it; once it is     *)
(* dead and its pipes are closed, they all fail.                           *)

Answering == proc = "forked" /\ conn
Dead      == proc \in {"zombie", "gone"} /\ (~conn \/ ~stragglers)

OpenAt(at, page) ==
    /\ run = "open"
    /\ opening' = [opening EXCEPT !.at = at, !.page = page]
    /\ UNCHANGED <<closed, procVars, run, queue, running, agg, outVars, histVars>>

\* SessionFailed, then the agent is stopped and run() waits for its end.
OpenFails(kind) ==
    /\ run = "open" /\ (Answering \/ Dead)
    /\ emit(Plain(kind, NoTurn))
    /\ term' = IF term = "no" THEN (IF done THEN "kill" ELSE "term") ELSE term
    /\ run' = "finish" /\ opening' = NotOpening
    /\ UNCHANGED <<closed, proc, tracked, starting, reaping, done, stragglers, conn,
                   queue, running, agg, histVars>>


\* The capabilities decide whether and how a conversation can be resumed.
Initialize ==
    /\ opening.at = "initialize"
    /\ \/ OpenFails("failed")
       \/ /\ Answering
          /\ \/ ~opening.resume /\ OpenAt("new", 0)
             \/ /\ opening.resume
                /\ OpenFails("unresumable") \/ OpenAt("list", 0) \/ OpenAt("resume", 0)

\* confirmSessionKnown: the session is on the page, there is another page, or
\* it was the last one; a failed call or too many pages are no answer.
confirmSessionKnown ==
    /\ opening.at = "list"
    /\ \/ (Answering \/ Dead) /\ OpenAt("resume", 0)
       \/ /\ Answering
          /\ OpenFails("unresumable") \/ (opening.page + 1 < MaxPages /\
                                           OpenAt("list", opening.page + 1))

NewSession ==
    /\ opening.at = "new"
    /\ OpenFails("failed") \/ (Answering /\ OpenAt("mode", 0))

ResumeSession ==
    /\ opening.at = "resume"
    /\ OpenFails("unresumable") \/ (Answering /\ OpenAt("mode", 0))

\* SetSessionMode may fail; an option of the template that the agent does not
\* have, or refuses, fails the session.
SetMode == opening.at = "mode" /\ (Answering \/ Dead) /\ OpenAt("config", 0)

SetConfig ==
    /\ opening.at = "config" /\ run = "open"
    /\ \/ OpenFails("failed")
       \/ /\ Answering
          /\ emit(Plain("ready", NoTurn))
          /\ run' = "turns"
          /\ opening' = NotOpening
          /\ UNCHANGED <<closed, procVars, queue, running, agg, histVars>>

openSession == \/ Initialize \/ confirmSessionKnown \/ NewSession
               \/ ResumeSession \/ SetMode \/ SetConfig

-----------------------------------------------------------------------------
(* The Aggregator.  Its lock is held while its events wait for room: "by"   *)
(* says for whom, "jobs" what is left to emit.                             *)

\* cutPart: the longest part that ends where a character does.
\* Mutant: the cut may fall inside a character.
CutsAnywhere(text) == IF Len(text) <= PartMax THEN Len(text) ELSE PartMax

cutPart(text) ==
    IF Len(text) <= PartMax THEN Len(text)
    ELSE CHOOSE i \in 1..PartMax :
            /\ text[i + 1].first
            /\ \A j \in (i + 1)..PartMax : ~text[j + 1].first

Has(text, full) == IF full THEN text # <<>> ELSE Len(text) > PartMax

\* Whether a job has something to emit: all of its text, or only what exceeds
\* a part (splitFullLocked).
Busy(a, job) ==
    CASE job.of = "thought" -> Has(a.thought, job.all)
      [] job.of = "message" -> Has(a.buf, job.all)
      [] OTHER -> TRUE

\* The jobs that are left; after the last one the lock is free.
Locked(a, jobs, by) ==
    LET left == SelectSeq(jobs, LAMBDA job : Busy(a, job))
    IN [a EXCEPT !.jobs = left,
                 !.by = IF left = <<>> THEN "free" ELSE by,
                 !.turn = IF left = <<>> /\ by = "end" THEN NoTurn ELSE @]

Job(of, all, final) == [of |-> of, all |-> all, final |-> final]

\* Update holds the lock from the write of the text to the last event.
updateJobs(kind) ==
    CASE kind = "message" -> <<Job("thought", TRUE, FALSE), Job("message", FALSE, FALSE)>>
      [] kind = "thought" -> <<Job("thought", FALSE, FALSE)>>
      [] OTHER            -> <<Job("thought", TRUE, FALSE), Job("message", TRUE, FALSE),
                               Job("tool", TRUE, FALSE)>>

Tell(hist, items) ==
    IF agg.turn = NoTurn THEN hist ELSE [hist EXCEPT ![agg.turn] = @ \o items]

Update(kind) ==
    /\ conn /\ run \in {"turns", "prompt", "end", "end with usage", "usage", "report"}
    /\ updates < MaxUpdates
    /\ agg.by = "free"
    /\ agg.turn # NoTurn \/ SendsLate
    /\ updates' = updates + 1
    /\ \E text \in Chars(updates + 1) :
         /\ agg' = Locked([agg EXCEPT
                              !.buf = IF kind = "message" THEN @ \o text ELSE @,
                              !.thought = IF kind = "thought" THEN @ \o text ELSE @],
                          updateJobs(kind), "update")
         /\ said' = CASE kind = "message" -> Tell(said, text)
                      [] kind = "tool" -> Tell(said, <<Tool(updates + 1)>>)
                      [] OTHER -> said
         /\ mused' = IF kind = "thought" THEN Tell(mused, text) ELSE mused
    /\ UNCHANGED <<closed, procVars, sessVars, outVars, turns>>

\* One event of the first job, once the outbox has room.
EmitPart ==
    /\ agg.jobs # <<>> /\ HasRoom
    /\ LET job == Head(agg.jobs)
           i   == cutPart(IF job.of = "thought" THEN agg.thought ELSE agg.buf)
       IN CASE job.of = "thought" ->
                 /\ emit(Event("thought", agg.turn, 0, SubSeq(agg.thought, 1, i), FALSE))
                 /\ agg' = Locked([agg EXCEPT !.thought = SubSeq(@, i + 1, Len(@))],
                                  agg.jobs, agg.by)
            [] job.of = "message" ->
                 /\ emit(Event("message", agg.turn, agg.part + 1, SubSeq(agg.buf, 1, i),
                               job.final /\ i = Len(agg.buf)))
                 /\ agg' = Locked([agg EXCEPT !.buf = SubSeq(@, i + 1, Len(@)),
                                              !.part = @ + 1], agg.jobs, agg.by)
            [] OTHER ->
                 /\ emit(Event("tool", agg.turn, 0, <<Tool(updates)>>, FALSE))
                 /\ agg' = Locked(agg, Tail(agg.jobs), agg.by)
    /\ UNCHANGED <<closed, procVars, sessVars, histVars>>

-----------------------------------------------------------------------------
(* Turns, and the end of the session.                                      *)

\* session.prompt: a turn is queued until the session finished.
prompt ==
    /\ turns < MaxTurns /\ run \notin {"none", "exited", "over"}
    /\ turns' = turns + 1
    /\ queue' = Append(queue, turns + 1)
    /\ UNCHANGED <<closed, procVars, run, opening, running, agg, outVars, updates,
                   said, mused>>

\* nextTurn and Aggregator.Begin: what was left of the text is forgotten.
runTurn ==
    /\ run = "turns" /\ ~done /\ queue # <<>> /\ agg.by = "free"
    /\ run' = "prompt"
    /\ queue' = Tail(queue) /\ running' = Head(queue)
    /\ agg' = [agg EXCEPT !.turn = Head(queue), !.part = 0, !.buf = <<>>, !.thought = <<>>]
    /\ UNCHANGED <<closed, procVars, opening, outVars, histVars>>

\* conn.Prompt returns: the agent answers, with or without its usage, or fails
\* the turn, or it is dead.
PromptReturns ==
    /\ run = "prompt"
    /\ \/ (Answering \/ Dead) /\ run' = "end"
       \/ Answering /\ running \in UsageTurns /\ run' = "end with usage"
    /\ UNCHANGED <<closed, procVars, opening, queue, running, agg, outVars, histVars>>

\* Aggregator.End takes the lock.
End ==
    /\ run \in {"end", "end with usage"} /\ agg.by = "free"
    /\ agg' = Locked(agg, <<Job("thought", TRUE, FALSE), Job("message", TRUE, TRUE)>>, "end")
    /\ run' = IF run = "end" THEN "report" ELSE "usage"
    /\ UNCHANGED <<closed, procVars, opening, queue, running, outVars, histVars>>

\* The usage waits for room in the outbox.
TellUsage ==
    /\ run = "usage" /\ agg.by # "end" /\ HasRoom
    /\ emit(Plain("usage", running))
    /\ run' = "report"
    /\ UNCHANGED <<closed, procVars, opening, queue, running, agg, histVars>>

TurnFinished ==
    /\ run = "report" /\ agg.by # "end"
    /\ emit(Plain("finished", running))
    /\ run' = "turns" /\ running' = NoTurn
    /\ UNCHANGED <<closed, procVars, opening, queue, agg, histVars>>

NoMoreTurns ==
    /\ run = "turns" /\ done
    /\ run' = "finish"
    /\ UNCHANGED <<closed, procVars, opening, queue, running, agg, outVars, histVars>>

\* finish: the queued turns fail, then the exit is told.
finish ==
    /\ run = "finish" /\ done
    /\ run' = "exited"
    /\ UNCHANGED <<closed, procVars, opening, queue, running, agg, outVars, histVars>>

FailQueued ==
    /\ run = "exited" /\ queue # <<>>
    /\ emit(Plain("finished", Head(queue)))
    /\ queue' = Tail(queue)
    /\ UNCHANGED <<closed, procVars, run, opening, running, agg, histVars>>

Exited ==
    /\ run = "exited" /\ queue = <<>>
    /\ emit(Plain("exited", NoTurn))
    /\ run' = "over"
    /\ UNCHANGED <<closed, procVars, opening, queue, running, agg, histVars>>

-----------------------------------------------------------------------------
Process == \/ open \/ Start \/ ProcessEnds \/ reap
           \/ Stop \/ KillDelay \/ Kill \/ Signalled

watchExit == ReleaseOutbox \/ ClosePipes

Aggregate == \/ \E kind \in {"message", "thought", "tool"} : Update(kind)
             \/ EmitPart

TurnLoop == \/ runTurn \/ PromptReturns \/ End \/ TellUsage \/ TurnFinished
            \/ NoMoreTurns \/ finish \/ FailQueued \/ Exited

Next == Process \/ watchExit \/ openSession \/ Aggregate \/ TurnLoop \/ prompt \/ ack

Spec == Init /\ [][Next]_vars

\* The runner's goroutines run and the kernel delivers KILL.  The agent may
\* hang, ignore TERM or never exit, and the harness may never ack.
Fairness ==
    /\ WF_vars(Start) /\ WF_vars(reap) /\ WF_vars(KillDelay) /\ WF_vars(Kill)
    /\ WF_vars(watchExit)
    /\ WF_vars(~Answering /\ openSession)
    /\ WF_vars(EmitPart)
    /\ WF_vars(~Answering /\ PromptReturns) /\ WF_vars(End)
    /\ WF_vars(TellUsage) /\ WF_vars(TurnFinished)
    /\ WF_vars(NoMoreTurns) /\ WF_vars(finish) /\ WF_vars(FailQueued \/ Exited)

FairSpec == Spec /\ Fairness

-----------------------------------------------------------------------------
TypeOK ==
    /\ closed \in BOOLEAN /\ tracked \in BOOLEAN /\ starting \in BOOLEAN
    /\ reaping \in BOOLEAN /\ done \in BOOLEAN /\ stragglers \in BOOLEAN
    /\ conn \in BOOLEAN /\ released \in BOOLEAN
    /\ proc \in {"none", "forked", "zombie", "gone"}
    /\ term \in {"no", "term", "kill", "over"}
    /\ run \in {"none", "open", "turns", "prompt", "end", "end with usage", "usage",
                "report", "finish", "exited", "over"}
    /\ queue \in Seq(Turns) /\ running \in Turns \cup {NoTurn}
    /\ agg.turn \in {NoTurn, running} /\ agg.by \in {"free", "update", "end"}
    /\ acked \in 0..Len(emitted) /\ turns \in 0..MaxTurns /\ updates \in 0..MaxUpdates

\* The text of the events of turn t, in order.
TextOf(t, kinds) ==
    LET mine == SelectSeq(emitted, LAMBDA e : e.turn = t /\ e.kind \in kinds)
    IN FlattenSeq([i \in DOMAIN mine |-> mine[i].text])

ToolWaits == agg.jobs # <<>> /\ Last(agg.jobs).of = "tool"

\* The text of an answer arrives whole and in order, and every tool call comes
\* after the text that the agent wrote before it, however the outbox makes the
\* parts wait (Aggregator.Update, toolCallLocked, splitFullLocked, End).
AnswerIsWhole ==
    \A t \in Turns :
        LET open_ == agg.turn = t
            held  == IF open_ THEN agg.buf \o (IF ToolWaits THEN <<Tool(updates)>> ELSE <<>>)
                     ELSE <<>>
        IN /\ TextOf(t, {"message", "tool"}) \o held = said[t]
           /\ TextOf(t, {"thought"}) \o (IF open_ THEN agg.thought ELSE <<>>) = mused[t]

\* A part is never empty nor too large, and never ends inside a character
\* (cutPart).
PartsFit ==
    \A i \in DOMAIN emitted : emitted[i].kind \in {"message", "thought"} =>
        /\ emitted[i].text # <<>> /\ Len(emitted[i].text) <= PartMax
        /\ emitted[i].text[1].first

\* The part marked final is the last text of its turn, a turn has one
\* TurnFinished and nothing after it, and the agent's exit is told after every
\* turn ended (session.runTurn, finish, Aggregator.End).
EndsAreLast ==
    \A i, j \in DOMAIN emitted : i < j =>
        LET e == emitted[i]
            f == emitted[j]
        IN /\ f.turn # NoTurn /\ e.turn = f.turn => e.kind # "finished"
           /\ e.final /\ f.turn = e.turn => f.kind # "message"
           /\ e.kind = "exited" => f.turn = NoTurn

ExitEndsTurns ==
    run = "over" => \A t \in 1..turns : \E i \in DOMAIN emitted :
                        emitted[i].kind = "finished" /\ emitted[i].turn = t

RunnerInv == TypeOK /\ AnswerIsWhole /\ PartsFit /\ EndsAreLast /\ ExitEndsTurns

\* An agent that ended, in whatever state and even while the harness acks
\* nothing, is reaped, what is left of its process group is killed and its exit
\* reaches the outbox (Reaper, watchExit, outbox.release, terminate), unless the
\* runner itself is closing.
ExitIsReported ==
    proc = "zombie" ~> (run = "over" /\ ~stragglers) \/ closed

=============================================================================
