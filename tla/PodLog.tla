------------------------------- MODULE PodLog -------------------------------
(***************************************************************************)
(* What the link promises about the events of one agent session, with no   *)
(* stream, process or number in it: the agent writes a log, the session's  *)
(* store holds a prefix of it that grows by one event at a time, and the   *)
(* agent forgets only what the store holds.                                *)
(***************************************************************************)
EXTENDS Naturals, Sequences

CONSTANT LogEvent

VARIABLES log, stored, forgotten, status

logVars == <<log, stored, forgotten, status>>

\* The link starts with SessionReady written and stored.
LogInit ==
    /\ log \in Seq(LogEvent) /\ Len(log) = 1
    /\ stored = log
    /\ forgotten = 0
    /\ status = "running"

Write ==
    /\ status = "running"
    /\ log' \in Seq(LogEvent)
    /\ Len(log') > Len(log)
    /\ \A i \in 1..Len(log) : log'[i] = log[i]
    /\ UNCHANGED <<stored, forgotten, status>>

Store ==
    /\ status = "running"
    /\ Len(stored) < Len(log)
    /\ stored' = Append(stored, log[Len(stored) + 1])
    /\ UNCHANGED <<log, forgotten, status>>

Forget ==
    /\ status = "running"
    /\ forgotten' \in (forgotten + 1)..Len(stored)
    /\ UNCHANGED <<log, stored, status>>

Close ==
    /\ status = "running"
    /\ status' = "stopped"
    /\ UNCHANGED <<log, stored, forgotten>>

LogNext == Write \/ Store \/ Forget \/ Close

LogSpec == LogInit /\ [][LogNext]_logVars

FairLogSpec == LogSpec /\ WF_logVars(Store)
=============================================================================
