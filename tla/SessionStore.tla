---------------------------- MODULE SessionStore ----------------------------
(***************************************************************************)
(* The sessions, pod commands and events tables of the harness             *)
(* (sessionstore/sqlite): the statements, each a function of its table.    *)
(* Every statement is atomic: the database has one connection              *)
(* (SetMaxOpenConns(1)).                                                   *)
(* Columns that hold the names of things outside (sandbox, run, agent      *)
(* conversation, stream) hold the number of the launch that wrote them,    *)
(* 0 for the empty string.                                                 *)
(***************************************************************************)
EXTENDS Naturals, Sequences

\* No row.
NoRow == [client |-> "", conv |-> "", status |-> "none", claim |-> 0, run |-> 0, acp |-> 0,
          stream |-> 0, approver |-> 0, turns |-> 0]

Terminal(status) == status \in {"ended", "interrupted"}

Exists(rows, s) == rows[s].status # "none"
Live(rows, s)   == Exists(rows, s) /\ ~Terminal(rows[s].status)

\* idx_sessions_live_conversation, the unique index.
Conflicts(rows, client, conv) ==
    \E s \in DOMAIN rows : Live(rows, s) /\ rows[s].client = client /\ rows[s].conv = conv

CreateSession(rows, s, client, conv) ==
    [rows EXCEPT ![s] = [NoRow EXCEPT !.client = client, !.conv = conv,
                                      !.status = "pending"]]

\* The live session of a conversation, if any: the index allows one, so the
\* order of the statement does not matter.
GetLiveSessionByConversation(rows, client, conv) ==
    {s \in DOMAIN rows : Live(rows, s) /\ rows[s].client = client /\ rows[s].conv = conv}

ListActiveSessions(rows) == {s \in DOMAIN rows : Live(rows, s)}

ListLiveSessionsByClient(rows, client) ==
    {s \in DOMAIN rows : Live(rows, s) /\ rows[s].client = client}

NextTurnSeq(rows, s) == [rows EXCEPT ![s].turns = @ + 1]

\* The updates do not look at the status that they replace: Service.write does.
UpdateSessionLaunched(rows, s) == [rows EXCEPT ![s].status = "launching"]

UpdateSessionSandbox(rows, s, claim, status) ==
    [rows EXCEPT ![s].claim = claim, ![s].status = status]

UpdateSessionRun(rows, s, run) ==
    [rows EXCEPT ![s].run = run, ![s].status = "awaiting_approval"]

UpdateSessionLink(rows, s, stream) == [rows EXCEPT ![s].stream = stream]

UpdateSessionACP(rows, s, acp) == [rows EXCEPT ![s].acp = acp, ![s].status = "running"]

UpdateSessionApprover(rows, s, approver) == [rows EXCEPT ![s].approver = approver]

UpdateSessionSuspended(rows, s) == [rows EXCEPT ![s].status = "suspended"]

\* A session ends once: the statement leaves a terminal row alone.
FinishSession(rows, s, status) ==
    IF Live(rows, s) THEN [rows EXCEPT ![s].status = status] ELSE rows

-----------------------------------------------------------------------------
(* The pod_commands of one session: the commands that its pod may not have *)
(* got yet, by key.  A key with the payload none has no row.               *)

\* The keys with a row.  The statement orders them by their age; its caller
\* treats each key by itself.
ListPodCommands(commands, none) == {k \in DOMAIN commands : commands[k] # none}

\* A second command with the same key takes the place of the first.
PutPodCommand(commands, k, payload) == [commands EXCEPT ![k] = payload]

\* No error when there is no row.
DeletePodCommand(commands, k, none) == [commands EXCEPT ![k] = none]

DeletePodCommandsForSession(commands, none) == [k \in DOMAIN commands |-> none]

-----------------------------------------------------------------------------
(* The session_events of one session, by number.                           *)

\* The numbers of a session have no gap: the statement runs in one transaction
\* with the insert (inTx).
NextSessionEventSeq(events) == Len(events) + 1

InsertSessionEvent(events, seq, e) ==
    [k \in 1..seq |-> IF k = seq THEN e ELSE events[k]]

\* The events after a number, at most so many.
ListSessionEvents(events, after, limit) ==
    SubSeq(events, after + 1, IF after + limit < Len(events) THEN after + limit
                              ELSE Len(events))

\* The number of the last event that the pod sent and the store has never goes
\* back.
AdvancePodSeq(podSeq, n) == IF n > podSeq THEN n ELSE podSeq

=============================================================================
