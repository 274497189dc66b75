----------------------------- MODULE Admission -----------------------------
(***************************************************************************)
(* What the harness API lets in: CreateSession and Prompt (service.go)     *)
(* under the quotas of a client (quota.go), with the memory of idempotency *)
(* keys (promptkeys.go).  Several sessions and several calls at once; the  *)
(* launch of a session is the sequence of its store writes, and its        *)
(* owner's life is reduced to who counts as a launch (SessionOwner has the *)
(* rest of it).                                                            *)
(***************************************************************************)
EXTENDS SessionStore, FiniteSets

CONSTANTS
    Sessions,       \* the ids that newID() returns
    Clients, Convs, \* clients and their conversation references
    Keys,           \* idempotency keys
    Calls,          \* the calls that are made
    LiveCaps,       \* values of quotas.maxLiveSessions, 0 for no cap
    PendingCaps,    \* values of quotas.maxPendingApprovals, 0 for no cap
    Rate,           \* quotas.createRatePerMinute
    Rebinds,        \* what a ClientBinding is changed to: "nothing", "others"
    MaxLaunches,    \* bound: launches of one session
    MaxFaults       \* bound: store calls, teardowns and launches that fail

NoKey  == "no key"
Nobody == "nobody"

ASSUME AdmissionAssumption ==
    /\ IsFiniteSet(Sessions) /\ Sessions # {} /\ Convs # {} /\ "" \notin Clients
    /\ Nobody \notin Calls \cup Sessions /\ NoKey \notin Keys
    /\ Rebinds \subseteq {"nothing", "others"}
    /\ LiveCaps \subseteq Nat /\ PendingCaps \subseteq Nat /\ Rate \in Nat \ {0}
    /\ MaxLaunches \in Nat \ {0} /\ MaxFaults \in Nat

VARIABLES
    rows,      \* the sessions table
    \* Service
    owners,    \* by session: no owner, a launch, a live binding, a stop, or
               \* the startup's
    launch,    \* by session: how far its launch is, its number, and whether it
               \* continues a suspended session
    admission, \* who holds the admission lock
    tokens,    \* by client: what rate.Limiter has left
    memo,      \* promptKeys: by session and key, the call whose claim it is
    lapsed,    \* the claims that were accepted promptKeyTTL ago
    startup,   \* the sessions that ReconcileOnStartup has not looked at
    \* the ClientBindings in the cluster, by client: whether it exists, allows
    \* the template that the calls ask for or only others; and its caps
    binding,
    calls,
    began,     \* history: by session and key, the turns that were started since
               \* the key was forgotten
    faults

service == <<owners, launch, admission, tokens, memo, lapsed, startup>>
vars    == <<rows, service, binding, calls, began, faults>>

Pending == {"pending", "launching", "awaiting_approval"}

\* What a call keeps of the row that it read.
View(row) ==
    CASE row.status = "running" -> "running"
      [] row.status = "suspended" /\ row.acp # 0 /\ row.claim # 0 /\ row.approver # 0
             -> "revivable"
      [] OTHER -> "neither"

NoCall == [at |-> "idle", op |-> "none", client |-> "", conv |-> "", session |-> Nobody,
           view |-> "neither", key |-> NoKey, claim |-> Nobody, seen |-> {}, number |-> 0,
           turn |-> 0, open |-> FALSE]

NoLaunch == [at |-> "off", number |-> 0, revive |-> FALSE]

\* Rows that an earlier process left: of a session in its first run, or of one
\* that waits for its approval.
Left(client, conv) ==
    {[NoRow EXCEPT !.client = client, !.conv = conv, !.status = status, !.claim = 1, !.run = 1,
                   !.acp = 1, !.stream = 1, !.approver = 1] : status \in {"running", "suspended"}}
    \cup {[NoRow EXCEPT !.client = client, !.conv = conv, !.status = "awaiting_approval",
                        !.claim = 1, !.run = 1]}

\* A process starts (cmd/harness), with an empty database or with a session in
\* it that ReconcileOnStartup will look at, while calls arrive.
Init ==
    /\ LET s0 == CHOOSE s \in Sessions : TRUE
           v0 == CHOOSE v \in Convs : TRUE
           none == [s \in Sessions |-> NoRow]
       IN \/ rows = none /\ launch = [s \in Sessions |-> NoLaunch]
          \/ /\ \E cl \in Clients : \E row \in Left(cl, v0) :
                   rows = [none EXCEPT ![s0] = row]
             /\ launch = [s \in Sessions |->
                             IF s = s0 THEN [NoLaunch EXCEPT !.number = 1] ELSE NoLaunch]
    /\ startup = ListActiveSessions(rows)
    /\ owners = [s \in Sessions |-> "none"]
    /\ admission = Nobody
    /\ tokens = [cl \in Clients |-> Rate]
    /\ memo = [s \in Sessions |-> [k \in Keys |-> Nobody]]
    /\ lapsed = {}
    /\ binding \in [Clients -> [to : {"template"}, live : LiveCaps, pending : PendingCaps]]
    /\ calls = [c \in Calls |-> NoCall]
    /\ began = [s \in Sessions |-> [k \in Keys |-> {}]]
    /\ faults = 0

Fault == faults < MaxFaults /\ faults' = faults + 1
Fine  == UNCHANGED faults

-----------------------------------------------------------------------------
(* The clients' bindings, and the time.                                    *)

\* A binding is deleted, or loses the template.
Rebind(cl) ==
    /\ binding[cl].to = "template"
    /\ \E b \in Rebinds : binding' = [binding EXCEPT ![cl].to = b]
    /\ UNCHANGED <<rows, service, calls, began, faults>>

Refill(cl) ==
    /\ tokens[cl] < Rate
    /\ tokens' = [tokens EXCEPT ![cl] = @ + 1]
    /\ UNCHANGED <<rows, owners, launch, admission, memo, lapsed, startup, binding, calls,
                   began, faults>>

authorize(cl) == binding[cl].to # "nothing"
mayRun(cl)    == binding[cl].to = "template"

-----------------------------------------------------------------------------
(* Calls.  A call of Prompt with a key goes through promptKeys.do, which   *)
(* has its result before the caller has it.                                *)

At(c, at) == calls[c].at = at

Goes(c, at) == calls' = [calls EXCEPT ![c].at = at]

Refuse(c) ==
    calls' = [calls EXCEPT ![c] =
        IF @.key = NoKey THEN [NoCall EXCEPT !.at = "refused"] ELSE [@ EXCEPT !.at = "failed"]]

Accept(c, t) ==
    calls' = [calls EXCEPT ![c] =
        IF @.key = NoKey
        THEN [NoCall EXCEPT !.at = "ok", !.op = "prompt", !.session = calls[c].session, !.turn = t]
        ELSE [@ EXCEPT !.at = "started", !.turn = t]]

Returned(c) == calls[c].at \in {"ok", "refused"}

\* CreateSession up to the admission.  The template may be unreadable.
Create(c, cl, v) ==
    /\ At(c, "idle")
    /\ \E ok \in BOOLEAN :
         /\ IF ok THEN Fine ELSE Fault
         /\ calls' = [calls EXCEPT ![c] =
                IF ok /\ mayRun(cl)
                THEN [NoCall EXCEPT !.op = "create", !.client = cl, !.conv = v, !.at = "lock"]
                ELSE [NoCall EXCEPT !.at = "refused"]]
    /\ UNCHANGED <<rows, service, binding, began>>

\* resolveLive: the session of an id, or the live one of a conversation; that
\* of another client is not found.
Found(cl) ==
    {s \in Sessions : Exists(rows, s) /\ rows[s].client = cl}
        \cup UNION {GetLiveSessionByConversation(rows, cl, v) : v \in Convs}

Prompt(c, cl, s, k) ==
    /\ At(c, "idle")
    /\ calls' = [calls EXCEPT ![c] =
           IF authorize(cl) /\ s \in Found(cl)
           THEN [NoCall EXCEPT !.op = "prompt", !.client = cl, !.session = s,
                               !.view = View(rows[s]), !.key = k,
                               !.at = IF k = NoKey THEN "turn" ELSE "key"]
           ELSE [NoCall EXCEPT !.at = "refused"]]
    /\ UNCHANGED <<rows, service, binding, began, faults>>

\* promptKeys.do: the first call with a key claims it; another one waits for
\* the result, unless the key lapsed.
do(c) ==
    /\ At(c, "key")
    /\ LET s == calls[c].session
           k == calls[c].key
           d == memo[s][k]
       IN IF d # Nobody /\ d \notin lapsed
          THEN /\ calls' = [calls EXCEPT ![c].at = "wait", ![c].claim = d]
               /\ UNCHANGED memo
          ELSE /\ memo' = [memo EXCEPT ![s][k] = c]
               /\ calls' = [calls EXCEPT ![c].at = "turn", ![c].open = TRUE]
    /\ UNCHANGED <<rows, owners, launch, admission, tokens, lapsed, startup, binding, began,
                   faults>>

\* The repeated call gets the answer of the first one, or its caller goes away.
RepeatAnswered(c) ==
    /\ At(c, "wait") /\ ~calls[calls[c].claim].open
    /\ calls' = [calls EXCEPT ![c] = calls[calls[c].claim]]
    /\ UNCHANGED <<rows, service, binding, began, faults>>

RepeatGivesUp(c) ==
    /\ At(c, "wait")
    /\ calls' = [calls EXCEPT ![c] = [NoCall EXCEPT !.at = "refused"]]
    /\ UNCHANGED <<rows, service, binding, began, faults>>

\* The end of do: an error forgets the key, a turn is remembered from now on;
\* whoever waits is told if done is closed.
Answered(c, told) ==
    /\ calls[c].at \in {"failed", "started"}
    /\ LET ok == At(c, "started")
       IN /\ calls' = [calls EXCEPT ![c] =
                 [NoCall EXCEPT !.at = IF ok THEN "ok" ELSE "refused", !.op = "prompt",
                                !.session = calls[c].session, !.key = calls[c].key,
                                !.turn = calls[c].turn, !.open = ~told]]
          /\ memo' = IF ok THEN memo
                     ELSE [memo EXCEPT ![calls[c].session][calls[c].key] = Nobody]
    /\ UNCHANGED <<rows, owners, launch, admission, tokens, lapsed, startup, binding, began,
                   faults>>

\* Mutant: nobody is told about an error.
TellsSuccess(c) == Answered(c, At(c, "started"))

KeyDone(c) == Answered(c, TRUE)

\* ttlMemo: an accepted claim is promptKeyTTL old.
Lapse(c) ==
    /\ c \notin lapsed /\ calls[c].key # NoKey
    /\ LET s == calls[c].session
           k == calls[c].key
       IN /\ s # Nobody /\ memo[s][k] = c /\ At(c, "ok")
          /\ lapsed' = lapsed \cup {c}
          /\ began' = [began EXCEPT ![s][k] = {}]
    /\ UNCHANGED <<rows, owners, launch, admission, tokens, memo, startup, binding, calls,
                   faults>>

-----------------------------------------------------------------------------
(* startTurn, with the row that was read at the start of the call.         *)

Begins(c, t) ==
    began' = IF calls[c].key = NoKey THEN began
             ELSE [began EXCEPT ![calls[c].session][calls[c].key] = @ \cup {t}]

startTurn(c) ==
    /\ At(c, "turn")
    /\ LET s == calls[c].session
       IN CASE calls[c].view = "running" /\ owners[s] = "live" ->
                 calls' = [calls EXCEPT ![c].at = "send", ![c].number = launch[s].number]
            [] calls[c].view = "revivable" /\ mayRun(calls[c].client) -> Goes(c, "lock")
            [] OTHER -> Refuse(c)
    /\ UNCHANGED <<rows, service, binding, began, faults>>

\* Under sendMu: a turn number, and the prompt is saved if the binding that was
\* looked up still takes turns.  A refused prompt may cost its number.
SendPrompt(c) ==
    /\ At(c, "send")
    /\ LET s == calls[c].session
           t == rows[s].turns + 1
       IN \/ /\ Fine /\ rows' = NextTurnSeq(rows, s)
             /\ IF owners[s] = "live" /\ launch[s].number = calls[c].number
                THEN Accept(c, t) /\ Begins(c, t)
                ELSE Refuse(c) /\ UNCHANGED began
          \/ /\ Fault /\ rows' \in {rows, NextTurnSeq(rows, s)}
             /\ Refuse(c) /\ UNCHANGED began
    /\ UNCHANGED <<service, binding>>

-----------------------------------------------------------------------------
(* admit: the checks and what follows from them, under the admission lock. *)

launchesOf(cl) == {s \in Sessions : owners[s] = "launch" /\ rows[s].client = cl}

\* A cap of 0 is none.
Reached(n, cap) == cap > 0 /\ n >= cap

\* rateLimiters.allow: a client whose rate stays the same keeps its limiter.
allow(cl) == tokens[cl] > 0
SpendToken(cl) == tokens' = [tokens EXCEPT ![cl] = @ - 1]

\* The rate is spent whatever the caps say then; the rows are read if a cap
\* needs them.
checkQuotas(c) ==
    /\ At(c, "lock") /\ admission = Nobody
    /\ LET cl == calls[c].client
           q == binding[cl]
           new == calls[c].op = "create"
           live == ListLiveSessionsByClient(rows, cl)
       IN IF ~allow(cl)
          THEN Refuse(c) /\ Fine /\ UNCHANGED <<admission, tokens>>
          ELSE /\ SpendToken(cl)
               /\ \/ /\ Fine
                     /\ IF new /\ Reached(Cardinality(live), q.live)
                        THEN Refuse(c) /\ UNCHANGED admission
                        ELSE /\ calls' = [calls EXCEPT ![c].at = "pending",
                                   ![c].seen = {s \in live : rows[s].status \in Pending}]
                             /\ admission' = c
                  \/ /\ (new /\ q.live > 0) \/ q.pending > 0
                     /\ Fault /\ Refuse(c) /\ UNCHANGED admission
    /\ UNCHANGED <<rows, owners, launch, memo, lapsed, startup, binding, began>>

\* The launches are counted after the rows were read.
PendingBelowCap(c, pending) ==
    /\ At(c, "pending")
    /\ IF Reached(Cardinality(pending), binding[calls[c].client].pending)
       THEN Refuse(c) /\ admission' = Nobody
       ELSE Goes(c, "accept") /\ UNCHANGED admission
    /\ UNCHANGED <<rows, owners, launch, tokens, memo, lapsed, startup, binding, began,
                   faults>>

\* Mutant: only the rows are counted.
CountsRows(c) == PendingBelowCap(c, calls[c].seen)

checkPending(c) == PendingBelowCap(c, calls[c].seen \cup launchesOf(calls[c].client))

\* The row and its owner, unless the conversation has a live session (or the
\* ids of the model are used up).
AcceptCreate(c) ==
    /\ At(c, "accept") /\ calls[c].op = "create"
    /\ admission' = Nobody
    /\ \/ /\ Fine
          /\ IF Conflicts(rows, calls[c].client, calls[c].conv)
                \/ \A s \in Sessions : Exists(rows, s)
             THEN Refuse(c) /\ UNCHANGED <<rows, owners, launch>>
             ELSE LET s == CHOOSE s \in Sessions : ~Exists(rows, s)
                  IN /\ rows' = CreateSession(rows, s, calls[c].client, calls[c].conv)
                     /\ owners' = [owners EXCEPT ![s] = "launch"]
                     /\ launch' = [launch EXCEPT ![s] = [at |-> "begin", number |-> 1,
                                                          revive |-> FALSE]]
                     /\ calls' = [calls EXCEPT ![c] =
                            [NoCall EXCEPT !.at = "ok", !.op = "create", !.session = s]]
       \/ Fault /\ Refuse(c) /\ UNCHANGED <<rows, owners, launch>>
    /\ UNCHANGED <<tokens, memo, lapsed, startup, binding, began>>

\* claimRevive: the row is read again once the session is claimed.
claimRevive(c) ==
    /\ At(c, "accept") /\ calls[c].op = "prompt"
    /\ admission' = Nobody
    /\ LET s == calls[c].session
       IN \/ /\ Fine
             /\ IF owners[s] = "none" /\ rows[s].status = "suspended"
                   /\ launch[s].number < MaxLaunches
                THEN /\ owners' = [owners EXCEPT ![s] = "launch"]
                     /\ launch' = [launch EXCEPT ![s] = [at |-> "turn", number |-> @.number + 1,
                                                          revive |-> TRUE]]
                     /\ Goes(c, "revive")
                ELSE Refuse(c) /\ UNCHANGED <<owners, launch>>
          \/ Fault /\ Refuse(c) /\ UNCHANGED <<owners, launch>>
    /\ UNCHANGED <<rows, tokens, memo, lapsed, startup, binding, began>>

\* The turn of a revive; without a number the claim is given back.
ReviveTurn(c) ==
    /\ At(c, "revive")
    /\ LET s == calls[c].session
           t == rows[s].turns + 1
       IN \/ /\ Fine /\ rows' = NextTurnSeq(rows, s)
             /\ launch' = [launch EXCEPT ![s].at = "begin"]
             /\ Accept(c, t) /\ Begins(c, t) /\ UNCHANGED owners
          \/ /\ Fault /\ Refuse(c)
             /\ owners' = [owners EXCEPT ![s] = "none"]
             /\ launch' = [launch EXCEPT ![s].at = "off"]
             /\ UNCHANGED <<rows, began>>
    /\ UNCHANGED <<admission, tokens, memo, lapsed, startup, binding>>

-----------------------------------------------------------------------------
(* The launch of a session, one action per store write.                    *)

LaunchAt(s, at, next, table) ==
    /\ launch[s].at = at
    /\ launch' = [launch EXCEPT ![s].at = next]
    /\ rows' = table
    /\ UNCHANGED <<admission, tokens, memo, lapsed, startup, binding, calls, began>>

\* A created session gets its opening turn first.
beginLaunch(s) ==
    /\ LaunchAt(s, "begin", "prepare",
                UpdateSessionLaunched(IF launch[s].revive THEN rows ELSE NextTurnSeq(rows, s), s))
    /\ UNCHANGED <<owners, faults>>

Prepare(s) ==
    /\ LaunchAt(s, "prepare", "run",
                UpdateSessionSandbox(rows, s, launch[s].number, "launching"))
    /\ UNCHANGED <<owners, faults>>

CreateRun(s) ==
    /\ LaunchAt(s, "run", "await", UpdateSessionRun(rows, s, launch[s].number))
    /\ UNCHANGED <<owners, faults>>

\* Approved and attached: the session is registered, and then written.
Activate(s) ==
    /\ LaunchAt(s, "await", "link", rows)
    /\ owners' = [owners EXCEPT ![s] = "live"]
    /\ UNCHANGED faults

\* The stream, and then the status with the conversation.
Link(s) ==
    /\ LaunchAt(s, "link", "acp",
                UpdateSessionLink(UpdateSessionSandbox(rows, s, launch[s].number,
                                                       "awaiting_approval"),
                                  s, launch[s].number))
    /\ UNCHANGED <<owners, faults>>

Runs(s) ==
    /\ LaunchAt(s, "acp", "approver", UpdateSessionACP(rows, s, launch[s].number))
    /\ UNCHANGED <<owners, faults>>

\* The run may not say who approved it, and the write may fail.
recordApproverFromRun(s) ==
    /\ \E table \in {rows, UpdateSessionApprover(rows, s, launch[s].number)} :
         LaunchAt(s, "approver", "off", table)
    /\ UNCHANGED <<owners, faults>>

\* A registered session that could not be written is stopped.
LinkFails(s) ==
    /\ \E at \in {"link", "acp"} : LaunchAt(s, at, "off", rows)
    /\ Fault
    /\ owners' = [owners EXCEPT ![s] = "held"]

\* failLaunch and failRevive, for whatever reason; a fault leaves the row as it
\* is.
LaunchFails(s) ==
    /\ \E at \in {"begin", "prepare", "run", "await"} :
         \/ Fine /\ LaunchAt(s, at, "off", FinishSession(rows, s, "ended"))
         \/ /\ launch[s].revive
            /\ Fine /\ LaunchAt(s, at, "off", UpdateSessionSuspended(rows, s))
         \/ Fault /\ LaunchAt(s, at, "off", rows)
    /\ owners' = [owners EXCEPT ![s] = "none"]

-----------------------------------------------------------------------------
(* Stops, and the sessions that the startup finds.                         *)

\* detach: EndSession, the sweeps and the supervision of a live session.
detach(s) ==
    /\ owners[s] \in {"none", "live"} /\ Live(rows, s)
    /\ owners' = [owners EXCEPT ![s] = "held"]
    /\ UNCHANGED <<rows, launch, admission, tokens, memo, lapsed, startup, binding, calls,
                   began, faults>>

\* stopLive and stopDetached, once the launch returned: the session is
\* suspended or ends, or stays for a later stop.
StopEnds(s) ==
    /\ owners[s] = "held" /\ launch[s].at = "off"
    /\ owners' = [owners EXCEPT ![s] = "none"]
    /\ \/ Fine /\ rows' = FinishSession(rows, s, "ended")
       \/ /\ rows[s].status = "running" \/ (launch[s].revive /\ rows[s].status \in Pending)
          /\ Fine /\ rows' = UpdateSessionSuspended(rows, s)
       \/ Fault /\ UNCHANGED rows
    /\ UNCHANGED <<launch, admission, tokens, memo, lapsed, startup, binding, calls, began>>

\* reconcile: a running session is adopted, a suspended one is left, another
\* one is interrupted, or stays when its workspace cannot be torn down.
reconcile(s) ==
    /\ s \in startup /\ startup' = startup \ {s}
    /\ IF owners[s] # "none" \/ rows[s].status = "suspended"
       THEN UNCHANGED <<rows, owners, faults>>
       ELSE \/ /\ rows[s].status = "running"
               /\ owners' = [owners EXCEPT ![s] = "live"]
               /\ UNCHANGED <<rows, faults>>
            \/ Fine /\ rows' = FinishSession(rows, s, "interrupted") /\ UNCHANGED owners
            \/ Fault /\ UNCHANGED <<rows, owners>>
    /\ UNCHANGED <<launch, admission, tokens, memo, lapsed, binding, calls, began>>

-----------------------------------------------------------------------------
Call(c) ==
    \/ \E cl \in Clients, v \in Convs : Create(c, cl, v)
    \/ \E cl \in Clients, s \in Sessions, k \in Keys \cup {NoKey} : Prompt(c, cl, s, k)

admit(c) == checkQuotas(c) \/ checkPending(c) \/ AcceptCreate(c) \/ claimRevive(c)

CallStep(c) ==
    \/ do(c) \/ RepeatAnswered(c) \/ KeyDone(c)
    \/ startTurn(c) \/ SendPrompt(c) \/ admit(c) \/ ReviveTurn(c)

Launch(s) ==
    \/ beginLaunch(s) \/ Prepare(s) \/ CreateRun(s) \/ Activate(s) \/ Link(s) \/ Runs(s)
    \/ recordApproverFromRun(s) \/ LinkFails(s) \/ LaunchFails(s)

Next ==
    \/ \E c \in Calls : Call(c) \/ CallStep(c) \/ RepeatGivesUp(c) \/ Lapse(c)
    \/ \E s \in Sessions : Launch(s) \/ detach(s) \/ StopEnds(s) \/ reconcile(s)
    \/ \E cl \in Clients : Rebind(cl) \/ Refill(cl)

Spec == Init /\ [][Next]_vars

-----------------------------------------------------------------------------
Statuses == {"none", "pending", "launching", "awaiting_approval", "running", "suspended",
             "ended", "interrupted"}

\* Where a call with a key is that others may wait for.
Working == {"turn", "send", "lock", "pending", "accept", "revive", "failed", "started"}

\* Where a launch is that waits for its approval, and one that is registered.
Starting == {"turn", "begin", "prepare", "run", "await"}
Linking  == {"link", "acp", "approver"}

RowType == [client : Clients \cup {""}, conv : Convs \cup {""}, status : Statuses, claim : Nat,
            run : Nat, acp : Nat, stream : Nat, approver : Nat, turns : Nat]
LaunchType == [at : {"off"} \cup Starting \cup Linking, number : 0..MaxLaunches,
               revive : BOOLEAN]
CallType == [at : {"idle", "key", "wait", "ok", "refused"} \cup Working,
             op : {"none", "create", "prompt"}, client : Clients \cup {""},
             conv : Convs \cup {""}, session : Sessions \cup {Nobody},
             view : {"running", "revivable", "neither"}, key : Keys \cup {NoKey},
             claim : Calls \cup {Nobody}, seen : SUBSET Sessions, number : Nat, turn : Nat,
             open : BOOLEAN]
BindingType == [to : {"template", "others", "nothing"}, live : LiveCaps, pending : PendingCaps]

StoreType   == rows \in [Sessions -> RowType]
ServiceType ==
    /\ owners \in [Sessions -> {"none", "launch", "live", "held"}]
    /\ launch \in [Sessions -> LaunchType]
MemoType ==
    /\ memo \in [Sessions -> [Keys -> Calls \cup {Nobody}]] /\ lapsed \subseteq Calls
    /\ began \in [Sessions -> [Keys -> SUBSET Nat]]
RestType ==
    /\ admission \in Calls \cup {Nobody}
    /\ tokens \in [Clients -> 0..Rate]
    /\ startup \subseteq Sessions
    /\ binding \in [Clients -> BindingType]
    /\ faults \in 0..MaxFaults

TypeOK ==
    StoreType /\ ServiceType /\ MemoType /\ RestType /\ calls \in [Calls -> CallType]

\* The quotas hold whatever runs at once (admit): a client never has more live
\* sessions than its cap, nor more launches that wait for an approval.
QuotasHold ==
    \A cl \in Clients :
        /\ binding[cl].live > 0 =>
              Cardinality(ListLiveSessionsByClient(rows, cl)) <= binding[cl].live
        /\ binding[cl].pending > 0 => Cardinality(launchesOf(cl)) <= binding[cl].pending

\* A session that the store calls running names the stream and the workspace of
\* the run that it names, so that a restart at any moment adopts the right one
\* (activateAndRun, adopt).
Adoptable(row) ==
    row.status = "running" => row.run # 0 /\ row.stream = row.run /\ row.claim = row.run

RunningIsAdoptable == \A s \in Sessions : Adoptable(rows[s])

\* A key that is remembered starts one turn, however its calls overlap and
\* whatever fails (promptKeys.do), and a turn belongs to one key or one call.
KeyStartsOneTurn ==
    /\ \A s \in Sessions, k \in Keys : Cardinality(began[s][k]) <= 1
    /\ \A c, d \in Calls :
         /\ c # d /\ At(c, "ok") /\ At(d, "ok")
         /\ calls[c].op = "prompt" /\ calls[d].op = "prompt"
         /\ calls[c].session = calls[d].session /\ calls[c].turn = calls[d].turn
         => calls[c].key = calls[d].key /\ calls[c].key # NoKey

-----------------------------------------------------------------------------
(* What makes these inductive.                                             *)

\* A call that goes on is a CreateSession, or a Prompt of a session of its
\* client; it is open for others while it works on a key; its turn has been
\* numbered.
CallOk(r) ==
    /\ (r.open = TRUE) <=> r.at \in Working /\ r.key # NoKey
    /\ r.at \in {"key", "wait", "failed", "started"} => r.key # NoKey
    /\ r.at \in Working \cup {"key", "wait"} =>
         /\ r.client \in Clients
         /\ \/ r.op = "create" /\ r.key = NoKey /\ r.at \in {"lock", "pending", "accept"}
            \/ /\ r.op = "prompt" /\ r.session \in Sessions /\ Exists(rows, r.session)
               /\ rows[r.session].client = r.client
    /\ r.at \in {"started", "ok"} /\ r.op = "prompt" =>
         /\ r.session \in Sessions /\ Exists(rows, r.session)
         /\ r.turn <= rows[r.session].turns

\* A repeated call waits for one that claimed a key and did not wait itself.
WaitAt(c) ==
    At(c, "wait") => /\ calls[c].claim \in Calls
                     /\ calls[calls[c].claim].key # NoKey
                     /\ calls[calls[c].claim].at \in Working \cup {"ok", "refused"}

CallInv == \A c \in Calls : CallOk(calls[c]) /\ WaitAt(c)

\* Who is past the first check has the lock, and there is room for what it
\* starts: nobody else can take it meanwhile.
Room(n, cap) == cap > 0 => n < cap
LockAt(c) ==
    /\ calls[c].at \in {"pending", "accept"} =>
         /\ admission = c
         /\ calls[c].op = "create" =>
              Room(Cardinality(ListLiveSessionsByClient(rows, calls[c].client)),
                   binding[calls[c].client].live)
    /\ At(c, "accept") =>
         Room(Cardinality(launchesOf(calls[c].client)),
              binding[calls[c].client].pending)

LockInv == /\ \A c \in Calls : LockAt(c)
           /\ admission # Nobody => calls[admission].at \in {"pending", "accept"}

\* A launch has the entry of the owners map until it is registered; its session
\* is live, and has what the launch wrote.
LaunchOk(o, l, row) ==
    /\ o = "launch" <=> l.at \in Starting
    /\ l.at \in Linking => o \in {"live", "held"}
    /\ l.at # "off" => row.status # "none" /\ ~Terminal(row.status) /\ l.number # 0
    /\ l.at \in {"run", "await", "link", "acp"} => row.claim = l.number
    /\ l.at \in {"await", "link", "acp"} => row.run = l.number
    /\ l.at = "acp" => row.stream = l.number

\* The launch of a revive waits for the one call that claimed the session.
ReviveAt(c) ==
    At(c, "revive") =>
        /\ launch[calls[c].session].at = "turn"
        /\ \A d \in Calls : At(d, "revive") /\ calls[d].session = calls[c].session => d = c

LaunchInv ==
    /\ \A s \in Sessions : LaunchOk(owners[s], launch[s], rows[s])
    /\ \A c \in Calls : ReviveAt(c)

\* A key is remembered for the call that works on it or that started its turn,
\* and has a turn only if that call has.
ClaimAt(c) ==
    /\ calls[c].at \in Working /\ calls[c].key # NoKey =>
         memo[calls[c].session][calls[c].key] = c
    /\ c \in lapsed => At(c, "ok")
MemoAt(s, k) ==
    LET c == memo[s][k]
    IN /\ c # Nobody => /\ calls[c].session = s /\ calls[c].key = k
                        /\ calls[c].at \in Working \cup {"ok"}
       /\ \/ began[s][k] = {}
          \/ /\ c # Nobody /\ c \notin lapsed /\ calls[c].at \in {"started", "ok"}
             /\ began[s][k] = {calls[c].turn}

KeyInv == /\ \A c \in Calls : ClaimAt(c)
          /\ \A s \in Sessions, k \in Keys : MemoAt(s, k)

\* Two calls have one turn only if one repeated the other.
Turned(r) == r.at \in {"started", "ok"} /\ r.op = "prompt"
SameTurn(q, r) ==
    Turned(q) /\ Turned(r) /\ q.session = r.session /\ q.turn = r.turn =>
        q.key = r.key /\ q.key # NoKey

TurnInv == \A c, d \in Calls : c # d => SameTurn(calls[c], calls[d])

\* The quotas, the rows, the keys and the turns, with where the calls and the
\* launches are that change them.
AdmissionInv ==
    /\ TypeOK /\ QuotasHold /\ RunningIsAdoptable /\ KeyStartsOneTurn
    /\ CallInv /\ LockInv /\ LaunchInv /\ KeyInv /\ TurnInv

\* Whoever waits, waits for somebody at work: a repeated call for the first one
\* with its key, which answers it also when it fails, and a call at the lock for
\* one that is past its checks; the one at work never waits itself (admit,
\* promptKeys.do).  Every call takes finitely many steps, so every call returns.
WaitersAreServed ==
    /\ \A c \in Calls : At(c, "wait") =>
         LET d == calls[calls[c].claim]
         IN d.open => d.at \in Working
    /\ admission # Nobody => calls[admission].at \in {"pending", "accept"}

=============================================================================
