---------------------------- MODULE SessionOwner -----------------------------
(***************************************************************************)
(* Who may change a session, and how a session is launched, suspended,     *)
(* continued and ended (owner.go, launch.go and lifecycle.go under         *)
(* harness/internal/harnessapi).                                           *)
(*                                                                         *)
(* The service's map `owners' has at most one entry for a session.  A      *)
(* goroutine that changes the session holds the entry: a launch, a stop    *)
(* (detach puts a new entry in the place of a live one), the release of a  *)
(* suspended workspace, the startup reconcile.  A stop that meets an entry *)
(* which is not live leaves itself there, and the holder carries it out    *)
(* before it lets go (settle).                                             *)
(*                                                                         *)
(* The model has one session.  An owner is a number, 0 is nil.  The record *)
(* of an owner holds the fields of `struct owner' and the locals of the    *)
(* goroutine that has it.  A write to the store is a read of the status    *)
(* and then an update that does not look at it: two steps.                 *)
(*                                                                         *)
(* Left out: reasons and details of an end (ended and interrupted are one  *)
(* status here), leases, the polling of the run (its outcome is one of the *)
(* ways in which Activate fails), and prompts to a running session, which  *)
(* are the subject of AgentLink.  An event that the store refuses is a gap *)
(* in the log and changes nothing here.                                    *)
(***************************************************************************)
EXTENDS Integers

CONSTANTS
    MaxOwners,         \* bound: owners made
    MaxStops,          \* bound: calls of EndSession and stops by the absolute sweep
    MaxStoreFaults,    \* bound: calls of the store that fail
    MaxClusterFaults,  \* bound: calls of Teardown and Suspend that fail
    MaxRestarts,       \* bound: restarts of the platform
    EndsBeforeCreated  \* a client may end a session before CreateSession returns

ASSUME OwnerBounds ==
    /\ MaxOwners \in Nat \ {0} /\ MaxStops \in Nat /\ MaxStoreFaults \in Nat
    /\ MaxClusterFaults \in Nat /\ MaxRestarts \in Nat
    /\ EndsBeforeCreated \in BOOLEAN

Owners == 1..MaxOwners

VARIABLES
    \* the store
    status,     \* sessions.status
    claim,      \* sandbox_claim_name is recorded
    acp,        \* acp_session_id is recorded
    approver,   \* approver_subject is recorded
    endings,    \* SessionEnded events in the log
    \* the cluster
    sandbox,    \* the sandbox of the session's claim
    \* the service
    phase,      \* startup: the API is served when it is "up"
    owner,      \* owners[sessionID]
    own,        \* every owner made, with its goroutine
    count,      \* owners made
    \* for the properties
    promised,   \* an EndSession returned OK because a launch will carry it out
    \* the bounds used up
    stops, storeFaults, clusterFaults, restarts

storeVars == <<status, claim, acp, approver, endings>>
boundVars == <<stops, storeFaults, clusterFaults, restarts>>
vars == <<storeVars, sandbox, phase, owner, own, count, promised, boundVars>>

Terminal(s) == s = "ended"

Blank == [
    pc        |-> "free",
    launching |-> FALSE,  \* owner.cancel # nil: it belongs to a launch
    live      |-> FALSE,  \* owner.live # nil
    stop      |-> FALSE,  \* owner.stop # nil
    waited    |-> FALSE,  \* owner.settled # nil: an EndSession waits
    revive    |-> FALSE,  \* launchOpts.revive
    turn      |-> FALSE,  \* launchOpts.turnID # ""
    checked   |-> FALSE,  \* write() has read the status
    named     |-> FALSE,  \* the claim name that the next Teardown gets is not ""
    suspend   |-> FALSE,  \* stopSpec.suspend
    target    |-> 0,      \* the owner whose binding a stop has detached
    busy      |-> FALSE,  \* the binding has an outstanding turn
    ends      |-> 0,      \* TurnFailed and TurnCompleted events of that turn
    watched   |-> FALSE]  \* the Attachment has not called OnDown

Init ==
    /\ status = "none" /\ claim = FALSE /\ acp = FALSE /\ approver = FALSE
    /\ endings = 0
    /\ sandbox = "none" /\ phase = "up" /\ owner = 0
    /\ own = [o \in Owners |-> Blank] /\ count = 0 /\ promised = FALSE
    /\ stops = 0 /\ storeFaults = 0 /\ clusterFaults = 0 /\ restarts = 0

-----------------------------------------------------------------------------
(* Helpers.                                                                *)

At(o, p) == own[o].pc = p
Goto(o, p) == own' = [own EXCEPT ![o].pc = p]

StoreFails ==
    /\ storeFaults < MaxStoreFaults
    /\ storeFaults' = storeFaults + 1
    /\ UNCHANGED <<stops, clusterFaults, restarts>>

ClusterFails ==
    /\ clusterFaults < MaxClusterFaults
    /\ clusterFaults' = clusterFaults + 1
    /\ UNCHANGED <<stops, storeFaults, restarts>>

Fresh == count + 1

\* A new owner with its goroutine, in the place of what the map has.
Take(ow, r) ==
    /\ count < MaxOwners
    /\ count' = Fresh /\ owner' = Fresh
    /\ own' = [ow EXCEPT ![Fresh] = r]

\* emit() of a turn's end: recordEvent drops it when the session has ended.
Ends(o) == own[o].ends + IF Terminal(status) THEN 0 ELSE 1

\* Mutant: a stop does not wait for the launch.
ReadyAlways(b) == own[b].pc # "free"

\* The launch that made the binding has returned and closed ready.
Ready(b) == own[b].pc \in {"live", "unlinked"}

-----------------------------------------------------------------------------
(* CreateSession: the row is stored first, and the entry claimed after it. *)
(* The result of claim is not looked at.                                   *)

CreateSession ==
    /\ phase = "up" /\ status = "none" /\ count < MaxOwners
    /\ status' = "pending"
    /\ own' = [own EXCEPT ![Fresh] = [Blank EXCEPT !.pc = "created", !.launching = TRUE]]
    /\ count' = Fresh
    /\ UNCHANGED <<claim, acp, approver, endings, sandbox, phase, owner, promised, boundVars>>

ClaimCreated(o) ==
    /\ At(o, "created")
    /\ owner' = IF owner = 0 THEN o ELSE owner
    /\ Goto(o, "read")
    /\ UNCHANGED <<storeVars, sandbox, phase, count, promised, boundVars>>

revivable == acp /\ claim /\ approver

(* Prompt of a suspended session: the status was read before the claim and *)
(* claimRevive reads it again after.  The caller may leave while it does.  *)
PromptSuspended ==
    /\ phase = "up" /\ revivable /\ owner = 0
    /\ Take(own, [Blank EXCEPT !.pc = "claimed", !.launching = TRUE, !.revive = TRUE])
    /\ UNCHANGED <<storeVars, sandbox, phase, promised, boundVars>>

\* Mutant: the status is not read again.
ClaimReviveStale(o) ==
    /\ At(o, "claimed")
    /\ own' = [own EXCEPT ![o].pc = "read", ![o].turn = TRUE]
    /\ UNCHANGED <<storeVars, sandbox, phase, owner, count, promised, boundVars>>

ClaimRevive(o) ==
    /\ At(o, "claimed")
    /\ \/ status = "suspended" /\ own' = [own EXCEPT ![o].pc = "read", ![o].turn = TRUE]
       \/ Goto(o, "settle")
    /\ UNCHANGED <<storeVars, sandbox, phase, owner, count, promised, boundVars>>

-----------------------------------------------------------------------------
(* launch.  A stop cancels its context, and a call that is under way then   *)
(* may fail or still succeed.  A snapshot that this version cannot read     *)
(* counts as a fault of the store, and ends a session that is revived.      *)

LaunchRead(o) ==
    /\ At(o, "read")
    /\ \/ /\ IF own[o].stop THEN UNCHANGED boundVars ELSE StoreFails
          /\ own' = [own EXCEPT ![o].pc = "settle",
                                ![o].ends = IF own[o].turn THEN Ends(o) ELSE @]
       \/ own[o].stop /\ Goto(o, "fail") /\ UNCHANGED boundVars
       \/ ~own[o].stop /\ ~own[o].turn /\ Goto(o, "fail") /\ StoreFails
       \/ /\ ~own[o].stop
          /\ \E opening \in {TRUE, own[o].turn} :
                own' = [own EXCEPT ![o].pc = "begin", ![o].turn = opening]
          /\ UNCHANGED boundVars
       \/ ~own[o].stop /\ own[o].revive /\ Goto(o, "end") /\ StoreFails
    /\ UNCHANGED <<storeVars, sandbox, phase, owner, count, promised>>

Prepare(o) ==
    /\ At(o, "prepare") /\ ~own[o].revive
    /\ \/ sandbox' = "up" /\ Goto(o, "record") /\ UNCHANGED boundVars
       \/ sandbox' = "none" /\ Goto(o, "fail") /\ UNCHANGED boundVars
       \/ sandbox' = "up" /\ Goto(o, "fail") /\ ClusterFails
    /\ UNCHANGED <<storeVars, phase, owner, count, promised>>

Revive(o) ==
    /\ At(o, "prepare") /\ own[o].revive
    /\ \/ sandbox # "none" /\ sandbox' = "up" /\ Goto(o, "record") /\ UNCHANGED boundVars
       \/ /\ sandbox' = IF sandbox = "none" THEN "none" ELSE "suspended"
          /\ Goto(o, "fail") /\ UNCHANGED boundVars
       \/ sandbox # "none" /\ sandbox' = "up" /\ Goto(o, "fail") /\ ClusterFails
    /\ UNCHANGED <<storeVars, phase, owner, count, promised>>

CreateRun(o) ==
    /\ At(o, "run")
    /\ \/ own' = [own EXCEPT ![o].pc = "await", ![o].watched = TRUE]
       \/ own' = [own EXCEPT ![o].pc = "fail", ![o].named = TRUE]
    /\ UNCHANGED <<storeVars, sandbox, phase, owner, count, promised, boundVars>>

\* The agent is ready, and the opening turn is saved or fails.
Activate(o) ==
    /\ At(o, "activate")
    /\ \/ own' = [own EXCEPT ![o].pc = "register", ![o].busy = own[o].turn] /\ UNCHANGED boundVars
       \/ own[o].turn /\ own' = [own EXCEPT ![o].pc = "register", ![o].ends = Ends(o)] /\ StoreFails
    /\ UNCHANGED <<storeVars, sandbox, phase, owner, count, promised>>

\* Mutant: a resumed workspace is released too.
ActivateFailsAlike(o) ==
    /\ At(o, "activate")
    /\ own' = [own EXCEPT ![o].pc = "fail", ![o].named = TRUE]
    /\ \/ sandbox' = "none" /\ UNCHANGED boundVars
       \/ UNCHANGED sandbox /\ ClusterFails
    /\ UNCHANGED <<storeVars, phase, owner, count, promised>>

\* The workspace of a first launch is released at once.
ActivateFails(o) ==
    /\ At(o, "activate")
    /\ own' = [own EXCEPT ![o].pc = "fail", ![o].named = TRUE]
    /\ \/ sandbox' = (IF own[o].revive THEN sandbox ELSE "none") /\ UNCHANGED boundVars
       \/ ~own[o].revive /\ UNCHANGED sandbox /\ ClusterFails
    /\ UNCHANGED <<storeVars, phase, owner, count, promised>>

\* ErrResumeUnavailable, which does not release the workspace.
ResumeUnavailable(o) ==
    /\ At(o, "activate")
    /\ IF own[o].revive /\ ~own[o].stop
       THEN Goto(o, "unrevive")
       ELSE own' = [own EXCEPT ![o].pc = "fail", ![o].named = TRUE]
    /\ UNCHANGED <<storeVars, sandbox, phase, owner, count, promised, boundVars>>

Register(o) ==
    /\ At(o, "register")
    /\ IF owner = o /\ ~own[o].stop
       THEN own' = [own EXCEPT ![o].pc = "link", ![o].live = TRUE]
       ELSE own' = [own EXCEPT ![o].pc = "fail", ![o].named = TRUE, ![o].busy = FALSE]
    /\ UNCHANGED <<storeVars, sandbox, phase, owner, count, promised, boundVars>>

-----------------------------------------------------------------------------
(* write(): the steps of a launch and of a suspend that change the status. *)

Writes == {"begin", "record", "await", "link", "resuspend", "suspending"}

Written(p) ==
    CASE p \in {"begin", "record"} -> "launching"
      [] p = "await" -> "awaiting"
      [] p = "link" -> "running"
      [] OTHER -> "suspended"

AfterWrite(p) ==
    CASE p = "begin" -> "prepare"
      [] p = "record" -> "run"
      [] p = "await" -> "activate"
      [] p = "link" -> "live"
      [] OTHER -> "settle"

\* A launch fails, a binding is stopped by a goroutine of its own, the others
\* give up.
NotWritten(o) ==
    LET p == own[o].pc IN
    own' = [own EXCEPT ![o].checked = FALSE,
        ![o].pc = CASE p \in {"begin", "record", "await"} -> "fail"
                    [] p = "link" -> "unlinked"
                    [] OTHER -> "settle",
        ![o].named = @ \/ p \in {"record", "await"},
        ![o].ends = IF p = "link" /\ own[o].busy THEN Ends(o) ELSE @,
        ![o].busy = @ /\ p # "link"]

WriteRead(o) ==
    /\ own[o].pc \in Writes /\ ~own[o].checked
    /\ \/ ~Terminal(status) /\ own' = [own EXCEPT ![o].checked = TRUE] /\ UNCHANGED boundVars
       \/ Terminal(status) /\ NotWritten(o) /\ UNCHANGED boundVars
       \/ NotWritten(o) /\ StoreFails
    /\ UNCHANGED <<storeVars, sandbox, phase, owner, count, promised>>

WriteUpdate(o) ==
    /\ own[o].pc \in Writes /\ own[o].checked
    /\ \/ /\ status' = Written(own[o].pc)
          /\ claim' = (claim \/ own[o].pc = "record")
          /\ acp' = (acp \/ own[o].pc = "link")
          /\ approver' \in {approver, approver \/ own[o].pc = "link"}
          /\ own' = [own EXCEPT ![o].pc = AfterWrite(@), ![o].checked = FALSE]
          /\ UNCHANGED boundVars
       \/ NotWritten(o) /\ StoreFails /\ UNCHANGED <<status, claim, acp, approver>>
    /\ UNCHANGED <<endings, sandbox, phase, owner, count, promised>>

-----------------------------------------------------------------------------
(* failLaunch and failRevive.  A revive has read the recorded claim with   *)
(* the session, a first launch has read none.                              *)

\* Mutant: a stop that meets the launch does not end its turn.
FailLaunchSilently(o) ==
    /\ At(o, "fail")
    /\ IF own[o].stop
       THEN own' = [own EXCEPT ![o].pc = "teardown", ![o].stop = FALSE,
                               ![o].named = @ \/ own[o].revive]
       ELSE Goto(o, IF own[o].revive THEN "unrevive" ELSE "teardown")
    /\ UNCHANGED <<storeVars, sandbox, phase, owner, count, promised, boundVars>>

FailLaunch(o) ==
    /\ At(o, "fail")
    /\ IF own[o].stop
       THEN own' = [own EXCEPT ![o].pc = "teardown", ![o].stop = FALSE,
                               ![o].named = @ \/ own[o].revive,
                               ![o].ends = IF own[o].turn THEN Ends(o) ELSE @]
       ELSE Goto(o, IF own[o].revive THEN "unrevive" ELSE "teardown")
    /\ UNCHANGED <<storeVars, sandbox, phase, owner, count, promised, boundVars>>

\* A Teardown that fails leaves the session live when the session records the
\* claim, so that a stop can try again.
FailTeardown(o) ==
    /\ At(o, "teardown")
    /\ \/ ~own[o].named /\ Goto(o, "end") /\ UNCHANGED <<sandbox, boundVars>>
       \/ own[o].named /\ sandbox' = "none" /\ Goto(o, "end") /\ UNCHANGED boundVars
       \/ /\ own[o].named /\ ClusterFails
          /\ Goto(o, IF claim THEN "settle" ELSE "end")
          /\ UNCHANGED sandbox
       \/ /\ own[o].named /\ clusterFaults < MaxClusterFaults /\ storeFaults < MaxStoreFaults
          /\ clusterFaults' = clusterFaults + 1 /\ storeFaults' = storeFaults + 1
          /\ Goto(o, "end")
          /\ UNCHANGED <<sandbox, stops, restarts>>
    /\ UNCHANGED <<storeVars, phase, owner, count, promised>>

FailRevive(o) ==
    /\ At(o, "unrevive")
    /\ \/ sandbox' = (IF sandbox = "none" THEN "none" ELSE "suspended") /\ UNCHANGED boundVars
       \/ UNCHANGED sandbox /\ ClusterFails
    /\ own' = [own EXCEPT ![o].pc = "resuspend", ![o].ends = IF own[o].turn THEN Ends(o) ELSE @]
    /\ UNCHANGED <<storeVars, phase, owner, count, promised>>

-----------------------------------------------------------------------------
(* Stops.                                                                  *)

\* Mutant: a stop takes an entry that is not live.
DetachAny(want, suspend, ow) ==
    /\ want # 0 => owner = want
    /\ Take(ow, IF owner # 0 /\ own[owner].live
                THEN [Blank EXCEPT !.pc = "stopLive", !.target = owner, !.suspend = suspend]
                ELSE [Blank EXCEPT !.pc = "detached"])

\* detach: a stop waits in an entry that is not live, or takes the entry.  A
\* launch is told to stop and the caller does not wait for it.
Detach(want, suspend, ow) ==
    /\ want # 0 => owner = want
    /\ \/ /\ owner # 0 /\ ~own[owner].live /\ ~suspend
          /\ own' = [ow EXCEPT ![owner].stop = TRUE,
                               ![owner].waited = @ \/ ~own[owner].launching]
          /\ UNCHANGED <<owner, count>>
       \/ /\ owner # 0 /\ own[owner].live
          /\ Take(ow, [Blank EXCEPT !.pc = "stopLive", !.target = owner, !.suspend = suspend])
       \/ owner = 0 /\ Take(ow, [Blank EXCEPT !.pc = "detached"])

Created == \E o \in Owners : At(o, "created")

\* EndSession and the absolute sweep read the status before they come here.
EndSession ==
    /\ phase = "up" /\ status # "none" /\ stops < MaxStops
    /\ Created => EndsBeforeCreated
    /\ stops' = stops + 1
    /\ Detach(0, FALSE, own)
    /\ promised' = (promised \/ (owner # 0 /\ own[owner].launching /\ ~own[owner].live))
    /\ UNCHANGED <<storeVars, sandbox, phase, storeFaults, clusterFaults, restarts>>

SweepAbsolute ==
    /\ phase = "up" /\ status \notin {"none", "suspended"} /\ stops < MaxStops /\ ~Created
    /\ stops' = stops + 1
    /\ Detach(0, FALSE, own)
    /\ UNCHANGED <<storeVars, sandbox, phase, promised, storeFaults, clusterFaults, restarts>>

\* superviseLaunch: the tunnel is lost for longer than the grace period, or
\* the sandbox reports an error.  It comes once, and may come late.
Supervise(o) ==
    /\ own[o].watched
    /\ LET ow == [own EXCEPT ![o].watched = FALSE] IN
       \/ owner = o /\ Detach(o, FALSE, ow)
       \/ owner # o /\ own' = ow /\ UNCHANGED <<owner, count>>
    /\ UNCHANGED <<storeVars, sandbox, phase, promised, boundVars>>

\* watchRun ends a session whose run was revoked or expired, and the consumer
\* one whose agent exited.
WatchRun(o) ==
    /\ owner = o /\ Ready(o)
    /\ Detach(o, FALSE, own)
    /\ UNCHANGED <<storeVars, sandbox, phase, promised, boundVars>>

SweepIdle(o) ==
    /\ phase = "up" /\ owner = o /\ own[o].live /\ ~own[o].busy
    /\ Detach(o, TRUE, own)
    /\ UNCHANGED <<storeVars, sandbox, phase, promised, boundVars>>

\* The goroutine that stops a binding whose link was not recorded.
StopUnlinked(o) ==
    /\ At(o, "unlinked")
    /\ LET ow == [own EXCEPT ![o].pc = "live"] IN
       \/ owner = o /\ Detach(o, own[o].revive, ow)
       \/ owner # o /\ own' = ow /\ UNCHANGED <<owner, count>>
    /\ UNCHANGED <<storeVars, sandbox, phase, promised, boundVars>>

\* The agent finishes the turn that the binding has.
FinishTurn(o) ==
    /\ Ready(o) /\ own[o].busy
    /\ own' = [own EXCEPT ![o].busy = FALSE, ![o].ends = Ends(o)]
    /\ UNCHANGED <<storeVars, sandbox, phase, owner, count, promised, boundVars>>

\* Mutant: a stop waits until the turn is over.
StopLiveIdle(o) ==
    /\ At(o, "stopLive") /\ Ready(own[o].target) /\ ~own[own[o].target].busy
    /\ own' = [own EXCEPT ![o].pc = IF own[o].suspend THEN "suspend" ELSE "tear",
                          ![o].named = TRUE]
    /\ UNCHANGED <<storeVars, sandbox, phase, owner, count, promised, boundVars>>

StopLive(o) ==
    /\ At(o, "stopLive") /\ Ready(own[o].target)
    /\ LET b == own[o].target IN
       own' = [own EXCEPT ![o].pc = IF own[o].suspend THEN "suspend" ELSE "tear",
                          ![o].named = TRUE,
                          ![b].ends = IF own[b].busy THEN Ends(b) ELSE @,
                          ![b].busy = FALSE]
    /\ UNCHANGED <<storeVars, sandbox, phase, owner, count, promised, boundVars>>

SuspendSandbox(o) ==
    /\ At(o, "suspend")
    /\ \/ /\ sandbox # "none" /\ sandbox' = "suspended"
          /\ Goto(o, "suspending") /\ UNCHANGED boundVars
       \/ sandbox = "none" /\ Goto(o, "tear") /\ UNCHANGED <<sandbox, boundVars>>
       \/ Goto(o, "tear") /\ ClusterFails /\ UNCHANGED sandbox
    /\ UNCHANGED <<storeVars, phase, owner, count, promised>>

StopDetached(o) ==
    /\ At(o, "detached")
    /\ \/ Terminal(status) /\ Goto(o, "settle") /\ UNCHANGED boundVars
       \/ ~Terminal(status) /\ UNCHANGED boundVars
          /\ own' = [own EXCEPT ![o].pc = "tear", ![o].named = claim]
       \/ Goto(o, "settle") /\ StoreFails
    /\ UNCHANGED <<storeVars, sandbox, phase, owner, count, promised>>

\* The sweep listed the session as suspended; it reads it again once it has it.
ReleaseSuspended ==
    /\ phase = "up" /\ owner = 0 /\ status \notin {"none", "pending"}
    /\ Take(own, [Blank EXCEPT !.pc = "release"])
    /\ UNCHANGED <<storeVars, sandbox, phase, promised, boundVars>>

ReadSuspended(o) ==
    /\ At(o, "release")
    /\ \/ Goto(o, "settle") /\ UNCHANGED boundVars
       \/ status = "suspended" /\ UNCHANGED boundVars
          /\ own' = [own EXCEPT ![o].pc = "tear", ![o].named = claim]
       \/ Goto(o, "settle") /\ StoreFails
    /\ UNCHANGED <<storeVars, sandbox, phase, owner, count, promised>>

\* Mutant: the end is recorded although the workspace is still there.
TeardownTried(o) ==
    /\ At(o, "tear") /\ Goto(o, "end")
    /\ \/ ~own[o].named /\ UNCHANGED <<sandbox, boundVars>>
       \/ own[o].named /\ sandbox' = "none" /\ UNCHANGED boundVars
       \/ own[o].named /\ ClusterFails /\ UNCHANGED sandbox
    /\ UNCHANGED <<storeVars, phase, owner, count, promised>>

\* The Teardown of a stop, of a release and of interrupt.
Teardown(o) ==
    /\ At(o, "tear")
    /\ \/ ~own[o].named /\ Goto(o, "end") /\ UNCHANGED <<sandbox, boundVars>>
       \/ own[o].named /\ sandbox' = "none" /\ Goto(o, "end") /\ UNCHANGED boundVars
       \/ own[o].named /\ Goto(o, "settle") /\ ClusterFails /\ UNCHANGED sandbox
    /\ UNCHANGED <<storeVars, phase, owner, count, promised>>

\* FinishSession is one transaction and refuses a session that has ended.
FinishSession(o) ==
    /\ At(o, "end") /\ Goto(o, "settle")
    /\ \/ /\ ~Terminal(status) /\ status' = "ended" /\ endings' = endings + 1
          /\ UNCHANGED boundVars
       \/ Terminal(status) /\ UNCHANGED <<status, endings, boundVars>>
       \/ StoreFails /\ UNCHANGED <<status, endings>>
    /\ UNCHANGED <<claim, acp, approver, sandbox, phase, owner, count, promised>>

\* Mutant: the stop that was left is dropped.
SettleNow(o) ==
    /\ At(o, "settle")
    /\ own' = [own EXCEPT ![o].pc = "done", ![o].stop = FALSE, ![o].waited = FALSE]
    /\ owner' = IF owner = o THEN 0 ELSE owner
    /\ phase' = IF phase = "reconcile" THEN "up" ELSE phase
    /\ UNCHANGED <<storeVars, sandbox, count, promised, boundVars>>

\* settle carries out the stop that was left meanwhile, or lets the entry go
\* and wakes who waits.
Settle(o) ==
    /\ At(o, "settle")
    /\ IF own[o].stop
       THEN /\ own' = [own EXCEPT ![o].pc = "detached", ![o].stop = FALSE]
            /\ UNCHANGED <<phase, owner>>
       ELSE /\ own' = [own EXCEPT ![o].pc = "done", ![o].waited = FALSE]
            /\ owner' = IF owner = o THEN 0 ELSE owner
            /\ phase' = IF phase = "reconcile" THEN "up" ELSE phase
    /\ UNCHANGED <<storeVars, sandbox, count, promised, boundVars>>

-----------------------------------------------------------------------------
(* A restart of the platform, and the startup reconcile that comes before  *)
(* the API is served.                                                      *)

Restart ==
    /\ restarts < MaxRestarts
    /\ restarts' = restarts + 1
    /\ phase' = "boot" /\ owner' = 0
    /\ own' = [o \in Owners |-> IF At(o, "free") THEN Blank ELSE [Blank EXCEPT !.pc = "done"]]
    /\ UNCHANGED <<storeVars, sandbox, count, promised, stops, storeFaults, clusterFaults>>

Reconcile ==
    /\ phase = "boot"
    /\ \/ /\ status \in {"none", "suspended", "ended"} /\ phase' = "up"
          /\ UNCHANGED <<owner, own, count, boundVars>>
       \/ /\ status \notin {"none", "suspended", "ended"} /\ phase' = "reconcile"
          /\ Take(own, [Blank EXCEPT !.pc = "adopt"]) /\ UNCHANGED boundVars
       \/ phase' = "up" /\ StoreFails /\ UNCHANGED <<owner, own, count>>
    /\ UNCHANGED <<storeVars, sandbox, promised>>

\* A running session whose pod is there is expected to attach again; any
\* other is interrupted.
Adopt(o) ==
    /\ At(o, "adopt")
    /\ \/ /\ status = "running" /\ sandbox = "up"
          /\ own' = [own EXCEPT ![o].pc = "adopted", ![o].watched = TRUE]
       \/ own' = [own EXCEPT ![o].pc = "tear", ![o].named = claim]
    /\ UNCHANGED <<storeVars, sandbox, phase, owner, count, promised, boundVars>>

RegisterAdopted(o) ==
    /\ At(o, "adopted")
    /\ IF own[o].stop
       THEN /\ own' = [own EXCEPT ![o].pc = "tear", ![o].named = claim]
            /\ UNCHANGED phase
       ELSE /\ \E turns \in BOOLEAN :
                   own' = [own EXCEPT ![o].pc = "live", ![o].live = TRUE, ![o].busy = turns]
            /\ phase' = "up"
    /\ UNCHANGED <<storeVars, sandbox, owner, count, promised, boundVars>>

-----------------------------------------------------------------------------

LaunchStep(o) ==
    \/ ClaimCreated(o) \/ ClaimRevive(o) \/ LaunchRead(o) \/ Prepare(o) \/ Revive(o)
    \/ CreateRun(o) \/ Activate(o) \/ ActivateFails(o) \/ ResumeUnavailable(o) \/ Register(o)
    \/ WriteRead(o) \/ WriteUpdate(o) \/ FailLaunch(o) \/ FailTeardown(o) \/ FailRevive(o)

StopStep(o) ==
    \/ StopUnlinked(o) \/ StopLive(o) \/ SuspendSandbox(o) \/ StopDetached(o)
    \/ ReadSuspended(o) \/ Teardown(o) \/ FinishSession(o) \/ Settle(o)
    \/ Adopt(o) \/ RegisterAdopted(o)

\* What the goroutine that has owner o does next.
Step(o) == LaunchStep(o) \/ StopStep(o)

Trigger(o) == Supervise(o) \/ WatchRun(o) \/ SweepIdle(o) \/ FinishTurn(o)

Call == CreateSession \/ PromptSuspended \/ EndSession \/ SweepAbsolute \/ ReleaseSuspended

Next == Call \/ Restart \/ Reconcile \/ \E o \in Owners : Step(o) \/ Trigger(o)

Spec == Init /\ [][Next]_vars

\* Every goroutine moves: each call that it makes returns, Activate at the
\* latest when the attach timeout is over.  Callers, sweeps, losses and
\* restarts are the environment's.
Fairness == WF_vars(Reconcile) /\ \A o \in Owners : WF_vars(Step(o))

FairSpec == Spec /\ Fairness

-----------------------------------------------------------------------------
(* Properties.                                                             *)

LaunchPcs == {"created", "claimed", "read", "prepare", "run", "activate", "register", "fail",
              "teardown", "unrevive"}
StopPcs == {"stopLive", "suspend", "detached", "release", "tear", "end", "settle", "adopt",
            "adopted"}
RestPcs == {"free", "done", "live", "unlinked"}

Pcs == LaunchPcs \cup Writes \cup StopPcs \cup RestPcs

OwnerType == [
    pc : Pcs,
    launching : BOOLEAN, live : BOOLEAN, stop : BOOLEAN, waited : BOOLEAN,
    revive : BOOLEAN, turn : BOOLEAN, checked : BOOLEAN, named : BOOLEAN, suspend : BOOLEAN,
    target : Nat, busy : BOOLEAN, ends : Nat, watched : BOOLEAN]

StoreType ==
    /\ status \in {"none", "pending", "launching", "awaiting", "running", "suspended", "ended"}
    /\ claim \in BOOLEAN /\ acp \in BOOLEAN /\ approver \in BOOLEAN /\ endings \in Nat
CloudType ==
    /\ sandbox \in {"none", "up", "suspended"}
    /\ phase \in {"boot", "reconcile", "up"}
    /\ promised \in BOOLEAN
EntryType == owner \in 0..MaxOwners /\ count \in 0..MaxOwners
OwnType == own \in [Owners -> OwnerType]
BoundType == stops \in Nat /\ storeFaults \in Nat /\ clusterFaults \in Nat /\ restarts \in Nat

TypeOK == StoreType /\ CloudType /\ EntryType /\ OwnType /\ BoundType

\* A goroutine that is in the middle of its work with the session.
Holding(o) == own[o].pc \notin RestPcs \cup {"created"}

\* A stop that waits for the launch of the binding that it took.
Waiting(o) == At(o, "stopLive") /\ ~Ready(own[o].target)

\* Of the launches, stops, releases and the reconcile of a session only one is
\* at work; a stop that came before a launch was over waits for it.
OneAtWork ==
    \A a, b \in Owners : Holding(a) /\ Holding(b) /\ ~Waiting(a) /\ ~Waiting(b) => a = b

\* A stop has taken the binding of o.
StoppedBy(o) == owner # 0 /\ At(owner, "stopLive") /\ own[owner].target = o

\* Who is at work has the entry.  The one exception is a launch that still
\* records its link when a stop takes the entry.
EntryInv ==
    /\ phase = "boot" => owner = 0
    /\ owner # 0 => own[owner].pc \notin {"free", "done", "created"}
    /\ \A o \in Owners :
        /\ o > count => At(o, "free")
        /\ Holding(o) => owner = o \/ (At(o, "link") /\ StoppedBy(o))
        /\ own[o].live => own[o].pc \in {"link", "live", "unlinked"} /\ ~own[o].stop
        /\ At(o, "stopLive") => own[o].target \in Owners

\* Between the insert of the row and the claim nobody else takes the session.
CreatedInv ==
    /\ status \in {"none", "pending"} => ~acp /\ ~claim
    /\ status = "none" => owner = 0 /\ \A o \in Owners : own[o].pc \in {"free", "done"}
    /\ \A o \in Owners : At(o, "created") =>
        /\ owner = 0 /\ phase = "up" /\ status = "pending" /\ ~own[o].revive
        /\ \A p \in Owners : At(p, "created") => p = o

\* The status that a goroutine finds at each of its steps.
StatusAt(o) ==
    LET p == own[o].pc IN
    /\ status # "none"
    /\ p \in {"read", "begin"} => status = IF own[o].revive THEN "suspended" ELSE "pending"
    /\ p \in {"prepare", "record", "run", "await"} => status = "launching"
    /\ p \in {"activate", "register", "link"} => status = "awaiting"
    /\ p \in {"live", "unlinked", "stopLive", "suspend", "suspending"} =>
            status \in {"awaiting", "running"}
    /\ p = "adopted" => status = "running"
    /\ p = "fail" => status \in {"launching", "awaiting"}
                            \cup IF own[o].revive THEN {"suspended"} ELSE {"pending"}
    /\ p \in {"unrevive", "resuspend"} => status \in {"suspended", "launching", "awaiting"}

Reviving == {"claimed", "read", "begin", "prepare", "record", "run", "await", "activate",
             "register", "fail", "unrevive", "resuspend"}

ReviveAt(o) ==
    /\ own[o].pc \in {"claimed", "unrevive", "resuspend"} => own[o].revive
    /\ own[o].pc \in {"adopt", "adopted"} => ~own[o].revive
    /\ own[o].revive /\ own[o].pc \in Reviving => acp /\ claim

StatusInv == \A o \in Owners : owner = o \/ Holding(o) => StatusAt(o) /\ ReviveAt(o)

\* "A session in a terminal state does not change again", and it has one
\* SessionEnded event: write() reads the status before its update, and no
\* FinishSession comes in between.
EndIsFinal == [][Terminal(status) => UNCHANGED <<status, endings>>]_vars

Lifecycle == INSTANCE SessionLifecycle WITH state <- status, ran <- acp

\* The states that a client sees follow one another as the API describes them,
\* whoever launches, stops, sweeps and restarts at the same time.
ImplementsLifecycle == Lifecycle!Spec

\* A session that ended leaves no workspace that it has recorded.  A Teardown
\* that fails leaves the session live, whichever goroutine called it; the one of
\* a failed launch asks the store first whether the claim is recorded, and ends
\* the session when the store does not answer.
WorkspaceReleased == Terminal(status) /\ claim /\ storeFaults = 0 => sandbox = "none"

\* The name of a recorded claim is at hand when the workspace must go, and the
\* workspace is gone when the end comes to be recorded.
ReleaseAt(o) ==
    /\ claim =>
        /\ own[o].pc \in {"tear", "teardown"} => own[o].named
        /\ own[o].pc \in {"prepare", "record"} => own[o].revive
        /\ At(o, "fail") => own[o].named \/ own[o].revive
        /\ At(o, "end") /\ storeFaults = 0 => sandbox = "none"
    /\ At(o, "suspend") => own[o].named

ReleaseInv == WorkspaceReleased /\ \A o \in Owners : ReleaseAt(o)

\* Nobody removes the workspace of a session that stays suspended: not a revive
\* that fails, at whatever step, and not a stop that was too late.  A stop or a
\* release that removed it and whose end was not recorded leaves the session
\* suspended without it, until the next stop or sweep.
SuspendedHasWorkspace ==
    status = "suspended" /\ owner = 0 /\ restarts = 0 /\ storeFaults = 0 => sandbox # "none"

\* Before it is suspended, while it is and while it is revived, a session has a
\* workspace; who removes it records the end next.
KeptStatus == status = "suspended" => sandbox # "none" \/ (owner # 0 /\ At(owner, "end"))
KeptAt(o) ==
    At(o, "suspending") \/ (own[o].revive /\ own[o].pc \in Reviving \ {"claimed"}) =>
        sandbox # "none"

KeptInv == restarts = 0 /\ storeFaults = 0 => KeptStatus /\ \A o \in Owners : KeptAt(o)

\* The turn of a Prompt that revives a session ends once: by failRevive, by the
\* stop that met the launch, or with the binding.  With a store that fails, the
\* end is lost, or comes a second time when the opening prompt was not saved; of
\* a launch that a restart cuts off nothing is said.
RevivedTurnEndsOnce ==
    \A o \in Owners : own[o].revive /\ own[o].turn /\ storeFaults = 0 =>
        /\ own[o].ends <= 1
        /\ (At(o, "done") \/ (Ready(o) /\ ~own[o].busy)) => own[o].ends = 1

\* The turn of a revive is open until failRevive or the stop ends it, or as long
\* as the binding has it; a binding with an open turn is not forgotten.
BusyAt(o) ==
    own[o].busy => /\ own[o].pc \in {"register", "link", "live", "unlinked"}
                   /\ owner = o \/ StoppedBy(o)
TurnAt(o) ==
    /\ At(o, "claimed") => ~own[o].turn /\ own[o].ends = 0
    /\ At(o, "read") /\ own[o].revive => own[o].turn
    /\ At(o, "register") /\ own[o].turn /\ storeFaults = 0 => own[o].busy
    /\ own[o].revive /\ own[o].turn /\ storeFaults = 0 =>
        own[o].ends = IF own[o].busy \/ own[o].pc \in Reviving \ {"register", "resuspend"}
                      THEN 0 ELSE 1

TurnInv == \A o \in Owners : BusyAt(o) /\ TurnAt(o)

\* When EndSession returned OK and nobody works on the session any more, the
\* session has ended, if no call of the store or the cluster failed (EndSession,
\* detach, settle).
EndAnsweredIsDone ==
    storeFaults = 0 /\ clusterFaults = 0 /\ restarts = 0 =>
        (promised /\ owner = 0 /\ phase = "up" => Terminal(status))

\* Until then the one at work has been told, or carries the stop out.
Owes(o) == own[o].stop \/ own[o].pc \in {"detached", "tear", "teardown", "end"}
PromiseInv ==
    storeFaults = 0 /\ clusterFaults = 0 /\ restarts = 0 /\ promised =>
        Terminal(status) \/ (owner # 0 /\ Owes(owner))

\* The owners map keeps its shape: OneAtWork, with who may have the entry, what
\* it finds in the store and the cluster and what it still owes.
OwnerInv ==
    /\ TypeOK /\ OneAtWork /\ EntryInv /\ CreatedInv /\ StatusInv
    /\ ReleaseInv /\ KeptInv /\ TurnInv /\ PromiseInv

\* Every goroutine that takes the session lets it go, and so wakes the calls of
\* EndSession that wait for it.
OwnerLetsGo == \A o \in Owners : Holding(o) ~> ~Holding(o)

=============================================================================
