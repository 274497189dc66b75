------------------------- MODULE SessionOwnerProofs -------------------------
(***************************************************************************)
(* Proofs about SessionOwner, for every value of its bounds.               *)
(***************************************************************************)
EXTENDS SessionOwner, TLAPS

\* The inductive invariant; OneAtWork follows from EntryInv.
OwnerIInv ==
    /\ TypeOK /\ EntryInv /\ CreatedInv /\ StatusInv
    /\ ReleaseInv /\ KeptInv /\ TurnInv /\ PromiseInv

-----------------------------------------------------------------------------
(* Steps of one goroutine.                                                 *)

\* Only the record of o changes.
Alone(o) == OwnType' /\ \A q \in Owners : q # o => own'[q] = own[q]

\* What the record of o becomes, in the fields that the invariants speak of.
Becomes(o, p, live, stop, named, turn, busy, ends) ==
    /\ Alone(o)
    /\ own'[o].revive = own[o].revive /\ own'[o].target = own[o].target
    /\ own'[o].pc = p /\ own'[o].live = live /\ own'[o].stop = stop /\ own'[o].named = named
    /\ own'[o].turn = turn /\ own'[o].busy = busy /\ own'[o].ends = ends

Sets(o, p, named, busy, ends) ==
    Becomes(o, p, own[o].live, own[o].stop, named, own[o].turn, busy, ends)

Moves(o, p) == Sets(o, p, own[o].named, own[o].busy, own[o].ends)

NoLoss == storeFaults = 0 /\ restarts = 0
NoFault == storeFaults = 0 /\ clusterFaults = 0 /\ restarts = 0

\* The invariants at one goroutine that is at work.
GoodAt(o) ==
    /\ StatusAt(o) /\ ReviveAt(o) /\ ReleaseAt(o) /\ BusyAt(o) /\ TurnAt(o)
    /\ NoLoss => KeptAt(o)
GoodStore == WorkspaceReleased /\ (NoLoss => KeptStatus)

\* The fault counters do not go back to 0.
Later ==
    /\ storeFaults' = 0 => storeFaults = 0
    /\ clusterFaults' = 0 => clusterFaults = 0
    /\ restarts' = 0 => restarts = 0

\* Of two goroutines at work one is a launch that records its link, the other
\* the stop that waits for it.
LEMMA TwoAtWork ==
    ASSUME EntryInv, NEW a \in Owners, NEW b \in Owners, a # b, Holding(a), Holding(b)
    PROVE  \/ At(a, "link") /\ owner = b /\ At(b, "stopLive")
           \/ At(b, "link") /\ owner = a /\ At(a, "stopLive")
  BY DEF EntryInv, StoppedBy

LEMMA EntryLocal ==
    ASSUME EntryType, EntryInv, NEW o \in Owners, Holding(o), Alone(o),
           owner' = owner, count' = count, phase' \in {phase, "up"},
           own'[o].pc \notin {"free", "done", "created", "stopLive"},
           At(o, "stopLive") => Ready(own[o].target),
           At(o, "link") => own'[o].pc \in {"link", "live", "unlinked"},
           own'[o].live => own'[o].pc \in {"link", "live", "unlinked"} /\ ~own'[o].stop
    PROVE  EntryInv'
<1> USE DEF Alone
<1>1. (phase = "boot" => owner = 0)'
  BY DEF EntryInv
<1>2. (owner # 0 => own[owner].pc \notin {"free", "done", "created"})'
  BY DEF EntryInv, EntryType, Owners
<1>3. ASSUME NEW q \in Owners
      PROVE  (/\ q > count => At(q, "free")
              /\ Holding(q) => owner = q \/ (At(q, "link") /\ StoppedBy(q))
              /\ own[q].live => own[q].pc \in {"link", "live", "unlinked"} /\ ~own[q].stop
              /\ At(q, "stopLive") => own[q].target \in Owners)'
  <2>1. CASE q = o
    <3>1. owner = o \/ (At(o, "link") /\ StoppedBy(o))
      BY DEF EntryInv
    <3>2. owner # 0 /\ owner # o => owner \in Owners /\ own'[owner] = own[owner]
      BY DEF EntryType, Owners
    <3>3. (Holding(o) => owner = o \/ (At(o, "link") /\ StoppedBy(o)))'
      BY <3>1, <3>2 DEF At, StoppedBy, Holding, RestPcs
    <3>4. ~(o > count)
      BY DEF EntryInv, Holding, RestPcs, At
    <3> QED
      BY <2>1, <3>3, <3>4 DEF At
  <2>2. CASE q # o
    BY <2>2 DEF EntryInv, At, StoppedBy, Holding, RestPcs, Ready
  <2> QED
    BY <2>1, <2>2
<1> QED
  BY <1>1, <1>2, <1>3 DEF EntryInv

LEMMA StatusLocal ==
    ASSUME EntryType, EntryInv, CreatedInv, StatusInv, NEW o \in Owners, Holding(o), Alone(o),
           owner' = owner, UNCHANGED storeVars,
           own'[o].pc \notin {"free", "done", "created", "stopLive"},
           StatusAt(o)', ReviveAt(o)'
    PROVE  CreatedInv' /\ StatusInv'
<1> USE DEF Alone, storeVars
<1>1. owner # 0 /\ status # "none" /\ \A q \in Owners : ~At(q, "created")
  BY DEF EntryInv, CreatedInv, StoppedBy, Owners, Holding, RestPcs, At
<1>2. CreatedInv'
  BY <1>1 DEF CreatedInv, At
<1>3. ASSUME NEW q \in Owners, q # o, (owner = q \/ Holding(q))'
      PROVE  (StatusAt(q) /\ ReviveAt(q))'
  BY <1>3 DEF StatusInv, StatusAt, ReviveAt, Holding, RestPcs
<1> QED
  BY <1>2, <1>3 DEF StatusInv

LEMMA WorkLocal ==
    ASSUME EntryInv, ReleaseInv, KeptInv, NEW o \in Owners, Holding(o), Alone(o), Later,
           GoodStore', ReleaseAt(o)', (NoLoss => KeptAt(o))'
    PROVE  ReleaseInv' /\ KeptInv'
<1>1. ASSUME NEW q \in Owners, q # o, Holding(q)
      PROVE  own[q].pc \in {"link", "stopLive"}
  BY <1>1, TwoAtWork DEF At
<1>2. ASSUME NEW q \in Owners, q # o
      PROVE  ReleaseAt(q)' /\ KeptAt(q)'
  <2>1. own'[q] = own[q]
    BY <1>2 DEF Alone
  <2>2. own[q].pc \in RestPcs \cup {"created", "link", "stopLive"}
    BY <1>1, <1>2 DEF Holding
  <2> QED
    BY <2>1, <2>2 DEF ReleaseAt, KeptAt, At, RestPcs, Reviving
<1> QED
  BY <1>2 DEF ReleaseInv, KeptInv, GoodStore, NoLoss

LEMMA TurnLocal ==
    ASSUME EntryType, EntryInv, TurnInv, NEW o \in Owners, Holding(o), Alone(o), Later,
           owner' = owner, ~At(o, "stopLive"), BusyAt(o)', TurnAt(o)'
    PROVE  TurnInv'
<1>1. ASSUME NEW q \in Owners, q # o
      PROVE  BusyAt(q)' /\ TurnAt(q)'
  <2>1. own'[q] = own[q]
    BY <1>1 DEF Alone
  <2>2. BusyAt(q)'
    BY <1>1, <2>1 DEF TurnInv, BusyAt, StoppedBy, At, Alone, EntryType, Owners
  <2>3. TurnAt(q)'
    BY <1>1, <2>1 DEF TurnInv, TurnAt, At, Later
  <2> QED
    BY <2>2, <2>3
<1> QED
  BY <1>1 DEF TurnInv

\* A step of a goroutine that is at work, keeps the entry and does not write to
\* the store.
LEMMA Local ==
    ASSUME OwnerIInv, NEW o \in Owners, Holding(o), Alone(o),
           UNCHANGED <<owner, count, storeVars, promised>>, phase' \in {phase, "up"},
           sandbox' \in {"none", "up", "suspended"}, BoundType', Later,
           ~At(o, "stopLive"), own'[o].pc \notin {"free", "done", "created", "stopLive"},
           At(o, "link") => own'[o].pc \in {"link", "live", "unlinked"},
           own'[o].live => own'[o].pc \in {"link", "live", "unlinked"} /\ ~own'[o].stop,
           GoodAt(o)', GoodStore', NoFault' /\ Owes(o) /\ ~Terminal(status) => Owes(o)'
    PROVE  OwnerIInv'
<1> USE DEF OwnerIInv
<1>1. TypeOK'
  <2>1. StoreType'
    BY DEF TypeOK, StoreType, storeVars
  <2>2. CloudType'
    BY DEF TypeOK, CloudType
  <2>3. EntryType'
    BY DEF TypeOK, EntryType
  <2> QED
    BY <2>1, <2>2, <2>3 DEF TypeOK, Alone
<1>2. EntryInv'
  BY EntryLocal DEF TypeOK
<1>3. CreatedInv' /\ StatusInv'
  BY StatusLocal DEF TypeOK, GoodAt
<1>4. ReleaseInv' /\ KeptInv'
  BY WorkLocal DEF GoodAt, storeVars
<1>5. TurnInv'
  BY TurnLocal DEF TypeOK, GoodAt
<1>6. PromiseInv'
  <2> SUFFICES ASSUME NoFault', promised, ~Terminal(status)
               PROVE  owner # 0 /\ Owes(owner)'
    BY DEF PromiseInv, NoFault, Terminal, storeVars
  <2>1. NoFault /\ owner # 0 /\ Owes(owner)
    BY DEF PromiseInv, NoFault, Later
  <2>2. owner # o => Owes(owner)'
    BY <2>1 DEF Owes, Alone, TypeOK, EntryType, Owners
  <2> QED
    BY <2>1, <2>2
<1> QED
  BY <1>1, <1>2, <1>3, <1>4, <1>5, <1>6

\* What the invariant says of a goroutine that is at work.
LEMMA AtWork ==
    ASSUME OwnerIInv, NEW o \in Owners, Holding(o)
    PROVE  /\ GoodAt(o) /\ GoodStore /\ own[o] \in OwnerType /\ BoundType
           /\ ~At(o, "link") => owner = o /\ ~own[o].live
  BY DEF OwnerIInv, TypeOK, OwnType, EntryInv, StatusInv, ReleaseInv, KeptInv, TurnInv, GoodAt,
         GoodStore, NoLoss, Holding, RestPcs, At

LEMMA Bounds ==
    ASSUME BoundType
    PROVE  /\ UNCHANGED boundVars => BoundType' /\ Later /\ UNCHANGED <<storeFaults, clusterFaults, restarts>>
           /\ StoreFails => BoundType' /\ Later /\ storeFaults' # 0
           /\ ClusterFails => BoundType' /\ Later /\ UNCHANGED <<storeFaults, restarts>> /\ clusterFaults' # 0
  BY DEF BoundType, boundVars, Later, StoreFails, ClusterFails

LEMMA GotoMoves ==
    ASSUME OwnType, NEW o \in Owners, NEW p \in Pcs, Goto(o, p)
    PROVE  Moves(o, p)
  BY DEF OwnType, Goto, OwnerType, Moves, Sets, Becomes, Alone

LEMMA EndsType == ASSUME OwnType, NEW o \in Owners PROVE Ends(o) \in Nat
  BY DEF OwnType, OwnerType, Ends

LEMMA EndsMoves ==
    ASSUME OwnType, NEW o \in Owners, NEW p \in Pcs, NEW e, e \in Nat,
           own' = [own EXCEPT ![o].pc = p, ![o].ends = e]
    PROVE  Sets(o, p, own[o].named, own[o].busy, e)
<1> DEFINE r == [own[o] EXCEPT !.pc = p, !.ends = e]
<1>1. own[o] \in OwnerType
  BY DEF OwnType
<1>2. r \in OwnerType
  BY <1>1 DEF OwnerType
<1>3. /\ r.pc = p /\ r.ends = e /\ r.revive = own[o].revive /\ r.target = own[o].target
      /\ r.live = own[o].live /\ r.stop = own[o].stop /\ r.named = own[o].named
      /\ r.turn = own[o].turn /\ r.busy = own[o].busy
  BY <1>1 DEF OwnerType
<1>4. own' = [own EXCEPT ![o] = r]
  OBVIOUS
<1> HIDE DEF r
<1> QED
  BY <1>2, <1>3, <1>4 DEF OwnType, Sets, Becomes, Alone

-----------------------------------------------------------------------------

LEMMA PrepareKeeps ==
    ASSUME OwnerIInv, NEW o \in Owners, Prepare(o) PROVE OwnerIInv'
<1>1. Holding(o) /\ own[o].pc = "prepare" /\ ~own[o].revive
  BY DEF Prepare, Holding, At, RestPcs
<1>2. /\ GoodAt(o) /\ GoodStore /\ own[o] \in OwnerType /\ BoundType /\ TypeOK
      /\ owner = o /\ ~own[o].live
  BY <1>1, AtWork DEF At, OwnerIInv
<1>3. \/ Moves(o, "record") /\ sandbox' = "up"
      \/ Moves(o, "fail")
  BY <1>1, <1>2, GotoMoves DEF Prepare, TypeOK, Pcs, LaunchPcs, Writes, StopPcs
<1>4. /\ UNCHANGED <<owner, count, storeVars, promised, phase>>
      /\ sandbox' \in {"none", "up", "suspended"} /\ BoundType' /\ Later
  BY <1>2, Bounds DEF Prepare, TypeOK, CloudType
<1>5. GoodAt(o)'
  BY <1>1, <1>2, <1>3, <1>4 DEF GoodAt, StatusAt, ReviveAt, ReleaseAt, BusyAt, TurnAt, KeptAt,
     NoLoss, Moves, Sets, Becomes, storeVars, At, Later, Reviving, Ends, Terminal, OwnerType
<1>6. GoodStore'
  BY <1>1, <1>2, <1>3, <1>4 DEF GoodAt, StatusAt, KeptAt, GoodStore, WorkspaceReleased, KeptStatus,
     Terminal, NoLoss, Later, storeVars, At, ReleaseAt, Moves, Sets, Becomes
<1> QED
  BY <1>1, <1>2, <1>3, <1>4, <1>5, <1>6, Local
     DEF Moves, Sets, Becomes, Owes, At, NoFault, Terminal

LEMMA ReviveKeeps ==
    ASSUME OwnerIInv, NEW o \in Owners, Revive(o) PROVE OwnerIInv'
<1>1. Holding(o) /\ own[o].pc = "prepare" /\ own[o].revive
  BY DEF Revive, Holding, At, RestPcs
<1>2. /\ GoodAt(o) /\ GoodStore /\ own[o] \in OwnerType /\ BoundType /\ TypeOK
      /\ owner = o /\ ~own[o].live
  BY <1>1, AtWork DEF At, OwnerIInv
<1>3. \/ Moves(o, "record") /\ sandbox' = "up"
      \/ Moves(o, "fail") /\ (sandbox # "none" => sandbox' # "none")
  BY <1>1, <1>2, GotoMoves DEF Revive, TypeOK, Pcs, LaunchPcs, Writes, StopPcs
<1>4. /\ UNCHANGED <<owner, count, storeVars, promised, phase>>
      /\ sandbox' \in {"none", "up", "suspended"} /\ BoundType' /\ Later
  BY <1>2, Bounds DEF Revive, TypeOK, CloudType
<1>5. GoodAt(o)'
  BY <1>1, <1>2, <1>3, <1>4 DEF GoodAt, StatusAt, ReviveAt, ReleaseAt, BusyAt, TurnAt, KeptAt,
     NoLoss, Moves, Sets, Becomes, storeVars, At, Later, Reviving, Ends, Terminal, OwnerType
<1>6. GoodStore'
  BY <1>1, <1>2, <1>3, <1>4 DEF GoodAt, StatusAt, KeptAt, GoodStore, WorkspaceReleased, KeptStatus,
     Terminal, NoLoss, Later, storeVars, At, ReleaseAt, Moves, Sets, Becomes
<1> QED
  BY <1>1, <1>2, <1>3, <1>4, <1>5, <1>6, Local
     DEF Moves, Sets, Becomes, Owes, At, NoFault, Terminal

LEMMA CreateRunKeeps ==
    ASSUME OwnerIInv, NEW o \in Owners, CreateRun(o) PROVE OwnerIInv'
<1>1. Holding(o) /\ own[o].pc = "run"
  BY DEF CreateRun, Holding, At, RestPcs
<1>2. /\ GoodAt(o) /\ GoodStore /\ own[o] \in OwnerType /\ BoundType /\ TypeOK
      /\ owner = o /\ ~own[o].live
  BY <1>1, AtWork DEF At, OwnerIInv
<1>3. \/ Moves(o, "await") /\ UNCHANGED sandbox
      \/ Sets(o, "fail", TRUE, own[o].busy, own[o].ends) /\ UNCHANGED sandbox
  BY <1>1, <1>2 DEF CreateRun, TypeOK, OwnType, OwnerType, Moves, Sets, Becomes, Alone, Goto,
     Ends, Pcs, LaunchPcs, Writes, StopPcs
<1>4. /\ UNCHANGED <<owner, count, storeVars, promised, phase>>
      /\ sandbox' \in {"none", "up", "suspended"} /\ BoundType' /\ Later
  BY <1>2, Bounds DEF CreateRun, TypeOK, CloudType
<1>5. GoodAt(o)'
  BY <1>1, <1>2, <1>3, <1>4 DEF GoodAt, StatusAt, ReviveAt, ReleaseAt, BusyAt, TurnAt, KeptAt,
     NoLoss, Moves, Sets, Becomes, storeVars, At, Later, Reviving, Ends, Terminal, OwnerType
<1>6. GoodStore'
  BY <1>1, <1>2, <1>3, <1>4 DEF GoodAt, StatusAt, KeptAt, GoodStore, WorkspaceReleased, KeptStatus,
     Terminal, NoLoss, Later, storeVars, At, ReleaseAt, Moves, Sets, Becomes
<1> QED
  BY <1>1, <1>2, <1>3, <1>4, <1>5, <1>6, Local
     DEF Moves, Sets, Becomes, Owes, At, NoFault, Terminal

LEMMA ActivateFailsKeeps ==
    ASSUME OwnerIInv, NEW o \in Owners, ActivateFails(o) PROVE OwnerIInv'
<1>1. Holding(o) /\ own[o].pc = "activate"
  BY DEF ActivateFails, Holding, At, RestPcs
<1>2. /\ GoodAt(o) /\ GoodStore /\ own[o] \in OwnerType /\ BoundType /\ TypeOK
      /\ owner = o /\ ~own[o].live
  BY <1>1, AtWork DEF At, OwnerIInv
<1>3. /\ Sets(o, "fail", TRUE, own[o].busy, own[o].ends)
      /\ own[o].revive => UNCHANGED sandbox
  BY <1>1, <1>2 DEF ActivateFails, TypeOK, OwnType, OwnerType, Moves, Sets, Becomes, Alone, Goto,
     Ends, Pcs, LaunchPcs, Writes, StopPcs
<1>4. /\ UNCHANGED <<owner, count, storeVars, promised, phase>>
      /\ sandbox' \in {"none", "up", "suspended"} /\ BoundType' /\ Later
  BY <1>2, Bounds DEF ActivateFails, TypeOK, CloudType
<1>5. GoodAt(o)'
  BY <1>1, <1>2, <1>3, <1>4 DEF GoodAt, StatusAt, ReviveAt, ReleaseAt, BusyAt, TurnAt, KeptAt,
     NoLoss, Moves, Sets, Becomes, storeVars, At, Later, Reviving, Ends, Terminal, OwnerType
<1>6. GoodStore'
  BY <1>1, <1>2, <1>3, <1>4 DEF GoodAt, StatusAt, KeptAt, GoodStore, WorkspaceReleased, KeptStatus,
     Terminal, NoLoss, Later, storeVars, At, ReleaseAt, Moves, Sets, Becomes
<1> QED
  BY <1>1, <1>2, <1>3, <1>4, <1>5, <1>6, Local
     DEF Moves, Sets, Becomes, Owes, At, NoFault, Terminal

LEMMA FailReviveKeeps ==
    ASSUME OwnerIInv, NEW o \in Owners, FailRevive(o) PROVE OwnerIInv'
<1>1. Holding(o) /\ own[o].pc = "unrevive"
  BY DEF FailRevive, Holding, At, RestPcs
<1>2. /\ GoodAt(o) /\ GoodStore /\ own[o] \in OwnerType /\ BoundType /\ TypeOK
      /\ owner = o /\ ~own[o].live
  BY <1>1, AtWork DEF At, OwnerIInv
<1>3. /\ Sets(o, "resuspend", own[o].named, own[o].busy,
              IF own[o].turn THEN Ends(o) ELSE own[o].ends)
      /\ sandbox # "none" => sandbox' # "none"
  <2>1. (IF own[o].turn THEN Ends(o) ELSE own[o].ends) \in Nat
    BY <1>2, EndsType DEF OwnerType, TypeOK
  <2> QED
    BY <1>2, <2>1, EndsMoves DEF FailRevive, TypeOK, Pcs, Writes
<1>4. /\ UNCHANGED <<owner, count, storeVars, promised, phase>>
      /\ sandbox' \in {"none", "up", "suspended"} /\ BoundType' /\ Later
  BY <1>2, Bounds DEF FailRevive, TypeOK, CloudType
<1>5. GoodAt(o)'
  BY <1>1, <1>2, <1>3, <1>4 DEF GoodAt, StatusAt, ReviveAt, ReleaseAt, BusyAt, TurnAt, KeptAt,
     NoLoss, Moves, Sets, Becomes, storeVars, At, Later, Reviving, Ends, Terminal, OwnerType
<1>6. GoodStore'
  BY <1>1, <1>2, <1>3, <1>4 DEF GoodAt, StatusAt, KeptAt, GoodStore, WorkspaceReleased, KeptStatus,
     Terminal, NoLoss, Later, storeVars, At, ReleaseAt, Moves, Sets, Becomes
<1> QED
  BY <1>1, <1>2, <1>3, <1>4, <1>5, <1>6, Local
     DEF Moves, Sets, Becomes, Owes, At, NoFault, Terminal

LEMMA SuspendSandboxKeeps ==
    ASSUME OwnerIInv, NEW o \in Owners, SuspendSandbox(o) PROVE OwnerIInv'
<1>1. Holding(o) /\ own[o].pc = "suspend"
  BY DEF SuspendSandbox, Holding, At, RestPcs
<1>2. /\ GoodAt(o) /\ GoodStore /\ own[o] \in OwnerType /\ BoundType /\ TypeOK
      /\ owner = o /\ ~own[o].live
  BY <1>1, AtWork DEF At, OwnerIInv
<1>3. \/ Moves(o, "suspending") /\ sandbox' = "suspended"
      \/ Moves(o, "tear") /\ UNCHANGED sandbox
  BY <1>1, <1>2, GotoMoves DEF SuspendSandbox, TypeOK, Pcs, LaunchPcs, Writes, StopPcs
<1>4. /\ UNCHANGED <<owner, count, storeVars, promised, phase>>
      /\ sandbox' \in {"none", "up", "suspended"} /\ BoundType' /\ Later
  BY <1>2, Bounds DEF SuspendSandbox, TypeOK, CloudType
<1>5. GoodAt(o)'
  BY <1>1, <1>2, <1>3, <1>4 DEF GoodAt, StatusAt, ReviveAt, ReleaseAt, BusyAt, TurnAt, KeptAt,
     NoLoss, Moves, Sets, Becomes, storeVars, At, Later, Reviving, Ends, Terminal, OwnerType
<1>6. GoodStore'
  BY <1>1, <1>2, <1>3, <1>4 DEF GoodAt, StatusAt, KeptAt, GoodStore, WorkspaceReleased, KeptStatus,
     Terminal, NoLoss, Later, storeVars, At, ReleaseAt, Moves, Sets, Becomes
<1> QED
  BY <1>1, <1>2, <1>3, <1>4, <1>5, <1>6, Local
     DEF Moves, Sets, Becomes, Owes, At, NoFault, Terminal

LEMMA ClaimReviveKeeps ==
    ASSUME OwnerIInv, NEW o \in Owners, ClaimRevive(o) PROVE OwnerIInv'
<1>1. Holding(o) /\ own[o].pc = "claimed"
  BY DEF ClaimRevive, Holding, At, RestPcs
<1>2. /\ GoodAt(o) /\ GoodStore /\ own[o] \in OwnerType /\ BoundType /\ TypeOK
      /\ owner = o /\ ~own[o].live
  BY <1>1, AtWork DEF At, OwnerIInv
<1>3. /\ UNCHANGED sandbox
      /\ \/ status = "suspended" /\ Becomes(o, "read", own[o].live, own[o].stop, own[o].named, TRUE,
                                             own[o].busy, own[o].ends)
         \/ Moves(o, "settle")
  BY <1>1, <1>2 DEF ClaimRevive, TypeOK, OwnType, OwnerType, Moves, Sets, Becomes, Alone, Goto,
     Ends, Pcs, LaunchPcs, Writes, StopPcs
<1>4. /\ UNCHANGED <<owner, count, storeVars, promised, phase>>
      /\ sandbox' \in {"none", "up", "suspended"} /\ BoundType' /\ Later
  BY <1>2, Bounds DEF ClaimRevive, TypeOK, CloudType
<1>5. GoodAt(o)'
  <2>1. StatusAt(o)' /\ ReviveAt(o)'
    BY <1>1, <1>2, <1>3, <1>4 DEF GoodAt, StatusAt, ReviveAt, Moves, Sets, Becomes, storeVars, Reviving
  <2>2. ReleaseAt(o)' /\ (NoLoss => KeptAt(o))'
    BY <1>1, <1>2, <1>3, <1>4 DEF GoodAt, GoodStore, StatusAt, ReleaseAt, KeptAt, KeptStatus, NoLoss,
       Later, Moves, Sets, Becomes, storeVars, At, Reviving
  <2>3. ~own[o].busy /\ BusyAt(o)'
    BY <1>1, <1>2, <1>3 DEF GoodAt, BusyAt, Moves, Sets, Becomes
  <2>4. TurnAt(o)'
    BY <1>1, <1>2, <1>3, <1>4, <2>3 DEF GoodAt, StatusAt, TurnAt, Moves, Sets, Becomes, storeVars, At,
       Later, Reviving, Ends, Terminal, OwnerType
  <2> QED
    BY <2>1, <2>2, <2>3, <2>4 DEF GoodAt
<1>6. GoodStore'
  BY <1>1, <1>2, <1>3, <1>4 DEF GoodAt, StatusAt, KeptAt, GoodStore, WorkspaceReleased, KeptStatus,
     Terminal, NoLoss, Later, storeVars, At, ReleaseAt, Moves, Sets, Becomes
<1> QED
  BY <1>1, <1>2, <1>3, <1>4, <1>5, <1>6, Local
     DEF Moves, Sets, Becomes, Owes, At, NoFault, Terminal

LEMMA LaunchReadKeeps ==
    ASSUME OwnerIInv, NEW o \in Owners, LaunchRead(o) PROVE OwnerIInv'
<1>1. Holding(o) /\ own[o].pc = "read"
  BY DEF LaunchRead, Holding, At, RestPcs
<1>2. /\ GoodAt(o) /\ GoodStore /\ own[o] \in OwnerType /\ BoundType /\ TypeOK
      /\ owner = o /\ ~own[o].live
  BY <1>1, AtWork DEF At, OwnerIInv
<1>3. /\ UNCHANGED sandbox
      /\ \/ Sets(o, "settle", own[o].named, own[o].busy, IF own[o].turn THEN Ends(o) ELSE own[o].ends)
         \/ Moves(o, "fail")
         \/ /\ ~own[o].stop /\ (own[o].turn => own'[o].turn)
            /\ Becomes(o, "begin", own[o].live, own[o].stop, own[o].named, own'[o].turn, own[o].busy,
                       own[o].ends)
         \/ Moves(o, "end") /\ storeFaults' # 0
  <2> DEFINE e == IF own[o].turn THEN Ends(o) ELSE own[o].ends
  <2>1. e \in Nat
    BY <1>2, EndsType DEF OwnerType, TypeOK
  <2>2. CASE own' = [own EXCEPT ![o].pc = "settle", ![o].ends = e]
    <3> HIDE DEF e
    <3>1. Sets(o, "settle", own[o].named, own[o].busy, e)
      BY <1>2, <2>1, <2>2, EndsMoves DEF TypeOK, Pcs, StopPcs
    <3> QED
      BY <3>1 DEF e, LaunchRead
  <2>3. CASE Goto(o, "fail")
    BY <1>2, <2>3, GotoMoves DEF LaunchRead, TypeOK, Pcs, LaunchPcs
  <2>4. CASE Goto(o, "end") /\ StoreFails
    BY <1>2, <2>4, GotoMoves, Bounds DEF LaunchRead, TypeOK, Pcs, StopPcs
  <2>5. CASE ~own[o].stop /\ \E opening \in {TRUE, own[o].turn} :
                own' = [own EXCEPT ![o].pc = "begin", ![o].turn = opening]
    <3>1. PICK opening \in {TRUE, own[o].turn} :
                own' = [own EXCEPT ![o].pc = "begin", ![o].turn = opening]
      BY <2>5
    <3>2. opening \in BOOLEAN /\ "begin" \in Pcs
      BY <1>2 DEF OwnerType, Pcs, Writes
    <3>3. Becomes(o, "begin", own[o].live, own[o].stop, own[o].named, opening, own[o].busy,
                    own[o].ends)
      BY <1>2, <3>1, <3>2 DEF TypeOK, OwnType, OwnerType, Becomes, Alone
    <3>4. own'[o].turn = opening
      BY <3>3 DEF Becomes
    <3> QED
      BY <2>5, <3>3, <3>4 DEF LaunchRead
  <2> QED
    BY <2>2, <2>3, <2>4, <2>5 DEF LaunchRead
<1>4. /\ UNCHANGED <<owner, count, storeVars, promised, phase>>
      /\ sandbox' \in {"none", "up", "suspended"} /\ BoundType' /\ Later
  BY <1>2, Bounds DEF LaunchRead, TypeOK, CloudType
<1>5. GoodAt(o)'
  <2>1. StatusAt(o)' /\ ReviveAt(o)'
    BY <1>1, <1>2, <1>3, <1>4 DEF GoodAt, StatusAt, ReviveAt, Moves, Sets, Becomes, storeVars, Reviving
  <2>2. ReleaseAt(o)' /\ (NoLoss => KeptAt(o))'
    <3>1. /\ UNCHANGED <<claim, sandbox>> /\ own'[o].revive = own[o].revive
          /\ own'[o].pc \in {"settle", "fail", "begin", "end"}
          /\ own'[o].pc = "end" => storeFaults' # 0
      BY <1>3, <1>4 DEF Moves, Sets, Becomes, storeVars
    <3>2. claim => own[o].revive
      BY <1>1, <1>2 DEF GoodAt, StatusAt, OwnerIInv, CreatedInv
    <3> QED
      BY <1>1, <1>2, <1>4, <3>1, <3>2 DEF GoodAt, ReleaseAt, KeptAt, NoLoss, Later, At, Reviving
  <2>3. ~own[o].busy /\ BusyAt(o)'
    BY <1>1, <1>2, <1>3 DEF GoodAt, BusyAt, Moves, Sets, Becomes
  <2>4. TurnAt(o)'
    <3>1. own[o].revive => own[o].turn /\ Ends(o) = own[o].ends + 1
      BY <1>1, <1>2 DEF GoodAt, StatusAt, TurnAt, At, Ends, Terminal
    <3>2. /\ own'[o].revive = own[o].revive /\ own'[o].busy = own[o].busy
          /\ own[o].turn => own'[o].turn
          /\ \/ own'[o].pc = "settle" /\ own'[o].ends = (IF own[o].turn THEN Ends(o) ELSE own[o].ends)
             \/ own'[o].pc \in {"fail", "begin"} /\ own'[o].ends = own[o].ends
             \/ storeFaults' # 0 /\ own'[o].pc = "end"
      BY <1>3 DEF Moves, Sets, Becomes
    <3>3. own[o].revive /\ storeFaults' = 0 => own[o].ends = 0
      BY <1>1, <1>2, <1>4, <3>1 DEF GoodAt, TurnAt, Later, Reviving
    <3> QED
      BY <2>3, <3>1, <3>2, <3>3 DEF TurnAt, At, Reviving
  <2> QED
    BY <2>1, <2>2, <2>3, <2>4 DEF GoodAt
<1>6. GoodStore'
  BY <1>1, <1>2, <1>3, <1>4 DEF GoodAt, StatusAt, KeptAt, GoodStore, WorkspaceReleased, KeptStatus,
     Terminal, NoLoss, Later, storeVars, At, ReleaseAt, Moves, Sets, Becomes
<1> QED
  BY <1>1, <1>2, <1>3, <1>4, <1>5, <1>6, Local
     DEF Moves, Sets, Becomes, Owes, At, NoFault, Terminal

LEMMA ActivateKeeps ==
    ASSUME OwnerIInv, NEW o \in Owners, Activate(o) PROVE OwnerIInv'
<1>1. Holding(o) /\ own[o].pc = "activate"
  BY DEF Activate, Holding, At, RestPcs
<1>2. /\ GoodAt(o) /\ GoodStore /\ own[o] \in OwnerType /\ BoundType /\ TypeOK
      /\ owner = o /\ ~own[o].live
  BY <1>1, AtWork DEF At, OwnerIInv
<1>3. /\ UNCHANGED sandbox
      /\ \/ Sets(o, "register", own[o].named, own[o].turn, own[o].ends)
         \/ own[o].turn /\ storeFaults' # 0 /\ Sets(o, "register", own[o].named, own[o].busy, Ends(o))
  BY <1>2, EndsType, EndsMoves, Bounds
     DEF Activate, TypeOK, OwnType, OwnerType, Sets, Becomes, Alone, Pcs, LaunchPcs
<1>4. /\ UNCHANGED <<owner, count, storeVars, promised, phase>>
      /\ sandbox' \in {"none", "up", "suspended"} /\ BoundType' /\ Later
  BY <1>2, Bounds DEF Activate, TypeOK, CloudType
<1>5. GoodAt(o)'
  BY <1>1, <1>2, <1>3, <1>4 DEF GoodAt, StatusAt, ReviveAt, ReleaseAt, BusyAt, TurnAt, KeptAt,
     NoLoss, Moves, Sets, Becomes, storeVars, At, Later, Reviving, Ends, Terminal, OwnerType
<1>6. GoodStore'
  BY <1>1, <1>2, <1>3, <1>4 DEF GoodAt, StatusAt, KeptAt, GoodStore, WorkspaceReleased, KeptStatus,
     Terminal, NoLoss, Later, storeVars, At, ReleaseAt, Moves, Sets, Becomes
<1> QED
  BY <1>1, <1>2, <1>3, <1>4, <1>5, <1>6, Local
     DEF Moves, Sets, Becomes, Owes, At, NoFault, Terminal

LEMMA ResumeUnavailableKeeps ==
    ASSUME OwnerIInv, NEW o \in Owners, ResumeUnavailable(o) PROVE OwnerIInv'
<1>1. Holding(o) /\ own[o].pc = "activate"
  BY DEF ResumeUnavailable, Holding, At, RestPcs
<1>2. /\ GoodAt(o) /\ GoodStore /\ own[o] \in OwnerType /\ BoundType /\ TypeOK
      /\ owner = o /\ ~own[o].live
  BY <1>1, AtWork DEF At, OwnerIInv
<1>3. /\ UNCHANGED sandbox
      /\ \/ own[o].revive /\ ~own[o].stop /\ Moves(o, "unrevive")
         \/ Sets(o, "fail", TRUE, own[o].busy, own[o].ends)
  BY <1>1, <1>2 DEF ResumeUnavailable, TypeOK, OwnType, OwnerType, Moves, Sets, Becomes, Alone, Goto,
     Ends, Pcs, LaunchPcs, Writes, StopPcs
<1>4. /\ UNCHANGED <<owner, count, storeVars, promised, phase>>
      /\ sandbox' \in {"none", "up", "suspended"} /\ BoundType' /\ Later
  BY <1>2, Bounds DEF ResumeUnavailable, TypeOK, CloudType
<1>5. GoodAt(o)'
  BY <1>1, <1>2, <1>3, <1>4 DEF GoodAt, StatusAt, ReviveAt, ReleaseAt, BusyAt, TurnAt, KeptAt,
     NoLoss, Moves, Sets, Becomes, storeVars, At, Later, Reviving, Ends, Terminal, OwnerType
<1>6. GoodStore'
  BY <1>1, <1>2, <1>3, <1>4 DEF GoodAt, StatusAt, KeptAt, GoodStore, WorkspaceReleased, KeptStatus,
     Terminal, NoLoss, Later, storeVars, At, ReleaseAt, Moves, Sets, Becomes
<1> QED
  BY <1>1, <1>2, <1>3, <1>4, <1>5, <1>6, Local
     DEF Moves, Sets, Becomes, Owes, At, NoFault, Terminal

LEMMA RegisterKeeps ==
    ASSUME OwnerIInv, NEW o \in Owners, Register(o) PROVE OwnerIInv'
<1>1. Holding(o) /\ own[o].pc = "register"
  BY DEF Register, Holding, At, RestPcs
<1>2. /\ GoodAt(o) /\ GoodStore /\ own[o] \in OwnerType /\ BoundType /\ TypeOK
      /\ owner = o /\ ~own[o].live
  BY <1>1, AtWork DEF At, OwnerIInv
<1>3. /\ UNCHANGED sandbox
      /\ \/ /\ ~own[o].stop
            /\ Becomes(o, "link", TRUE, own[o].stop, own[o].named, own[o].turn, own[o].busy, own[o].ends)
         \/ Sets(o, "fail", TRUE, FALSE, own[o].ends)
  BY <1>1, <1>2 DEF Register, TypeOK, OwnType, OwnerType, Moves, Sets, Becomes, Alone, Goto,
     Ends, Pcs, LaunchPcs, Writes, StopPcs
<1>4. /\ UNCHANGED <<owner, count, storeVars, promised, phase>>
      /\ sandbox' \in {"none", "up", "suspended"} /\ BoundType' /\ Later
  BY <1>2, Bounds DEF Register, TypeOK, CloudType
<1>5. GoodAt(o)'
  BY <1>1, <1>2, <1>3, <1>4 DEF GoodAt, StatusAt, ReviveAt, ReleaseAt, BusyAt, TurnAt, KeptAt,
     NoLoss, Moves, Sets, Becomes, storeVars, At, Later, Reviving, Ends, Terminal, OwnerType
<1>6. GoodStore'
  BY <1>1, <1>2, <1>3, <1>4 DEF GoodAt, StatusAt, KeptAt, GoodStore, WorkspaceReleased, KeptStatus,
     Terminal, NoLoss, Later, storeVars, At, ReleaseAt, Moves, Sets, Becomes
<1> QED
  BY <1>1, <1>2, <1>3, <1>4, <1>5, <1>6, Local
     DEF Moves, Sets, Becomes, Owes, At, NoFault, Terminal

LEMMA TeardownKeeps ==
    ASSUME OwnerIInv, NEW o \in Owners, Teardown(o) PROVE OwnerIInv'
<1>1. Holding(o) /\ own[o].pc = "tear"
  BY DEF Teardown, Holding, At, RestPcs
<1>2. /\ GoodAt(o) /\ GoodStore /\ own[o] \in OwnerType /\ BoundType /\ TypeOK
      /\ owner = o /\ ~own[o].live
  BY <1>1, AtWork DEF At, OwnerIInv
<1>3. \/ Moves(o, "end") /\ ~own[o].named /\ UNCHANGED sandbox
      \/ Moves(o, "end") /\ sandbox' = "none"
      \/ Moves(o, "settle") /\ clusterFaults' # 0 /\ UNCHANGED sandbox
  BY <1>1, <1>2, GotoMoves, Bounds DEF Teardown, TypeOK, Pcs, LaunchPcs, Writes, StopPcs
<1>4. /\ UNCHANGED <<owner, count, storeVars, promised, phase>>
      /\ sandbox' \in {"none", "up", "suspended"} /\ BoundType' /\ Later
  BY <1>2, Bounds DEF Teardown, TypeOK, CloudType
<1>5. GoodAt(o)'
  BY <1>1, <1>2, <1>3, <1>4 DEF GoodAt, StatusAt, ReviveAt, ReleaseAt, BusyAt, TurnAt, KeptAt,
     NoLoss, Moves, Sets, Becomes, storeVars, At, Later, Reviving, Ends, Terminal, OwnerType
<1>6. GoodStore'
  <2>1. owner' = o /\ (owner' # 0) /\ UNCHANGED <<status, claim>>
    BY <1>2, <1>4 DEF Owners, storeVars
  <2>2. WorkspaceReleased'
    BY <1>2, <1>3, <1>4, <2>1 DEF GoodStore, WorkspaceReleased, Later, Terminal
  <2>3. \/ own'[o].pc = "end"
        \/ UNCHANGED sandbox
    BY <1>3 DEF Moves, Sets, Becomes
  <2>4. (NoLoss => KeptStatus)'
    BY <1>1, <1>2, <1>4, <2>1, <2>3 DEF GoodStore, KeptStatus, NoLoss, Later, At
  <2> QED
    BY <2>2, <2>4 DEF GoodStore
<1> QED
  BY <1>1, <1>2, <1>3, <1>4, <1>5, <1>6, Local
     DEF Moves, Sets, Becomes, Owes, At, NoFault, Terminal

LEMMA FailTeardownKeeps ==
    ASSUME OwnerIInv, NEW o \in Owners, FailTeardown(o) PROVE OwnerIInv'
<1>1. Holding(o) /\ own[o].pc = "teardown"
  BY DEF FailTeardown, Holding, At, RestPcs
<1>2. /\ GoodAt(o) /\ GoodStore /\ own[o] \in OwnerType /\ BoundType /\ TypeOK
      /\ owner = o /\ ~own[o].live
  BY <1>1, AtWork DEF At, OwnerIInv
<1>3. \/ Moves(o, "end") /\ ~own[o].named /\ UNCHANGED sandbox
      \/ Moves(o, "end") /\ sandbox' = "none"
      \/ Moves(o, "settle") /\ clusterFaults' # 0 /\ UNCHANGED sandbox
      \/ Moves(o, "end") /\ ~claim /\ UNCHANGED sandbox
      \/ Moves(o, "end") /\ storeFaults' # 0 /\ UNCHANGED sandbox
  BY <1>1, <1>2, GotoMoves, Bounds DEF FailTeardown, TypeOK, BoundType, Pcs, LaunchPcs, Writes, StopPcs
<1>4. /\ UNCHANGED <<owner, count, storeVars, promised, phase>>
      /\ sandbox' \in {"none", "up", "suspended"} /\ BoundType' /\ Later
  BY <1>2, Bounds DEF BoundType, Later, FailTeardown, TypeOK, CloudType
<1>5. GoodAt(o)'
  BY <1>1, <1>2, <1>3, <1>4 DEF GoodAt, StatusAt, ReviveAt, ReleaseAt, BusyAt, TurnAt, KeptAt,
     NoLoss, Moves, Sets, Becomes, storeVars, At, Later, Reviving, Ends, Terminal, OwnerType
<1>6. GoodStore'
  <2>1. owner' = o /\ (owner' # 0) /\ UNCHANGED <<status, claim>>
    BY <1>2, <1>4 DEF Owners, storeVars
  <2>2. WorkspaceReleased'
    BY <1>2, <1>3, <1>4, <2>1 DEF GoodStore, WorkspaceReleased, Later, Terminal
  <2>3. \/ own'[o].pc = "end"
        \/ UNCHANGED sandbox
    BY <1>3 DEF Moves, Sets, Becomes
  <2>4. (NoLoss => KeptStatus)'
    BY <1>1, <1>2, <1>4, <2>1, <2>3 DEF GoodStore, KeptStatus, NoLoss, Later, At
  <2> QED
    BY <2>2, <2>4 DEF GoodStore
<1> QED
  BY <1>1, <1>2, <1>3, <1>4, <1>5, <1>6, Local
     DEF Moves, Sets, Becomes, Owes, At, NoFault, Terminal

LEMMA StopDetachedKeeps ==
    ASSUME OwnerIInv, NEW o \in Owners, StopDetached(o) PROVE OwnerIInv'
<1>1. Holding(o) /\ own[o].pc = "detached"
  BY DEF StopDetached, Holding, At, RestPcs
<1>2. /\ GoodAt(o) /\ GoodStore /\ own[o] \in OwnerType /\ BoundType /\ TypeOK
      /\ owner = o /\ ~own[o].live
  BY <1>1, AtWork DEF At, OwnerIInv
<1>3. /\ UNCHANGED sandbox
      /\ \/ Moves(o, "settle") /\ (Terminal(status) \/ storeFaults' # 0)
         \/ Sets(o, "tear", claim, own[o].busy, own[o].ends)
  <2>1. claim \in BOOLEAN /\ {"tear", "settle", "adopted", "live"} \subseteq Pcs
    BY <1>2 DEF TypeOK, StoreType, Pcs, StopPcs, RestPcs
  <2> QED
    BY <1>2, <2>1, GotoMoves, Bounds DEF StopDetached, TypeOK, OwnType, OwnerType, Moves, Sets, Becomes, Alone
<1>4. /\ UNCHANGED <<owner, count, storeVars, promised, phase>>
      /\ sandbox' \in {"none", "up", "suspended"} /\ BoundType' /\ Later
  BY <1>2, Bounds DEF StopDetached, TypeOK, CloudType
<1>5. GoodAt(o)'
  BY <1>1, <1>2, <1>3, <1>4 DEF GoodAt, StatusAt, ReviveAt, ReleaseAt, BusyAt, TurnAt, KeptAt,
     NoLoss, Moves, Sets, Becomes, storeVars, At, Later, Reviving, Ends, Terminal, OwnerType
<1>6. GoodStore'
  BY <1>1, <1>2, <1>3, <1>4 DEF GoodAt, StatusAt, KeptAt, GoodStore, WorkspaceReleased, KeptStatus,
     Terminal, NoLoss, Later, storeVars, At, ReleaseAt, Moves, Sets, Becomes
<1> QED
  BY <1>1, <1>2, <1>3, <1>4, <1>5, <1>6, Local
     DEF Moves, Sets, Becomes, Owes, At, NoFault, Terminal

LEMMA ReadSuspendedKeeps ==
    ASSUME OwnerIInv, NEW o \in Owners, ReadSuspended(o) PROVE OwnerIInv'
<1>1. Holding(o) /\ own[o].pc = "release"
  BY DEF ReadSuspended, Holding, At, RestPcs
<1>2. /\ GoodAt(o) /\ GoodStore /\ own[o] \in OwnerType /\ BoundType /\ TypeOK
      /\ owner = o /\ ~own[o].live
  BY <1>1, AtWork DEF At, OwnerIInv
<1>3. /\ UNCHANGED sandbox
      /\ \/ Moves(o, "settle")
         \/ Sets(o, "tear", claim, own[o].busy, own[o].ends)
  <2>1. claim \in BOOLEAN /\ {"tear", "settle", "adopted", "live"} \subseteq Pcs
    BY <1>2 DEF TypeOK, StoreType, Pcs, StopPcs, RestPcs
  <2> QED
    BY <1>2, <2>1, GotoMoves, Bounds DEF ReadSuspended, TypeOK, OwnType, OwnerType, Moves, Sets, Becomes, Alone
<1>4. /\ UNCHANGED <<owner, count, storeVars, promised, phase>>
      /\ sandbox' \in {"none", "up", "suspended"} /\ BoundType' /\ Later
  BY <1>2, Bounds DEF ReadSuspended, TypeOK, CloudType
<1>5. GoodAt(o)'
  BY <1>1, <1>2, <1>3, <1>4 DEF GoodAt, StatusAt, ReviveAt, ReleaseAt, BusyAt, TurnAt, KeptAt,
     NoLoss, Moves, Sets, Becomes, storeVars, At, Later, Reviving, Ends, Terminal, OwnerType
<1>6. GoodStore'
  BY <1>1, <1>2, <1>3, <1>4 DEF GoodAt, StatusAt, KeptAt, GoodStore, WorkspaceReleased, KeptStatus,
     Terminal, NoLoss, Later, storeVars, At, ReleaseAt, Moves, Sets, Becomes
<1> QED
  BY <1>1, <1>2, <1>3, <1>4, <1>5, <1>6, Local
     DEF Moves, Sets, Becomes, Owes, At, NoFault, Terminal

LEMMA AdoptKeeps ==
    ASSUME OwnerIInv, NEW o \in Owners, Adopt(o) PROVE OwnerIInv'
<1>1. Holding(o) /\ own[o].pc = "adopt"
  BY DEF Adopt, Holding, At, RestPcs
<1>2. /\ GoodAt(o) /\ GoodStore /\ own[o] \in OwnerType /\ BoundType /\ TypeOK
      /\ owner = o /\ ~own[o].live
  BY <1>1, AtWork DEF At, OwnerIInv
<1>3. /\ UNCHANGED sandbox
      /\ \/ status = "running" /\ Moves(o, "adopted")
         \/ Sets(o, "tear", claim, own[o].busy, own[o].ends)
  <2>1. claim \in BOOLEAN /\ {"tear", "settle", "adopted", "live"} \subseteq Pcs
    BY <1>2 DEF TypeOK, StoreType, Pcs, StopPcs, RestPcs
  <2> QED
    BY <1>2, <2>1, GotoMoves, Bounds DEF Adopt, TypeOK, OwnType, OwnerType, Moves, Sets, Becomes, Alone
<1>4. /\ UNCHANGED <<owner, count, storeVars, promised, phase>>
      /\ sandbox' \in {"none", "up", "suspended"} /\ BoundType' /\ Later
  BY <1>2, Bounds DEF Adopt, TypeOK, CloudType
<1>5. GoodAt(o)'
  BY <1>1, <1>2, <1>3, <1>4 DEF GoodAt, StatusAt, ReviveAt, ReleaseAt, BusyAt, TurnAt, KeptAt,
     NoLoss, Moves, Sets, Becomes, storeVars, At, Later, Reviving, Ends, Terminal, OwnerType
<1>6. GoodStore'
  BY <1>1, <1>2, <1>3, <1>4 DEF GoodAt, StatusAt, KeptAt, GoodStore, WorkspaceReleased, KeptStatus,
     Terminal, NoLoss, Later, storeVars, At, ReleaseAt, Moves, Sets, Becomes
<1> QED
  BY <1>1, <1>2, <1>3, <1>4, <1>5, <1>6, Local
     DEF Moves, Sets, Becomes, Owes, At, NoFault, Terminal

LEMMA RegisterAdoptedKeeps ==
    ASSUME OwnerIInv, NEW o \in Owners, RegisterAdopted(o) PROVE OwnerIInv'
<1>1. Holding(o) /\ own[o].pc = "adopted"
  BY DEF RegisterAdopted, Holding, At, RestPcs
<1>2. /\ GoodAt(o) /\ GoodStore /\ own[o] \in OwnerType /\ BoundType /\ TypeOK
      /\ owner = o /\ ~own[o].live
  BY <1>1, AtWork DEF At, OwnerIInv
<1>3. /\ UNCHANGED sandbox /\ own'[o].busy \in BOOLEAN
      /\ \/ Sets(o, "tear", claim, own[o].busy, own[o].ends)
         \/ /\ ~own[o].stop
            /\ Becomes(o, "live", TRUE, own[o].stop, own[o].named, own[o].turn, own'[o].busy, own[o].ends)
  <2>1. claim \in BOOLEAN /\ {"tear", "settle", "adopted", "live"} \subseteq Pcs
    BY <1>2 DEF TypeOK, StoreType, Pcs, StopPcs, RestPcs
  <2> QED
    BY <1>2, <2>1, GotoMoves, Bounds DEF RegisterAdopted, TypeOK, OwnType, OwnerType, Moves, Sets, Becomes, Alone
<1>4. /\ UNCHANGED <<owner, count, storeVars, promised>> /\ phase' \in {phase, "up"}
      /\ sandbox' \in {"none", "up", "suspended"} /\ BoundType' /\ Later
  BY <1>2, Bounds DEF RegisterAdopted, TypeOK, CloudType
<1>5. GoodAt(o)'
  BY <1>1, <1>2, <1>3, <1>4 DEF GoodAt, StatusAt, ReviveAt, ReleaseAt, BusyAt, TurnAt, KeptAt,
     NoLoss, Moves, Sets, Becomes, storeVars, At, Later, Reviving, Ends, Terminal, OwnerType
<1>6. GoodStore'
  BY <1>1, <1>2, <1>3, <1>4 DEF GoodAt, StatusAt, KeptAt, GoodStore, WorkspaceReleased, KeptStatus,
     Terminal, NoLoss, Later, storeVars, At, ReleaseAt, Moves, Sets, Becomes
<1> QED
  BY <1>1, <1>2, <1>3, <1>4, <1>5, <1>6, Local
     DEF Moves, Sets, Becomes, Owes, At, NoFault, Terminal

LEMMA FailLaunchKeeps ==
    ASSUME OwnerIInv, NEW o \in Owners, FailLaunch(o) PROVE OwnerIInv'
<1>1. Holding(o) /\ own[o].pc = "fail"
  BY DEF FailLaunch, Holding, At, RestPcs
<1>2. /\ GoodAt(o) /\ GoodStore /\ own[o] \in OwnerType /\ BoundType /\ TypeOK
      /\ owner = o /\ ~own[o].live
  BY <1>1, AtWork DEF At, OwnerIInv
<1>3. /\ UNCHANGED sandbox
      /\ \/ /\ own[o].stop
            /\ Becomes(o, "teardown", own[o].live, FALSE, own[o].named \/ own[o].revive, own[o].turn,
                       own[o].busy, IF own[o].turn THEN Ends(o) ELSE own[o].ends)
         \/ ~own[o].stop /\ own[o].revive /\ Moves(o, "unrevive")
         \/ ~own[o].stop /\ ~own[o].revive /\ Moves(o, "teardown")
  <2>1. CASE own[o].stop
    <3> DEFINE e == IF own[o].turn THEN Ends(o) ELSE own[o].ends
               n == own[o].named \/ own[o].revive
               r == [own[o] EXCEPT !.pc = "teardown", !.stop = FALSE, !.named = n, !.ends = e]
    <3>1. e \in Nat /\ n \in BOOLEAN /\ "teardown" \in Pcs
      BY <1>2, EndsType DEF OwnerType, TypeOK, Pcs, LaunchPcs
    <3>2. own' = [own EXCEPT ![o] = r] /\ UNCHANGED sandbox
      BY <2>1 DEF FailLaunch
    <3> HIDE DEF e, n
    <3>3. r \in OwnerType
      BY <1>2, <3>1 DEF OwnerType
    <3>4. /\ r.pc = "teardown" /\ r.ends = e /\ r.revive = own[o].revive
          /\ r.target = own[o].target /\ r.live = own[o].live /\ r.stop = FALSE /\ r.named = n
          /\ r.turn = own[o].turn /\ r.busy = own[o].busy
      BY <1>2 DEF OwnerType
    <3> HIDE DEF r
    <3>5. Becomes(o, "teardown", own[o].live, FALSE, n, own[o].turn, own[o].busy, e)
      BY <1>2, <3>2, <3>3, <3>4 DEF TypeOK, OwnType, Becomes, Alone
    <3> QED
      BY <2>1, <3>2, <3>5 DEF e, n
  <2>2. CASE ~own[o].stop
    BY <1>2, <2>2, GotoMoves DEF FailLaunch, TypeOK, Pcs, LaunchPcs
  <2> QED
    BY <2>1, <2>2
<1>4. /\ UNCHANGED <<owner, count, storeVars, promised, phase>>
      /\ sandbox' \in {"none", "up", "suspended"} /\ BoundType' /\ Later
  BY <1>2, Bounds DEF FailLaunch, TypeOK, CloudType
<1>5. GoodAt(o)'
  BY <1>1, <1>2, <1>3, <1>4 DEF GoodAt, StatusAt, ReviveAt, ReleaseAt, BusyAt, TurnAt, KeptAt,
     NoLoss, Moves, Sets, Becomes, storeVars, At, Later, Reviving, Ends, Terminal, OwnerType
<1>6. GoodStore'
  BY <1>1, <1>2, <1>3, <1>4 DEF GoodAt, StatusAt, KeptAt, GoodStore, WorkspaceReleased, KeptStatus,
     Terminal, NoLoss, Later, storeVars, At, ReleaseAt, Moves, Sets, Becomes
<1> QED
  BY <1>1, <1>2, <1>3, <1>4, <1>5, <1>6, Local
     DEF Moves, Sets, Becomes, Owes, At, NoFault, Terminal

-----------------------------------------------------------------------------
(* Writes to the store.                                                    *)

\* A step of a goroutine that is at work, keeps the entry and writes to the store.
LEMMA LocalWrite ==
    ASSUME OwnerIInv, NEW o \in Owners, Holding(o), Alone(o),
           UNCHANGED <<owner, count, promised, phase, sandbox>>, StoreType', BoundType', Later,
           status' \notin {"none", "pending"},
           ~At(o, "stopLive"), own'[o].pc \notin {"free", "done", "created", "stopLive"},
           At(o, "link") => own'[o].pc \in {"link", "live", "unlinked"},
           own'[o].live => own'[o].pc \in {"link", "live", "unlinked"} /\ ~own'[o].stop,
           At(o, "link") => status' \in {"awaiting", "running"},
           GoodAt(o)', GoodStore', PromiseInv'
    PROVE  OwnerIInv'
<1> USE DEF OwnerIInv
<1>1. TypeOK'
  <2>1. CloudType'
    BY DEF TypeOK, CloudType
  <2>2. EntryType'
    BY DEF TypeOK, EntryType
  <2> QED
    BY <2>1, <2>2 DEF TypeOK, Alone
<1>2. EntryInv'
  BY EntryLocal DEF TypeOK
<1>3. CreatedInv'
  <2>1. owner # 0 /\ \A q \in Owners : ~At(q, "created")
    BY DEF EntryInv, CreatedInv, StoppedBy, Owners, Holding, RestPcs, At
  <2> QED
    BY <2>1 DEF CreatedInv, At, Alone
<1>4. StatusInv'
  <2> SUFFICES ASSUME NEW q \in Owners, (owner = q \/ Holding(q))', q # o
               PROVE  (StatusAt(q) /\ ReviveAt(q))'
    BY DEF StatusInv, GoodAt
  <2>1. own'[q] = own[q]
    BY DEF Alone
  <2>2. At(o, "link") /\ At(q, "stopLive")
    <3>1. CASE Holding(q)
      BY <3>1, TwoAtWork
    <3>2. CASE ~Holding(q)
      BY <2>1, <3>2 DEF EntryInv, Holding, StoppedBy
    <3> QED
      BY <3>1, <3>2
  <2> QED
    BY <2>1, <2>2 DEF StatusAt, ReviveAt, At, Reviving
<1>5. ReleaseInv' /\ KeptInv'
  BY WorkLocal DEF GoodAt
<1>6. TurnInv'
  BY TurnLocal DEF TypeOK, GoodAt
<1> QED
  BY <1>1, <1>2, <1>3, <1>4, <1>5, <1>6

LEMMA StoreSame ==
    ASSUME OwnerIInv, NEW o \in Owners, Alone(o), Later, ~At(o, "end"),
           UNCHANGED <<storeVars, sandbox, owner>>
    PROVE  GoodStore'
<1>1. WorkspaceReleased'
  BY DEF OwnerIInv, ReleaseInv, WorkspaceReleased, storeVars, Later, Terminal
<1>2. (NoLoss => KeptStatus)'
  BY DEF OwnerIInv, TypeOK, EntryType, KeptInv, KeptStatus, NoLoss, Later, storeVars, At, Alone,
         Owners
<1> QED
  BY <1>1, <1>2 DEF GoodStore

\* An owner whose record keeps its fields still has its open turn.
LEMMA BusySame ==
    ASSUME OwnerIInv, NEW o \in Owners, Alone(o), UNCHANGED owner, Holding(o), ~At(o, "stopLive"),
           own'[o].busy => own[o].busy, own'[o].pc \in {"register", "link", "live", "unlinked"}
    PROVE  BusyAt(o)'
  BY DEF OwnerIInv, TypeOK, EntryType, TurnInv, BusyAt, StoppedBy, At, Alone, Owners

LEMMA NotWrittenSets ==
    ASSUME OwnType, NEW o \in Owners, NotWritten(o)
    PROVE  LET p == own[o].pc IN
           Sets(o, CASE p \in {"begin", "record", "await"} -> "fail"
                     [] p = "link" -> "unlinked"
                     [] OTHER -> "settle",
                own[o].named \/ p \in {"record", "await"},
                own[o].busy /\ p # "link",
                IF p = "link" /\ own[o].busy THEN Ends(o) ELSE own[o].ends)
<1> DEFINE p == own[o].pc
           np == CASE p \in {"begin", "record", "await"} -> "fail"
                   [] p = "link" -> "unlinked"
                   [] OTHER -> "settle"
           nn == own[o].named \/ p \in {"record", "await"}
           ne == IF p = "link" /\ own[o].busy THEN Ends(o) ELSE own[o].ends
           nb == own[o].busy /\ p # "link"
<1>1. own[o] \in OwnerType /\ Ends(o) \in Nat
  BY EndsType DEF OwnType
<1>2. np \in Pcs /\ nn \in BOOLEAN /\ ne \in Nat /\ nb \in BOOLEAN
  BY <1>1 DEF Pcs, LaunchPcs, StopPcs, RestPcs, OwnerType
<1>3. own' = [own EXCEPT ![o].checked = FALSE, ![o].pc = np, ![o].named = nn, ![o].ends = ne,
                         ![o].busy = nb]
  BY DEF NotWritten
<1> HIDE DEF np, nn, ne, nb
<1>4. Sets(o, np, nn, nb, ne)
  BY <1>1, <1>2, <1>3 DEF OwnType, OwnerType, Sets, Becomes, Alone
<1> QED
  BY <1>4 DEF np, nn, ne, nb

\* A write that is refused or fails leaves the store as it was.
LEMMA NotWrittenKeeps ==
    ASSUME OwnerIInv, NEW o \in Owners, own[o].pc \in Writes, NotWritten(o),
           UNCHANGED <<storeVars, sandbox, phase, owner, count, promised>>, BoundType', Later
    PROVE  OwnerIInv'
<1>1. Holding(o) /\ ~At(o, "end") /\ ~At(o, "stopLive")
  BY DEF Holding, RestPcs, Writes, At
<1>2. GoodAt(o) /\ GoodStore /\ own[o] \in OwnerType /\ TypeOK
  BY <1>1, AtWork DEF OwnerIInv
<1>3. LET p == own[o].pc IN
      Sets(o, CASE p \in {"begin", "record", "await"} -> "fail"
                [] p = "link" -> "unlinked"
                [] OTHER -> "settle",
           own[o].named \/ p \in {"record", "await"},
           own[o].busy /\ p # "link",
           IF p = "link" /\ own[o].busy THEN Ends(o) ELSE own[o].ends)
  BY <1>2, NotWrittenSets DEF TypeOK
<1>4. own[o].live => At(o, "link") /\ ~own[o].stop
  BY <1>1 DEF OwnerIInv, EntryInv, Holding, RestPcs, At
<1>5. /\ Alone(o) /\ own'[o].stop = own[o].stop /\ own'[o].live = own[o].live
      /\ own'[o].revive = own[o].revive /\ own'[o].turn = own[o].turn
      /\ own[o].pc \in {"begin", "record", "await"} => own'[o].pc = "fail"
      /\ own[o].pc = "link" => own'[o].pc = "unlinked" /\ ~own'[o].busy
      /\ own[o].pc \in {"resuspend", "suspending"} => own'[o].pc = "settle"
      /\ own[o].pc # "link" => own'[o].busy = own[o].busy
      /\ own'[o].ends = IF own[o].pc = "link" /\ own[o].busy THEN Ends(o) ELSE own[o].ends
      /\ own[o].named \/ own[o].pc \in {"record", "await"} => own'[o].named
  BY <1>2, <1>3 DEF Sets, Becomes, OwnerType
<1>6. StatusAt(o)' /\ ReviveAt(o)'
  BY <1>2, <1>5 DEF GoodAt, StatusAt, ReviveAt, Writes, Reviving, storeVars
<1>7. ReleaseAt(o)' /\ (NoLoss => KeptAt(o))'
  <2>1. At(o, "begin") /\ claim => own[o].revive
    BY <1>2 DEF GoodAt, StatusAt, OwnerIInv, CreatedInv, At
  <2> QED
    BY <1>2, <1>5, <2>1 DEF GoodAt, ReleaseAt, KeptAt, Writes, Reviving, storeVars, NoLoss, Later, At
<1>8. BusyAt(o)' /\ TurnAt(o)'
  <2>1. own[o].pc # "link" => ~own[o].busy
    BY <1>2 DEF GoodAt, BusyAt, Writes
  <2>2. own[o].pc = "link" => Ends(o) = own[o].ends + 1
    BY <1>2 DEF GoodAt, StatusAt, Ends, Terminal
  <2>3. ~own'[o].busy
    BY <1>5, <2>1 DEF Writes
  <2>4. TurnAt(o)'
    BY <1>2, <1>5, <2>1, <2>2, <2>3 DEF GoodAt, TurnAt, Writes, Reviving, Later, At
  <2> QED
    BY <2>3, <2>4 DEF BusyAt
<1>9. GoodStore'
  BY <1>1, <1>5, StoreSame
<1> QED
  BY <1>1, <1>2, <1>4, <1>5, <1>6, <1>7, <1>8, <1>9, Local
     DEF GoodAt, Writes, Owes, At, TypeOK, CloudType

LEMMA WriteReadKeeps ==
    ASSUME OwnerIInv, NEW o \in Owners, WriteRead(o) PROVE OwnerIInv'
<1>1. Holding(o) /\ ~At(o, "end") /\ ~At(o, "stopLive") /\ own[o].pc \in Writes
  BY DEF WriteRead, Holding, RestPcs, Writes, At
<1>2. GoodAt(o) /\ GoodStore /\ own[o] \in OwnerType /\ TypeOK /\ BoundType
  BY <1>1, AtWork DEF OwnerIInv
<1>3. UNCHANGED <<storeVars, sandbox, phase, owner, count, promised>> /\ BoundType' /\ Later
  BY <1>2, Bounds DEF WriteRead
<1>4. CASE NotWritten(o)
  BY <1>1, <1>3, <1>4, NotWrittenKeeps
<1>5. CASE own' = [own EXCEPT ![o].checked = TRUE]
  <2>1. Moves(o, own[o].pc)
    BY <1>2, <1>5 DEF TypeOK, OwnType, OwnerType, Moves, Sets, Becomes, Alone
  <2>2. BusyAt(o)'
    <3>1. CASE At(o, "link")
      BY <1>1, <1>3, <2>1, <3>1, BusySame DEF Moves, Sets, Becomes, At
    <3>2. CASE ~At(o, "link")
      BY <1>1, <1>2, <2>1, <3>2 DEF GoodAt, BusyAt, Moves, Sets, Becomes, At, Writes
    <3> QED
      BY <3>1, <3>2
  <2>3. GoodAt(o)'
    BY <1>2, <1>3, <2>1, <2>2 DEF GoodAt, StatusAt, ReviveAt, ReleaseAt, TurnAt, KeptAt,
       NoLoss, Moves, Sets, Becomes, storeVars, At, Later
  <2>4. own[o].live => At(o, "link") /\ ~own[o].stop
    BY <1>1 DEF OwnerIInv, EntryInv, Holding, RestPcs, At
  <2>5. GoodStore'
    BY <1>1, <1>3, <2>1, StoreSame DEF Moves, Sets, Becomes
  <2> QED
    BY <1>1, <1>2, <1>3, <2>1, <2>3, <2>4, <2>5, Local
       DEF Moves, Sets, Becomes, Writes, Owes, At, TypeOK, CloudType
<1> QED
  BY <1>4, <1>5 DEF WriteRead

LEMMA WriteUpdateKeeps ==
    ASSUME OwnerIInv, NEW o \in Owners, WriteUpdate(o) PROVE OwnerIInv'
<1>1. Holding(o) /\ ~At(o, "end") /\ ~At(o, "stopLive") /\ own[o].pc \in Writes
  BY DEF WriteUpdate, Holding, RestPcs, Writes, At
<1>2. GoodAt(o) /\ GoodStore /\ own[o] \in OwnerType /\ TypeOK /\ BoundType
  BY <1>1, AtWork DEF OwnerIInv
<1>3. UNCHANGED <<endings, sandbox, phase, owner, count, promised>> /\ BoundType' /\ Later
  BY <1>2, Bounds DEF WriteUpdate
<1>4. CASE NotWritten(o) /\ UNCHANGED <<status, claim, acp, approver>>
  BY <1>1, <1>3, <1>4, NotWrittenKeeps DEF storeVars
<1>5. CASE /\ status' = Written(own[o].pc)
           /\ claim' = (claim \/ own[o].pc = "record")
           /\ acp' = (acp \/ own[o].pc = "link")
           /\ approver' \in {approver, approver \/ own[o].pc = "link"}
           /\ own' = [own EXCEPT ![o].pc = AfterWrite(@), ![o].checked = FALSE]
  <2>1. AfterWrite(own[o].pc) \in Pcs
    BY DEF AfterWrite, Pcs, LaunchPcs, StopPcs, RestPcs
  <2>2. Moves(o, AfterWrite(own[o].pc))
    BY <1>2, <1>5, <2>1 DEF TypeOK, OwnType, OwnerType, Moves, Sets, Becomes, Alone
  <2>3. /\ own[o].pc = "begin" => own'[o].pc = "prepare" /\ status' = "launching"
        /\ own[o].pc = "record" => own'[o].pc = "run" /\ status' = "launching"
        /\ own[o].pc = "await" => own'[o].pc = "activate" /\ status' = "awaiting"
        /\ own[o].pc = "link" => own'[o].pc = "live" /\ status' = "running"
        /\ own[o].pc \in {"resuspend", "suspending"} =>
                own'[o].pc = "settle" /\ status' = "suspended"
    BY <1>5, <2>2 DEF Moves, Sets, Becomes, AfterWrite, Written
  <2>4. StoreType'
    BY <1>1, <1>2, <1>3, <1>5, <2>3 DEF TypeOK, StoreType, Writes
  <2>5. StatusAt(o)' /\ ReviveAt(o)'
    BY <1>1, <1>2, <1>5, <2>2, <2>3 DEF GoodAt, StatusAt, ReviveAt, Moves, Sets, Becomes, Writes,
       Reviving
  <2>6. ReleaseAt(o)' /\ (NoLoss => KeptAt(o))'
    <3>1. At(o, "begin") /\ claim => own[o].revive
      BY <1>2 DEF GoodAt, StatusAt, OwnerIInv, CreatedInv, At
    <3> QED
      BY <1>1, <1>2, <1>3, <1>5, <2>2, <2>3, <3>1 DEF GoodAt, ReleaseAt, KeptAt, Moves, Sets, Becomes,
         Writes, Reviving, NoLoss, Later, At
  <2>7. BusyAt(o)'
    <3>1. CASE At(o, "link")
      BY <1>1, <1>3, <2>2, <2>3, <3>1, BusySame DEF Moves, Sets, Becomes, At
    <3>2. CASE ~At(o, "link")
      BY <1>1, <1>2, <2>2, <3>2 DEF GoodAt, BusyAt, Moves, Sets, Becomes, At, Writes
    <3> QED
      BY <3>1, <3>2
  <2>8. TurnAt(o)'
    BY <1>1, <1>2, <1>3, <2>2, <2>3 DEF GoodAt, BusyAt, TurnAt, Moves, Sets, Becomes, Writes, Reviving,
       Later, At
  <2>9. GoodStore'
    <3>1. WorkspaceReleased'
      BY <1>1, <2>3 DEF WorkspaceReleased, Terminal, Writes
    <3>2. (NoLoss => KeptStatus)'
      BY <1>1, <1>2, <1>3, <2>3 DEF GoodAt, KeptAt, KeptStatus, NoLoss, Later, Writes, At, ReviveAt,
         Reviving
    <3> QED
      BY <3>1, <3>2 DEF GoodStore
  <2>10. PromiseInv'
    <3>1. ~Terminal(status)
      BY <1>1, <1>2 DEF GoodAt, StatusAt, Terminal, Writes
    <3>2. owner # 0 /\ Owes(owner) => Owes(owner)'
      <4>1. CASE owner = o
        BY <1>1, <1>3, <2>2, <4>1 DEF Owes, Moves, Sets, Becomes, Writes
      <4>2. CASE owner # 0 /\ owner # o
        BY <1>2, <1>3, <2>2, <4>2 DEF Owes, Moves, Sets, Becomes, Alone, TypeOK, EntryType, Owners
      <4> QED
        BY <4>1, <4>2
    <3> QED
      BY <1>3, <3>1, <3>2 DEF PromiseInv, OwnerIInv, Later
  <2>11. own[o].live => At(o, "link") /\ ~own[o].stop
    BY <1>1 DEF OwnerIInv, EntryInv, Holding, RestPcs, At
  <2>12. GoodAt(o)'
    BY <2>5, <2>6, <2>7, <2>8 DEF GoodAt
  <2> QED
    BY <1>1, <1>2, <1>3, <2>2, <2>3, <2>4, <2>9, <2>10, <2>11, <2>12, LocalWrite
       DEF Moves, Sets, Becomes, Writes, At
<1> QED
  BY <1>4, <1>5 DEF WriteUpdate

LEMMA FinishSessionKeeps ==
    ASSUME OwnerIInv, NEW o \in Owners, FinishSession(o) PROVE OwnerIInv'
<1>1. Holding(o) /\ own[o].pc = "end"
  BY DEF FinishSession, Holding, RestPcs, At
<1>2. /\ GoodAt(o) /\ GoodStore /\ own[o] \in OwnerType /\ TypeOK /\ BoundType
      /\ owner = o /\ ~own[o].live
  BY <1>1, AtWork DEF OwnerIInv, At
<1>3. /\ UNCHANGED <<claim, acp, approver, sandbox, phase, owner, count, promised>>
      /\ BoundType' /\ Later
  BY <1>2, Bounds DEF FinishSession
<1>4. Moves(o, "settle")
  BY <1>2, GotoMoves DEF FinishSession, TypeOK, Pcs, StopPcs
<1>5. CASE ~Terminal(status) /\ status' = "ended" /\ endings' = endings + 1
  <2>1. StoreType'
    BY <1>2, <1>3, <1>5 DEF TypeOK, StoreType
  <2>2. GoodAt(o)'
    BY <1>1, <1>2, <1>3, <1>4, <1>5 DEF GoodAt, StatusAt, ReviveAt, ReleaseAt, BusyAt, TurnAt, KeptAt,
       NoLoss, Moves, Sets, Becomes, At, Later, Reviving
  <2>3. GoodStore'
    BY <1>1, <1>2, <1>3, <1>5 DEF GoodStore, WorkspaceReleased, KeptStatus, GoodAt, ReleaseAt, Later, At
  <2>4. PromiseInv'
    BY <1>5 DEF PromiseInv, Terminal
  <2> QED
    BY <1>1, <1>2, <1>3, <1>4, <1>5, <2>1, <2>2, <2>3, <2>4, LocalWrite DEF Moves, Sets, Becomes, At
<1>6. CASE UNCHANGED <<status, endings>> /\ (Terminal(status) \/ storeFaults' # 0)
  <2>1. GoodAt(o)'
    BY <1>1, <1>2, <1>3, <1>4, <1>6 DEF GoodAt, StatusAt, ReviveAt, ReleaseAt, BusyAt, TurnAt, KeptAt,
       NoLoss, Moves, Sets, Becomes, At, Later, Reviving
  <2>2. GoodStore'
    BY <1>1, <1>2, <1>3, <1>6 DEF GoodStore, WorkspaceReleased, KeptStatus, NoLoss, Later, Terminal
  <2> QED
    BY <1>1, <1>2, <1>3, <1>4, <1>6, <2>1, <2>2, Local
       DEF Moves, Sets, Becomes, At, storeVars, NoFault, TypeOK, CloudType
<1> QED
  BY <1>2, <1>5, <1>6, Bounds DEF FinishSession

-----------------------------------------------------------------------------
(* The entry changes hands.                                                *)

\* Who is at work and neither records its link nor stops a binding is alone.
LEMMA AloneAtWork ==
    ASSUME OwnerIInv, NEW o \in Owners, Holding(o), own[o].pc \notin {"link", "stopLive"}
    PROVE  /\ \A q \in Owners : q # o => own[q].pc \in RestPcs /\ ~own[q].busy
           /\ owner = o /\ status # "none"
<1>1. owner = o /\ owner # 0 /\ status # "none"
  BY AtWork DEF At, Owners, GoodAt, StatusAt
<1>2. ASSUME NEW q \in Owners, q # o
      PROVE  own[q].pc \in RestPcs /\ ~own[q].busy
  <2>1. ~Holding(q)
    BY <1>2, TwoAtWork DEF OwnerIInv, At
  <2>2. ~At(q, "created")
    BY <1>1 DEF OwnerIInv, CreatedInv
  <2>3. ~own[q].busy
    BY <1>1, <1>2 DEF OwnerIInv, TurnInv, BusyAt, StoppedBy, At
  <2> QED
    BY <2>1, <2>2, <2>3 DEF Holding, At
<1> QED
  BY <1>1, <1>2

LEMMA TypeSame ==
    ASSUME TypeOK, UNCHANGED <<storeVars, sandbox, promised>>, phase' \in {"boot", "reconcile", "up"},
           EntryType', OwnType', BoundType'
    PROVE  TypeOK'
<1>1. StoreType'
  BY DEF TypeOK, StoreType, storeVars
<1>2. CloudType'
  BY DEF TypeOK, CloudType
<1> QED
  BY <1>1, <1>2 DEF TypeOK

LEMMA SettleKeeps ==
    ASSUME OwnerIInv, NEW o \in Owners, Settle(o) PROVE OwnerIInv'
<1>1. Holding(o) /\ own[o].pc = "settle" /\ ~At(o, "end")
  BY DEF Settle, Holding, RestPcs, At
<1>2. /\ GoodAt(o) /\ GoodStore /\ own[o] \in OwnerType /\ TypeOK /\ BoundType
      /\ owner = o /\ owner # 0 /\ ~own[o].live
  BY <1>1, AtWork DEF OwnerIInv, At, Owners
<1>3. UNCHANGED <<storeVars, sandbox, count, promised, boundVars>>
  BY DEF Settle
<1>4. BoundType' /\ Later /\ UNCHANGED <<storeFaults, clusterFaults, restarts>>
  BY <1>2, <1>3, Bounds
<1>5. CASE own[o].stop
  <2>1. own' = [own EXCEPT ![o].pc = "detached", ![o].stop = FALSE] /\ UNCHANGED <<phase, owner>>
    BY <1>5 DEF Settle
  <2>2. Becomes(o, "detached", own[o].live, FALSE, own[o].named, own[o].turn, own[o].busy, own[o].ends)
    BY <1>2, <2>1 DEF TypeOK, OwnType, OwnerType, Becomes, Alone, Pcs, StopPcs
  <2>3. GoodAt(o)'
    BY <1>1, <1>2, <1>3, <1>4, <2>2 DEF GoodAt, StatusAt, ReviveAt, ReleaseAt, BusyAt, TurnAt, KeptAt,
       NoLoss, Becomes, At, Later, Reviving, storeVars
  <2>4. GoodStore'
    BY <1>1, <1>3, <1>4, <2>1, <2>2, StoreSame DEF Becomes
  <2> QED
    BY <1>1, <1>2, <1>3, <1>4, <2>1, <2>2, <2>3, <2>4, Local
       DEF Becomes, At, Owes, TypeOK, CloudType
<1>6. CASE ~own[o].stop
  <2>1. own' = [own EXCEPT ![o].pc = "done", ![o].waited = FALSE] /\ owner' = 0
        /\ phase' \in {phase, "up"}
    BY <1>2, <1>6 DEF Settle
  <2>2. Moves(o, "done")
    BY <1>2, <2>1 DEF TypeOK, OwnType, OwnerType, Moves, Sets, Becomes, Alone, Pcs, RestPcs
  <2>3. /\ \A q \in Owners : q # o => own[q].pc \in RestPcs /\ ~own[q].busy /\ own'[q] = own[q]
        /\ status # "none"
    BY <1>1, <2>2, AloneAtWork DEF Moves, Sets, Becomes, Alone
  <2>4. \A q \in Owners : own'[q].pc \in RestPcs
    BY <2>2, <2>3 DEF Moves, Sets, Becomes, RestPcs
  <2>5. \A q \in Owners : ~own'[q].busy
    BY <1>1, <1>2, <2>2, <2>3 DEF Moves, Sets, Becomes, GoodAt, BusyAt
  <2>6. TypeOK'
    <3>1. EntryType' /\ phase' \in {"boot", "reconcile", "up"}
      BY <1>2, <1>3, <2>1, OwnerBounds DEF TypeOK, EntryType, CloudType
    <3> QED
      BY <1>2, <1>3, <1>4, <2>2, <3>1, TypeSame DEF Moves, Sets, Becomes, Alone
  <2>7. EntryInv'
    <3>1. ASSUME NEW q \in Owners
          PROVE  (/\ q > count => At(q, "free")
                  /\ own[q].live => own[q].pc \in {"link", "live", "unlinked"} /\ ~own[q].stop)'
      BY <1>1, <1>2, <1>3, <2>2, <2>3 DEF OwnerIInv, EntryInv, At, Moves, Sets, Becomes
    <3> QED
      BY <2>1, <2>4, <3>1 DEF EntryInv, Holding, At, RestPcs
  <2>8. CreatedInv'
    BY <1>3, <2>3, <2>4 DEF OwnerIInv, CreatedInv, storeVars, RestPcs, At
  <2>9. StatusInv'
    BY <2>1, <2>4 DEF StatusInv, Holding, Owners
  <2>10. ReleaseInv' /\ KeptInv'
    <3>1. WorkspaceReleased'
      BY <1>2, <1>3, <1>4 DEF GoodStore, WorkspaceReleased, storeVars, Terminal
    <3>2. (NoLoss => KeptStatus)'
      BY <1>1, <1>2, <1>3, <1>4, <2>1 DEF GoodStore, NoLoss, KeptStatus, storeVars, At
    <3>3. \A q \in Owners : ReleaseAt(q)' /\ KeptAt(q)'
      BY <2>4 DEF ReleaseAt, KeptAt, At, RestPcs, Reviving
    <3> QED
      BY <3>1, <3>2, <3>3 DEF ReleaseInv, KeptInv, NoLoss
  <2>11. TurnInv'
    <3>1. TurnAt(o)'
      BY <1>1, <1>2, <1>4, <2>2 DEF GoodAt, TurnAt, Moves, Sets, Becomes, At, Reviving
    <3>2. ASSUME NEW q \in Owners, q # o PROVE TurnAt(q)'
      BY <1>4, <2>3, <3>2 DEF OwnerIInv, TurnInv, TurnAt, At
    <3> QED
      BY <2>5, <3>1, <3>2 DEF TurnInv, BusyAt
  <2>12. PromiseInv'
    BY <1>1, <1>2, <1>3, <1>4, <1>6 DEF OwnerIInv, PromiseInv, Owes, storeVars, Terminal
  <2> QED
    BY <2>6, <2>7, <2>8, <2>9, <2>10, <2>11, <2>12 DEF OwnerIInv
<1> QED
  BY <1>5, <1>6

\* CreateSession claims the entry of the row that it stored.
LEMMA ClaimCreatedKeeps ==
    ASSUME OwnerIInv, NEW o \in Owners, ClaimCreated(o) PROVE OwnerIInv'
<1>1. own[o].pc = "created" /\ owner = 0 /\ status = "pending" /\ ~own[o].revive /\ phase = "up"
      /\ ~acp /\ ~claim
  BY DEF OwnerIInv, ClaimCreated, CreatedInv, At
<1>2. /\ TypeOK /\ owner' = o /\ UNCHANGED <<storeVars, sandbox, phase, count, promised, boundVars>>
      /\ OwnType /\ BoundType
  BY <1>1 DEF OwnerIInv, ClaimCreated, TypeOK
<1>3. BoundType' /\ UNCHANGED <<storeFaults, clusterFaults, restarts>>
  BY <1>2, Bounds
<1>4. Moves(o, "read")
  BY <1>2, GotoMoves DEF ClaimCreated, Pcs, LaunchPcs
<1>5. \A q \in Owners : q # o => own[q].pc \in RestPcs /\ ~own[q].busy /\ own'[q] = own[q]
  <2> SUFFICES ASSUME NEW q \in Owners, q # o
               PROVE  own[q].pc \in RestPcs /\ ~own[q].busy /\ own'[q] = own[q]
    OBVIOUS
  <2>1. ~At(q, "created")
    BY <1>1 DEF OwnerIInv, CreatedInv, At
  <2>2. ~Holding(q)
    BY <1>1 DEF OwnerIInv, EntryInv, StoppedBy, Owners
  <2>3. ~own[q].busy
    BY <1>1 DEF OwnerIInv, TurnInv, BusyAt, StoppedBy, Owners
  <2> QED
    BY <1>4, <2>1, <2>2, <2>3 DEF Holding, At, Moves, Sets, Becomes, Alone
<1>6. ~own[o].busy /\ ~own[o].live
  BY <1>1 DEF OwnerIInv, TurnInv, BusyAt, EntryInv
<1>7. TypeOK'
  <2>1. EntryType' /\ phase' \in {"boot", "reconcile", "up"}
    BY <1>1, <1>2 DEF TypeOK, EntryType, Owners
  <2> QED
    BY <1>2, <1>3, <1>4, <2>1, TypeSame DEF Moves, Sets, Becomes, Alone
<1>8. EntryInv'
  <2>1. ASSUME NEW q \in Owners
        PROVE  (/\ q > count => At(q, "free")
                /\ Holding(q) => owner = q
                /\ own[q].live => own[q].pc \in {"link", "live", "unlinked"} /\ ~own[q].stop
                /\ ~At(q, "stopLive"))'
    BY <1>1, <1>2, <1>4, <1>5, <1>6 DEF OwnerIInv, EntryInv, At, Moves, Sets, Becomes, Holding, RestPcs
  <2>2. own'[o].pc = "read" /\ owner' = o /\ phase' = "up"
    BY <1>1, <1>2, <1>4 DEF Moves, Sets, Becomes
  <2> QED
    BY <2>1, <2>2 DEF EntryInv
<1>9. CreatedInv'
  BY <1>1, <1>2, <1>4, <1>5 DEF CreatedInv, At, Moves, Sets, Becomes, RestPcs, storeVars
<1>10. StatusInv'
  <2>1. (StatusAt(o) /\ ReviveAt(o))'
    BY <1>1, <1>2, <1>4 DEF StatusAt, ReviveAt, Moves, Sets, Becomes, storeVars
  <2> QED
    BY <1>2, <1>5, <2>1 DEF StatusInv, Holding
<1>11. ReleaseInv' /\ KeptInv'
  <2>1. WorkspaceReleased' /\ KeptStatus'
    BY <1>1, <1>2 DEF WorkspaceReleased, KeptStatus, Terminal, storeVars
  <2>2. ReleaseAt(o)' /\ KeptAt(o)'
    BY <1>1, <1>4 DEF ReleaseAt, KeptAt, At, Moves, Sets, Becomes
  <2>3. ASSUME NEW q \in Owners, q # o PROVE ReleaseAt(q)' /\ KeptAt(q)'
    BY <1>5, <2>3 DEF ReleaseAt, KeptAt, At, RestPcs, Reviving
  <2> QED
    BY <2>1, <2>2, <2>3 DEF ReleaseInv, KeptInv
<1>12. TurnInv'
  <2>1. (BusyAt(o) /\ TurnAt(o))'
    BY <1>1, <1>4, <1>6 DEF BusyAt, TurnAt, At, Moves, Sets, Becomes
  <2>2. ASSUME NEW q \in Owners, q # o PROVE (BusyAt(q) /\ TurnAt(q))'
    BY <1>3, <1>5, <2>2 DEF OwnerIInv, TurnInv, BusyAt, TurnAt, At
  <2> QED
    BY <2>1, <2>2 DEF TurnInv
<1>13. PromiseInv'
  BY <1>1, <1>2, <1>3 DEF OwnerIInv, PromiseInv, Terminal, storeVars
<1> QED
  BY <1>7, <1>8, <1>9, <1>10, <1>11, <1>12, <1>13 DEF OwnerIInv

\* A stop ends the turn of the binding that it took, when the launch is over.
LEMMA StopLiveKeeps ==
    ASSUME OwnerIInv, NEW o \in Owners, StopLive(o) PROVE OwnerIInv'
<1>0. own[o].target \in Owners
  BY DEF OwnerIInv, EntryInv, StopLive
<1>b. PICK b \in Owners : b = own[o].target
  BY <1>0
<1> DEFINE e == IF own[b].busy THEN Ends(b) ELSE own[b].ends
           p == IF own[o].suspend THEN "suspend" ELSE "tear"
<1>1. Holding(o) /\ own[o].pc = "stopLive" /\ own[b].pc \in {"live", "unlinked"}
  BY <1>b DEF StopLive, Holding, RestPcs, At, Ready
<1>2. /\ GoodAt(o) /\ GoodStore /\ own[o] \in OwnerType /\ TypeOK /\ BoundType
      /\ owner = o /\ owner # 0 /\ ~own[o].live
  BY <1>1, AtWork DEF OwnerIInv, At, Owners
<1>3. b \in Owners /\ b # o
  BY <1>1
<1>4. UNCHANGED <<storeVars, sandbox, phase, owner, count, promised, boundVars>>
  BY DEF StopLive
<1>5. BoundType' /\ Later /\ UNCHANGED <<storeFaults, clusterFaults, restarts>>
  BY <1>2, <1>4, Bounds
<1>6. e \in Nat /\ p \in {"suspend", "tear"} /\ p \in Pcs /\ own[b] \in OwnerType
  BY <1>2, <1>3, EndsType DEF TypeOK, OwnType, OwnerType, Pcs, StopPcs
<1>7. own' = [own EXCEPT ![o].pc = p, ![o].named = TRUE, ![b].ends = e, ![b].busy = FALSE]
  BY <1>b DEF StopLive
<1>8. Ends(b) = own[b].ends + 1
  BY <1>1, <1>2 DEF GoodAt, StatusAt, Ends, Terminal
<1>9. e = IF own[b].busy THEN Ends(b) ELSE own[b].ends
  OBVIOUS
<1> DEFINE r == [own[o] EXCEPT !.pc = p, !.named = TRUE]
           t == [own[b] EXCEPT !.ends = e, !.busy = FALSE]
<1> HIDE DEF e, p
<1>10. r \in OwnerType /\ t \in OwnerType
  BY <1>2, <1>6 DEF OwnerType
<1>11. own' = [[own EXCEPT ![o] = r] EXCEPT ![b] = t]
  BY <1>2, <1>3, <1>7 DEF TypeOK, OwnType
<1>12. /\ r.pc = p /\ r.named = TRUE /\ r.live = own[o].live /\ r.stop = own[o].stop
       /\ r.revive = own[o].revive /\ r.turn = own[o].turn /\ r.ends = own[o].ends
       /\ r.busy = own[o].busy /\ r.target = own[o].target
  BY <1>2 DEF OwnerType
<1>13. /\ t.pc = own[b].pc /\ t.live = own[b].live /\ t.stop = own[b].stop
       /\ t.revive = own[b].revive /\ t.turn = own[b].turn /\ t.ends = e /\ t.busy = FALSE
  BY <1>6 DEF OwnerType
<1> HIDE DEF r, t
<1>14. /\ OwnType' /\ own'[o] = r /\ own'[b] = t
       /\ \A q \in Owners : q # o /\ q # b => own'[q] = own[q]
  BY <1>2, <1>3, <1>10, <1>11 DEF TypeOK, OwnType
<1>15. \A q \in Owners : q # o => own[q].pc \in RestPcs /\ (own[q].busy => q = b)
  <2> SUFFICES ASSUME NEW q \in Owners, q # o
               PROVE  own[q].pc \in RestPcs /\ (own[q].busy => q = b)
    OBVIOUS
  <2>1. ~At(q, "created")
    BY <1>2 DEF OwnerIInv, CreatedInv
  <2>2. ~Holding(q)
    BY <1>b, <1>1, <1>2, <1>3 DEF OwnerIInv, EntryInv, StoppedBy, At
  <2>3. own[q].busy => q = b
    BY <1>b, <1>2 DEF OwnerIInv, TurnInv, BusyAt, StoppedBy
  <2> QED
    BY <2>1, <2>2, <2>3 DEF Holding, At
<1>16. \A q \in Owners : q # o => own'[q].pc = own[q].pc /\ own'[q].live = own[q].live
            /\ own'[q].stop = own[q].stop /\ own'[q].revive = own[q].revive
            /\ own'[q].turn = own[q].turn /\ ~own'[q].busy
  BY <1>3, <1>13, <1>14, <1>15
<1>17. TypeOK'
  <2>1. EntryType' /\ phase' \in {"boot", "reconcile", "up"}
    BY <1>2, <1>4 DEF TypeOK, EntryType, CloudType
  <2> QED
    BY <1>2, <1>4, <1>5, <1>14, <2>1, TypeSame
<1>18. EntryInv'
  <2>1. ASSUME NEW q \in Owners
        PROVE  (/\ q > count => At(q, "free")
                /\ Holding(q) => owner = q
                /\ own[q].live => own[q].pc \in {"link", "live", "unlinked"} /\ ~own[q].stop
                /\ ~At(q, "stopLive"))'
    BY <1>1, <1>2, <1>4, <1>6, <1>12, <1>14, <1>15, <1>16 DEF OwnerIInv, EntryInv, At, Holding, RestPcs
  <2>2. own'[owner'].pc = p /\ phase' # "boot"
    BY <1>2, <1>4, <1>12, <1>14 DEF OwnerIInv, EntryInv
  <2> QED
    BY <1>6, <2>1, <2>2 DEF EntryInv
<1>19. CreatedInv'
  BY <1>2, <1>4, <1>6, <1>12, <1>14, <1>15, <1>16 DEF OwnerIInv, CreatedInv, At, RestPcs, storeVars, GoodAt, StatusAt
<1>20. StatusInv'
  <2>1. (StatusAt(o) /\ ReviveAt(o))'
    BY <1>1, <1>2, <1>4, <1>6, <1>12, <1>14 DEF GoodAt, StatusAt, ReviveAt, Reviving, storeVars
  <2> QED
    BY <1>2, <1>4, <1>15, <1>16, <2>1 DEF StatusInv, Holding
<1>21. ReleaseInv' /\ KeptInv'
  <2>1. WorkspaceReleased' /\ (NoLoss => KeptStatus)'
    BY <1>1, <1>2, <1>4, <1>5 DEF GoodAt, StatusAt, WorkspaceReleased, KeptStatus, Terminal, storeVars
  <2>2. ReleaseAt(o)' /\ KeptAt(o)'
    BY <1>6, <1>12, <1>14 DEF ReleaseAt, KeptAt, At, Reviving
  <2>3. ASSUME NEW q \in Owners, q # o PROVE ReleaseAt(q)' /\ KeptAt(q)'
    BY <1>15, <1>16, <2>3 DEF ReleaseAt, KeptAt, At, RestPcs, Reviving
  <2> QED
    BY <2>1, <2>2, <2>3 DEF ReleaseInv, KeptInv, NoLoss
<1>22. TurnInv'
  <2>1. (BusyAt(o) /\ TurnAt(o))'
    BY <1>1, <1>2, <1>5, <1>6, <1>12, <1>14 DEF GoodAt, BusyAt, TurnAt, At, Reviving
  <2>2. TurnAt(b)'
    <3>1. own[b].revive /\ own[b].turn /\ storeFaults = 0 =>
                own[b].ends = IF own[b].busy THEN 0 ELSE 1
      BY <1>1, <1>3 DEF OwnerIInv, TurnInv, TurnAt, Reviving
    <3>2. own[b].revive /\ own[b].turn /\ storeFaults = 0 => e = 1
      BY <1>8, <1>9, <3>1
    <3> QED
      BY <1>1, <1>5, <1>13, <1>14, <3>2 DEF TurnAt, At, Reviving
  <2>3. ASSUME NEW q \in Owners, q # o, q # b PROVE TurnAt(q)'
    BY <1>5, <1>14, <2>3 DEF OwnerIInv, TurnInv, TurnAt, At
  <2>4. ASSUME NEW q \in Owners, q # o PROVE BusyAt(q)' /\ TurnAt(q)'
    BY <1>16, <2>2, <2>3, <2>4 DEF BusyAt
  <2> QED
    BY <2>1, <2>4 DEF TurnInv
<1>23. PromiseInv'
  BY <1>1, <1>2, <1>4, <1>5, <1>12, <1>14 DEF OwnerIInv, PromiseInv, Terminal, storeVars, Owes
<1> QED
  BY <1>17, <1>18, <1>19, <1>20, <1>21, <1>22, <1>23 DEF OwnerIInv


-----------------------------------------------------------------------------
(* Stops and new owners.                                                   *)

\* The same record, or that of a binding whose goroutine has left.
Like(r, s) ==
    /\ r.revive = s.revive /\ r.target = s.target /\ r.live = s.live /\ r.named = s.named
    /\ r.turn = s.turn /\ r.busy = s.busy /\ r.ends = s.ends
    /\ r.pc = s.pc \/ (s.pc = "unlinked" /\ r.pc = "live")

Near(ow) ==
    /\ ow \in [Owners -> OwnerType]
    /\ \A q \in Owners : Like(ow[q], own[q]) /\ ow[q].stop = own[q].stop

\* A step that at most leaves a stop with the holder of the entry.
LEMMA NearKeeps ==
    ASSUME OwnerIInv, OwnType', UNCHANGED <<storeVars, sandbox, phase, owner, count>>,
           BoundType', Later, promised' \in BOOLEAN,
           \A q \in Owners : Like(own'[q], own[q]),
           \A q \in Owners : \/ own'[q].stop = own[q].stop
                             \/ q = owner /\ ~own[q].live /\ own'[q].stop,
           promised' => promised \/ (owner # 0 /\ own'[owner].stop)
    PROVE  OwnerIInv'
<1> USE DEF Like
<1>o. owner # 0 => owner \in Owners
  BY DEF OwnerIInv, TypeOK, EntryType, Owners
<1>h. \A q \in Owners : Holding(q)' => Holding(q) /\ own'[q].pc = own[q].pc
  BY DEF Holding, RestPcs
<1>s. \A q \in Owners : StoppedBy(q) => StoppedBy(q)'
  BY <1>o DEF StoppedBy, At
<1>1. TypeOK'
  <2>1. StoreType'
    BY DEF OwnerIInv, TypeOK, StoreType, storeVars
  <2>2. CloudType'
    BY DEF OwnerIInv, TypeOK, CloudType
  <2>3. EntryType'
    BY DEF OwnerIInv, TypeOK, EntryType
  <2> QED
    BY <2>1, <2>2, <2>3 DEF TypeOK
<1>2. EntryInv'
  <2>1. (phase = "boot" => owner = 0)'
    BY DEF OwnerIInv, EntryInv
  <2>2. (owner # 0 => own[owner].pc \notin {"free", "done", "created"})'
    BY <1>o DEF OwnerIInv, EntryInv
  <2>3. ASSUME NEW q \in Owners
        PROVE  (/\ q > count => At(q, "free")
                /\ Holding(q) => owner = q \/ (At(q, "link") /\ StoppedBy(q))
                /\ own[q].live => own[q].pc \in {"link", "live", "unlinked"} /\ ~own[q].stop
                /\ At(q, "stopLive") => own[q].target \in Owners)'
    BY <1>h, <1>s DEF OwnerIInv, EntryInv, At
  <2> QED
    BY <2>1, <2>2, <2>3 DEF EntryInv
<1>3. CreatedInv'
  <2>1. (status = "none" => owner = 0 /\ \A o \in Owners : own[o].pc \in {"free", "done"})'
    BY DEF OwnerIInv, CreatedInv, storeVars
  <2>2. \A q \in Owners : At(q, "created")' => At(q, "created") /\ own'[q].revive = own[q].revive
    BY DEF At
  <2> QED
    BY <2>1, <2>2 DEF OwnerIInv, CreatedInv, storeVars
<1>4. StatusInv'
  <2> SUFFICES ASSUME NEW q \in Owners, (owner = q \/ Holding(q))'
               PROVE  (StatusAt(q) /\ ReviveAt(q))'
    BY DEF StatusInv
  <2>1. StatusAt(q) /\ ReviveAt(q)
    BY <1>h DEF OwnerIInv, StatusInv
  <2> QED
    BY <2>1 DEF StatusAt, ReviveAt, storeVars, Reviving
<1>5. ReleaseInv' /\ KeptInv'
  <2>1. WorkspaceReleased'
    BY DEF OwnerIInv, ReleaseInv, WorkspaceReleased, storeVars, Later, Terminal
  <2>2. (NoLoss => KeptStatus)'
    BY <1>o DEF OwnerIInv, KeptInv, NoLoss, KeptStatus, storeVars, Later, At
  <2>3. ASSUME NEW q \in Owners PROVE ReleaseAt(q)' /\ (NoLoss => KeptAt(q))'
    BY DEF OwnerIInv, ReleaseInv, KeptInv, ReleaseAt, KeptAt, NoLoss, Later, storeVars, At, Reviving
  <2> QED
    BY <2>1, <2>2, <2>3 DEF ReleaseInv, KeptInv, NoLoss
<1>6. TurnInv'
  <2>1. ASSUME NEW q \in Owners PROVE BusyAt(q)' /\ TurnAt(q)'
    BY <1>s DEF OwnerIInv, TurnInv, BusyAt, TurnAt, Later, At, Reviving
  <2> QED
    BY <2>1 DEF TurnInv
<1>7. PromiseInv'
  <2>1. owner # 0 /\ Owes(owner) => Owes(owner)'
    BY <1>o DEF Owes
  <2> QED
    BY <2>1 DEF OwnerIInv, PromiseInv, Terminal, Later, storeVars, Owes
<1> QED
  BY <1>1, <1>2, <1>3, <1>4, <1>5, <1>6, <1>7 DEF OwnerIInv

\* A new owner, when nobody has the session or in the place of a live owner.
LEMMA TakeKeeps ==
    ASSUME OwnerIInv, NEW ow, Near(ow), NEW r, r \in OwnerType, Take(ow, r),
           UNCHANGED <<storeVars, sandbox, promised>>, phase' \in {"reconcile", "up"},
           BoundType', Later, status # "none", \A q \in Owners : ~At(q, "created"),
           r.pc \in {"claimed", "stopLive", "detached", "release", "adopt"},
           ~r.live, ~r.busy, ~r.turn, r.ends = 0,
           r.revive => r.pc = "claimed" /\ acp /\ claim,
           r.pc = "claimed" => r.revive,
           IF r.pc = "stopLive" THEN owner # 0 /\ own[owner].live /\ r.target = owner ELSE owner = 0
    PROVE  OwnerIInv'
<1>o. owner # 0 => owner \in Owners
  BY DEF OwnerIInv, TypeOK, EntryType, Owners
<1>n. PICK n \in Owners : n = count + 1
  <2>1. count < MaxOwners /\ count \in 0..MaxOwners
    BY DEF Take, OwnerIInv, TypeOK, EntryType
  <2>2. count + 1 \in Owners
    BY <2>1, OwnerBounds DEF Owners
  <2> QED
    BY <2>2
<1>t. /\ own' = [ow EXCEPT ![n] = r] /\ owner' = n /\ count' = n /\ n # 0
      /\ ow \in [Owners -> OwnerType] /\ count \in Nat
  BY <1>n DEF Take, Fresh, Near, Owners, OwnerIInv, TypeOK, EntryType
<1>q. /\ OwnType' /\ own'[n] = r
      /\ \A q \in Owners : q # n => Like(own'[q], own[q]) /\ own'[q].stop = own[q].stop
  BY <1>t DEF OwnType, Near
<1>f. At(n, "free") /\ n # owner
  BY <1>n, <1>t, <1>o DEF OwnerIInv, EntryInv, At
<1>l. owner # 0 => /\ own[owner].pc \in {"link", "live", "unlinked"} /\ ~own[owner].stop
                   /\ r.pc = "stopLive" /\ r.target = owner
  BY <1>o DEF OwnerIInv, EntryInv
<1>h. \A q \in Owners : Holding(q) => q = owner /\ At(q, "link") /\ r.pc = "stopLive" /\ r.target = q
  BY <1>o, <1>l DEF OwnerIInv, EntryInv, StoppedBy, At, Holding, RestPcs, Owners
<1>g. \A q \in Owners : Holding(q)' /\ q # n => Holding(q) /\ own'[q].pc = own[q].pc
  BY <1>q DEF Holding, RestPcs, Like
<1>1. TypeOK'
  <2>1. EntryType'
    BY <1>t DEF EntryType, Owners
  <2> QED
    BY <1>q, <2>1, TypeSame DEF OwnerIInv
<1>2. EntryInv'
  <2>1. ASSUME NEW q \in Owners, q # n
        PROVE  (/\ q > count => At(q, "free")
                /\ Holding(q) => At(q, "link") /\ StoppedBy(q)
                /\ own[q].live => own[q].pc \in {"link", "live", "unlinked"} /\ ~own[q].stop
                /\ ~At(q, "stopLive"))'
    <3>1. (q > count => At(q, "free"))'
      BY <1>n, <1>t, <1>q, <2>1 DEF OwnerIInv, EntryInv, At, Like, Owners
    <3>2. (Holding(q) => At(q, "link") /\ StoppedBy(q))'
      BY <1>t, <1>q, <1>g, <1>h, <2>1 DEF At, StoppedBy
    <3>3. (own[q].live => own[q].pc \in {"link", "live", "unlinked"} /\ ~own[q].stop)'
      BY <1>q, <2>1 DEF OwnerIInv, EntryInv, Like
    <3>4. ~At(q, "stopLive")'
      BY <1>g, <1>h, <2>1 DEF At, Holding, RestPcs
    <3> QED
      BY <3>1, <3>2, <3>3, <3>4
  <2>2. (/\ n > count => At(n, "free")
         /\ Holding(n) => owner = n
         /\ ~own[n].live
         /\ At(n, "stopLive") => own[n].target \in Owners)'
    <3>1. ~(n > count')
      BY <1>t DEF Owners
    <3>2. r.pc = "stopLive" => r.target \in Owners
      BY <1>o
    <3> QED
      BY <1>t, <1>q, <3>1, <3>2 DEF At
  <2>3. (phase # "boot" /\ own[owner].pc \notin {"free", "done", "created"})'
    BY <1>t, <1>q
  <2> QED
    BY <2>1, <2>2, <2>3 DEF EntryInv
<1>3. CreatedInv'
  <2>1. \A q \in Owners : ~At(q, "created")'
    BY <1>q DEF At, Like
  <2> QED
    BY <2>1 DEF OwnerIInv, CreatedInv, storeVars
<1>4. StatusInv'
  <2>1. (StatusAt(n) /\ ReviveAt(n))'
    <3>1. r.pc = "stopLive" => status \in {"awaiting", "running"}
      BY <1>o, <1>l DEF OwnerIInv, StatusInv, StatusAt
    <3> QED
      BY <1>q, <3>1 DEF StatusAt, ReviveAt, Reviving, storeVars
  <2>2. ASSUME NEW q \in Owners, q # n, (owner = q \/ Holding(q))'
        PROVE  (StatusAt(q) /\ ReviveAt(q))'
    <3>1. Holding(q) /\ At(q, "link") /\ own'[q].pc = "link"
      BY <1>t, <1>g, <1>h, <2>2 DEF At
    <3> QED
      BY <3>1 DEF OwnerIInv, StatusInv, StatusAt, ReviveAt, Reviving, storeVars, At
  <2> QED
    BY <2>1, <2>2 DEF StatusInv
<1>5. ReleaseInv' /\ KeptInv'
  <2>1. WorkspaceReleased'
    BY DEF OwnerIInv, ReleaseInv, WorkspaceReleased, storeVars, Later, Terminal
  <2>2. (NoLoss => KeptStatus)'
    BY <1>l DEF OwnerIInv, KeptInv, NoLoss, KeptStatus, storeVars, Later, At
  <2>3. ReleaseAt(n)' /\ (NoLoss => KeptAt(n))'
    BY <1>q DEF ReleaseAt, KeptAt, At, Reviving
  <2>4. ASSUME NEW q \in Owners, q # n PROVE ReleaseAt(q)' /\ (NoLoss => KeptAt(q))'
    BY <1>q, <2>4 DEF OwnerIInv, ReleaseInv, KeptInv, ReleaseAt, KeptAt, NoLoss, Later, storeVars, At,
       Reviving, Like
  <2> QED
    BY <2>1, <2>2, <2>3, <2>4 DEF ReleaseInv, KeptInv, NoLoss
<1>6. TurnInv'
  <2>1. (BusyAt(n) /\ TurnAt(n))'
    BY <1>q DEF BusyAt, TurnAt, At
  <2>2. ASSUME NEW q \in Owners, q # n PROVE BusyAt(q)'
    <3>1. own[q].busy => q = owner
      BY <1>l, <2>2 DEF OwnerIInv, TurnInv, BusyAt, StoppedBy, At
    <3>2. own[q].busy => StoppedBy(q)'
      BY <1>t, <1>q, <1>l, <1>o, <3>1 DEF StoppedBy, At, Owners
    <3> QED
      BY <1>q, <2>2, <3>2 DEF OwnerIInv, TurnInv, BusyAt, Like
  <2>3. ASSUME NEW q \in Owners, q # n PROVE TurnAt(q)'
    BY <1>q, <2>3 DEF OwnerIInv, TurnInv, TurnAt, Later, At, Reviving, Like
  <2> QED
    BY <2>1, <2>2, <2>3 DEF TurnInv
<1>7. PromiseInv'
  BY <1>l DEF OwnerIInv, PromiseInv, Terminal, Later, storeVars, Owes
<1> QED
  BY <1>1, <1>2, <1>3, <1>4, <1>5, <1>6, <1>7 DEF OwnerIInv


LEMMA BlankFields ==
    ASSUME NEW p, p \in Pcs
    PROVE  LET r == [Blank EXCEPT !.pc = p] IN
           /\ r \in OwnerType /\ r.pc = p /\ r.target = 0 /\ r.ends = 0
           /\ ~r.live /\ ~r.busy /\ ~r.turn /\ ~r.revive /\ ~r.stop
  BY DEF Blank, OwnerType

LEMMA NearOwn == OwnType => Near(own)
  BY DEF OwnType, Near, Like

LEMMA DetachKeeps ==
    ASSUME OwnerIInv, NEW ow, Near(ow), NEW want, NEW s, s \in BOOLEAN, Detach(want, s, ow),
           UNCHANGED <<storeVars, sandbox, phase>>, phase # "boot", BoundType', Later,
           status # "none", \A q \in Owners : ~At(q, "created"),
           promised' \in BOOLEAN,
           promised' => promised \/ (owner # 0 /\ ~own[owner].live),
           promised => promised'
    PROVE  OwnerIInv'
<1>o. owner # 0 => owner \in Owners
  BY DEF OwnerIInv, TypeOK, EntryType, Owners
<1>p. phase' \in {"reconcile", "up"} /\ owner \in Nat /\ own \in [Owners -> OwnerType]
      /\ promised \in BOOLEAN
  BY DEF OwnerIInv, TypeOK, CloudType, EntryType, OwnType
<1>1. CASE /\ owner # 0 /\ ~own[owner].live
           /\ own' = [ow EXCEPT ![owner].stop = TRUE,
                                ![owner].waited = @ \/ ~own[owner].launching]
           /\ UNCHANGED <<owner, count>>
  <2>1. PICK w \in Owners : w = owner
    BY <1>o, <1>1
  <2> DEFINE v == ow[w].waited \/ ~own[w].launching
             r == [ow[w] EXCEPT !.stop = TRUE, !.waited = v]
  <2>2. ow[w] \in OwnerType /\ own[w] \in OwnerType /\ v \in BOOLEAN
    BY <1>p DEF Near, OwnerType
  <2>3. own' = [ow EXCEPT ![w] = r]
    BY <1>1, <2>1 DEF Near
  <2> HIDE DEF v
  <2>4. /\ r \in OwnerType /\ r.stop = TRUE /\ Like(r, ow[w])
    BY <2>2 DEF OwnerType, Like
  <2> HIDE DEF r
  <2>5. /\ OwnType' /\ own'[w] = r
        /\ \A q \in Owners : q # w => own'[q] = ow[q]
    BY <2>3, <2>4 DEF OwnType, Near
  <2>6. \A q \in Owners : Like(own'[q], own[q])
    BY <2>4, <2>5 DEF Near, Like
  <2>7. \A q \in Owners : \/ own'[q].stop = own[q].stop
                          \/ q = owner /\ ~own[q].live /\ own'[q].stop
    BY <1>1, <2>1, <2>4, <2>5 DEF Near
  <2>8. promised' => promised \/ (owner # 0 /\ own'[owner].stop)
    BY <1>1, <2>1, <2>4, <2>5
  <2> QED
    BY <1>1, <2>5, <2>6, <2>7, <2>8, NearKeeps
<1>2. CASE /\ owner # 0 /\ own[owner].live
           /\ Take(ow, [Blank EXCEPT !.pc = "stopLive", !.target = owner, !.suspend = s])
  <2> DEFINE r == [Blank EXCEPT !.pc = "stopLive", !.target = owner, !.suspend = s]
  <2>1. /\ r \in OwnerType /\ r.pc = "stopLive" /\ r.target = owner /\ r.ends = 0
        /\ ~r.live /\ ~r.busy /\ ~r.turn /\ ~r.revive
    BY <1>p DEF Blank, OwnerType, Pcs, StopPcs
  <2>2. UNCHANGED promised
    BY <1>2, <1>p
  <2> HIDE DEF r
  <2>3. Take(ow, r)
    BY <1>2 DEF r
  <2> QED
    BY <1>2, <1>p, <2>1, <2>2, <2>3, TakeKeeps
<1>3. CASE owner = 0 /\ Take(ow, [Blank EXCEPT !.pc = "detached"])
  <2> DEFINE r == [Blank EXCEPT !.pc = "detached"]
  <2>1. /\ r \in OwnerType /\ r.pc = "detached" /\ r.ends = 0
        /\ ~r.live /\ ~r.busy /\ ~r.turn /\ ~r.revive
    BY BlankFields DEF Pcs, StopPcs
  <2>2. UNCHANGED promised
    BY <1>3, <1>p
  <2> HIDE DEF r
  <2>3. Take(ow, r)
    BY <1>3 DEF r
  <2> QED
    BY <1>3, <1>p, <2>1, <2>2, <2>3, TakeKeeps
<1> QED
  BY <1>1, <1>2, <1>3 DEF Detach

\* While somebody has the entry, the row is stored and claimed.
LEMMA EntryTaken ==
    ASSUME OwnerIInv, owner # 0
    PROVE  status # "none" /\ phase # "boot" /\ \A q \in Owners : ~At(q, "created")
  BY DEF OwnerIInv, CreatedInv, EntryInv

LEMMA EndSessionKeeps == OwnerIInv /\ ~EndsBeforeCreated /\ EndSession => OwnerIInv'
<1> SUFFICES ASSUME OwnerIInv, ~EndsBeforeCreated, EndSession PROVE OwnerIInv'
  OBVIOUS
<1>1. /\ Near(own) /\ promised \in BOOLEAN
      /\ owner # 0 => own[owner].launching \in BOOLEAN /\ own[owner].live \in BOOLEAN
  BY NearOwn DEF OwnerIInv, TypeOK, CloudType, EntryType, Owners, OwnType, OwnerType
<1>2. /\ promised' \in BOOLEAN /\ (promised => promised')
      /\ promised' => promised \/ (owner # 0 /\ ~own[owner].live)
  BY <1>1 DEF EndSession
<1>3. BoundType' /\ Later
  BY DEF EndSession, OwnerIInv, TypeOK, BoundType, Later
<1> QED
  BY <1>1, <1>2, <1>3, DetachKeeps DEF EndSession, Created

LEMMA SweepAbsoluteKeeps == OwnerIInv /\ SweepAbsolute => OwnerIInv'
<1> SUFFICES ASSUME OwnerIInv, SweepAbsolute PROVE OwnerIInv'
  OBVIOUS
<1>1. Near(own) /\ promised \in BOOLEAN
  BY NearOwn DEF OwnerIInv, TypeOK, CloudType
<1>2. BoundType' /\ Later
  BY DEF SweepAbsolute, OwnerIInv, TypeOK, BoundType, Later
<1> QED
  BY <1>1, <1>2, DetachKeeps DEF SweepAbsolute, Created

LEMMA WatchRunKeeps ==
    ASSUME OwnerIInv, NEW o \in Owners, WatchRun(o) PROVE OwnerIInv'
<1>1. Near(own) /\ promised \in BOOLEAN /\ BoundType
  BY NearOwn DEF OwnerIInv, TypeOK, CloudType
<1>2. owner = o /\ Detach(o, FALSE, own)
      /\ UNCHANGED <<storeVars, sandbox, phase, promised, boundVars>>
  BY DEF WatchRun
<1>3. owner # 0
  BY <1>2 DEF Owners
<1>4. BoundType' /\ Later
  BY <1>1, <1>2, Bounds
<1> QED
  BY <1>1, <1>2, <1>3, <1>4, EntryTaken, DetachKeeps

LEMMA SweepIdleKeeps ==
    ASSUME OwnerIInv, NEW o \in Owners, SweepIdle(o) PROVE OwnerIInv'
<1>1. Near(own) /\ promised \in BOOLEAN /\ BoundType
  BY NearOwn DEF OwnerIInv, TypeOK, CloudType
<1>2. owner = o /\ Detach(o, TRUE, own)
      /\ UNCHANGED <<storeVars, sandbox, phase, promised, boundVars>>
  BY DEF SweepIdle
<1>3. owner # 0
  BY <1>2 DEF Owners
<1>4. BoundType' /\ Later
  BY <1>1, <1>2, Bounds
<1> QED
  BY <1>1, <1>2, <1>3, <1>4, EntryTaken, DetachKeeps

LEMMA SuperviseKeeps ==
    ASSUME OwnerIInv, NEW o \in Owners, Supervise(o) PROVE OwnerIInv'
<1> DEFINE ow == [own EXCEPT ![o].watched = FALSE]
<1>1. promised \in BOOLEAN /\ BoundType /\ own \in [Owners -> OwnerType] /\ own[o] \in OwnerType
  BY DEF OwnerIInv, TypeOK, CloudType, OwnType
<1>2. Near(ow)
  BY <1>1 DEF Near, Like, OwnerType
<1>3. BoundType' /\ Later /\ UNCHANGED <<storeVars, sandbox, phase, promised>>
  BY <1>1, Bounds DEF Supervise
<1> HIDE DEF ow
<1>4. CASE owner = o /\ Detach(o, FALSE, ow)
  <2>1. owner # 0
    BY <1>4 DEF Owners
  <2> QED
    BY <1>1, <1>2, <1>3, <1>4, <2>1, EntryTaken, DetachKeeps
<1>5. CASE own' = ow /\ UNCHANGED <<owner, count>>
  BY <1>1, <1>2, <1>3, <1>5, NearKeeps DEF Near, OwnType
<1> QED
  BY <1>4, <1>5 DEF Supervise, ow

LEMMA StopUnlinkedKeeps ==
    ASSUME OwnerIInv, NEW o \in Owners, StopUnlinked(o) PROVE OwnerIInv'
<1> DEFINE ow == [own EXCEPT ![o].pc = "live"]
<1>1. /\ promised \in BOOLEAN /\ BoundType /\ own \in [Owners -> OwnerType] /\ own[o] \in OwnerType
      /\ own[o].pc = "unlinked" /\ own[o].revive \in BOOLEAN
  BY DEF OwnerIInv, TypeOK, CloudType, OwnType, OwnerType, StopUnlinked, At
<1>2. Near(ow)
  BY <1>1 DEF Near, Like, OwnerType, Pcs, RestPcs
<1>3. BoundType' /\ Later /\ UNCHANGED <<storeVars, sandbox, phase, promised>>
  BY <1>1, Bounds DEF StopUnlinked
<1> HIDE DEF ow
<1>4. CASE owner = o /\ Detach(o, own[o].revive, ow)
  <2>1. owner # 0
    BY <1>4 DEF Owners
  <2> QED
    BY <1>1, <1>2, <1>3, <1>4, <2>1, EntryTaken, DetachKeeps
<1>5. CASE own' = ow /\ UNCHANGED <<owner, count>>
  BY <1>1, <1>2, <1>3, <1>5, NearKeeps DEF Near, OwnType
<1> QED
  BY <1>4, <1>5 DEF StopUnlinked, ow

LEMMA PromptSuspendedKeeps == OwnerIInv /\ PromptSuspended => OwnerIInv'
<1> SUFFICES ASSUME OwnerIInv, PromptSuspended PROVE OwnerIInv'
  OBVIOUS
<1> DEFINE r == [Blank EXCEPT !.pc = "claimed", !.launching = TRUE, !.revive = TRUE]
<1>1. "claimed" \in Pcs
  BY DEF Pcs, LaunchPcs
<1>2. /\ r \in OwnerType /\ r.pc = "claimed" /\ r.revive = TRUE /\ r.ends = 0
      /\ ~r.live /\ ~r.busy /\ ~r.turn
  BY <1>1 DEF Blank, OwnerType
<1>3. acp /\ claim /\ owner = 0 /\ Take(own, r) /\ UNCHANGED <<storeVars, sandbox, phase, promised>>
      /\ phase = "up" /\ UNCHANGED boundVars
  BY DEF PromptSuspended, revivable
<1>4. status # "none" /\ \A q \in Owners : ~At(q, "created")
  BY <1>3 DEF OwnerIInv, CreatedInv
<1>5. Near(own) /\ BoundType
  BY NearOwn DEF OwnerIInv, TypeOK
<1>6. BoundType' /\ Later
  BY <1>3, <1>5, Bounds
<1> HIDE DEF r
<1> QED
  BY <1>2, <1>3, <1>4, <1>5, <1>6, TakeKeeps

LEMMA ReleaseSuspendedKeeps == OwnerIInv /\ ReleaseSuspended => OwnerIInv'
<1> SUFFICES ASSUME OwnerIInv, ReleaseSuspended PROVE OwnerIInv'
  OBVIOUS
<1> DEFINE r == [Blank EXCEPT !.pc = "release"]
<1>2. /\ r \in OwnerType /\ r.pc = "release" /\ r.ends = 0
      /\ ~r.live /\ ~r.busy /\ ~r.turn /\ ~r.revive
  BY BlankFields DEF Pcs, StopPcs
<1>3. owner = 0 /\ Take(own, r) /\ UNCHANGED <<storeVars, sandbox, phase, promised, boundVars>>
      /\ phase = "up" /\ status \notin {"none", "pending"}
  BY DEF ReleaseSuspended
<1>4. \A q \in Owners : ~At(q, "created")
  BY <1>3 DEF OwnerIInv, CreatedInv
<1>5. Near(own) /\ BoundType
  BY NearOwn DEF OwnerIInv, TypeOK
<1>6. BoundType' /\ Later
  BY <1>3, <1>5, Bounds
<1> HIDE DEF r
<1> QED
  BY <1>2, <1>3, <1>4, <1>5, <1>6, TakeKeeps

LEMMA FinishTurnKeeps ==
    ASSUME OwnerIInv, NEW o \in Owners, FinishTurn(o) PROVE OwnerIInv'
<1>1. /\ own[o].pc \in {"live", "unlinked"} /\ own[o].busy /\ TypeOK /\ own[o] \in OwnerType
      /\ BoundType /\ (owner = o \/ StoppedBy(o))
  BY DEF FinishTurn, Ready, OwnerIInv, TypeOK, OwnType, TurnInv, BusyAt
<1>2. UNCHANGED <<storeVars, sandbox, phase, owner, count, promised, boundVars>>
  BY DEF FinishTurn
<1>3. BoundType' /\ Later /\ UNCHANGED <<storeFaults, clusterFaults, restarts>>
  BY <1>1, <1>2, Bounds
<1>o. owner # 0 => owner \in Owners
  BY <1>1 DEF TypeOK, EntryType, Owners
<1>4. Ends(o) = own[o].ends + 1 /\ Ends(o) \in Nat
  <2>1. status \in {"awaiting", "running"}
    BY <1>1, <1>o DEF OwnerIInv, StatusInv, StatusAt, StoppedBy, At
  <2> QED
    BY <1>1, <2>1, EndsType DEF Ends, Terminal, TypeOK
<1> DEFINE e == Ends(o)
           r == [own[o] EXCEPT !.busy = FALSE, !.ends = e]
<1>5. own' = [own EXCEPT ![o] = r]
  BY DEF FinishTurn
<1>6. e \in Nat /\ e = own[o].ends + 1
  BY <1>4
<1> HIDE DEF e
<1>7. /\ r \in OwnerType /\ r.pc = own[o].pc /\ r.busy = FALSE /\ r.ends = e /\ r.live = own[o].live
      /\ r.stop = own[o].stop /\ r.revive = own[o].revive /\ r.turn = own[o].turn
      /\ r.named = own[o].named /\ r.target = own[o].target
  BY <1>1, <1>6 DEF OwnerType
<1> HIDE DEF r
<1>8. OwnType' /\ own'[o] = r /\ \A q \in Owners : q # o => own'[q] = own[q]
  BY <1>1, <1>5, <1>7 DEF TypeOK, OwnType
<1>9. \A q \in Owners : /\ own'[q].pc = own[q].pc /\ own'[q].live = own[q].live
                        /\ own'[q].stop = own[q].stop /\ own'[q].revive = own[q].revive
                        /\ own'[q].target = own[q].target /\ own'[q].named = own[q].named
                        /\ own'[q].turn = own[q].turn
  BY <1>7, <1>8
<1>10. TypeOK'
  <2>1. EntryType' /\ phase' \in {"boot", "reconcile", "up"}
    BY <1>1, <1>2 DEF TypeOK, EntryType, CloudType
  <2> QED
    BY <1>1, <1>2, <1>3, <1>8, <2>1, TypeSame
<1>s. \A q \in Owners : StoppedBy(q) => StoppedBy(q)'
  BY <1>2, <1>9, <1>o DEF StoppedBy, At
<1>11. EntryInv'
  <2>1. ASSUME NEW q \in Owners
        PROVE  (/\ q > count => At(q, "free")
                /\ Holding(q) => owner = q \/ (At(q, "link") /\ StoppedBy(q))
                /\ own[q].live => own[q].pc \in {"link", "live", "unlinked"} /\ ~own[q].stop
                /\ At(q, "stopLive") => own[q].target \in Owners)'
    BY <1>2, <1>9, <1>s DEF OwnerIInv, EntryInv, At, Holding
  <2>2. (/\ phase = "boot" => owner = 0
         /\ owner # 0 => own[owner].pc \notin {"free", "done", "created"})'
    BY <1>2, <1>9, <1>o DEF OwnerIInv, EntryInv
  <2> QED
    BY <2>1, <2>2 DEF EntryInv
<1>12. CreatedInv'
  BY <1>2, <1>9 DEF OwnerIInv, CreatedInv, storeVars, At
<1>13. StatusInv'
  <2> SUFFICES ASSUME NEW q \in Owners, (owner = q \/ Holding(q))'
               PROVE  (StatusAt(q) /\ ReviveAt(q))'
    BY DEF StatusInv
  <2>1. StatusAt(q) /\ ReviveAt(q)
    BY <1>2, <1>9 DEF OwnerIInv, StatusInv, Holding
  <2> QED
    BY <1>2, <1>9, <2>1 DEF StatusAt, ReviveAt, storeVars
<1>14. ReleaseInv' /\ KeptInv'
  <2>1. WorkspaceReleased' /\ (NoLoss => KeptStatus)'
    BY <1>2, <1>3, <1>9, <1>o DEF OwnerIInv, ReleaseInv, KeptInv, WorkspaceReleased, KeptStatus, NoLoss,
       storeVars, Terminal, At
  <2>2. ASSUME NEW q \in Owners PROVE ReleaseAt(q)' /\ (NoLoss => KeptAt(q))'
    BY <1>2, <1>3, <1>9 DEF OwnerIInv, ReleaseInv, KeptInv, ReleaseAt, KeptAt, NoLoss, storeVars, At
  <2> QED
    BY <2>1, <2>2 DEF ReleaseInv, KeptInv, NoLoss
<1>15. TurnInv'
  <2>1. (BusyAt(o) /\ TurnAt(o))'
    BY <1>1, <1>3, <1>6, <1>7, <1>8 DEF OwnerIInv, TurnInv, BusyAt, TurnAt, At, Reviving
  <2>2. ASSUME NEW q \in Owners, q # o PROVE BusyAt(q)'
    BY <1>2, <1>8, <1>s, <2>2 DEF OwnerIInv, TurnInv, BusyAt
  <2>3. ASSUME NEW q \in Owners, q # o PROVE TurnAt(q)'
    BY <1>3, <1>8, <2>3 DEF OwnerIInv, TurnInv, TurnAt, At
  <2> QED
    BY <2>1, <2>2, <2>3 DEF TurnInv
<1>16. PromiseInv'
  BY <1>2, <1>3, <1>9, <1>o DEF OwnerIInv, PromiseInv, Owes, Terminal, storeVars
<1> QED
  BY <1>10, <1>11, <1>12, <1>13, <1>14, <1>15, <1>16 DEF OwnerIInv


LEMMA CreateSessionKeeps == OwnerIInv /\ CreateSession => OwnerIInv'
<1> SUFFICES ASSUME OwnerIInv, CreateSession PROVE OwnerIInv'
  OBVIOUS
<1>n. PICK n \in Owners : n = count + 1
  <2>1. count < MaxOwners /\ count \in 0..MaxOwners
    BY DEF CreateSession, OwnerIInv, TypeOK, EntryType
  <2>2. count + 1 \in Owners
    BY <2>1, OwnerBounds DEF Owners
  <2> QED
    BY <2>2
<1> DEFINE r == [Blank EXCEPT !.pc = "created", !.launching = TRUE]
<1>1. "created" \in Pcs
  BY DEF Pcs, LaunchPcs
<1>2. /\ r \in OwnerType /\ r.pc = "created" /\ ~r.revive /\ ~r.live /\ ~r.busy /\ ~r.turn
  BY <1>1 DEF Blank, OwnerType
<1>3. /\ status = "none" /\ status' = "pending" /\ phase = "up" /\ count' = n
      /\ own' = [own EXCEPT ![n] = r]
  BY <1>n DEF CreateSession, Fresh
<1>4. UNCHANGED <<claim, acp, approver, endings, sandbox, phase, owner, promised, boundVars>>
  BY DEF CreateSession
<1> HIDE DEF r
<1>5. TypeOK /\ BoundType
  BY DEF OwnerIInv, TypeOK
<1>6. OwnType' /\ own'[n] = r /\ \A q \in Owners : q # n => own'[q] = own[q]
  BY <1>2, <1>3, <1>5 DEF TypeOK, OwnType
<1>7. owner = 0 /\ ~acp /\ ~claim /\ \A q \in Owners : own[q].pc \in {"free", "done"}
  BY <1>3 DEF OwnerIInv, CreatedInv
<1>8. BoundType' /\ UNCHANGED <<storeFaults, clusterFaults, restarts>>
  BY <1>4, <1>5, Bounds
<1>9. TypeOK'
  <2>1. StoreType'
    BY <1>3, <1>4, <1>5 DEF TypeOK, StoreType
  <2>2. CloudType'
    BY <1>4, <1>5 DEF TypeOK, CloudType
  <2>3. EntryType'
    BY <1>3, <1>4, <1>5 DEF TypeOK, EntryType, Owners
  <2> QED
    BY <1>6, <1>8, <2>1, <2>2, <2>3 DEF TypeOK
<1>10. EntryInv'
  <2>1. ASSUME NEW q \in Owners
        PROVE  (/\ q > count => At(q, "free")
                /\ ~Holding(q) /\ ~At(q, "stopLive")
                /\ own[q].live => own[q].pc \in {"link", "live", "unlinked"} /\ ~own[q].stop)'
    <3>1. CASE q = n
      BY <1>2, <1>3, <1>6, <3>1 DEF Holding, At, Owners
    <3>2. CASE q # n
      <4>1. q > n => q > count
        BY <1>n, <1>5 DEF TypeOK, EntryType, Owners
      <4> QED
        BY <1>3, <1>6, <1>7, <3>2, <4>1 DEF OwnerIInv, EntryInv, Holding, At, RestPcs
    <3> QED
      BY <3>1, <3>2
  <2> QED
    BY <1>3, <1>4, <1>7, <2>1 DEF EntryInv
<1>11. CreatedInv'
  <2>1. \A q \in Owners : At(q, "created")' => q = n
    BY <1>6, <1>7 DEF At
  <2> QED
    BY <1>2, <1>3, <1>4, <1>6, <1>7, <2>1 DEF CreatedInv, At
<1>12. StatusInv'
  <2>1. \A q \in Owners : ~Holding(q)' /\ owner' # q
    BY <1>2, <1>4, <1>6, <1>7 DEF Holding, RestPcs, Owners
  <2> QED
    BY <2>1 DEF StatusInv
<1>13. ReleaseInv' /\ KeptInv'
  <2>1. WorkspaceReleased' /\ KeptStatus'
    BY <1>3 DEF WorkspaceReleased, KeptStatus, Terminal
  <2>2. ASSUME NEW q \in Owners PROVE ReleaseAt(q)' /\ KeptAt(q)'
    BY <1>2, <1>6, <1>7 DEF ReleaseAt, KeptAt, At, Reviving
  <2> QED
    BY <2>1, <2>2 DEF ReleaseInv, KeptInv
<1>14. TurnInv'
  <2>1. (BusyAt(n) /\ TurnAt(n))'
    BY <1>2, <1>6 DEF BusyAt, TurnAt, At
  <2>2. ASSUME NEW q \in Owners, q # n PROVE (BusyAt(q) /\ TurnAt(q))'
    BY <1>6, <1>7, <1>8, <2>2 DEF OwnerIInv, TurnInv, BusyAt, TurnAt, At
  <2> QED
    BY <2>1, <2>2 DEF TurnInv
<1>15. PromiseInv'
  BY <1>3, <1>4, <1>7, <1>8 DEF OwnerIInv, PromiseInv, Terminal
<1> QED
  BY <1>9, <1>10, <1>11, <1>12, <1>13, <1>14, <1>15 DEF OwnerIInv

LEMMA RestartKeeps == OwnerIInv /\ Restart => OwnerIInv'
<1> SUFFICES ASSUME OwnerIInv, Restart PROVE OwnerIInv'
  OBVIOUS
<1>1. TypeOK /\ UNCHANGED <<storeVars, sandbox, count, promised>> /\ owner' = 0 /\ phase' = "boot"
  BY DEF OwnerIInv, Restart
<1>2. BoundType' /\ restarts' # 0 /\ UNCHANGED storeFaults
  BY <1>1 DEF Restart, TypeOK, BoundType
<1>3. /\ Blank \in OwnerType /\ Blank.pc = "free"
      /\ ~Blank.live /\ ~Blank.busy /\ ~Blank.turn /\ ~Blank.revive
  BY DEF Blank, OwnerType, Pcs, RestPcs
<1> DEFINE r == [Blank EXCEPT !.pc = "done"]
<1>4. /\ r \in OwnerType /\ r.pc = "done" /\ ~r.live /\ ~r.busy /\ ~r.turn /\ ~r.revive
  BY BlankFields DEF Pcs, RestPcs
<1>5. own' = [q \in Owners |-> IF At(q, "free") THEN Blank ELSE r]
  BY DEF Restart
<1> HIDE DEF r
<1>6. OwnType'
  BY <1>3, <1>4, <1>5 DEF OwnType
<1>7. ASSUME NEW q \in Owners
      PROVE  /\ own'[q].pc \in {"free", "done"} /\ (own[q].pc = "free" => own'[q].pc = "free")
             /\ ~own'[q].live /\ ~own'[q].busy /\ ~own'[q].turn /\ ~own'[q].revive
  BY <1>3, <1>4, <1>5 DEF At
<1>8. TypeOK'
  <2>1. EntryType'
    BY <1>1, OwnerBounds DEF TypeOK, EntryType
  <2> QED
    BY <1>1, <1>2, <1>6, <2>1, TypeSame
<1>9. EntryInv'
  <2>1. ASSUME NEW q \in Owners PROVE (q > count => At(q, "free"))'
    BY <1>1, <1>7 DEF OwnerIInv, EntryInv, At
  <2> QED
    BY <1>1, <1>7, <2>1 DEF EntryInv, Holding, RestPcs, At
<1>10. CreatedInv'
  BY <1>1, <1>7 DEF OwnerIInv, CreatedInv, At, storeVars
<1>11. StatusInv'
  BY <1>1, <1>7 DEF StatusInv, Holding, RestPcs, Owners
<1>12. ReleaseInv' /\ KeptInv'
  <2>1. WorkspaceReleased'
    BY <1>1, <1>2 DEF OwnerIInv, ReleaseInv, WorkspaceReleased, Terminal, storeVars
  <2>2. ASSUME NEW q \in Owners PROVE ReleaseAt(q)'
    BY <1>7 DEF ReleaseAt, At
  <2> QED
    BY <1>2, <2>1, <2>2 DEF ReleaseInv, KeptInv
<1>13. TurnInv'
  <2>1. ASSUME NEW q \in Owners PROVE (BusyAt(q) /\ TurnAt(q))'
    BY <1>7 DEF BusyAt, TurnAt, At
  <2> QED
    BY <2>1 DEF TurnInv
<1>14. PromiseInv'
  BY <1>2 DEF PromiseInv
<1> QED
  BY <1>8, <1>9, <1>10, <1>11, <1>12, <1>13, <1>14 DEF OwnerIInv

LEMMA ReconcileKeeps == OwnerIInv /\ Reconcile => OwnerIInv'
<1> SUFFICES ASSUME OwnerIInv, Reconcile PROVE OwnerIInv'
  OBVIOUS
<1>1. /\ phase = "boot" /\ owner = 0 /\ TypeOK /\ BoundType
      /\ \A q \in Owners : ~At(q, "created")
  BY DEF OwnerIInv, Reconcile, EntryInv, CreatedInv, TypeOK
<1>2. UNCHANGED <<storeVars, sandbox, promised>> /\ BoundType' /\ Later
  BY <1>1, Bounds DEF Reconcile
<1>3. CASE phase' = "up" /\ UNCHANGED <<owner, own, count>>
  <2>1. TypeOK'
    <3>1. EntryType' /\ OwnType'
      BY <1>1, <1>3 DEF TypeOK, EntryType, OwnType
    <3> QED
      BY <1>1, <1>2, <1>3, <3>1, TypeSame
  <2>2. EntryInv'
    BY <1>1, <1>3 DEF OwnerIInv, EntryInv, At, Holding, StoppedBy
  <2>3. CreatedInv' /\ StatusInv'
    <3>1. CreatedInv'
      BY <1>2, <1>3 DEF OwnerIInv, CreatedInv, At, storeVars
    <3>2. \A q \in Owners : ~Holding(q)' /\ owner' # q
      BY <1>1, <2>2, <1>3 DEF EntryInv, StoppedBy, Owners
    <3> QED
      BY <3>1, <3>2 DEF StatusInv
  <2>4. ReleaseInv' /\ KeptInv'
    <3>1. WorkspaceReleased' /\ (NoLoss => KeptStatus)'
      BY <1>2, <1>3 DEF OwnerIInv, ReleaseInv, KeptInv, WorkspaceReleased, KeptStatus, NoLoss, Later,
         storeVars, Terminal, At
    <3>2. ASSUME NEW q \in Owners PROVE ReleaseAt(q)' /\ (NoLoss => KeptAt(q))'
      BY <1>2, <1>3 DEF OwnerIInv, ReleaseInv, KeptInv, ReleaseAt, KeptAt, NoLoss, Later, storeVars, At
    <3> QED
      BY <3>1, <3>2 DEF ReleaseInv, KeptInv, NoLoss
  <2>5. TurnInv'
    <3>1. ASSUME NEW q \in Owners PROVE (BusyAt(q) /\ TurnAt(q))'
      BY <1>2, <1>3 DEF OwnerIInv, TurnInv, BusyAt, TurnAt, Later, At, StoppedBy
    <3> QED
      BY <3>1 DEF TurnInv
  <2>6. PromiseInv'
    BY <1>1, <1>2, <1>3 DEF OwnerIInv, PromiseInv, Terminal, Later, storeVars
  <2> QED
    BY <2>1, <2>2, <2>3, <2>4, <2>5, <2>6 DEF OwnerIInv
<1>4. CASE /\ status \notin {"none", "suspended", "ended"} /\ phase' = "reconcile"
           /\ Take(own, [Blank EXCEPT !.pc = "adopt"])
  <2> DEFINE r == [Blank EXCEPT !.pc = "adopt"]
  <2>1. /\ r \in OwnerType /\ r.pc = "adopt" /\ r.ends = 0
        /\ ~r.live /\ ~r.busy /\ ~r.turn /\ ~r.revive
    BY BlankFields DEF Pcs, StopPcs
  <2>2. Near(own)
    BY <1>1, NearOwn DEF TypeOK
  <2>3. Take(own, r)
    BY <1>4
  <2> HIDE DEF r
  <2> QED
    BY <1>1, <1>2, <1>4, <2>1, <2>2, <2>3, TakeKeeps
<1> QED
  BY <1>3, <1>4 DEF Reconcile

-----------------------------------------------------------------------------
(* The theorems.                                                           *)

LEMMA OwnerInit == Init => OwnerIInv
<1> SUFFICES ASSUME Init PROVE OwnerIInv
  OBVIOUS
<1>1. /\ Blank \in OwnerType /\ Blank.pc = "free"
      /\ ~Blank.live /\ ~Blank.busy /\ ~Blank.turn /\ ~Blank.revive
  BY DEF Blank, OwnerType, Pcs, RestPcs
<1>2. \A q \in Owners : own[q] = Blank
  BY DEF Init
<1>3. TypeOK
  <2>1. StoreType /\ CloudType
    BY DEF Init, StoreType, CloudType
  <2>2. EntryType /\ BoundType
    BY OwnerBounds DEF Init, EntryType, BoundType
  <2>3. OwnType
    BY <1>1 DEF Init, OwnType
  <2> QED
    BY <2>1, <2>2, <2>3 DEF TypeOK
<1>4. EntryInv
  BY <1>1, <1>2 DEF Init, EntryInv, Holding, RestPcs, At
<1>5. CreatedInv
  BY <1>1, <1>2 DEF Init, CreatedInv, At
<1>6. StatusInv
  BY <1>1, <1>2 DEF Init, StatusInv, Holding, RestPcs, Owners
<1>7. ReleaseInv /\ KeptInv
  BY <1>1, <1>2 DEF Init, ReleaseInv, KeptInv, WorkspaceReleased, KeptStatus, ReleaseAt, KeptAt, At,
     Terminal
<1>8. TurnInv
  BY <1>1, <1>2 DEF TurnInv, BusyAt, TurnAt, At
<1>9. PromiseInv
  BY DEF Init, PromiseInv
<1> QED
  BY <1>3, <1>4, <1>5, <1>6, <1>7, <1>8, <1>9 DEF OwnerIInv

LEMMA StutterKeeps == OwnerIInv /\ UNCHANGED vars => OwnerIInv'
<1> SUFFICES ASSUME OwnerIInv, UNCHANGED vars PROVE OwnerIInv'
  OBVIOUS
<1>1. UNCHANGED <<storeVars, sandbox, phase, owner, own, count, promised, boundVars>>
  BY DEF vars
<1>2. OwnType /\ BoundType /\ promised \in BOOLEAN
  BY DEF OwnerIInv, TypeOK, CloudType
<1>3. OwnType' /\ BoundType' /\ Later
  BY <1>1, <1>2, Bounds DEF OwnType
<1> QED
  BY <1>1, <1>2, <1>3, NearKeeps DEF Like

LEMMA OwnerStep == OwnerIInv /\ ~EndsBeforeCreated /\ [Next]_vars => OwnerIInv'
<1> SUFFICES ASSUME OwnerIInv, ~EndsBeforeCreated, [Next]_vars PROVE OwnerIInv'
  OBVIOUS
<1>1. CASE Call
  BY <1>1, CreateSessionKeeps, PromptSuspendedKeeps, EndSessionKeeps, SweepAbsoluteKeeps,
     ReleaseSuspendedKeeps DEF Call
<1>2. CASE Restart \/ Reconcile
  BY <1>2, RestartKeeps, ReconcileKeeps
<1>3. ASSUME NEW o \in Owners, LaunchStep(o) PROVE OwnerIInv'
  BY <1>3, ClaimCreatedKeeps, ClaimReviveKeeps, LaunchReadKeeps, PrepareKeeps, ReviveKeeps,
     CreateRunKeeps, ActivateKeeps, ActivateFailsKeeps, ResumeUnavailableKeeps, RegisterKeeps,
     WriteReadKeeps, WriteUpdateKeeps, FailLaunchKeeps, FailTeardownKeeps, FailReviveKeeps
     DEF LaunchStep
<1>4. ASSUME NEW o \in Owners, StopStep(o) PROVE OwnerIInv'
  BY <1>4, StopUnlinkedKeeps, StopLiveKeeps, SuspendSandboxKeeps, StopDetachedKeeps,
     ReadSuspendedKeeps, TeardownKeeps, FinishSessionKeeps, SettleKeeps, AdoptKeeps,
     RegisterAdoptedKeeps DEF StopStep
<1>5. ASSUME NEW o \in Owners, Trigger(o) PROVE OwnerIInv'
  BY <1>5, SuperviseKeeps, WatchRunKeeps, SweepIdleKeeps, FinishTurnKeeps DEF Trigger
<1>6. CASE UNCHANGED vars
  BY <1>6, StutterKeeps
<1> QED
  BY <1>1, <1>2, <1>3, <1>4, <1>5, <1>6 DEF Next, Step

LEMMA OneAtWorkHolds == OwnerIInv => OwnerInv
<1> SUFFICES ASSUME OwnerIInv PROVE OneAtWork
  BY DEF OwnerIInv, OwnerInv
<1> SUFFICES ASSUME NEW a \in Owners, NEW b \in Owners, a # b,
                    Holding(a), Holding(b), ~Waiting(a), ~Waiting(b)
             PROVE  FALSE
  BY DEF OneAtWork
<1>1. EntryInv
  BY DEF OwnerIInv
<1>2. ASSUME NEW l \in Owners, NEW s \in Owners, l # s, Holding(l), At(l, "link"), owner = s
      PROVE  Waiting(s)
  BY <1>1, <1>2 DEF EntryInv, StoppedBy, Waiting, Ready, At
<1> QED
  BY <1>1, <1>2, TwoAtWork

\* Of all who may change a session, one is at work: the launches, stops, releases
\* and the reconcile of the service never run into one another (detach, settle,
\* claim), whatever calls, sweeps, losses, faults and restarts come between.
THEOREM OwnerInvariant ==
    ASSUME ~EndsBeforeCreated
    PROVE  Spec => []OwnerInv
<1>1. Init => OwnerIInv
  BY OwnerInit
<1>2. OwnerIInv /\ [Next]_vars => OwnerIInv'
  BY OwnerStep
<1>3. OwnerIInv => OwnerInv
  BY OneAtWorkHolds
<1> QED
  BY <1>1, <1>2, <1>3, PTL DEF Spec


\* Only CreateSession, the writes and FinishSession touch the status and the log.
LEMMA OnlyWrites ==
    ASSUME [Next]_vars
    PROVE  \/ UNCHANGED <<status, acp, endings>>
           \/ CreateSession
           \/ \E o \in Owners : WriteUpdate(o) \/ FinishSession(o)
<1> USE DEF storeVars
<1>1. CASE UNCHANGED vars
  BY <1>1 DEF vars
<1>2. CASE Call \/ Restart \/ Reconcile
  BY <1>2 DEF Call, PromptSuspended, EndSession, SweepAbsolute, ReleaseSuspended, Restart, Reconcile
<1>3. ASSUME NEW o \in Owners, LaunchStep(o)
      PROVE  UNCHANGED <<status, acp, endings>> \/ WriteUpdate(o)
  BY <1>3 DEF LaunchStep, ClaimCreated, ClaimRevive, LaunchRead, Prepare, Revive, CreateRun, Activate,
     ActivateFails, ResumeUnavailable, Register, WriteRead, FailLaunch, FailTeardown, FailRevive
<1>4. ASSUME NEW o \in Owners, StopStep(o)
      PROVE  UNCHANGED <<status, acp, endings>> \/ FinishSession(o)
  BY <1>4 DEF StopStep, StopUnlinked, StopLive, SuspendSandbox, StopDetached, ReadSuspended, Teardown,
     Settle, Adopt, RegisterAdopted
<1>5. ASSUME NEW o \in Owners, Trigger(o)
      PROVE  UNCHANGED <<status, acp, endings>>
  BY <1>5 DEF Trigger, Supervise, WatchRun, SweepIdle, FinishTurn
<1> QED
  BY <1>1, <1>2, <1>3, <1>4, <1>5 DEF Next, Step

\* What a write finds in the store: never a session that has ended, and the
\* status that the step before it left.
LEMMA WriteFinds ==
    ASSUME OwnerIInv, NEW o \in Owners, WriteUpdate(o)
    PROVE  /\ StatusAt(o) /\ ReviveAt(o) /\ own[o].pc \in Writes /\ ~Terminal(status)
           /\ own[o] \in OwnerType
<1>1. Holding(o) /\ own[o].pc \in Writes
  BY DEF WriteUpdate, Holding, RestPcs, Writes
<1>2. StatusAt(o) /\ ReviveAt(o) /\ own[o] \in OwnerType
  BY <1>1, AtWork DEF GoodAt
<1> QED
  BY <1>1, <1>2 DEF StatusAt, Terminal, Writes

\* "A session in a terminal state does not change again": no update of write()
\* and no second FinishSession comes after the end, although write() reads the
\* status in one call and updates the row in another.
THEOREM EndsOnce ==
    ASSUME ~EndsBeforeCreated
    PROVE  Spec => EndIsFinal
<1>1. OwnerIInv /\ [Next]_vars => [Terminal(status) => UNCHANGED <<status, endings>>]_vars
  <2> SUFFICES ASSUME OwnerIInv, [Next]_vars, Terminal(status)
               PROVE  UNCHANGED <<status, endings>>
    OBVIOUS
  <2>1. ~CreateSession
    BY DEF CreateSession, Terminal
  <2>2. \A o \in Owners : ~WriteUpdate(o)
    BY WriteFinds
  <2>3. \A o \in Owners : FinishSession(o) => UNCHANGED <<status, endings>>
    BY DEF FinishSession
  <2> QED
    BY <2>1, <2>2, <2>3, OnlyWrites
<1>2. Init => OwnerIInv
  BY OwnerInit
<1>3. OwnerIInv /\ [Next]_vars => OwnerIInv'
  BY OwnerStep
<1> QED
  BY <1>1, <1>2, <1>3, PTL DEF Spec, EndIsFinal

\* The states of enum SessionState follow one another as the API describes them.
THEOREM RefinesLifecycle ==
    ASSUME ~EndsBeforeCreated
    PROVE  Spec => ImplementsLifecycle
<1>1. Init => Lifecycle!Init
  BY DEF Init, Lifecycle!Init
<1>2. OwnerIInv /\ [Next]_vars => [Lifecycle!Next]_Lifecycle!lifecycleVars
  <2> SUFFICES ASSUME OwnerIInv, [Next]_vars
               PROVE  Lifecycle!Next \/ UNCHANGED <<status, acp, endings>>
    BY DEF Lifecycle!lifecycleVars
  <2> USE DEF Lifecycle!Next, Lifecycle!Move
  <2>1. CASE CreateSession
    BY <2>1 DEF CreateSession, Lifecycle!Create
  <2>2. ASSUME NEW o \in Owners, WriteUpdate(o)
        PROVE  Lifecycle!Next \/ UNCHANGED <<status, acp, endings>>
    <3>1. /\ StatusAt(o) /\ ReviveAt(o) /\ own[o].pc \in Writes /\ UNCHANGED endings
          /\ acp \in BOOLEAN
      BY <2>2, WriteFinds DEF WriteUpdate, OwnerIInv, TypeOK, StoreType
    <3>2. CASE UNCHANGED <<status, acp>>
      BY <3>1, <3>2
    <3>3. CASE status' = Written(own[o].pc) /\ acp' = (acp \/ own[o].pc = "link")
      <4>1. CASE own[o].pc = "begin"
        <5>1. status' = "launching" /\ UNCHANGED acp
          BY <3>1, <3>3, <4>1 DEF Written
        <5>2. status = "pending" \/ (status = "suspended" /\ acp)
          BY <3>1, <4>1 DEF StatusAt, ReviveAt, Reviving
        <5> QED
          BY <3>1, <5>1, <5>2 DEF Lifecycle!Launch
      <4>2. CASE own[o].pc = "record"
        BY <3>1, <3>3, <4>2 DEF Written, StatusAt
      <4>3. CASE own[o].pc = "await"
        BY <3>1, <3>3, <4>3 DEF Written, StatusAt, Lifecycle!AwaitApproval
      <4>4. CASE own[o].pc = "link"
        BY <3>1, <3>3, <4>4 DEF Written, StatusAt, Lifecycle!Run
      <4>5. CASE own[o].pc \in {"resuspend", "suspending"}
        <5>1. status' = "suspended" /\ UNCHANGED acp
          BY <3>1, <3>3, <4>5 DEF Written
        <5>2. /\ status \in {"suspended", "launching", "awaiting", "running"}
              /\ status = "launching" => acp
          BY <3>1, <4>5 DEF StatusAt, ReviveAt, Reviving
        <5> QED
          BY <3>1, <5>1, <5>2 DEF Lifecycle!Suspend
      <4> QED
        BY <3>1, <4>1, <4>2, <4>3, <4>4, <4>5 DEF Writes
    <3> QED
      BY <2>2, <3>2, <3>3 DEF WriteUpdate
  <2>3. ASSUME NEW o \in Owners, FinishSession(o)
        PROVE  Lifecycle!Next \/ UNCHANGED <<status, acp, endings>>
    <3>1. status # "none" /\ StoreType
      <4>1. Holding(o)
        BY <2>3 DEF FinishSession, Holding, RestPcs, At
      <4> QED
        BY <4>1, AtWork DEF GoodAt, StatusAt, OwnerIInv, TypeOK
    <3> QED
      BY <2>3, <3>1 DEF FinishSession, StoreType, Terminal, Lifecycle!End, Lifecycle!Live
  <2> QED
    BY <2>1, <2>2, <2>3, OnlyWrites
<1>3. Init => OwnerIInv
  BY OwnerInit
<1>4. OwnerIInv /\ [Next]_vars => OwnerIInv'
  BY OwnerStep
<1> QED
  BY <1>1, <1>2, <1>3, <1>4, PTL DEF Spec, ImplementsLifecycle, Lifecycle!Spec

\* The properties that the parts of the invariant are there for.
LEMMA OwnerSafe ==
    OwnerIInv => /\ WorkspaceReleased /\ SuspendedHasWorkspace
                 /\ RevivedTurnEndsOnce /\ EndAnsweredIsDone
<1> SUFFICES ASSUME OwnerIInv
             PROVE  /\ WorkspaceReleased /\ SuspendedHasWorkspace
                    /\ RevivedTurnEndsOnce /\ EndAnsweredIsDone
  OBVIOUS
<1>1. WorkspaceReleased
  BY DEF OwnerIInv, ReleaseInv
<1>2. SuspendedHasWorkspace
  BY DEF OwnerIInv, KeptInv, KeptStatus, SuspendedHasWorkspace
<1>3. RevivedTurnEndsOnce
  BY DEF OwnerIInv, TurnInv, BusyAt, TurnAt, RevivedTurnEndsOnce, Ready, At, Reviving
<1>4. EndAnsweredIsDone
  BY DEF OwnerIInv, PromiseInv, EndAnsweredIsDone
<1> QED
  BY <1>1, <1>2, <1>3, <1>4

\* A session that ended leaves no workspace that it has recorded, when the store
\* answers: whichever goroutine ends it removed the workspace first.
THEOREM ReleasesWorkspace ==
    ASSUME ~EndsBeforeCreated
    PROVE  Spec => []WorkspaceReleased
  BY OwnerInit, OwnerStep, OwnerSafe, PTL DEF Spec

\* Nobody removes the workspace of a session that stays suspended: not a revive
\* that fails, and not a stop that came too late.
THEOREM KeepsWorkspace ==
    ASSUME ~EndsBeforeCreated
    PROVE  Spec => []SuspendedHasWorkspace
  BY OwnerInit, OwnerStep, OwnerSafe, PTL DEF Spec

\* The turn of a Prompt that revives a session ends exactly once, by failRevive,
\* by the stop that met the launch or with the binding.
THEOREM EndsRevivedTurn ==
    ASSUME ~EndsBeforeCreated
    PROVE  Spec => []RevivedTurnEndsOnce
  BY OwnerInit, OwnerStep, OwnerSafe, PTL DEF Spec

\* A stop that EndSession left with a launch is carried out before the launch
\* lets the session go (detach, settle).
THEOREM KeepsPromise ==
    ASSUME ~EndsBeforeCreated
    PROVE  Spec => []EndAnsweredIsDone
  BY OwnerInit, OwnerStep, OwnerSafe, PTL DEF Spec
=============================================================================
