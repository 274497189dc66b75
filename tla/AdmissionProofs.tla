-------------------------- MODULE AdmissionProofs --------------------------
(***************************************************************************)
(* Theorems about Admission: for any sets of sessions, clients, calls and  *)
(* keys and any caps, the quotas hold, a session that the store calls      *)
(* running can be adopted, a remembered key starts one turn, and nobody    *)
(* waits for somebody who waits.                                           *)
(*                                                                         *)
(* Three kinds of steps are told apart: of a call, of a session's launch   *)
(* or stop, and the few of both.  The first lemmas say, for each part of   *)
(* AdmissionInv, what of a step it depends on.                             *)
(***************************************************************************)
EXTENDS Admission, FiniteSetTheorems, TLAPS

\* AdmissionInv without what follows from the rest of it.
AdmissionIInv ==
    /\ TypeOK /\ QuotasHold /\ RunningIsAdoptable
    /\ CallInv /\ LockInv /\ LaunchInv /\ KeyInv /\ TurnInv

\* What a step may do to the rows: a session keeps its client and its turns,
RowsKeep ==
    \A s \in Sessions : Exists(rows, s) =>
        /\ Exists(rows', s) /\ rows'[s].client = rows[s].client
        /\ rows'[s].turns >= rows[s].turns

\* and none becomes live,
NoNewLive ==
    \A s \in Sessions : Live(rows', s) => Live(rows, s) /\ rows'[s].client = rows[s].client

\* nor one that is being launched; the caps stay.
NoNewLaunch ==
    \A s \in Sessions : owners'[s] = "launch" =>
        owners[s] = "launch" /\ rows'[s].client = rows[s].client
CapsKept ==
    \A cl \in Clients : binding'[cl].live = binding[cl].live
                        /\ binding'[cl].pending = binding[cl].pending

\* A client has no more live sessions than before.
LEMMA LiveFewer ==
    ASSUME StoreType, StoreType', NoNewLive, NEW cl
    PROVE  /\ Cardinality(ListLiveSessionsByClient(rows, cl)) \in Nat
           /\ Cardinality(ListLiveSessionsByClient(rows', cl)) \in Nat
           /\ Cardinality(ListLiveSessionsByClient(rows', cl))
                <= Cardinality(ListLiveSessionsByClient(rows, cl))
<1> DEFINE A == ListLiveSessionsByClient(rows, cl)
           B == ListLiveSessionsByClient(rows', cl)
<1>1. A \subseteq Sessions /\ B \subseteq A
  BY DEF StoreType, ListLiveSessionsByClient, NoNewLive
<1>2. IsFiniteSet(A) /\ Cardinality(A) \in Nat
  BY <1>1, AdmissionAssumption, FS_Subset, FS_CardinalityType
<1> HIDE DEF A, B
<1>3. Cardinality(B) <= Cardinality(A) /\ Cardinality(B) \in Nat
  BY <1>1, <1>2, FS_Subset, FS_CardinalityType
<1> QED BY <1>2, <1>3 DEF A, B

\* Nor more launches.
LEMMA LaunchesFewer ==
    ASSUME NoNewLaunch, NEW cl
    PROVE  /\ Cardinality(launchesOf(cl)) \in Nat
           /\ Cardinality(launchesOf(cl)') \in Nat
           /\ Cardinality(launchesOf(cl)') <= Cardinality(launchesOf(cl))
<1>1. PICK A : A = launchesOf(cl)
  OBVIOUS
<1>2. PICK B : B = launchesOf(cl)'
  OBVIOUS
<1>3. A \subseteq Sessions /\ B \subseteq A
  BY <1>1, <1>2 DEF launchesOf, NoNewLaunch
<1>4. IsFiniteSet(A) /\ Cardinality(A) \in Nat
  BY <1>3, AdmissionAssumption, FS_Subset, FS_CardinalityType
<1>5. Cardinality(B) <= Cardinality(A) /\ Cardinality(B) \in Nat
  BY <1>3, <1>4, FS_Subset, FS_CardinalityType
<1> QED BY <1>1, <1>2, <1>4, <1>5

\* So the quotas still hold.
LEMMA QuotasKept ==
    ASSUME StoreType, StoreType', RestType, QuotasHold, NoNewLive, NoNewLaunch, CapsKept
    PROVE  QuotasHold'
<1> SUFFICES ASSUME NEW cl \in Clients
             PROVE  /\ binding'[cl].live > 0 =>
                         Cardinality(ListLiveSessionsByClient(rows', cl)) <= binding'[cl].live
                    /\ binding'[cl].pending > 0 =>
                         Cardinality(launchesOf(cl)') <= binding'[cl].pending
  BY DEF QuotasHold
<1>1. /\ binding'[cl].live = binding[cl].live /\ binding'[cl].pending = binding[cl].pending
      /\ binding[cl].live \in Nat /\ binding[cl].pending \in Nat
  BY AdmissionAssumption DEF CapsKept, RestType, BindingType
<1>2. /\ binding[cl].live > 0 =>
           Cardinality(ListLiveSessionsByClient(rows, cl)) <= binding[cl].live
      /\ binding[cl].pending > 0 => Cardinality(launchesOf(cl)) <= binding[cl].pending
  BY DEF QuotasHold
<1>3. /\ Cardinality(ListLiveSessionsByClient(rows, cl)) \in Nat
      /\ Cardinality(ListLiveSessionsByClient(rows', cl)) \in Nat
      /\ Cardinality(ListLiveSessionsByClient(rows', cl))
           <= Cardinality(ListLiveSessionsByClient(rows, cl))
  BY LiveFewer
<1>4. /\ Cardinality(launchesOf(cl)) \in Nat /\ Cardinality(launchesOf(cl)') \in Nat
      /\ Cardinality(launchesOf(cl)') <= Cardinality(launchesOf(cl))
  BY LaunchesFewer
<1> QED BY <1>1, <1>2, <1>3, <1>4

\* There is as much room for a client as before.
LEMMA RoomKept ==
    ASSUME StoreType, StoreType', RestType, NoNewLive, NoNewLaunch, CapsKept, NEW cl \in Clients
    PROVE  /\ Room(Cardinality(ListLiveSessionsByClient(rows, cl)), binding[cl].live) =>
                Room(Cardinality(ListLiveSessionsByClient(rows', cl)), binding'[cl].live)
           /\ Room(Cardinality(launchesOf(cl)), binding[cl].pending) =>
                Room(Cardinality(launchesOf(cl)'), binding'[cl].pending)
<1>1. /\ binding'[cl].live = binding[cl].live /\ binding'[cl].pending = binding[cl].pending
      /\ binding[cl].live \in Nat /\ binding[cl].pending \in Nat
  BY AdmissionAssumption DEF CapsKept, RestType, BindingType
<1>2. /\ Cardinality(ListLiveSessionsByClient(rows, cl)) \in Nat
      /\ Cardinality(ListLiveSessionsByClient(rows', cl)) \in Nat
      /\ Cardinality(ListLiveSessionsByClient(rows', cl))
           <= Cardinality(ListLiveSessionsByClient(rows, cl))
  BY LiveFewer
<1>3. /\ Cardinality(launchesOf(cl)) \in Nat /\ Cardinality(launchesOf(cl)') \in Nat
      /\ Cardinality(launchesOf(cl)') <= Cardinality(launchesOf(cl))
  BY LaunchesFewer
<1> QED BY <1>1, <1>2, <1>3 DEF Room

\* What LockAt asks of a call: with a lock, and room for what it starts.
LEMMA LockAtKept ==
    ASSUME StoreType, StoreType', RestType, NoNewLive, NoNewLaunch, CapsKept,
           NEW d \in Calls, LockAt(d), CallOk(calls[d]), calls'[d] = calls[d],
           calls[d].at \in {"pending", "accept"} => admission' = admission
    PROVE  LockAt(d)'
<1>0. CASE calls[d].at \notin {"pending", "accept"}
  BY <1>0 DEF LockAt, At
<1>1. CASE calls[d].at \in {"pending", "accept"}
  <2>1. PICK cl \in Clients : cl = calls[d].client
    BY <1>1 DEF CallOk, Working
  <2>2. /\ Room(Cardinality(ListLiveSessionsByClient(rows, cl)), binding[cl].live) =>
              Room(Cardinality(ListLiveSessionsByClient(rows', cl)), binding'[cl].live)
        /\ Room(Cardinality(launchesOf(cl)), binding[cl].pending) =>
              Room(Cardinality(launchesOf(cl)'), binding'[cl].pending)
    BY RoomKept
  <2>3. /\ admission = d
        /\ calls[d].op = "create" =>
             Room(Cardinality(ListLiveSessionsByClient(rows, cl)), binding[cl].live)
        /\ calls[d].at = "accept" =>
             Room(Cardinality(launchesOf(cl)), binding[cl].pending)
    BY <1>1, <2>1 DEF LockAt, At
  <2>4. /\ admission' = d
        /\ calls'[d].op = "create" =>
             Room(Cardinality(ListLiveSessionsByClient(rows', cl)), binding'[cl].live)
        /\ calls'[d].at = "accept" =>
             Room(Cardinality(launchesOf(cl)'), binding'[cl].pending)
    BY <1>1, <2>2, <2>3
  <2>5. calls'[d].client = cl
    BY <2>1
  <2> QED BY <2>4, <2>5 DEF LockAt, At, launchesOf
<1> QED BY <1>0, <1>1

\* A step of a session leaves the calls alone.
LEMMA LockKept ==
    ASSUME StoreType, StoreType', RestType, NoNewLive, NoNewLaunch, CapsKept,
           CallInv, LockInv, calls' = calls, admission' = admission
    PROVE  LockInv'
<1>1. ASSUME NEW d \in Calls PROVE LockAt(d)'
  BY LockAtKept DEF CallInv, LockInv
<1> QED BY <1>1 DEF LockInv

\* A call that is not at the lock moves.
LEMMA LockElsewhere ==
    ASSUME StoreType, StoreType', RestType, NoNewLive, NoNewLaunch, CapsKept,
           CallInv, LockInv, NEW c \in Calls, NEW r, calls' = [calls EXCEPT ![c] = r],
           calls \in [Calls -> CallType],
           admission' = admission,
           calls[c].at \notin {"pending", "accept"}, r.at \notin {"pending", "accept"}
    PROVE  LockInv'
<1>1. ASSUME NEW d \in Calls PROVE LockAt(d)'
  <2>1. CASE d = c
    <3>1. calls'[d].at \notin {"pending", "accept"}
      BY <2>1
    <3> QED BY <3>1 DEF LockAt, At
  <2>2. CASE d # c
    <3>1. calls'[d] = calls[d]
      BY <2>2
    <3> QED BY <3>1, LockAtKept DEF CallInv, LockInv
  <2> QED BY <2>1, <2>2
<1>2. admission' # Nobody => calls'[admission'].at \in {"pending", "accept"}
  BY DEF LockInv, RestType
<1> QED BY <1>1, <1>2 DEF LockInv

\* A call gives the lock back.
LEMMA LockReleased ==
    ASSUME LockInv, NEW c \in Calls, NEW r, calls' = [calls EXCEPT ![c] = r],
           calls \in [Calls -> CallType],
           admission' = Nobody,
           calls[c].at \in {"pending", "accept"}, r.at \notin {"pending", "accept"}
    PROVE  LockInv'
<1>1. ASSUME NEW d \in Calls PROVE LockAt(d)'
  <2>1. calls'[d].at \notin {"pending", "accept"}
    <3>1. CASE d = c
      BY <3>1
    <3>2. CASE d # c
      BY <3>2 DEF LockInv, LockAt
    <3> QED BY <3>1, <3>2
  <2> QED BY <2>1 DEF LockAt, At
<1> QED BY <1>1 DEF LockInv

-----------------------------------------------------------------------------
(* The calls.                                                              *)

\* The call may go on, with the rows as they are now.
LEMMA CallOkKept ==
    ASSUME StoreType, StoreType', RowsKeep, NEW r \in CallType, CallOk(r)
    PROVE  CallOk(r)'
<1>1. r.session \in Sessions /\ Exists(rows, r.session) =>
        /\ Exists(rows', r.session) /\ rows'[r.session].client = rows[r.session].client
        /\ rows'[r.session].turns >= rows[r.session].turns
        /\ rows'[r.session].turns \in Nat /\ rows[r.session].turns \in Nat
  BY DEF RowsKeep, StoreType, RowType
<1>2. r.turn \in Nat
  BY DEF CallType
<1> QED BY <1>1, <1>2 DEF CallOk, Exists

LEMMA CallsKept ==
    ASSUME StoreType, StoreType', RowsKeep, CallInv, calls \in [Calls -> CallType],
           calls' = calls
    PROVE  CallInv'
<1> SUFFICES ASSUME NEW d \in Calls PROVE CallOk(calls[d])' /\ WaitAt(d)'
  BY DEF CallInv
<1>1. PICK r \in CallType : r = calls[d]
  OBVIOUS
<1>2. CallOk(r)'
  BY <1>1, CallOkKept DEF CallInv
<1>3. CallOk(calls[d])'
  BY <1>1, <1>2 DEF CallOk
<1>4. WaitAt(d)'
  BY DEF CallInv, WaitAt, At
<1> QED BY <1>3, <1>4

\* A call moves: it does not leave those who wait for it behind.
LEMMA CallMoves ==
    ASSUME StoreType, StoreType', RowsKeep, CallInv, calls \in [Calls -> CallType],
           NEW c \in Calls, NEW r \in CallType, calls' = [calls EXCEPT ![c] = r],
           CallOk(r)',
           calls[c].at \in Working /\ calls[c].key # NoKey =>
               r.at \in Working \cup {"ok", "refused"} /\ r.key # NoKey,
           calls[c].at \notin {"ok", "refused"},
           r.at = "wait" =>
               /\ r.claim \in Calls /\ r.claim # c /\ calls[r.claim].key # NoKey
               /\ calls[r.claim].at \in Working \cup {"ok", "refused"}
    PROVE  CallInv'
<1> SUFFICES ASSUME NEW d \in Calls PROVE CallOk(calls[d])' /\ WaitAt(d)'
  BY DEF CallInv
<1>1. CASE d = c
  <2>1. calls'[d] = r
    BY <1>1
  <2>2. CallOk(calls[d])'
    BY <2>1 DEF CallOk
  <2>3. r.at = "wait" => calls'[r.claim] = calls[r.claim]
    OBVIOUS
  <2>4. WaitAt(d)'
    BY <2>1, <2>3 DEF WaitAt, At
  <2> QED BY <2>2, <2>4
<1>2. CASE d # c
  <2>1. calls'[d] = calls[d] /\ calls[d] \in CallType
    BY <1>2
  <2>2. PICK q \in CallType : q = calls[d]
    BY <2>1
  <2>3. CallOk(q)'
    BY <2>2, CallOkKept DEF CallInv
  <2>4. CallOk(calls[d])'
    BY <2>1, <2>2, <2>3 DEF CallOk
  <2>5. ASSUME calls[d].at = "wait"
        PROVE  /\ calls[d].claim \in Calls
               /\ calls'[calls[d].claim].key # NoKey
               /\ calls'[calls[d].claim].at \in Working \cup {"ok", "refused"}
    <3>1. PICK e \in Calls : e = calls[d].claim
      BY <2>5 DEF CallInv, WaitAt, At
    <3>2. calls[e].key # NoKey /\ calls[e].at \in Working \cup {"ok", "refused"}
      BY <2>5, <3>1 DEF CallInv, WaitAt, At
    <3>3. calls'[e].key # NoKey /\ calls'[e].at \in Working \cup {"ok", "refused"}
      <4>1. CASE e = c
        BY <4>1, <3>2
      <4>2. CASE e # c
        BY <4>2, <3>2
      <4> QED BY <4>1, <4>2
    <3> QED BY <3>1, <3>3
  <2>6. WaitAt(d)'
    BY <2>1, <2>5 DEF WaitAt, At
  <2> QED BY <2>4, <2>6
<1> QED BY <1>1, <1>2

\* The turns of the calls stay apart: a call has none, the one that it had, a
\* new one, or that of the call that it repeats.
LEMMA TurnsApart ==
    ASSUME TurnInv, calls \in [Calls -> CallType],
           NEW c \in Calls, NEW r \in CallType, calls' = [calls EXCEPT ![c] = r],
           \/ ~Turned(r)
           \/ /\ Turned(calls[c])
              /\ r.session = calls[c].session /\ r.turn = calls[c].turn
              /\ r.key = calls[c].key
           \/ \A d \in Calls : Turned(calls[d]) /\ calls[d].session = r.session =>
                                   calls[d].turn < r.turn
           \/ \E e \in Calls : calls[e] = r /\ e # c /\ r.key # NoKey
    PROVE  TurnInv'
<1>1. ASSUME NEW d \in Calls, d # c PROVE SameTurn(r, calls[d]) /\ SameTurn(calls[d], r)
  <2>0. calls[d] \in CallType /\ calls[d].turn \in Nat /\ r.turn \in Nat
    BY DEF CallType
  <2>1. CASE ~Turned(r)
    BY <2>1 DEF SameTurn
  <2>2. CASE /\ Turned(calls[c])
             /\ r.session = calls[c].session /\ r.turn = calls[c].turn
             /\ r.key = calls[c].key
    <3>1. SameTurn(calls[c], calls[d]) /\ SameTurn(calls[d], calls[c])
      BY <1>1 DEF TurnInv
    <3> QED BY <3>1, <2>2 DEF SameTurn
  <2>3. CASE \A e \in Calls : Turned(calls[e]) /\ calls[e].session = r.session =>
                                   calls[e].turn < r.turn
    BY <2>0, <2>3 DEF SameTurn
  <2>4. CASE \E e \in Calls : calls[e] = r /\ e # c /\ r.key # NoKey
    <3>1. PICK e \in Calls : calls[e] = r /\ r.key # NoKey
      BY <2>4
    <3>2. CASE e = d
      BY <3>1, <3>2 DEF SameTurn
    <3>3. CASE e # d
      BY <3>1, <3>3 DEF TurnInv
    <3> QED BY <3>2, <3>3
  <2> QED BY <2>1, <2>2, <2>3, <2>4
<1> SUFFICES ASSUME NEW d \in Calls, NEW e \in Calls, d # e
             PROVE  SameTurn(calls'[d], calls'[e])
  BY DEF TurnInv, SameTurn, Turned
<1>2. CASE d = c
  BY <1>1, <1>2
<1>3. CASE e = c
  BY <1>1, <1>3
<1>4. CASE d # c /\ e # c
  BY <1>4 DEF TurnInv
<1> QED BY <1>2, <1>3, <1>4

\* The keys: a call goes on with its key, or has none that is remembered.
LEMMA KeysKept ==
    ASSUME KeyInv, MemoType, calls \in [Calls -> CallType],
           UNCHANGED <<memo, lapsed, began>>,
           NEW c \in Calls, NEW r \in CallType, calls' = [calls EXCEPT ![c] = r],
           calls[c].at # "ok",
           r.at \in Working /\ r.key # NoKey =>
               calls[c].at \in Working /\ r.session = calls[c].session /\ r.key = calls[c].key,
           calls[c].at \in Working /\ calls[c].key # NoKey =>
               /\ r.at \in Working \cup {"ok"}
               /\ r.session = calls[c].session /\ r.key = calls[c].key
               /\ calls[c].at = "started" =>
                      r.at \in {"started", "ok"} /\ r.turn = calls[c].turn
    PROVE  KeyInv'
<1>1. ASSUME NEW d \in Calls PROVE ClaimAt(d)'
  <2>1. CASE d = c
    <3>1. calls'[d] = r
      BY <2>1
    <3>2. c \notin lapsed
      BY DEF KeyInv, ClaimAt, At
    <3>3. r.at \in Working /\ r.key # NoKey => memo[r.session][r.key] = c
      BY DEF KeyInv, ClaimAt
    <3> QED BY <2>1, <3>1, <3>2, <3>3 DEF ClaimAt
  <2>2. CASE d # c
    <3>1. calls'[d] = calls[d]
      BY <2>2
    <3> QED BY <3>1 DEF KeyInv, ClaimAt, At
  <2> QED BY <2>1, <2>2
<1>2. ASSUME NEW s \in Sessions, NEW k \in Keys PROVE MemoAt(s, k)'
  <2>0. MemoAt(s, k) /\ memo'[s][k] = memo[s][k]
    BY DEF KeyInv
  <2>1. CASE memo[s][k] = Nobody
    BY <2>0, <2>1 DEF MemoAt
  <2>2. CASE memo[s][k] # Nobody
    <3>1. PICK e \in Calls : e = memo[s][k]
      BY <2>2 DEF MemoType
    <3>2. /\ calls[e].session = s /\ calls[e].key = k /\ calls[e].at \in Working \cup {"ok"}
          /\ \/ began[s][k] = {}
             \/ /\ e \notin lapsed /\ calls[e].at \in {"started", "ok"}
                /\ began[s][k] = {calls[e].turn}
      BY <2>0, <2>2, <3>1 DEF MemoAt
    <3>3. k # NoKey
      BY AdmissionAssumption
    <3>4. /\ calls'[e].session = s /\ calls'[e].key = k /\ calls'[e].at \in Working \cup {"ok"}
          /\ \/ began[s][k] = {}
             \/ /\ e \notin lapsed /\ calls'[e].at \in {"started", "ok"}
                /\ began[s][k] = {calls'[e].turn}
      <4>1. CASE e # c
        <5>1. calls'[e] = calls[e]
          BY <4>1
        <5> QED BY <5>1, <3>2
      <4>2. CASE e = c
        <5>1. calls'[e] = r /\ calls[e] = calls[c]
          BY <4>2
        <5>2. calls[c].at \in Working /\ calls[c].key # NoKey
          BY <3>2, <3>3, <4>2
        <5> QED BY <3>2, <5>1, <5>2
      <4> QED BY <4>1, <4>2
    <3> QED BY <2>2, <3>1, <3>4 DEF MemoAt
  <2> QED BY <2>1, <2>2
<1> QED BY <1>1, <1>2 DEF KeyInv

\* Nobody looks at the calls' keys when the calls stay.
LEMMA KeysSame ==
    ASSUME KeyInv, UNCHANGED <<memo, lapsed, began, calls>>
    PROVE  KeyInv'
BY DEF KeyInv, ClaimAt, MemoAt, At

\* No call becomes the one that a revive waits for.
LEMMA RevivesKept ==
    ASSUME \A d \in Calls : ReviveAt(d), calls \in [Calls -> CallType],
           NEW c \in Calls, NEW r, calls' = [calls EXCEPT ![c] = r],
           r.at # "revive", UNCHANGED launch
    PROVE  \A d \in Calls : ReviveAt(d)'
<1>1. \A d \in Calls : calls'[d].at = "revive" => calls'[d] = calls[d]
  OBVIOUS
<1> QED BY <1>1 DEF ReviveAt, At

-----------------------------------------------------------------------------
(* Steps of a launch or of a stop.                                         *)

\* The row, the owner and the launch of one session change together.
LEMMA SessionStep ==
    ASSUME AdmissionIInv, NEW s \in Sessions, NEW row \in RowType, NEW o, NEW l \in LaunchType,
           rows' = [rows EXCEPT ![s] = row], owners' = [owners EXCEPT ![s] = o],
           launch' = [launch EXCEPT ![s] = l],
           UNCHANGED <<admission, tokens, memo, lapsed, binding, calls, began>>,
           startup' \subseteq Sessions, faults' \in 0..MaxFaults,
           o \in {"none", "launch", "live", "held"},
           row.client = rows[s].client, row.turns >= rows[s].turns,
           rows[s].status # "none" => row.status # "none",
           row.status # "none" /\ ~Terminal(row.status) => Live(rows, s),
           o = "launch" => owners[s] = "launch",
           launch[s].at = "turn" => l.at = "turn",
           LaunchOk(o, l, row), Adoptable(row)
    PROVE  AdmissionIInv'
<1>0. /\ StoreType /\ ServiceType /\ MemoType /\ RestType /\ calls \in [Calls -> CallType]
      /\ QuotasHold /\ RunningIsAdoptable /\ CallInv /\ LockInv /\ LaunchInv /\ KeyInv /\ TurnInv
  BY DEF AdmissionIInv, TypeOK
<1>1. StoreType'
  BY <1>0 DEF StoreType
<1>2. ServiceType'
  BY <1>0 DEF ServiceType
<1>3. MemoType'
  BY <1>0 DEF MemoType
<1>4. RestType'
  BY <1>0 DEF RestType
<1>5. \A t \in Sessions : t # s => rows'[t] = rows[t] /\ owners'[t] = owners[t]
                                    /\ launch'[t] = launch[t]
  BY <1>0 DEF StoreType, ServiceType
<1>6. rows'[s] = row /\ owners'[s] = o /\ launch'[s] = l
  BY <1>0 DEF StoreType, ServiceType
<1>7. RowsKeep
  <2>1. \A t \in Sessions : rows[t].turns \in Nat
    BY <1>0 DEF StoreType, RowType
  <2> QED BY <1>5, <1>6, <2>1 DEF RowsKeep, Exists
<1>8. NoNewLive
  BY <1>5, <1>6 DEF NoNewLive, Live, Exists
<1>9. NoNewLaunch
  BY <1>5, <1>6 DEF NoNewLaunch
<1>10. CapsKept
  BY DEF CapsKept
<1>11. QuotasHold'
  BY <1>0, <1>1, <1>8, <1>9, <1>10, QuotasKept
<1>12. RunningIsAdoptable'
  <2>1. \A t \in Sessions : Adoptable(rows'[t])
    BY <1>0, <1>5, <1>6 DEF RunningIsAdoptable
  <2> QED BY <2>1 DEF RunningIsAdoptable, Adoptable
<1>13. CallInv'
  BY <1>0, <1>1, <1>7, CallsKept
<1>14. LockInv'
  BY <1>0, <1>1, <1>8, <1>9, <1>10, LockKept
<1>15. LaunchInv'
  <2>1. \A t \in Sessions : LaunchOk(owners'[t], launch'[t], rows'[t])
    BY <1>0, <1>5, <1>6 DEF LaunchInv
  <2>2. ASSUME NEW d \in Calls PROVE ReviveAt(d)'
    <3>1. ReviveAt(d) /\ (calls[d].at = "revive" => calls[d].session \in Sessions)
      BY <1>0 DEF LaunchInv, CallInv, CallOk, Working
    <3>2. calls[d].at = "revive" => launch'[calls[d].session].at = "turn"
      BY <1>5, <1>6, <3>1 DEF ReviveAt, At
    <3> QED BY <3>1, <3>2 DEF ReviveAt, At
  <2> QED BY <2>1, <2>2 DEF LaunchInv, LaunchOk, Terminal
<1>16. KeyInv'
  BY <1>0, KeysSame
<1>17. TurnInv'
  BY <1>0 DEF TurnInv, SameTurn, Turned
<1> QED BY <1>0, <1>1, <1>2, <1>3, <1>4, <1>11, <1>12, <1>13, <1>14, <1>15, <1>16, <1>17
        DEF AdmissionIInv, TypeOK

LEMMA FaultCounted ==
    ASSUME RestType, Fault \/ Fine
    PROVE  faults' \in 0..MaxFaults
<1>1. MaxFaults \in Nat /\ faults \in 0..MaxFaults
  BY AdmissionAssumption DEF RestType
<1> QED BY <1>1 DEF Fault, Fine

\* What is known of a session, piece by piece.
LEMMA SessionFacts ==
    ASSUME AdmissionIInv, NEW s \in Sessions
    PROVE  /\ rows \in [Sessions -> RowType] /\ rows[s] \in RowType /\ rows[s].turns \in Nat
           /\ owners \in [Sessions -> {"none", "launch", "live", "held"}]
           /\ launch \in [Sessions -> LaunchType] /\ launch[s] \in LaunchType
           /\ LaunchOk(owners[s], launch[s], rows[s]) /\ Adoptable(rows[s])
           /\ RestType /\ startup \subseteq Sessions /\ faults \in 0..MaxFaults
<1>1. rows \in [Sessions -> RowType] /\ rows[s] \in RowType
  BY DEF AdmissionIInv, TypeOK, StoreType
<1>2. rows[s].turns \in Nat
  BY <1>1 DEF RowType
<1> QED BY <1>1, <1>2 DEF AdmissionIInv, TypeOK, ServiceType, RestType, LaunchInv,
                          RunningIsAdoptable

\* A launch writes its row and goes on.
LEMMA LaunchStep ==
    ASSUME AdmissionIInv, NEW s \in Sessions, launch[s].at \notin {"off", "turn"},
           Fault \/ Fine,
           UNCHANGED <<admission, tokens, memo, lapsed, startup, binding, calls, began>>,
           NEW row \in RowType, rows' = [rows EXCEPT ![s] = row],
           NEW o \in {"none", "launch", "live", "held"}, owners' = [owners EXCEPT ![s] = o],
           NEW l \in LaunchType, launch' = [launch EXCEPT ![s] = l],
           row.client = rows[s].client,
           row.turns = rows[s].turns \/ row.turns >= rows[s].turns, row.status # "none",
           o = "launch" => owners[s] = "launch",
           LaunchOk(o, l, row), Adoptable(row)
    PROVE  AdmissionIInv'
<1>0. rows[s].turns \in Nat
  BY SessionFacts
<1>1. /\ LaunchOk(owners[s], launch[s], rows[s]) /\ row.turns >= rows[s].turns
      /\ startup' \subseteq Sessions /\ faults' \in 0..MaxFaults
  BY <1>0, SessionFacts, FaultCounted
<1>2. Live(rows, s)
  BY <1>1 DEF LaunchOk, Live, Exists
<1> QED BY <1>1, <1>2, SessionStep

\* LaunchAt, as a change of the record of the launch.
LEMMA LaunchMoves ==
    ASSUME AdmissionIInv, NEW s \in Sessions, NEW next \in {"off"} \cup Starting \cup Linking,
           launch' = [launch EXCEPT ![s].at = next]
    PROVE  \E l \in LaunchType : /\ launch' = [launch EXCEPT ![s] = l]
                                 /\ l.at = next /\ l.number = launch[s].number
<1>1. launch \in [Sessions -> LaunchType] /\ launch[s] \in LaunchType
  BY SessionFacts
<1>2. PICK l \in LaunchType : l = [launch[s] EXCEPT !.at = next]
  BY <1>1 DEF LaunchType
<1>3. l.at = next /\ l.number = launch[s].number
  BY <1>1, <1>2 DEF LaunchType
<1> QED BY <1>1, <1>2, <1>3

LEMMA beginLaunchStep ==
    ASSUME AdmissionIInv, NEW s \in Sessions, beginLaunch(s)
    PROVE  AdmissionIInv'
<1>0. /\ rows \in [Sessions -> RowType] /\ rows[s] \in RowType /\ rows[s].turns \in Nat
      /\ owners \in [Sessions -> {"none", "launch", "live", "held"}]
      /\ launch[s] \in LaunchType /\ LaunchOk(owners[s], launch[s], rows[s])
      /\ launch[s].at = "begin"
  BY SessionFacts DEF beginLaunch, LaunchAt
<1>1. PICK n \in Nat : n = IF launch[s].revive THEN rows[s].turns ELSE rows[s].turns + 1
  BY <1>0
<1>2. PICK row \in RowType : row = [rows[s] EXCEPT !.turns = n, !.status = "launching"]
  BY <1>0 DEF RowType, Statuses
<1>3. UpdateSessionLaunched(IF launch[s].revive THEN rows ELSE NextTurnSeq(rows, s), s)
        = [rows EXCEPT ![s] = row]
  <2>1. CASE launch[s].revive
    <3>1. row = [rows[s] EXCEPT !.status = "launching"]
      BY <1>0, <1>1, <1>2, <2>1 DEF RowType
    <3> QED BY <1>0, <2>1, <3>1 DEF UpdateSessionLaunched
  <2>2. CASE ~launch[s].revive
    <3>1. row = [[rows[s] EXCEPT !.turns = @ + 1] EXCEPT !.status = "launching"]
      BY <1>0, <1>1, <1>2, <2>2 DEF RowType
    <3> QED BY <1>0, <2>2, <3>1 DEF UpdateSessionLaunched, NextTurnSeq
  <2> QED BY <2>1, <2>2
<1>4. /\ row.client = rows[s].client /\ row.turns >= rows[s].turns
      /\ row.status = "launching"
  <2>1. row.client = rows[s].client /\ row.turns = n /\ row.status = "launching"
    BY <1>0, <1>2 DEF RowType
  <2> QED BY <1>0, <1>1, <2>1
<1>5. owners' = [owners EXCEPT ![s] = "launch"] /\ owners[s] = "launch"
  BY <1>0 DEF beginLaunch, LaunchOk, Starting
<1>6. PICK l \in LaunchType : /\ launch' = [launch EXCEPT ![s] = l]
                               /\ l.at = "prepare" /\ l.number = launch[s].number
  <2>1. PICK next \in {"off"} \cup Starting \cup Linking :
          next = "prepare" /\ launch' = [launch EXCEPT ![s].at = next]
    BY DEF Starting, Linking, beginLaunch, LaunchAt
  <2>2. \E l \in LaunchType : /\ launch' = [launch EXCEPT ![s] = l]
                              /\ l.at = next /\ l.number = launch[s].number
    BY <2>1, LaunchMoves
  <2> QED BY <2>1, <2>2
<1>9. LaunchOk("launch", l, row)
  BY <1>6, <1>0, <1>4 DEF LaunchOk, Starting, Linking, Terminal
<1>8. Adoptable(row)
  BY <1>4 DEF Adoptable
<1>7. rows' = [rows EXCEPT ![s] = row]
  BY <1>3 DEF beginLaunch, LaunchAt
<1>10. /\ Fault \/ Fine
       /\ launch[s].at \notin {"off", "turn"}
       /\ UNCHANGED <<admission, tokens, memo, lapsed, startup, binding, calls, began>>
  BY <1>0 DEF beginLaunch, LaunchAt, Fine
<1> QED BY <1>0, <1>2, <1>4, <1>5, <1>6, <1>7, <1>8, <1>9, <1>10, LaunchStep

LEMMA PrepareStep ==
    ASSUME AdmissionIInv, NEW s \in Sessions, Prepare(s)
    PROVE  AdmissionIInv'
<1>0. /\ rows \in [Sessions -> RowType] /\ rows[s] \in RowType /\ rows[s].turns \in Nat
      /\ owners \in [Sessions -> {"none", "launch", "live", "held"}]
      /\ launch[s] \in LaunchType /\ LaunchOk(owners[s], launch[s], rows[s])
      /\ launch[s].at = "prepare" /\ launch[s].number \in Nat
  BY SessionFacts DEF Prepare, LaunchAt, LaunchType
<1>2. PICK row \in RowType :
        row = [rows[s] EXCEPT !.claim = launch[s].number, !.status = "launching"]
  BY <1>0 DEF RowType, Statuses
<1>3. UpdateSessionSandbox(rows, s, launch[s].number, "launching") = [rows EXCEPT ![s] = row]
  BY <1>0, <1>2 DEF UpdateSessionSandbox
<1>4. /\ row.client = rows[s].client /\ row.turns = rows[s].turns
      /\ row.status = "launching" /\ row.claim = launch[s].number
  BY <1>0, <1>2 DEF RowType
<1>5. owners' = [owners EXCEPT ![s] = "launch"] /\ owners[s] = "launch"
  BY <1>0 DEF Prepare, LaunchOk, Starting
<1>6. PICK l \in LaunchType : /\ launch' = [launch EXCEPT ![s] = l]
                               /\ l.at = "run" /\ l.number = launch[s].number
  <2>1. PICK next \in {"off"} \cup Starting \cup Linking :
          next = "run" /\ launch' = [launch EXCEPT ![s].at = next]
    BY DEF Starting, Linking, Prepare, LaunchAt
  <2>2. \E l \in LaunchType : /\ launch' = [launch EXCEPT ![s] = l]
                              /\ l.at = next /\ l.number = launch[s].number
    BY <2>1, LaunchMoves
  <2> QED BY <2>1, <2>2
<1>9. LaunchOk("launch", l, row)
  BY <1>6, <1>0, <1>4 DEF LaunchOk, Starting, Linking, Terminal
<1>8. Adoptable(row)
  BY <1>4 DEF Adoptable
<1>7. rows' = [rows EXCEPT ![s] = row]
  BY <1>3 DEF Prepare, LaunchAt
<1>10. /\ Fault \/ Fine
       /\ launch[s].at \notin {"off", "turn"}
       /\ UNCHANGED <<admission, tokens, memo, lapsed, startup, binding, calls, began>>
  BY <1>0 DEF Prepare, LaunchAt, Fine
<1> QED BY <1>0, <1>2, <1>4, <1>5, <1>6, <1>7, <1>8, <1>9, <1>10, LaunchStep

LEMMA CreateRunStep ==
    ASSUME AdmissionIInv, NEW s \in Sessions, CreateRun(s)
    PROVE  AdmissionIInv'
<1>0. /\ rows \in [Sessions -> RowType] /\ rows[s] \in RowType /\ rows[s].turns \in Nat
      /\ owners \in [Sessions -> {"none", "launch", "live", "held"}]
      /\ launch[s] \in LaunchType /\ LaunchOk(owners[s], launch[s], rows[s])
      /\ launch[s].at = "run" /\ launch[s].number \in Nat
  BY SessionFacts DEF CreateRun, LaunchAt, LaunchType
<1>2. PICK row \in RowType :
        row = [rows[s] EXCEPT !.run = launch[s].number, !.status = "awaiting_approval"]
  BY <1>0 DEF RowType, Statuses
<1>3. UpdateSessionRun(rows, s, launch[s].number) = [rows EXCEPT ![s] = row]
  BY <1>0, <1>2 DEF UpdateSessionRun
<1>4. /\ row.client = rows[s].client /\ row.turns = rows[s].turns
      /\ row.status = "awaiting_approval" /\ row.run = launch[s].number
      /\ row.claim = rows[s].claim
  BY <1>0, <1>2 DEF RowType
<1>5. owners' = [owners EXCEPT ![s] = "launch"] /\ owners[s] = "launch"
  BY <1>0 DEF CreateRun, LaunchOk, Starting
<1>6. PICK l \in LaunchType : /\ launch' = [launch EXCEPT ![s] = l]
                               /\ l.at = "await" /\ l.number = launch[s].number
  <2>1. PICK next \in {"off"} \cup Starting \cup Linking :
          next = "await" /\ launch' = [launch EXCEPT ![s].at = next]
    BY DEF Starting, Linking, CreateRun, LaunchAt
  <2>2. \E l \in LaunchType : /\ launch' = [launch EXCEPT ![s] = l]
                              /\ l.at = next /\ l.number = launch[s].number
    BY <2>1, LaunchMoves
  <2> QED BY <2>1, <2>2
<1>9. LaunchOk("launch", l, row)
  BY <1>6, <1>0, <1>4 DEF LaunchOk, Starting, Linking, Terminal
<1>8. Adoptable(row)
  BY <1>4 DEF Adoptable
<1>7. rows' = [rows EXCEPT ![s] = row]
  BY <1>3 DEF CreateRun, LaunchAt
<1>10. /\ Fault \/ Fine
       /\ launch[s].at \notin {"off", "turn"}
       /\ UNCHANGED <<admission, tokens, memo, lapsed, startup, binding, calls, began>>
  BY <1>0 DEF CreateRun, LaunchAt, Fine
<1> QED BY <1>0, <1>2, <1>4, <1>5, <1>6, <1>7, <1>8, <1>9, <1>10, LaunchStep

LEMMA ActivateStep ==
    ASSUME AdmissionIInv, NEW s \in Sessions, Activate(s)
    PROVE  AdmissionIInv'
<1>0. /\ rows \in [Sessions -> RowType] /\ rows[s] \in RowType /\ rows[s].turns \in Nat
      /\ launch[s] \in LaunchType /\ LaunchOk(owners[s], launch[s], rows[s])
      /\ launch[s].at = "await" /\ Adoptable(rows[s])
  BY SessionFacts DEF Activate, LaunchAt
<1>3. rows = [rows EXCEPT ![s] = rows[s]]
  BY <1>0
<1>4. rows[s].status # "none"
  BY <1>0 DEF LaunchOk
<1>5. owners' = [owners EXCEPT ![s] = "live"]
  BY DEF Activate
<1>6. PICK l \in LaunchType : /\ launch' = [launch EXCEPT ![s] = l]
                               /\ l.at = "link" /\ l.number = launch[s].number
  <2>1. PICK next \in {"off"} \cup Starting \cup Linking :
          next = "link" /\ launch' = [launch EXCEPT ![s].at = next]
    BY DEF Starting, Linking, Activate, LaunchAt
  <2>2. \E l \in LaunchType : /\ launch' = [launch EXCEPT ![s] = l]
                              /\ l.at = next /\ l.number = launch[s].number
    BY <2>1, LaunchMoves
  <2> QED BY <2>1, <2>2
<1>9. LaunchOk("live", l, rows[s])
  BY <1>6, <1>0 DEF LaunchOk, Starting, Linking, Terminal
<1>7. rows' = [rows EXCEPT ![s] = rows[s]]
  BY <1>0, <1>3 DEF Activate, LaunchAt
<1>10. /\ Fault \/ Fine
       /\ launch[s].at \notin {"off", "turn"}
       /\ UNCHANGED <<admission, tokens, memo, lapsed, startup, binding, calls, began>>
  BY <1>0 DEF Activate, LaunchAt, Fine
<1> QED BY <1>0, <1>4, <1>5, <1>6, <1>7, <1>9, <1>10, LaunchStep

LEMMA LinkStep ==
    ASSUME AdmissionIInv, NEW s \in Sessions, Link(s)
    PROVE  AdmissionIInv'
<1>0. /\ rows \in [Sessions -> RowType] /\ rows[s] \in RowType /\ rows[s].turns \in Nat
      /\ owners \in [Sessions -> {"none", "launch", "live", "held"}]
      /\ launch[s] \in LaunchType /\ LaunchOk(owners[s], launch[s], rows[s])
      /\ launch[s].at = "link" /\ launch[s].number \in Nat
  BY SessionFacts DEF Link, LaunchAt, LaunchType
<1> DEFINE table == UpdateSessionLink(UpdateSessionSandbox(rows, s, launch[s].number,
                                                           "awaiting_approval"),
                                      s, launch[s].number)
<1>2. PICK row \in RowType :
        row = [rows[s] EXCEPT !.claim = launch[s].number, !.status = "awaiting_approval",
                              !.stream = launch[s].number]
  BY <1>0 DEF RowType, Statuses
<1>3. table = [rows EXCEPT ![s] = row]
  BY <1>0, <1>2 DEF UpdateSessionSandbox, UpdateSessionLink
<1>4. /\ row.client = rows[s].client /\ row.turns = rows[s].turns
      /\ row.status = "awaiting_approval" /\ row.stream = launch[s].number
      /\ row.claim = launch[s].number /\ row.run = rows[s].run
  BY <1>0, <1>2 DEF RowType
<1>5. owners' = [owners EXCEPT ![s] = owners[s]] /\ owners[s] \in {"live", "held"}
  BY <1>0 DEF Link, LaunchOk, Linking
<1>6. PICK l \in LaunchType : /\ launch' = [launch EXCEPT ![s] = l]
                               /\ l.at = "acp" /\ l.number = launch[s].number
  <2>1. PICK next \in {"off"} \cup Starting \cup Linking :
          next = "acp" /\ launch' = [launch EXCEPT ![s].at = next]
    BY DEF Starting, Linking, Link, LaunchAt
  <2>2. \E l \in LaunchType : /\ launch' = [launch EXCEPT ![s] = l]
                              /\ l.at = next /\ l.number = launch[s].number
    BY <2>1, LaunchMoves
  <2> QED BY <2>1, <2>2
<1>9. LaunchOk(owners[s], l, row)
  BY <1>6, <1>0, <1>4, <1>5 DEF LaunchOk, Starting, Linking, Terminal
<1>8. Adoptable(row)
  BY <1>4 DEF Adoptable
<1>7. rows' = [rows EXCEPT ![s] = row]
  BY <1>3 DEF Link, LaunchAt
<1>10. /\ Fault \/ Fine
       /\ launch[s].at \notin {"off", "turn"}
       /\ UNCHANGED <<admission, tokens, memo, lapsed, startup, binding, calls, began>>
  BY <1>0 DEF Link, LaunchAt, Fine
<1> QED BY <1>0, <1>2, <1>4, <1>5, <1>6, <1>7, <1>8, <1>9, <1>10, LaunchStep

LEMMA RunsStep ==
    ASSUME AdmissionIInv, NEW s \in Sessions, Runs(s)
    PROVE  AdmissionIInv'
<1>0. /\ rows \in [Sessions -> RowType] /\ rows[s] \in RowType /\ rows[s].turns \in Nat
      /\ owners \in [Sessions -> {"none", "launch", "live", "held"}]
      /\ launch[s] \in LaunchType /\ LaunchOk(owners[s], launch[s], rows[s])
      /\ launch[s].at = "acp" /\ launch[s].number \in Nat
  BY SessionFacts DEF Runs, LaunchAt, LaunchType
<1>2. PICK row \in RowType : row = [rows[s] EXCEPT !.acp = launch[s].number, !.status = "running"]
  BY <1>0 DEF RowType, Statuses
<1>3. UpdateSessionACP(rows, s, launch[s].number) = [rows EXCEPT ![s] = row]
  BY <1>0, <1>2 DEF UpdateSessionACP
<1>4. /\ row.client = rows[s].client /\ row.turns = rows[s].turns
      /\ row.status = "running" /\ row.stream = rows[s].stream
      /\ row.claim = rows[s].claim /\ row.run = rows[s].run
  BY <1>0, <1>2 DEF RowType
<1>5. owners' = [owners EXCEPT ![s] = owners[s]] /\ owners[s] \in {"live", "held"}
  BY <1>0 DEF Runs, LaunchOk, Linking
<1>6. PICK l \in LaunchType : /\ launch' = [launch EXCEPT ![s] = l]
                               /\ l.at = "approver" /\ l.number = launch[s].number
  <2>1. PICK next \in {"off"} \cup Starting \cup Linking :
          next = "approver" /\ launch' = [launch EXCEPT ![s].at = next]
    BY DEF Starting, Linking, Runs, LaunchAt
  <2>2. \E l \in LaunchType : /\ launch' = [launch EXCEPT ![s] = l]
                              /\ l.at = next /\ l.number = launch[s].number
    BY <2>1, LaunchMoves
  <2> QED BY <2>1, <2>2
<1>9. LaunchOk(owners[s], l, row)
  BY <1>6, <1>0, <1>4, <1>5 DEF LaunchOk, Starting, Linking, Terminal
<1>8. Adoptable(row)
  BY <1>0, <1>4 DEF Adoptable, LaunchOk
<1>7. rows' = [rows EXCEPT ![s] = row]
  BY <1>3 DEF Runs, LaunchAt
<1>10. /\ Fault \/ Fine
       /\ launch[s].at \notin {"off", "turn"}
       /\ UNCHANGED <<admission, tokens, memo, lapsed, startup, binding, calls, began>>
  BY <1>0 DEF Runs, LaunchAt, Fine
<1> QED BY <1>0, <1>2, <1>4, <1>5, <1>6, <1>7, <1>8, <1>9, <1>10, LaunchStep

LEMMA recordApproverStep ==
    ASSUME AdmissionIInv, NEW s \in Sessions, recordApproverFromRun(s)
    PROVE  AdmissionIInv'
<1>1. PICK table \in {rows, UpdateSessionApprover(rows, s, launch[s].number)} :
        LaunchAt(s, "approver", "off", table)
  BY DEF recordApproverFromRun
<1>0. /\ rows \in [Sessions -> RowType] /\ rows[s] \in RowType /\ rows[s].turns \in Nat
      /\ owners \in [Sessions -> {"none", "launch", "live", "held"}]
      /\ launch[s] \in LaunchType /\ LaunchOk(owners[s], launch[s], rows[s])
      /\ launch[s].at = "approver" /\ launch[s].number \in Nat /\ Adoptable(rows[s])
  BY <1>1, SessionFacts DEF LaunchAt, LaunchType
<1>2. PICK row \in RowType :
        /\ table = [rows EXCEPT ![s] = row]
        /\ row \in {rows[s], [rows[s] EXCEPT !.approver = launch[s].number]}
  <2>1. rows = [rows EXCEPT ![s] = rows[s]]
    BY <1>0
  <2>2. [rows[s] EXCEPT !.approver = launch[s].number] \in RowType
    BY <1>0 DEF RowType
  <2> QED BY <1>0, <1>1, <2>1, <2>2 DEF UpdateSessionApprover
<1>4. /\ row.client = rows[s].client /\ row.turns = rows[s].turns
      /\ row.status = rows[s].status /\ row.stream = rows[s].stream
      /\ row.claim = rows[s].claim /\ row.run = rows[s].run
  BY <1>0, <1>2 DEF RowType
<1>5. /\ owners' = [owners EXCEPT ![s] = owners[s]] /\ owners[s] \in {"live", "held"}
      /\ row.status # "none"
  BY <1>0, <1>4 DEF recordApproverFromRun, LaunchOk, Linking
<1>6. PICK l \in LaunchType : /\ launch' = [launch EXCEPT ![s] = l]
                               /\ l.at = "off" /\ l.number = launch[s].number
  <2>1. PICK next \in {"off"} \cup Starting \cup Linking :
          next = "off" /\ launch' = [launch EXCEPT ![s].at = next]
    BY <1>1 DEF Starting, Linking, LaunchAt
  <2>2. \E l \in LaunchType : /\ launch' = [launch EXCEPT ![s] = l]
                              /\ l.at = next /\ l.number = launch[s].number
    BY <2>1, LaunchMoves
  <2> QED BY <2>1, <2>2
<1>9. LaunchOk(owners[s], l, row)
  BY <1>6, <1>0, <1>4, <1>5 DEF LaunchOk, Starting, Linking, Terminal
<1>8. Adoptable(row)
  BY <1>0, <1>4 DEF Adoptable
<1>7. rows' = [rows EXCEPT ![s] = row]
  BY <1>1, <1>2 DEF recordApproverFromRun, LaunchAt
<1>10. /\ Fault \/ Fine
       /\ launch[s].at \notin {"off", "turn"}
       /\ UNCHANGED <<admission, tokens, memo, lapsed, startup, binding, calls, began>>
  BY <1>0, <1>1 DEF recordApproverFromRun, LaunchAt, Fine
<1> QED BY <1>0, <1>2, <1>4, <1>5, <1>6, <1>7, <1>8, <1>9, <1>10, LaunchStep

LEMMA LinkFailsStep ==
    ASSUME AdmissionIInv, NEW s \in Sessions, LinkFails(s)
    PROVE  AdmissionIInv'
<1>1. PICK at \in {"link", "acp"} : LaunchAt(s, at, "off", rows)
  BY DEF LinkFails
<1>0. /\ rows \in [Sessions -> RowType] /\ rows[s] \in RowType /\ rows[s].turns \in Nat
      /\ launch[s] \in LaunchType /\ LaunchOk(owners[s], launch[s], rows[s])
      /\ launch[s].at = at /\ Adoptable(rows[s])
  BY <1>1, SessionFacts DEF LaunchAt
<1>3. rows = [rows EXCEPT ![s] = rows[s]]
  BY <1>0
<1>4. rows[s].status # "none"
  BY <1>0 DEF LaunchOk
<1>5. owners' = [owners EXCEPT ![s] = "held"]
  BY DEF LinkFails
<1>6. PICK l \in LaunchType : /\ launch' = [launch EXCEPT ![s] = l]
                               /\ l.at = "off" /\ l.number = launch[s].number
  <2>1. PICK next \in {"off"} \cup Starting \cup Linking :
          next = "off" /\ launch' = [launch EXCEPT ![s].at = next]
    BY <1>1 DEF Starting, Linking, LaunchAt
  <2>2. \E l \in LaunchType : /\ launch' = [launch EXCEPT ![s] = l]
                              /\ l.at = next /\ l.number = launch[s].number
    BY <2>1, LaunchMoves
  <2> QED BY <2>1, <2>2
<1>9. LaunchOk("held", l, rows[s])
  BY <1>6, <1>0 DEF LaunchOk, Starting, Linking, Terminal
<1>7. rows' = [rows EXCEPT ![s] = rows[s]]
  BY <1>0, <1>1, <1>3 DEF LinkFails, LaunchAt
<1>10. /\ Fault \/ Fine
       /\ launch[s].at \notin {"off", "turn"}
       /\ UNCHANGED <<admission, tokens, memo, lapsed, startup, binding, calls, began>>
  BY <1>0, <1>1 DEF LinkFails, LaunchAt, Fine
<1> QED BY <1>0, <1>4, <1>5, <1>6, <1>7, <1>9, <1>10, LaunchStep

\* The end of a session, as a change of its row.
LEMMA FinishIsWrite ==
    ASSUME rows \in [Sessions -> RowType], NEW s \in Sessions,
           NEW st \in {"ended", "interrupted"}
    PROVE  \E row \in RowType :
             /\ FinishSession(rows, s, st) = [rows EXCEPT ![s] = row]
             /\ row.client = rows[s].client /\ row.turns = rows[s].turns
             /\ row.status = IF Live(rows, s) THEN st ELSE rows[s].status
<1>0. rows[s] \in RowType /\ rows = [rows EXCEPT ![s] = rows[s]]
  OBVIOUS
<1>1. CASE Live(rows, s)
  <2>1. PICK row \in RowType : row = [rows[s] EXCEPT !.status = st]
    BY <1>0 DEF RowType, Statuses
  <2> QED BY <1>0, <1>1, <2>1 DEF FinishSession, RowType
<1>2. CASE ~Live(rows, s)
  BY <1>0, <1>2 DEF FinishSession
<1> QED BY <1>1, <1>2

LEMMA SuspendIsWrite ==
    ASSUME rows \in [Sessions -> RowType], NEW s \in Sessions
    PROVE  \E row \in RowType :
             /\ UpdateSessionSuspended(rows, s) = [rows EXCEPT ![s] = row]
             /\ row.client = rows[s].client /\ row.turns = rows[s].turns
             /\ row.status = "suspended"
<1>0. rows[s] \in RowType
  OBVIOUS
<1>1. PICK row \in RowType : row = [rows[s] EXCEPT !.status = "suspended"]
  BY <1>0 DEF RowType, Statuses
<1> QED BY <1>0, <1>1 DEF UpdateSessionSuspended, RowType

LEMMA LaunchFailsStep ==
    ASSUME AdmissionIInv, NEW s \in Sessions, LaunchFails(s)
    PROVE  AdmissionIInv'
<1>1. PICK at \in {"begin", "prepare", "run", "await"},
           table \in {FinishSession(rows, s, "ended"), UpdateSessionSuspended(rows, s), rows} :
        LaunchAt(s, at, "off", table) /\ (Fault \/ Fine)
  BY DEF LaunchFails
<1>0. /\ rows \in [Sessions -> RowType] /\ rows[s] \in RowType /\ rows[s].turns \in Nat
      /\ launch[s] \in LaunchType /\ LaunchOk(owners[s], launch[s], rows[s])
      /\ launch[s].at = at /\ Adoptable(rows[s]) /\ rows[s].status # "none"
  BY <1>1, SessionFacts DEF LaunchAt, LaunchOk
<1>2. PICK row \in RowType :
        /\ table = [rows EXCEPT ![s] = row]
        /\ row.client = rows[s].client /\ row.turns = rows[s].turns
        /\ row = rows[s] \/ row.status \in {"ended", "suspended"}
  <2>1. CASE table = rows
    BY <1>0, <2>1
  <2>2. CASE table = UpdateSessionSuspended(rows, s)
    BY <1>0, <2>2, SuspendIsWrite
  <2>3. CASE table = FinishSession(rows, s, "ended")
    <3>1. Live(rows, s)
      BY <1>0, <1>1 DEF LaunchOk, Live, Exists
    <3> QED BY <1>0, <2>3, <3>1, FinishIsWrite
  <2> QED BY <1>1, <2>1, <2>2, <2>3
<1>4. row.status # "none" /\ Adoptable(row)
  BY <1>0, <1>2 DEF Adoptable
<1>5. owners' = [owners EXCEPT ![s] = "none"]
  BY DEF LaunchFails
<1>6. PICK l \in LaunchType : /\ launch' = [launch EXCEPT ![s] = l]
                               /\ l.at = "off" /\ l.number = launch[s].number
  <2>1. PICK next \in {"off"} \cup Starting \cup Linking :
          next = "off" /\ launch' = [launch EXCEPT ![s].at = next]
    BY <1>1 DEF Starting, Linking, LaunchAt
  <2>2. \E l \in LaunchType : /\ launch' = [launch EXCEPT ![s] = l]
                              /\ l.at = next /\ l.number = launch[s].number
    BY <2>1, LaunchMoves
  <2> QED BY <2>1, <2>2
<1>9. LaunchOk("none", l, row)
  BY <1>6, <1>0 DEF LaunchOk, Starting, Linking, Terminal
<1>7. rows' = [rows EXCEPT ![s] = row]
  BY <1>1, <1>2 DEF LaunchFails, LaunchAt
<1>10. /\ Fault \/ Fine
       /\ launch[s].at \notin {"off", "turn"}
       /\ UNCHANGED <<admission, tokens, memo, lapsed, startup, binding, calls, began>>
  BY <1>0, <1>1 DEF LaunchFails, LaunchAt, Fine
<1> QED BY <1>0, <1>2, <1>4, <1>5, <1>6, <1>7, <1>9, <1>10, LaunchStep

\* A stop or the startup changes the owner, or the row of a session whose launch
\* is over.
LEMMA StopStep ==
    ASSUME AdmissionIInv, NEW s \in Sessions, Fault \/ Fine,
           UNCHANGED <<launch, admission, tokens, memo, lapsed, binding, calls, began>>,
           startup' \subseteq startup,
           NEW row \in RowType, rows' = [rows EXCEPT ![s] = row],
           NEW o \in {"none", "live", "held"}, owners' = [owners EXCEPT ![s] = o],
           owners[s] # "launch",
           \/ row = rows[s] /\ (o = "none" => launch[s].at = "off")
           \/ /\ launch[s].at = "off" /\ row.client = rows[s].client
              /\ row.turns = rows[s].turns
              /\ row.status = rows[s].status \/ (row.status # "none" /\ Live(rows, s)),
           row = rows[s] \/ row.status # "running"
    PROVE  AdmissionIInv'
<1>1. /\ rows[s] \in RowType /\ rows[s].turns \in Nat
      /\ launch \in [Sessions -> LaunchType] /\ launch[s] \in LaunchType
      /\ LaunchOk(owners[s], launch[s], rows[s]) /\ Adoptable(rows[s])
      /\ startup' \subseteq Sessions /\ faults' \in 0..MaxFaults
  BY SessionFacts, FaultCounted
<1>2. launch' = [launch EXCEPT ![s] = launch[s]]
  BY <1>1
<1>3. /\ row.client = rows[s].client /\ row.turns >= rows[s].turns
      /\ rows[s].status # "none" => row.status # "none"
  BY <1>1
<1>4. row.status # "none" /\ ~Terminal(row.status) => Live(rows, s)
  BY DEF Live, Exists
<1>5. LaunchOk(o, launch[s], row)
  <2>1. launch[s].at \notin Starting
    BY <1>1 DEF LaunchOk
  <2>2. CASE launch[s].at = "off"
    BY <2>2 DEF LaunchOk, Starting, Linking
  <2>3. CASE launch[s].at # "off"
    BY <1>1, <2>1, <2>3 DEF LaunchOk, Starting, Linking
  <2> QED BY <2>2, <2>3
<1>6. Adoptable(row)
  BY <1>1 DEF Adoptable
<1>7. PICK l \in LaunchType : l = launch[s]
  BY <1>1
<1> QED BY <1>1, <1>2, <1>3, <1>4, <1>5, <1>6, <1>7, SessionStep

LEMMA detachStep ==
    ASSUME AdmissionIInv, NEW s \in Sessions, detach(s)
    PROVE  AdmissionIInv'
<1>1. rows \in [Sessions -> RowType] /\ rows[s] \in RowType
  BY SessionFacts
<1>2. rows' = [rows EXCEPT ![s] = rows[s]] /\ (Fault \/ Fine)
  BY <1>1 DEF detach, Fine
<1>3. PICK row \in RowType : row = rows[s]
  BY <1>1
<1>4. /\ owners' = [owners EXCEPT ![s] = "held"] /\ owners[s] # "launch"
      /\ UNCHANGED <<launch, admission, tokens, memo, lapsed, binding, calls, began>>
      /\ startup' \subseteq startup
  BY DEF detach
<1> QED BY <1>2, <1>3, <1>4, StopStep

LEMMA StopEndsStep ==
    ASSUME AdmissionIInv, NEW s \in Sessions, StopEnds(s)
    PROVE  AdmissionIInv'
<1>1. rows \in [Sessions -> RowType] /\ rows[s] \in RowType
  BY SessionFacts
<1>2. /\ owners' = [owners EXCEPT ![s] = "none"] /\ owners[s] # "launch"
      /\ UNCHANGED <<launch, admission, tokens, memo, lapsed, binding, calls, began>>
      /\ startup' \subseteq startup /\ launch[s].at = "off" /\ (Fault \/ Fine)
  BY DEF StopEnds
<1>3. PICK row \in RowType :
        /\ rows' = [rows EXCEPT ![s] = row]
        /\ row.client = rows[s].client /\ row.turns = rows[s].turns
        /\ row.status = rows[s].status \/ (row.status # "none" /\ Live(rows, s))
        /\ row = rows[s] \/ row.status # "running"
  <2>1. CASE rows' = FinishSession(rows, s, "ended")
    <3>1. PICK row \in RowType :
            /\ FinishSession(rows, s, "ended") = [rows EXCEPT ![s] = row]
            /\ row.client = rows[s].client /\ row.turns = rows[s].turns
            /\ row.status = IF Live(rows, s) THEN "ended" ELSE rows[s].status
      BY <1>1, FinishIsWrite
    <3>2. ~Live(rows, s) => rows[s].status # "running"
      BY DEF Live, Exists, Terminal
    <3> QED BY <2>1, <3>1, <3>2
  <2>2. CASE /\ rows[s].status = "running" \/ (launch[s].revive /\ rows[s].status \in Pending)
             /\ rows' = UpdateSessionSuspended(rows, s)
    <3>1. Live(rows, s)
      BY <2>2 DEF Live, Exists, Terminal, Pending
    <3> QED BY <1>1, <2>2, <3>1, SuspendIsWrite
  <2>3. CASE rows' = rows
    BY <1>1, <2>3
  <2> QED BY <2>1, <2>2, <2>3 DEF StopEnds
<1> QED BY <1>2, <1>3, StopStep

LEMMA reconcileStep ==
    ASSUME AdmissionIInv, NEW s \in Sessions, reconcile(s)
    PROVE  AdmissionIInv'
<1>1. /\ rows \in [Sessions -> RowType] /\ rows[s] \in RowType
      /\ owners \in [Sessions -> {"none", "launch", "live", "held"}]
      /\ launch \in [Sessions -> LaunchType] /\ launch[s] \in LaunchType
      /\ LaunchOk(owners[s], launch[s], rows[s]) /\ Adoptable(rows[s]) /\ RestType
      /\ startup \subseteq Sessions /\ rows[s].turns \in Nat
  BY SessionFacts
<1>2. /\ UNCHANGED <<launch, admission, tokens, memo, lapsed, binding, calls, began>>
      /\ startup' \subseteq startup /\ (Fault \/ Fine)
  BY DEF reconcile, Fine
<1>3. CASE rows' = rows /\ owners' = owners
  <2>1. rows' = [rows EXCEPT ![s] = rows[s]] /\ owners' = [owners EXCEPT ![s] = owners[s]]
        /\ launch' = [launch EXCEPT ![s] = launch[s]]
    BY <1>1, <1>2, <1>3
  <2>2. PICK row \in RowType, l \in LaunchType : row = rows[s] /\ l = launch[s]
    BY <1>1
  <2>3. startup' \subseteq Sessions /\ faults' \in 0..MaxFaults /\ row.turns >= rows[s].turns
    BY <1>1, <1>2, <2>2, FaultCounted
  <2>4. row.status # "none" /\ ~Terminal(row.status) => Live(rows, s)
    BY <2>2 DEF Live, Exists
  <2>5. owners[s] \in {"none", "launch", "live", "held"}
    BY <1>1
  <2> QED BY <1>1, <1>2, <2>1, <2>2, <2>3, <2>4, <2>5, SessionStep
<1>4. CASE ~(owners[s] # "none" \/ rows[s].status = "suspended")
  <2>1. launch[s].at = "off"
    BY <1>1, <1>4 DEF LaunchOk, LaunchType, Starting, Linking
  <2>2. CASE owners' = [owners EXCEPT ![s] = "live"] /\ rows' = rows
    <3>1. rows' = [rows EXCEPT ![s] = rows[s]]
      BY <1>1, <2>2
    <3>2. PICK row \in RowType : row = rows[s]
      BY <1>1
    <3> QED BY <1>2, <1>4, <2>1, <2>2, <3>1, <3>2, StopStep
  <2>3. CASE rows' = FinishSession(rows, s, "interrupted") /\ owners' = owners
    <3>1. PICK row \in RowType :
            /\ FinishSession(rows, s, "interrupted") = [rows EXCEPT ![s] = row]
            /\ row.client = rows[s].client /\ row.turns = rows[s].turns
            /\ row.status = IF Live(rows, s) THEN "interrupted" ELSE rows[s].status
      BY <1>1, FinishIsWrite
    <3>2. ~Live(rows, s) => rows[s].status # "running"
      BY DEF Live, Exists, Terminal
    <3>3. owners' = [owners EXCEPT ![s] = "none"]
      BY <1>1, <1>4, <2>3
    <3> QED BY <1>2, <1>4, <2>1, <2>3, <3>1, <3>2, <3>3, StopStep
  <2> QED BY <1>3, <1>4, <2>2, <2>3 DEF reconcile
<1> QED BY <1>3, <1>4 DEF reconcile

-----------------------------------------------------------------------------
(* The bindings and the rate.                                              *)

LEMMA BindingStep ==
    ASSUME AdmissionIInv, RestType', CapsKept,
           UNCHANGED <<rows, owners, launch, admission, memo, lapsed, calls, began>>
    PROVE  AdmissionIInv'
<1>0. /\ StoreType /\ ServiceType /\ MemoType /\ RestType /\ calls \in [Calls -> CallType]
      /\ QuotasHold /\ RunningIsAdoptable /\ CallInv /\ LockInv /\ LaunchInv /\ KeyInv /\ TurnInv
  BY DEF AdmissionIInv, TypeOK
<1>1. StoreType' /\ ServiceType' /\ MemoType'
  BY <1>0 DEF StoreType, ServiceType, MemoType
<1>2. RowsKeep /\ NoNewLive /\ NoNewLaunch
  <2>1. \A s \in Sessions : rows[s].turns \in Nat
    BY <1>0 DEF StoreType, RowType
  <2> QED BY <2>1 DEF RowsKeep, NoNewLive, NoNewLaunch
<1>3. QuotasHold'
  BY <1>0, <1>1, <1>2, QuotasKept
<1>4. LockInv'
  BY <1>0, <1>1, <1>2, LockKept
<1>5. CallInv'
  BY <1>0, <1>1, <1>2, CallsKept
<1>6. KeyInv'
  BY <1>0, KeysSame
<1>7. RunningIsAdoptable' /\ LaunchInv' /\ TurnInv'
  BY <1>0 DEF RunningIsAdoptable, Adoptable, LaunchInv, LaunchOk, ReviveAt, At, Terminal,
              TurnInv, SameTurn, Turned
<1> QED BY <1>0, <1>1, <1>3, <1>4, <1>5, <1>6, <1>7 DEF AdmissionIInv, TypeOK

LEMMA RebindStep ==
    ASSUME AdmissionIInv, NEW cl \in Clients, Rebind(cl)
    PROVE  AdmissionIInv'
<1>0. RestType /\ binding \in [Clients -> BindingType]
  BY DEF AdmissionIInv, TypeOK, RestType
<1>1. PICK b \in {"nothing", "others"} : binding' = [binding EXCEPT ![cl].to = b]
  BY AdmissionAssumption DEF Rebind
<1>2. PICK q \in BindingType : q = [binding[cl] EXCEPT !.to = b]
  BY <1>0, <1>1 DEF BindingType
<1>3. binding' = [binding EXCEPT ![cl] = q]
  BY <1>0, <1>1, <1>2
<1>4. q.live = binding[cl].live /\ q.pending = binding[cl].pending
  BY <1>0, <1>2 DEF BindingType
<1>5. binding' \in [Clients -> BindingType] /\ CapsKept
  BY <1>0, <1>3, <1>4 DEF CapsKept
<1>6. RestType'
  BY <1>0, <1>5 DEF RestType, Rebind, service
<1>7. UNCHANGED <<rows, owners, launch, admission, memo, lapsed, calls, began>>
  BY DEF Rebind, service
<1> QED BY <1>5, <1>6, <1>7, BindingStep

LEMMA RefillStep ==
    ASSUME AdmissionIInv, NEW cl \in Clients, Refill(cl)
    PROVE  AdmissionIInv'
<1>0. RestType /\ tokens \in [Clients -> 0..Rate] /\ Rate \in Nat
  BY AdmissionAssumption DEF AdmissionIInv, TypeOK, RestType
<1>1. tokens' \in [Clients -> 0..Rate]
  BY <1>0 DEF Refill
<1>2. RestType'
  BY <1>0, <1>1 DEF RestType, Refill
<1>3. UNCHANGED <<rows, owners, launch, admission, memo, lapsed, calls, began>> /\ CapsKept
  BY DEF Refill, CapsKept
<1> QED BY <1>2, <1>3, BindingStep

-----------------------------------------------------------------------------
(* Steps of a call.                                                        *)

\* The call that was at calls[c] and is at r has the key that it had.
KeyGoesOn(c, r) ==
    /\ calls[c].at \notin {"ok", "refused"}
    /\ r.at \in Working /\ r.key # NoKey =>
           calls[c].at \in Working /\ r.session = calls[c].session /\ r.key = calls[c].key
    /\ calls[c].at \in Working /\ calls[c].key # NoKey =>
           /\ r.at \in Working \cup {"ok"}
           /\ r.session = calls[c].session /\ r.key = calls[c].key
           /\ calls[c].at = "started" => r.at \in {"started", "ok"} /\ r.turn = calls[c].turn

\* It has no turn, the one that it had, or that of the call that it repeats.
TurnGoesOn(c, r) ==
    \/ ~Turned(r)
    \/ /\ Turned(calls[c])
       /\ r.session = calls[c].session /\ r.turn = calls[c].turn /\ r.key = calls[c].key
    \/ \E e \in Calls : calls[e] = r /\ e # c /\ r.key # NoKey

\* A call goes on: the parts of the invariant that are not about keys.
LEMMA CallBesideKeys ==
    ASSUME AdmissionIInv, NEW c \in Calls, NEW r \in CallType,
           calls' = [calls EXCEPT ![c] = r],
           UNCHANGED <<rows, owners, launch, binding>>,
           MemoType', KeyInv', RestType', LockInv', CallOk(r), TurnGoesOn(c, r),
           calls[c].at \notin {"ok", "refused"}, r.at # "revive",
           calls[c].at \in Working /\ calls[c].key # NoKey =>
               r.at \in Working \cup {"ok", "refused"} /\ r.key # NoKey,
           r.at = "wait" =>
               /\ r.claim \in Calls /\ r.claim # c /\ calls[r.claim].key # NoKey
               /\ calls[r.claim].at \in Working \cup {"ok", "refused"}
    PROVE  AdmissionIInv'
<1>0. /\ StoreType /\ ServiceType /\ RestType /\ calls \in [Calls -> CallType]
      /\ QuotasHold /\ RunningIsAdoptable /\ CallInv /\ LaunchInv /\ TurnInv
  BY DEF AdmissionIInv, TypeOK
<1>1. StoreType' /\ ServiceType' /\ calls' \in [Calls -> CallType]
  BY <1>0 DEF StoreType, ServiceType
<1>2. RowsKeep /\ NoNewLive /\ NoNewLaunch /\ CapsKept
  <2>1. \A s \in Sessions : rows[s].turns \in Nat
    BY <1>0 DEF StoreType, RowType
  <2> QED BY <2>1 DEF RowsKeep, NoNewLive, NoNewLaunch, CapsKept
<1>3. QuotasHold'
  BY <1>0, <1>1, <1>2, QuotasKept
<1>4. CallOk(r)'
  BY DEF CallOk, Exists
<1>5. CallInv'
  BY <1>0, <1>1, <1>2, <1>4, CallMoves
<1>6. TurnInv'
  BY <1>0, TurnsApart DEF TurnGoesOn
<1>7. LaunchInv'
  <2>1. \A d \in Calls : ReviveAt(d)'
    BY <1>0, RevivesKept DEF LaunchInv
  <2>2. \A s \in Sessions : LaunchOk(owners[s], launch[s], rows[s])'
    BY <1>0 DEF LaunchInv, LaunchOk, Terminal
  <2> QED BY <2>1, <2>2 DEF LaunchInv
<1>8. RunningIsAdoptable'
  BY <1>0 DEF RunningIsAdoptable, Adoptable
<1> QED BY <1>1, <1>3, <1>5, <1>6, <1>7, <1>8 DEF AdmissionIInv, TypeOK

\* A call looks at what others do and goes on, with its key.
LEMMA CallOnly ==
    ASSUME AdmissionIInv, NEW c \in Calls, NEW r \in CallType,
           calls' = [calls EXCEPT ![c] = r],
           UNCHANGED <<rows, owners, launch, memo, lapsed, began, binding>>,
           RestType', LockInv', CallOk(r), KeyGoesOn(c, r), TurnGoesOn(c, r),
           r.at # "revive",
           r.at = "wait" =>
               /\ r.claim \in Calls /\ r.claim # c /\ calls[r.claim].key # NoKey
               /\ calls[r.claim].at \in Working \cup {"ok", "refused"}
    PROVE  AdmissionIInv'
<1>0. MemoType /\ calls \in [Calls -> CallType] /\ KeyInv
  BY DEF AdmissionIInv, TypeOK
<1>1. MemoType'
  BY <1>0 DEF MemoType
<1>2. KeyInv'
  BY <1>0, KeysKept DEF KeyGoesOn
<1>3. /\ calls[c].at \notin {"ok", "refused"}
      /\ calls[c].at \in Working /\ calls[c].key # NoKey =>
             r.at \in Working \cup {"ok", "refused"} /\ r.key # NoKey
  BY DEF KeyGoesOn
<1> QED BY <1>1, <1>2, <1>3, CallBesideKeys

\* The same for a call that is not at the lock.
LEMMA CallAway ==
    ASSUME AdmissionIInv, NEW c \in Calls, NEW r \in CallType,
           calls' = [calls EXCEPT ![c] = r],
           UNCHANGED <<rows, owners, launch, memo, lapsed, began, binding, admission>>,
           RestType', CallOk(r), KeyGoesOn(c, r), TurnGoesOn(c, r),
           r.at # "revive",
           calls[c].at \notin {"pending", "accept"}, r.at \notin {"pending", "accept"},
           r.at = "wait" =>
               /\ r.claim \in Calls /\ r.claim # c /\ calls[r.claim].key # NoKey
               /\ calls[r.claim].at \in Working \cup {"ok", "refused"}
    PROVE  AdmissionIInv'
<1>0. /\ StoreType /\ RestType /\ calls \in [Calls -> CallType] /\ CallInv /\ LockInv
  BY DEF AdmissionIInv, TypeOK
<1>1. StoreType'
  BY <1>0 DEF StoreType
<1>2. NoNewLive /\ NoNewLaunch /\ CapsKept
  BY DEF NoNewLive, NoNewLaunch, CapsKept
<1>3. LockInv'
  BY <1>0, <1>1, <1>2, LockElsewhere
<1> QED BY <1>3, CallOnly

\* What is known of a call, piece by piece.
LEMMA CallFacts ==
    ASSUME AdmissionIInv, NEW c \in Calls
    PROVE  /\ calls \in [Calls -> CallType] /\ calls[c] \in CallType
           /\ CallOk(calls[c]) /\ WaitAt(c) /\ RestType
BY DEF AdmissionIInv, TypeOK, CallInv

LEMMA NoCallType ==
    NoCall \in CallType /\ NoCall.at = "idle" /\ NoCall.open = FALSE /\ NoCall.key = NoKey
BY DEF NoCall, CallType, NoKey, Nobody

\* A call that ends without an answer to others.
LEMMA IsRefused ==
    ASSUME NEW r, r = [NoCall EXCEPT !.at = "refused"]
    PROVE  r \in CallType /\ r.at = "refused" /\ CallOk(r) /\ ~Turned(r)
<1>1. r \in CallType
  BY DEF NoCall, CallType
<1>2. r.at = "refused" /\ r.open = FALSE /\ r.op = "none"
  BY DEF NoCall
<1>3. CallOk(r) /\ ~Turned(r)
  BY <1>2 DEF CallOk, Working, Turned
<1> QED BY <1>1, <1>2, <1>3

\* A call is refused: with a key, it tells those who wait first.
LEMMA RefuseMeans ==
    ASSUME AdmissionIInv, NEW c \in Calls, Refuse(c),
           calls[c].at \in Working \ {"failed", "started"}
    PROVE  \E r \in CallType :
             /\ calls' = [calls EXCEPT ![c] = r] /\ CallOk(r) /\ KeyGoesOn(c, r)
             /\ ~Turned(r) /\ r.at \in {"refused", "failed"}
<1>0. /\ calls \in [Calls -> CallType] /\ calls[c] \in CallType /\ CallOk(calls[c])
  BY CallFacts
<1>1. CASE calls[c].key = NoKey
  <2>1. PICK r : r = [NoCall EXCEPT !.at = "refused"]
    OBVIOUS
  <2>2. r \in CallType /\ r.at = "refused" /\ CallOk(r) /\ ~Turned(r)
    BY <2>1, IsRefused
  <2>3. calls' = [calls EXCEPT ![c] = r]
    BY <1>1, <2>1 DEF Refuse
  <2>4. KeyGoesOn(c, r)
    BY <1>1, <2>2 DEF KeyGoesOn, Working
  <2> QED BY <2>2, <2>3, <2>4
<1>2. CASE calls[c].key # NoKey
  <2>1. PICK r \in CallType : r = [calls[c] EXCEPT !.at = "failed"]
    BY <1>0 DEF CallType, Working
  <2>2. /\ r.at = "failed" /\ r.key = calls[c].key /\ r.session = calls[c].session
        /\ r.client = calls[c].client /\ r.op = calls[c].op /\ r.open = calls[c].open
    BY <1>0, <2>1 DEF CallType
  <2>3. calls' = [calls EXCEPT ![c] = r]
    BY <1>2, <2>1 DEF Refuse
  <2>4. CallOk(r)
    BY <1>0, <1>2, <2>2 DEF CallOk, Working
  <2>5. KeyGoesOn(c, r) /\ ~Turned(r)
    BY <1>2, <2>2 DEF KeyGoesOn, Working, Turned
  <2> QED BY <2>2, <2>3, <2>4, <2>5
<1> QED BY <1>1, <1>2

LEMMA CreateStep ==
    ASSUME AdmissionIInv, NEW c \in Calls, NEW cl \in Clients, NEW v \in Convs, Create(c, cl, v)
    PROVE  AdmissionIInv'
<1>0. calls \in [Calls -> CallType] /\ calls[c].at = "idle" /\ RestType
  BY CallFacts DEF Create, At
<1>1. PICK r : /\ calls' = [calls EXCEPT ![c] = r]
               /\ r \in {[NoCall EXCEPT !.at = "refused"],
                         [NoCall EXCEPT !.op = "create", !.client = cl, !.conv = v, !.at = "lock"]}
  BY DEF Create
<1>2. /\ r \in CallType /\ CallOk(r) /\ ~Turned(r) /\ r.at \in {"refused", "lock"}
      /\ r.at = "lock" => r.key = NoKey
  <2>1. CASE r = [NoCall EXCEPT !.at = "refused"]
    BY <2>1, IsRefused
  <2>2. CASE r = [NoCall EXCEPT !.op = "create", !.client = cl, !.conv = v, !.at = "lock"]
    <3>1. r \in CallType
      BY <2>2 DEF CallType, NoCall, Working
    <3>2. /\ r.at = "lock" /\ r.op = "create" /\ r.client = cl /\ r.key = NoKey
          /\ r.open = FALSE
      BY <2>2 DEF NoCall
    <3>3. CallOk(r) /\ ~Turned(r)
      BY <3>2 DEF CallOk, Working, Turned
    <3> QED BY <3>1, <3>2, <3>3
  <2> QED BY <1>1, <2>1, <2>2
<1>3. KeyGoesOn(c, r)
  BY <1>0, <1>2 DEF KeyGoesOn, Working
<1>4. UNCHANGED <<rows, owners, launch, memo, lapsed, began, binding, admission>>
  BY DEF Create, service
<1>5. RestType'
  <2>1. faults' \in 0..MaxFaults
    BY <1>0, FaultCounted DEF Create
  <2> QED BY <1>0, <2>1 DEF RestType, Create, service
<1> QED BY <1>0, <1>1, <1>2, <1>3, <1>4, <1>5, CallAway DEF TurnGoesOn

LEMMA PromptStep ==
    ASSUME AdmissionIInv, NEW c \in Calls, NEW cl \in Clients, NEW s \in Sessions,
           NEW k \in Keys \cup {NoKey}, Prompt(c, cl, s, k)
    PROVE  AdmissionIInv'
<1>0. calls \in [Calls -> CallType] /\ calls[c].at = "idle" /\ RestType
  BY CallFacts DEF Prompt, At
<1> DEFINE at == IF k = NoKey THEN "turn" ELSE "key"
<1>1. PICK r : /\ calls' = [calls EXCEPT ![c] = r]
               /\ \/ r = [NoCall EXCEPT !.at = "refused"]
                  \/ /\ s \in Found(cl)
                     /\ r = [NoCall EXCEPT !.op = "prompt", !.client = cl, !.session = s,
                                           !.view = View(rows[s]), !.key = k, !.at = at]
  BY DEF Prompt
<1>2. /\ r \in CallType /\ CallOk(r) /\ ~Turned(r) /\ r.at \in {"refused", "turn", "key"}
      /\ r.at = "turn" => r.key = NoKey
  <2>1. CASE r = [NoCall EXCEPT !.at = "refused"]
    BY <2>1, IsRefused
  <2>2. CASE /\ s \in Found(cl)
             /\ r = [NoCall EXCEPT !.op = "prompt", !.client = cl, !.session = s,
                                   !.view = View(rows[s]), !.key = k, !.at = at]
    <3>0. View(rows[s]) \in {"running", "revivable", "neither"}
      BY DEF View
    <3>1. r \in CallType
      BY <2>2, <3>0 DEF CallType, NoCall, Working
    <3>2. /\ r.at = at /\ r.op = "prompt" /\ r.client = cl /\ r.key = k /\ r.session = s
          /\ r.open = FALSE
      BY <2>2 DEF NoCall
    <3>3. Exists(rows, s) /\ rows[s].client = cl
      BY <2>2 DEF Found, GetLiveSessionByConversation, Live
    <3>4. CallOk(r) /\ ~Turned(r)
      BY <3>2, <3>3 DEF CallOk, Working, Turned
    <3> QED BY <3>1, <3>2, <3>4
  <2> QED BY <1>1, <2>1, <2>2
<1>3. KeyGoesOn(c, r)
  BY <1>0, <1>2 DEF KeyGoesOn, Working
<1>4. UNCHANGED <<rows, owners, launch, memo, lapsed, began, binding, admission>>
  BY DEF Prompt, service
<1>5. RestType'
  BY <1>0 DEF RestType, Prompt, service
<1> QED BY <1>0, <1>1, <1>2, <1>3, <1>4, <1>5, CallAway DEF TurnGoesOn

LEMMA RepeatGivesUpStep ==
    ASSUME AdmissionIInv, NEW c \in Calls, RepeatGivesUp(c)
    PROVE  AdmissionIInv'
<1>0. calls \in [Calls -> CallType] /\ calls[c].at = "wait" /\ RestType
  BY CallFacts DEF RepeatGivesUp, At
<1>1. PICK r : calls' = [calls EXCEPT ![c] = r] /\ r = [NoCall EXCEPT !.at = "refused"]
  BY DEF RepeatGivesUp
<1>2. r \in CallType /\ CallOk(r) /\ ~Turned(r) /\ r.at = "refused"
  BY <1>1, IsRefused
<1>3. KeyGoesOn(c, r)
  BY <1>0, <1>2 DEF KeyGoesOn, Working
<1>4. UNCHANGED <<rows, owners, launch, memo, lapsed, began, binding, admission>>
  BY DEF RepeatGivesUp, service
<1>5. RestType'
  BY <1>0 DEF RestType, RepeatGivesUp, service
<1> QED BY <1>0, <1>1, <1>2, <1>3, <1>4, <1>5, CallAway DEF TurnGoesOn

LEMMA RepeatAnsweredStep ==
    ASSUME AdmissionIInv, NEW c \in Calls, RepeatAnswered(c)
    PROVE  AdmissionIInv'
<1>0. calls \in [Calls -> CallType] /\ calls[c].at = "wait" /\ RestType /\ WaitAt(c)
  BY CallFacts DEF RepeatAnswered, At
<1>1. PICK e \in Calls : e = calls[c].claim
  BY <1>0 DEF WaitAt, At
<1>2. /\ calls[e].key # NoKey /\ calls[e].at \in Working \cup {"ok", "refused"}
      /\ ~calls[e].open /\ CallOk(calls[e]) /\ calls[e] \in CallType
  BY <1>0, <1>1, CallFacts DEF WaitAt, At, RepeatAnswered
<1>3. PICK r \in CallType : r = calls[e]
  BY <1>2
<1>4. r.at \in {"ok", "refused"} /\ e # c /\ r.key # NoKey
  BY <1>0, <1>2, <1>3 DEF CallOk, Working
<1>5. calls' = [calls EXCEPT ![c] = r]
  BY <1>1, <1>3 DEF RepeatAnswered
<1>6. CallOk(r) /\ TurnGoesOn(c, r)
  BY <1>2, <1>3, <1>4 DEF TurnGoesOn
<1>7. KeyGoesOn(c, r)
  BY <1>0, <1>4 DEF KeyGoesOn, Working
<1>8. UNCHANGED <<rows, owners, launch, memo, lapsed, began, binding, admission>>
  BY DEF RepeatAnswered, service
<1>9. RestType'
  BY <1>0 DEF RestType, RepeatAnswered, service
<1> QED BY <1>0, <1>4, <1>5, <1>6, <1>7, <1>8, <1>9, CallAway

-----------------------------------------------------------------------------
(* Idempotency keys.                                                       *)

\* A remembered call is one that works on its key or started its turn.
LEMMA MemoFacts ==
    ASSUME AdmissionIInv, NEW s \in Sessions, NEW k \in Keys, memo[s][k] # Nobody
    PROVE  /\ memo[s][k] \in Calls
           /\ calls[memo[s][k]].session = s /\ calls[memo[s][k]].key = k
           /\ calls[memo[s][k]].at \in Working \cup {"ok"}
BY DEF AdmissionIInv, TypeOK, MemoType, KeyInv, MemoAt

LEMMA doStep ==
    ASSUME AdmissionIInv, NEW c \in Calls, do(c)
    PROVE  AdmissionIInv'
<1>0. /\ calls \in [Calls -> CallType] /\ calls[c] \in CallType /\ calls[c].at = "key"
      /\ CallOk(calls[c]) /\ RestType
  BY CallFacts DEF do, At
<1>1. PICK s \in Sessions, k \in Keys : s = calls[c].session /\ k = calls[c].key
  BY <1>0 DEF CallOk, CallType
<1>2. /\ UNCHANGED <<rows, owners, launch, lapsed, began, binding, admission>>
      /\ RestType'
  BY <1>0 DEF do, RestType
<1>3. CASE memo[s][k] # Nobody /\ memo[s][k] \notin lapsed
  <2>1. PICK d \in Calls : /\ d = memo[s][k] /\ calls[d].key = k
                           /\ calls[d].at \in Working \cup {"ok"}
    BY <1>3, MemoFacts
  <2>2. PICK r \in CallType : r = [calls[c] EXCEPT !.at = "wait", !.claim = d]
    BY <1>0 DEF CallType
  <2>3. /\ r.at = "wait" /\ r.claim = d /\ r.key = calls[c].key /\ r.open = calls[c].open
        /\ r.session = calls[c].session /\ r.client = calls[c].client /\ r.op = calls[c].op
    BY <1>0, <2>2 DEF CallType
  <2>4. calls' = [calls EXCEPT ![c] = r] /\ memo' = memo
    BY <1>0, <1>1, <1>3, <2>1, <2>2 DEF do
  <2>5. CallOk(r)
    BY <1>0, <2>3 DEF CallOk, Working
  <2>6. KeyGoesOn(c, r) /\ TurnGoesOn(c, r)
    BY <1>0, <2>3 DEF KeyGoesOn, TurnGoesOn, Turned, Working
  <2>7. d # c /\ calls[d].key # NoKey
    BY <1>0, <2>1, AdmissionAssumption DEF Working
  <2> QED BY <1>0, <1>2, <2>1, <2>3, <2>4, <2>5, <2>6, <2>7, CallAway
<1>4. CASE ~(memo[s][k] # Nobody /\ memo[s][k] \notin lapsed)
  <2>1. PICK r \in CallType : r = [calls[c] EXCEPT !.at = "turn", !.open = TRUE]
    BY <1>0 DEF CallType, Working
  <2>2. /\ r.at = "turn" /\ r.open = TRUE /\ r.key = k /\ r.session = s
        /\ r.client = calls[c].client /\ r.op = calls[c].op
    BY <1>0, <1>1, <2>1 DEF CallType
  <2>3. calls' = [calls EXCEPT ![c] = r] /\ memo' = [memo EXCEPT ![s][k] = c]
    BY <1>0, <1>1, <1>4, <2>1 DEF do
  <2>4. StoreType /\ MemoType /\ CallInv /\ LockInv /\ KeyInv
    BY DEF AdmissionIInv, TypeOK
  <2>5. k # NoKey
    BY AdmissionAssumption
  <2>6. CallOk(r) /\ TurnGoesOn(c, r)
    BY <1>0, <1>1, <2>2, <2>5 DEF CallOk, Working, TurnGoesOn, Turned
  <2>7. StoreType' /\ MemoType'
    BY <1>0, <1>2, <2>3, <2>4 DEF StoreType, MemoType
  <2>8. NoNewLive /\ NoNewLaunch /\ CapsKept
    BY <1>2 DEF NoNewLive, NoNewLaunch, CapsKept
  <2>9. LockInv'
    BY <1>0, <1>2, <2>2, <2>3, <2>4, <2>7, <2>8, LockElsewhere
  <2>10. KeyInv'
    <3>1. ASSUME NEW d \in Calls PROVE ClaimAt(d)'
      <4>0. ClaimAt(d)
        BY <2>4 DEF KeyInv
      <4>1. CASE d = c
        <5>1. c \notin lapsed
          BY <1>0, <2>4 DEF KeyInv, ClaimAt, At
        <5>2. calls'[d] = r /\ memo'[s][k] = c
          BY <1>0, <2>3, <2>4, <4>1 DEF MemoType
        <5> QED BY <1>2, <2>2, <4>1, <5>1, <5>2 DEF ClaimAt
      <4>2. CASE d # c
        <5>1. calls'[d] = calls[d]
          BY <1>0, <2>3, <4>2
        <5>2. ASSUME calls[d].at \in Working, calls[d].key # NoKey
              PROVE  memo'[calls[d].session][calls[d].key] = d
          <6>1. /\ memo[calls[d].session][calls[d].key] = d /\ d \notin lapsed
                /\ d # Nobody
            BY <4>0, <5>2, AdmissionAssumption DEF ClaimAt, At, Working
          <6>2. calls[d].session \in Sessions /\ calls[d].key \in Keys
            BY <1>0, <5>2, <2>4 DEF CallInv, CallOk, CallType
          <6>3. ~(calls[d].session = s /\ calls[d].key = k)
            BY <1>4, <6>1
          <6> QED BY <2>3, <2>4, <6>1, <6>2, <6>3 DEF MemoType
        <5> QED BY <1>2, <4>0, <5>1, <5>2 DEF ClaimAt, At
      <4> QED BY <4>1, <4>2
    <3>2. ASSUME NEW t \in Sessions, NEW j \in Keys PROVE MemoAt(t, j)'
      <4>0. MemoAt(t, j)
        BY <2>4 DEF KeyInv
      <4>1. CASE t = s /\ j = k
        <5>1. memo'[t][j] = c /\ calls'[c] = r
          BY <1>0, <2>3, <2>4, <4>1 DEF MemoType
        <5>2. began[t][j] = {}
          BY <1>4, <4>0, <4>1 DEF MemoAt
        <5> QED BY <1>2, <2>2, <4>1, <5>1, <5>2 DEF MemoAt, Working
      <4>2. CASE ~(t = s /\ j = k)
        <5>1. memo'[t][j] = memo[t][j]
          BY <2>3, <2>4, <4>2 DEF MemoType
        <5>2. memo[t][j] # c
          <6>1. CASE memo[t][j] = Nobody
            BY <6>1, AdmissionAssumption
          <6>2. CASE memo[t][j] # Nobody
            BY <1>0, <6>2, MemoFacts DEF Working
          <6> QED BY <6>1, <6>2
        <5>3. memo[t][j] # Nobody => calls'[memo[t][j]] = calls[memo[t][j]]
          BY <1>0, <2>3, <2>4, <5>2 DEF MemoType
        <5> QED BY <1>2, <4>0, <5>1, <5>3 DEF MemoAt
      <4> QED BY <4>1, <4>2
    <3> QED BY <3>1, <3>2 DEF KeyInv
  <2>11. /\ calls[c].at \notin {"ok", "refused"} /\ calls[c].at \notin Working
         /\ r.at \notin {"revive", "wait"}
    BY <1>0, <2>2 DEF Working
  <2> QED BY <1>2, <2>3, <2>6, <2>7, <2>9, <2>10, <2>11, CallBesideKeys
<1> QED BY <1>3, <1>4

LEMMA LapseStep ==
    ASSUME AdmissionIInv, NEW c \in Calls, Lapse(c)
    PROVE  AdmissionIInv'
<1>0. /\ calls \in [Calls -> CallType] /\ calls[c] \in CallType /\ RestType
      /\ calls[c].key # NoKey /\ calls[c].session # Nobody /\ calls[c].at = "ok"
  BY CallFacts DEF Lapse, At
<1>1. PICK s \in Sessions, k \in Keys : s = calls[c].session /\ k = calls[c].key
  BY <1>0 DEF CallType
<1>2. /\ lapsed' = lapsed \cup {c} /\ began' = [began EXCEPT ![s][k] = {}]
      /\ memo[s][k] = c
      /\ UNCHANGED <<rows, owners, launch, admission, memo, binding, calls>>
  BY <1>1 DEF Lapse
<1>3. /\ StoreType /\ ServiceType /\ MemoType /\ QuotasHold /\ RunningIsAdoptable
      /\ CallInv /\ LockInv /\ LaunchInv /\ KeyInv /\ TurnInv
  BY DEF AdmissionIInv, TypeOK
<1>4. StoreType' /\ ServiceType' /\ RestType' /\ calls' \in [Calls -> CallType]
  BY <1>0, <1>2, <1>3 DEF StoreType, ServiceType, RestType, Lapse
<1>5. MemoType'
  BY <1>2, <1>3 DEF MemoType
<1>6. RowsKeep /\ NoNewLive /\ NoNewLaunch /\ CapsKept
  <2>1. \A t \in Sessions : rows[t].turns \in Nat
    BY <1>3 DEF StoreType, RowType
  <2> QED BY <1>2, <2>1 DEF RowsKeep, NoNewLive, NoNewLaunch, CapsKept
<1>7. QuotasHold' /\ LockInv'
  BY <1>0, <1>2, <1>3, <1>4, <1>6, QuotasKept, LockKept
<1>8. CallInv'
  BY <1>0, <1>2, <1>3, <1>4, <1>6, CallsKept
<1>9. RunningIsAdoptable' /\ LaunchInv' /\ TurnInv'
  BY <1>2, <1>3 DEF RunningIsAdoptable, Adoptable, LaunchInv, LaunchOk, ReviveAt, At, Terminal,
                    TurnInv, SameTurn, Turned
<1>10. KeyInv'
  <2>1. ASSUME NEW d \in Calls PROVE ClaimAt(d)'
    BY <1>0, <1>2, <1>3 DEF KeyInv, ClaimAt, At
  <2>2. ASSUME NEW t \in Sessions, NEW j \in Keys PROVE MemoAt(t, j)'
    <3>0. MemoAt(t, j)
      BY <1>3 DEF KeyInv
    <3>1. CASE t = s /\ j = k
      <4>1. began'[t][j] = {}
        BY <1>2, <1>3, <3>1 DEF MemoType
      <4> QED BY <1>2, <3>0, <4>1 DEF MemoAt
    <3>2. CASE ~(t = s /\ j = k)
      <4>1. began'[t][j] = began[t][j]
        BY <1>2, <1>3, <3>2 DEF MemoType
      <4>2. memo[t][j] # c
        <5>1. CASE memo[t][j] = Nobody
          BY <5>1, AdmissionAssumption
        <5>2. CASE memo[t][j] # Nobody
          BY <1>1, <3>2, <5>2, MemoFacts
        <5> QED BY <5>1, <5>2
      <4> QED BY <1>2, <3>0, <4>1, <4>2 DEF MemoAt
    <3> QED BY <3>1, <3>2
  <2> QED BY <2>1, <2>2 DEF KeyInv
<1> QED BY <1>4, <1>5, <1>7, <1>8, <1>9, <1>10 DEF AdmissionIInv, TypeOK

LEMMA KeyDoneStep ==
    ASSUME AdmissionIInv, NEW c \in Calls, KeyDone(c)
    PROVE  AdmissionIInv'
<1>0. /\ calls \in [Calls -> CallType] /\ calls[c] \in CallType /\ CallOk(calls[c]) /\ RestType
      /\ calls[c].at \in {"failed", "started"}
  BY CallFacts DEF KeyDone, Answered
<1>1. PICK s \in Sessions, k \in Keys : s = calls[c].session /\ k = calls[c].key
  BY <1>0 DEF CallOk, CallType, Working
<1>2. PICK at \in {"ok", "refused"} : at = IF calls[c].at = "started" THEN "ok" ELSE "refused"
  OBVIOUS
<1>3. PICK r \in CallType :
        r = [NoCall EXCEPT !.at = at, !.op = "prompt", !.session = s, !.key = k,
                           !.turn = calls[c].turn, !.open = FALSE]
  BY <1>0 DEF NoCall, CallType
<1>4. /\ r.at = at /\ r.op = "prompt" /\ r.session = s /\ r.key = k /\ r.turn = calls[c].turn
      /\ r.open = FALSE
  BY <1>3 DEF NoCall
<1>5. calls' = [calls EXCEPT ![c] = r]
  BY <1>1, <1>2, <1>3 DEF KeyDone, Answered, At
<1>6. k # NoKey
  BY AdmissionAssumption
<1>7. CallOk(r)
  BY <1>0, <1>1, <1>2, <1>4, <1>6 DEF CallOk, Working
<1>8. TurnGoesOn(c, r)
  BY <1>0, <1>1, <1>2, <1>4 DEF TurnGoesOn, Turned, CallOk, Working
<1>9. /\ UNCHANGED <<rows, owners, launch, lapsed, began, binding, admission>>
      /\ RestType'
  BY <1>0 DEF KeyDone, Answered, RestType
<1>10. CASE calls[c].at = "started"
  <2>1. memo' = memo
    BY <1>10 DEF KeyDone, Answered, At
  <2>2. KeyGoesOn(c, r)
    BY <1>1, <1>2, <1>4, <1>10 DEF KeyGoesOn, Working
  <2> QED BY <1>0, <1>2, <1>4, <1>5, <1>7, <1>8, <1>9, <2>1, <2>2, CallAway
<1>11. CASE calls[c].at = "failed"
  <2>1. memo' = [memo EXCEPT ![s][k] = Nobody]
    BY <1>1, <1>11 DEF KeyDone, Answered, At
  <2>2. StoreType /\ MemoType /\ CallInv /\ LockInv /\ KeyInv
    BY DEF AdmissionIInv, TypeOK
  <2>3. StoreType' /\ MemoType'
    BY <1>9, <2>1, <2>2 DEF StoreType, MemoType
  <2>4. NoNewLive /\ NoNewLaunch /\ CapsKept
    BY <1>9 DEF NoNewLive, NoNewLaunch, CapsKept
  <2>5. LockInv'
    BY <1>0, <1>2, <1>4, <1>5, <1>9, <2>2, <2>3, <2>4, LockElsewhere
  <2>6. memo[s][k] = c
    BY <1>1, <1>6, <1>11, <2>2 DEF KeyInv, ClaimAt, Working
  <2>7. KeyInv'
    <3>1. ASSUME NEW d \in Calls PROVE ClaimAt(d)'
      <4>0. ClaimAt(d)
        BY <2>2 DEF KeyInv
      <4>1. CASE d = c
        <5>1. c \notin lapsed
          BY <1>11, <4>0, <4>1 DEF ClaimAt, At
        <5>2. calls'[d] = r
          BY <1>0, <1>5, <4>1
        <5> QED BY <1>2, <1>4, <1>9, <4>1, <5>1, <5>2 DEF ClaimAt, Working
      <4>2. CASE d # c
        <5>1. calls'[d] = calls[d]
          BY <1>0, <1>5, <4>2
        <5>2. ASSUME calls[d].at \in Working, calls[d].key # NoKey
              PROVE  memo'[calls[d].session][calls[d].key] = d
          <6>1. memo[calls[d].session][calls[d].key] = d
            BY <4>0, <5>2 DEF ClaimAt
          <6>2. calls[d].session \in Sessions /\ calls[d].key \in Keys
            BY <1>0, <5>2, <2>2 DEF CallInv, CallOk, CallType
          <6>3. ~(calls[d].session = s /\ calls[d].key = k)
            BY <2>6, <4>2, <6>1
          <6> QED BY <2>1, <2>2, <6>1, <6>2, <6>3 DEF MemoType
        <5> QED BY <1>9, <4>0, <5>1, <5>2 DEF ClaimAt, At
      <4> QED BY <4>1, <4>2
    <3>2. ASSUME NEW t \in Sessions, NEW j \in Keys PROVE MemoAt(t, j)'
      <4>0. MemoAt(t, j)
        BY <2>2 DEF KeyInv
      <4>1. CASE t = s /\ j = k
        <5>1. memo'[t][j] = Nobody
          BY <2>1, <2>2, <4>1 DEF MemoType
        <5>2. began[t][j] = {}
          BY <1>11, <2>6, <4>0, <4>1 DEF MemoAt
        <5> QED BY <1>9, <5>1, <5>2 DEF MemoAt
      <4>2. CASE ~(t = s /\ j = k)
        <5>1. memo'[t][j] = memo[t][j]
          BY <2>1, <2>2, <4>2 DEF MemoType
        <5>2. memo[t][j] # c
          <6>1. CASE memo[t][j] = Nobody
            BY <6>1, AdmissionAssumption
          <6>2. CASE memo[t][j] # Nobody
            BY <1>1, <4>2, <6>2, MemoFacts
          <6> QED BY <6>1, <6>2
        <5>3. memo[t][j] # Nobody => calls'[memo[t][j]] = calls[memo[t][j]]
          BY <1>0, <1>5, <2>2, <5>2 DEF MemoType
        <5> QED BY <1>9, <4>0, <5>1, <5>3 DEF MemoAt
      <4> QED BY <4>1, <4>2
    <3> QED BY <3>1, <3>2 DEF KeyInv
  <2> QED BY <1>0, <1>2, <1>4, <1>5, <1>6, <1>7, <1>8, <1>9, <2>3, <2>5, <2>7, CallBesideKeys
<1> QED BY <1>0, <1>10, <1>11

-----------------------------------------------------------------------------
(* Turns, and the admission lock.                                          *)

LEMMA startTurnStep ==
    ASSUME AdmissionIInv, NEW c \in Calls, startTurn(c)
    PROVE  AdmissionIInv'
<1>0. /\ calls \in [Calls -> CallType] /\ calls[c] \in CallType /\ CallOk(calls[c]) /\ RestType
      /\ calls[c].at = "turn"
  BY CallFacts DEF startTurn, At
<1>1. /\ UNCHANGED <<rows, owners, launch, memo, lapsed, began, binding, admission>>
      /\ RestType'
  BY <1>0 DEF startTurn, service, RestType
<1>2. PICK s \in Sessions : s = calls[c].session
  BY <1>0 DEF CallOk, Working
<1>3. CASE Refuse(c)
  <2>1. PICK r \in CallType :
          /\ calls' = [calls EXCEPT ![c] = r] /\ CallOk(r) /\ KeyGoesOn(c, r)
          /\ ~Turned(r) /\ r.at \in {"refused", "failed"}
    BY <1>0, <1>3, RefuseMeans DEF Working
  <2> QED BY <1>0, <1>1, <2>1, CallAway DEF TurnGoesOn
<1>4. ASSUME NEW at \in {"send", "lock"}, NEW n \in Nat, NEW r \in CallType,
             r = [calls[c] EXCEPT !.at = at, !.number = n],
             calls' = [calls EXCEPT ![c] = r]
      PROVE  AdmissionIInv'
  <2>1. /\ r.at = at /\ r.key = calls[c].key /\ r.open = calls[c].open
        /\ r.session = calls[c].session /\ r.client = calls[c].client /\ r.op = calls[c].op
    BY <1>0, <1>4 DEF CallType
  <2>2. CallOk(r)
    BY <1>0, <1>4, <2>1 DEF CallOk, Working
  <2>3. KeyGoesOn(c, r) /\ TurnGoesOn(c, r)
    BY <1>0, <1>4, <2>1 DEF KeyGoesOn, TurnGoesOn, Turned, Working
  <2> QED BY <1>0, <1>1, <1>4, <2>1, <2>2, <2>3, CallAway
<1>5. CASE Goes(c, "lock")
  <2>1. PICK n \in Nat : n = calls[c].number
    BY <1>0 DEF CallType
  <2>2. PICK r \in CallType : r = [calls[c] EXCEPT !.at = "lock", !.number = n]
    BY <1>0 DEF CallType, Working
  <2>3. [calls[c] EXCEPT !.at = "lock"] = r
    BY <1>0, <2>1, <2>2 DEF CallType
  <2>4. calls' = [calls EXCEPT ![c] = r]
    BY <1>0, <1>5, <2>3 DEF Goes
  <2> QED BY <1>4, <2>2, <2>4
<1>6. CASE calls' = [calls EXCEPT ![c].at = "send", ![c].number = launch[s].number]
  <2>1. PICK n \in Nat : n = launch[s].number
    <3>1. launch[s] \in LaunchType
      BY SessionFacts
    <3> QED BY <3>1 DEF LaunchType
  <2>2. PICK r \in CallType : r = [calls[c] EXCEPT !.at = "send", !.number = n]
    BY <1>0 DEF CallType, Working
  <2>3. calls' = [calls EXCEPT ![c] = r]
    BY <1>0, <1>6, <2>1, <2>2
  <2> QED BY <1>4, <2>2, <2>3
<1> QED BY <1>2, <1>3, <1>5, <1>6 DEF startTurn

\* A call and a session change in one step.
LEMMA CallAndSession ==
    ASSUME AdmissionIInv, NEW c \in Calls, NEW r \in CallType,
           calls' = [calls EXCEPT ![c] = r],
           StoreType', ServiceType', MemoType', RestType', binding' = binding,
           RowsKeep, QuotasHold', RunningIsAdoptable', LockInv', LaunchInv', KeyInv', TurnInv',
           CallOk(r)', calls[c].at \notin {"ok", "refused"}, r.at # "wait",
           calls[c].at \in Working /\ calls[c].key # NoKey =>
               r.at \in Working \cup {"ok", "refused"} /\ r.key # NoKey
    PROVE  AdmissionIInv'
<1>0. StoreType /\ calls \in [Calls -> CallType] /\ CallInv
  BY DEF AdmissionIInv, TypeOK
<1>1. CallInv'
  BY <1>0, CallMoves
<1>2. calls' \in [Calls -> CallType]
  BY <1>0
<1> QED BY <1>1, <1>2 DEF AdmissionIInv, TypeOK

\* A new turn of a session.
LEMMA TurnNumbered ==
    ASSUME AdmissionIInv, NEW s \in Sessions, rows' = NextTurnSeq(rows, s)
    PROVE  \E row \in RowType :
             /\ rows' = [rows EXCEPT ![s] = row]
             /\ row.turns = rows[s].turns + 1 /\ row.client = rows[s].client
             /\ row.status = rows[s].status /\ row.claim = rows[s].claim
             /\ row.run = rows[s].run /\ row.stream = rows[s].stream
<1>0. rows \in [Sessions -> RowType] /\ rows[s] \in RowType /\ rows[s].turns \in Nat
  BY SessionFacts
<1>1. PICK n \in Nat : n = rows[s].turns + 1
  BY <1>0
<1>2. PICK row \in RowType : row = [rows[s] EXCEPT !.turns = n]
  BY <1>0 DEF RowType
<1>3. rows' = [rows EXCEPT ![s] = row]
  BY <1>0, <1>1, <1>2 DEF NextTurnSeq
<1>4. /\ row.turns = n /\ row.client = rows[s].client
      /\ row.status = rows[s].status /\ row.claim = rows[s].claim
      /\ row.run = rows[s].run /\ row.stream = rows[s].stream
  BY <1>0, <1>2 DEF RowType
<1> QED BY <1>1, <1>3, <1>4

\* What follows from it, or when the table stays.
LEMMA TurnRows ==
    ASSUME AdmissionIInv, NEW s \in Sessions, rows' \in {rows, NextTurnSeq(rows, s)}
    PROVE  /\ StoreType' /\ RowsKeep /\ NoNewLive /\ RunningIsAdoptable'
           /\ \A t \in Sessions :
                /\ rows'[t].client = rows[t].client /\ rows'[t].status = rows[t].status
                /\ rows'[t].claim = rows[t].claim /\ rows'[t].run = rows[t].run
                /\ rows'[t].stream = rows[t].stream
<1>0. /\ rows \in [Sessions -> RowType] /\ RunningIsAdoptable
      /\ \A t \in Sessions : rows[t].turns \in Nat
  <2>1. rows \in [Sessions -> RowType] /\ RunningIsAdoptable
    BY DEF AdmissionIInv, TypeOK, StoreType
  <2> QED BY <2>1 DEF RowType
<1>1. CASE rows' = rows
  BY <1>0, <1>1 DEF StoreType, RowsKeep, NoNewLive, RunningIsAdoptable, Adoptable
<1>2. CASE rows' = NextTurnSeq(rows, s)
  <2>1. PICK row \in RowType :
          /\ rows' = [rows EXCEPT ![s] = row]
          /\ row.turns = rows[s].turns + 1 /\ row.client = rows[s].client
          /\ row.status = rows[s].status /\ row.claim = rows[s].claim
          /\ row.run = rows[s].run /\ row.stream = rows[s].stream
    BY <1>2, TurnNumbered
  <2>2. StoreType'
    BY <1>0, <2>1 DEF StoreType
  <2>3. \A t \in Sessions :
          /\ rows'[t].client = rows[t].client /\ rows'[t].status = rows[t].status
          /\ rows'[t].claim = rows[t].claim /\ rows'[t].run = rows[t].run
          /\ rows'[t].stream = rows[t].stream
          /\ rows'[t].turns = rows[t].turns \/ rows'[t].turns = rows[t].turns + 1
    BY <1>0, <2>1
  <2>4. RowsKeep
    BY <1>0, <2>3 DEF RowsKeep, Exists
  <2>5. NoNewLive /\ RunningIsAdoptable'
    BY <1>0, <2>3 DEF NoNewLive, Live, Exists, RunningIsAdoptable, Adoptable
  <2> QED BY <2>2, <2>3, <2>4, <2>5
<1> QED BY <1>1, <1>2

\* A call gets the new turn: no other call has it, and neither has its key.
LEMMA TurnAccepted ==
    ASSUME AdmissionIInv, NEW c \in Calls, NEW s \in Sessions, s = calls[c].session,
           calls[c].at \in {"send", "revive"},
           NEW t \in Nat, t = rows[s].turns + 1, rows' = NextTurnSeq(rows, s),
           Accept(c, t), Begins(c, t), UNCHANGED <<memo, lapsed>>
    PROVE  \E r \in CallType :
             /\ calls' = [calls EXCEPT ![c] = r] /\ CallOk(r)' /\ MemoType' /\ KeyInv' /\ TurnInv'
             /\ r.at \in {"ok", "started"}
             /\ calls[c].key # NoKey => r.at = "started" /\ r.key # NoKey
<1>0. /\ calls \in [Calls -> CallType] /\ calls[c] \in CallType /\ CallOk(calls[c])
      /\ KeyInv /\ TurnInv /\ MemoType /\ CallInv /\ StoreType
  BY CallFacts DEF AdmissionIInv, TypeOK
<1>1. /\ Exists(rows, s) /\ rows[s].client = calls[c].client /\ calls[c].op = "prompt"
      /\ calls[c].client \in Clients
  BY <1>0 DEF CallOk, Working
<1>2. PICK row \in RowType :
        /\ rows' = [rows EXCEPT ![s] = row]
        /\ row.turns = rows[s].turns + 1 /\ row.client = rows[s].client
        /\ row.status = rows[s].status
  BY TurnNumbered
<1>3. Exists(rows', s) /\ rows'[s].client = calls[c].client /\ rows'[s].turns = t
  BY <1>0, <1>1, <1>2 DEF Exists, StoreType
<1>4. ASSUME NEW d \in Calls, Turned(calls[d]), calls[d].session = s
      PROVE  calls[d].turn < t
  <2>1. calls[d].turn <= rows[s].turns
    BY <1>0, <1>4 DEF CallInv, CallOk, Turned
  <2>2. calls[d].turn \in Nat /\ rows[s].turns \in Nat
    <3>1. calls[d] \in CallType /\ rows[s] \in RowType
      BY <1>0 DEF StoreType
    <3> QED BY <3>1 DEF CallType, RowType
  <2> QED BY <2>1, <2>2
<1>5. CASE calls[c].key = NoKey
  <2>1. PICK r \in CallType :
          r = [NoCall EXCEPT !.at = "ok", !.op = "prompt", !.session = s, !.turn = t]
    BY DEF NoCall, CallType
  <2>2. /\ r.at = "ok" /\ r.op = "prompt" /\ r.session = s /\ r.turn = t /\ r.key = NoKey
        /\ r.open = FALSE
    BY <2>1 DEF NoCall
  <2>3. calls' = [calls EXCEPT ![c] = r] /\ began' = began
    BY <1>5, <2>1 DEF Accept, Begins
  <2>4. CallOk(r)'
    BY <1>3, <2>2 DEF CallOk, Working, Exists
  <2>5. KeyInv'
    BY <1>0, <1>5, <2>2, <2>3, KeysKept DEF Working
  <2>6. MemoType'
    BY <1>0, <2>3 DEF MemoType
  <2>7. TurnInv'
    BY <1>0, <1>4, <2>2, <2>3, TurnsApart
  <2> QED BY <1>5, <2>2, <2>3, <2>4, <2>5, <2>6, <2>7
<1>6. CASE calls[c].key # NoKey
  <2>0. PICK k \in Keys : k = calls[c].key
    BY <1>0, <1>6 DEF CallType
  <2>1. PICK r \in CallType : r = [calls[c] EXCEPT !.at = "started", !.turn = t]
    BY <1>0 DEF CallType, Working
  <2>2. /\ r.at = "started" /\ r.op = "prompt" /\ r.session = s /\ r.turn = t
        /\ r.key = calls[c].key /\ r.open = calls[c].open /\ r.client = calls[c].client
    BY <1>0, <1>1, <2>1 DEF CallType
  <2>3. /\ calls' = [calls EXCEPT ![c] = r]
        /\ began' = [began EXCEPT ![s][k] = @ \cup {t}]
    BY <1>6, <2>0, <2>1 DEF Accept, Begins
  <2>4. CallOk(r)'
    BY <1>0, <1>1, <1>3, <1>6, <2>2 DEF CallOk, Working, Exists
  <2>5. MemoType'
    <3>1. began[s][k] \cup {t} \in SUBSET Nat
      BY <1>0 DEF MemoType
    <3> QED BY <1>0, <2>3, <3>1 DEF MemoType
  <2>6. TurnInv'
    BY <1>0, <1>4, <2>2, <2>3, TurnsApart
  <2>7. memo[s][k] = c /\ c \notin lapsed
    BY <1>0, <1>6, <2>0 DEF KeyInv, ClaimAt, Working, At
  <2>8. ASSUME NEW d \in Calls PROVE ClaimAt(d)'
    <3>0. ClaimAt(d)
      BY <1>0 DEF KeyInv
    <3>1. CASE d = c
      <4>1. calls'[d] = r
        BY <1>0, <2>3, <3>1
      <4> QED BY <2>0, <2>2, <2>7, <3>1, <4>1 DEF ClaimAt
    <3>2. CASE d # c
      <4>1. calls'[d] = calls[d]
        BY <1>0, <2>3, <3>2
      <4> QED BY <3>0, <4>1 DEF ClaimAt, At
    <3> QED BY <3>1, <3>2
  <2>9. ASSUME NEW u \in Sessions, NEW j \in Keys PROVE MemoAt(u, j)'
    <3>0. MemoAt(u, j)
      BY <1>0 DEF KeyInv
    <3>1. CASE u = s /\ j = k
      <4>1. began[s][k] = {}
        BY <2>7, <3>0, <3>1 DEF MemoAt
      <4>2. began'[u][j] = {t}
        BY <1>0, <2>3, <3>1, <4>1 DEF MemoType
      <4>3. calls'[c] = r /\ memo'[u][j] = c
        BY <1>0, <2>3, <2>7, <3>1
      <4>4. c # Nobody
        BY AdmissionAssumption
      <4> QED BY <2>0, <2>2, <2>7, <3>1, <4>2, <4>3, <4>4 DEF MemoAt, Working
    <3>2. CASE ~(u = s /\ j = k)
      <4>1. began'[u][j] = began[u][j]
        BY <1>0, <2>3, <3>2 DEF MemoType
      <4>2. memo[u][j] # c
        <5>1. CASE memo[u][j] = Nobody
          BY <5>1, AdmissionAssumption
        <5>2. CASE memo[u][j] # Nobody
          BY <2>0, <3>2, <5>2, MemoFacts
        <5> QED BY <5>1, <5>2
      <4>3. memo[u][j] # Nobody => calls'[memo[u][j]] = calls[memo[u][j]]
        BY <1>0, <2>3, <4>2 DEF MemoType
      <4> QED BY <3>0, <4>1, <4>3 DEF MemoAt
    <3> QED BY <3>1, <3>2
  <2>10. KeyInv'
    BY <2>8, <2>9 DEF KeyInv
  <2> QED BY <1>6, <2>2, <2>3, <2>4, <2>5, <2>6, <2>10
<1> QED BY <1>5, <1>6

LEMMA SendPromptStep ==
    ASSUME AdmissionIInv, NEW c \in Calls, SendPrompt(c)
    PROVE  AdmissionIInv'
<1>0. /\ calls \in [Calls -> CallType] /\ calls[c] \in CallType /\ CallOk(calls[c]) /\ RestType
      /\ calls[c].at = "send" /\ CallInv /\ StoreType /\ ServiceType /\ MemoType
      /\ QuotasHold /\ LockInv /\ LaunchInv /\ KeyInv /\ TurnInv
  BY CallFacts DEF SendPrompt, At, AdmissionIInv, TypeOK
<1>1. PICK s \in Sessions : s = calls[c].session
  BY <1>0 DEF CallOk, Working
<1>2. /\ UNCHANGED <<owners, launch, memo, lapsed, admission, binding>>
      /\ rows' \in {rows, NextTurnSeq(rows, s)} /\ (Fault \/ Fine)
  BY <1>1 DEF SendPrompt, service
<1>3. ServiceType' /\ RestType'
  <2>1. faults' \in 0..MaxFaults
    BY <1>0, <1>2, FaultCounted
  <2> QED BY <1>0, <1>2, <2>1 DEF ServiceType, RestType, SendPrompt, service
<1>4. /\ StoreType' /\ RowsKeep /\ NoNewLive /\ RunningIsAdoptable'
      /\ \A t \in Sessions :
           /\ rows'[t].client = rows[t].client /\ rows'[t].status = rows[t].status
           /\ rows'[t].claim = rows[t].claim /\ rows'[t].run = rows[t].run
           /\ rows'[t].stream = rows[t].stream
  BY <1>2, TurnRows
<1>5. NoNewLaunch /\ CapsKept
  BY <1>2, <1>4 DEF NoNewLaunch, CapsKept
<1>6. QuotasHold'
  BY <1>0, <1>4, <1>5, QuotasKept
<1>7. ASSUME NEW r \in CallType, calls' = [calls EXCEPT ![c] = r],
             r.at \in {"ok", "started", "refused", "failed"},
             MemoType', KeyInv', TurnInv', CallOk(r)',
             calls[c].key # NoKey => r.at \in Working /\ r.key # NoKey
      PROVE  AdmissionIInv'
  <2>1. LockInv'
    BY <1>0, <1>2, <1>4, <1>5, <1>7, LockElsewhere
  <2>2. LaunchInv'
    <3>1. \A d \in Calls : ReviveAt(d)'
      BY <1>0, <1>2, <1>7, RevivesKept DEF LaunchInv
    <3> QED BY <1>0, <1>2, <1>4, <3>1 DEF LaunchInv, LaunchOk, Terminal
  <2> QED BY <1>0, <1>2, <1>3, <1>4, <1>6, <1>7, <2>1, <2>2, CallAndSession
<1>8. CASE Refuse(c) /\ UNCHANGED began
  <2>1. PICK r \in CallType :
          /\ calls' = [calls EXCEPT ![c] = r] /\ CallOk(r) /\ KeyGoesOn(c, r)
          /\ ~Turned(r) /\ r.at \in {"refused", "failed"}
    BY <1>0, <1>8, RefuseMeans DEF Working
  <2>2. KeyInv' /\ MemoType'
    <3>1. MemoType'
      BY <1>0, <1>2, <1>8 DEF MemoType
    <3> QED BY <1>0, <1>2, <1>8, <2>1, <3>1, KeysKept DEF KeyGoesOn
  <2>3. TurnInv'
    BY <1>0, <2>1, TurnsApart
  <2>4. CallOk(r)'
    BY <1>0, <1>4, <2>1, CallOkKept
  <2>5. calls[c].key # NoKey => r.at \in Working /\ r.key # NoKey
    BY <1>0, <2>1 DEF KeyGoesOn, Working
  <2> QED BY <1>7, <2>1, <2>2, <2>3, <2>4, <2>5
<1>9. CASE /\ rows' = NextTurnSeq(rows, s)
           /\ Accept(c, rows[s].turns + 1) /\ Begins(c, rows[s].turns + 1)
  <2>1. PICK t \in Nat : t = rows[s].turns + 1
    BY SessionFacts
  <2>2. PICK r \in CallType :
          /\ calls' = [calls EXCEPT ![c] = r] /\ CallOk(r)' /\ MemoType' /\ KeyInv' /\ TurnInv'
          /\ r.at \in {"ok", "started"}
          /\ calls[c].key # NoKey => r.at = "started" /\ r.key # NoKey
    BY <1>0, <1>1, <1>2, <1>9, <2>1, TurnAccepted
  <2> QED BY <1>7, <2>2 DEF Working
<1> QED BY <1>1, <1>8, <1>9 DEF SendPrompt

\* The launch of a revive that got its turn, or not.
LEMMA ReviveTurnStep ==
    ASSUME AdmissionIInv, NEW c \in Calls, ReviveTurn(c)
    PROVE  AdmissionIInv'
<1>0. /\ calls \in [Calls -> CallType] /\ calls[c] \in CallType /\ CallOk(calls[c]) /\ RestType
      /\ calls[c].at = "revive" /\ CallInv /\ StoreType /\ ServiceType /\ MemoType
      /\ QuotasHold /\ LockInv /\ LaunchInv /\ KeyInv /\ TurnInv /\ RunningIsAdoptable
  BY CallFacts DEF ReviveTurn, At, AdmissionIInv, TypeOK
<1>1. PICK s \in Sessions : s = calls[c].session
  BY <1>0 DEF CallOk, Working
<1>2. /\ UNCHANGED <<memo, lapsed, admission, binding>>
      /\ rows' \in {rows, NextTurnSeq(rows, s)} /\ (Fault \/ Fine)
  BY <1>1 DEF ReviveTurn
<1>3. RestType'
  <2>1. faults' \in 0..MaxFaults
    BY <1>0, <1>2, FaultCounted
  <2> QED BY <1>0, <1>2, <2>1 DEF RestType, ReviveTurn
<1>4. /\ StoreType' /\ RowsKeep /\ NoNewLive /\ RunningIsAdoptable'
      /\ \A t \in Sessions :
           /\ rows'[t].client = rows[t].client /\ rows'[t].status = rows[t].status
           /\ rows'[t].claim = rows[t].claim /\ rows'[t].run = rows[t].run
           /\ rows'[t].stream = rows[t].stream
  BY <1>2, TurnRows
<1>5. launch \in [Sessions -> LaunchType] /\ launch[s] \in LaunchType /\ launch[s].at = "turn"
      /\ owners[s] = "launch"
  BY <1>0, <1>1 DEF ServiceType, LaunchInv, ReviveAt, At, LaunchOk, Starting
<1>6. ASSUME NEW r \in CallType, calls' = [calls EXCEPT ![c] = r],
             r.at \in {"ok", "started", "refused", "failed"},
             MemoType', KeyInv', TurnInv', CallOk(r)',
             calls[c].key # NoKey => r.at \in Working /\ r.key # NoKey,
             NEW at \in {"begin", "off"}, launch' = [launch EXCEPT ![s].at = at],
             owners' = [owners EXCEPT ![s] = IF at = "begin" THEN "launch" ELSE "none"]
      PROVE  AdmissionIInv'
  <2>0. PICK l \in LaunchType : l = [launch[s] EXCEPT !.at = at]
    BY <1>5, <1>6 DEF LaunchType, Starting
  <2>1. l.at = at /\ l.number = launch[s].number /\ launch' = [launch EXCEPT ![s] = l]
    BY <1>5, <1>6, <2>0 DEF LaunchType
  <2>2. ServiceType'
    BY <1>0, <1>6, <2>1 DEF ServiceType
  <2>3. NoNewLaunch /\ CapsKept
    BY <1>0, <1>2, <1>4, <1>5, <1>6 DEF NoNewLaunch, CapsKept, ServiceType
  <2>4. LockInv'
    BY <1>0, <1>2, <1>4, <1>6, <2>3, LockElsewhere
  <2>5. QuotasHold'
    BY <1>0, <1>4, <2>3, QuotasKept
  <2>6. ASSUME NEW d \in Calls PROVE ReviveAt(d)'
    <3>1. CASE d = c
      BY <1>0, <1>6, <3>1 DEF ReviveAt, At
    <3>2. CASE d # c
      <4>1. ASSUME calls'[d].at = "revive"
            PROVE  /\ launch'[calls'[d].session].at = "turn"
                   /\ \A e \in Calls : calls'[e].at = "revive"
                         /\ calls'[e].session = calls'[d].session => e = d
        <5>1. calls'[d] = calls[d]
          BY <1>0, <1>6, <3>2
        <5>2. /\ launch[calls[d].session].at = "turn" /\ calls[d].session \in Sessions
              /\ \A e \in Calls : calls[e].at = "revive"
                         /\ calls[e].session = calls[d].session => e = d
          BY <1>0, <4>1, <5>1 DEF LaunchInv, ReviveAt, At, CallInv, CallOk, Working
        <5>3. calls[d].session # s
          BY <1>0, <1>1, <3>2, <5>2
        <5>4. launch'[calls[d].session] = launch[calls[d].session]
          BY <1>5, <2>1, <5>2, <5>3
        <5>5. \A e \in Calls : calls'[e].at = "revive" => calls'[e] = calls[e]
          BY <1>0, <1>6
        <5> QED BY <5>1, <5>2, <5>4, <5>5
      <4> QED BY <4>1 DEF ReviveAt, At
    <3> QED BY <3>1, <3>2
  <2>7. ASSUME NEW t \in Sessions PROVE LaunchOk(owners'[t], launch'[t], rows'[t])
    <3>0. LaunchOk(owners[t], launch[t], rows[t])
      BY <1>0 DEF LaunchInv
    <3>1. CASE t = s
      <4>1. launch'[t] = l /\ owners'[t] = (IF at = "begin" THEN "launch" ELSE "none")
        BY <1>0, <1>6, <2>1, <3>1 DEF ServiceType
      <4>2. Live(rows, s) /\ launch[s].number # 0
        BY <1>5, <3>0, <3>1 DEF LaunchOk, Live, Exists
      <4> QED BY <1>4, <1>6, <2>1, <3>1, <4>1, <4>2
              DEF LaunchOk, Starting, Linking, Live, Exists, Terminal
    <3>2. CASE t # s
      <4>1. launch'[t] = launch[t] /\ owners'[t] = owners[t]
        BY <1>0, <1>6, <2>1, <3>2 DEF ServiceType
      <4> QED BY <1>4, <3>0, <4>1 DEF LaunchOk, Terminal
    <3> QED BY <3>1, <3>2
  <2>8. LaunchInv'
    BY <2>6, <2>7 DEF LaunchInv, LaunchOk, Terminal
  <2> QED BY <1>0, <1>2, <1>3, <1>4, <1>6, <2>2, <2>4, <2>5, <2>8, CallAndSession
<1>7. CASE /\ rows' = NextTurnSeq(rows, s) /\ launch' = [launch EXCEPT ![s].at = "begin"]
           /\ Accept(c, rows[s].turns + 1) /\ Begins(c, rows[s].turns + 1) /\ UNCHANGED owners
  <2>1. PICK t \in Nat : t = rows[s].turns + 1
    BY SessionFacts
  <2>2. PICK r \in CallType :
          /\ calls' = [calls EXCEPT ![c] = r] /\ CallOk(r)' /\ MemoType' /\ KeyInv' /\ TurnInv'
          /\ r.at \in {"ok", "started"}
          /\ calls[c].key # NoKey => r.at = "started" /\ r.key # NoKey
    BY <1>0, <1>1, <1>2, <1>7, <2>1, TurnAccepted
  <2>3. owners' = [owners EXCEPT ![s] = "launch"]
    BY <1>0, <1>5, <1>7 DEF ServiceType
  <2>4. PICK at \in {"begin", "off"} : at = "begin"
    OBVIOUS
  <2> QED BY <1>6, <1>7, <2>2, <2>3, <2>4 DEF Working
<1>8. CASE /\ Refuse(c) /\ owners' = [owners EXCEPT ![s] = "none"]
           /\ launch' = [launch EXCEPT ![s].at = "off"] /\ UNCHANGED <<rows, began>>
  <2>1. PICK r \in CallType :
          /\ calls' = [calls EXCEPT ![c] = r] /\ CallOk(r) /\ KeyGoesOn(c, r)
          /\ ~Turned(r) /\ r.at \in {"refused", "failed"}
    BY <1>0, <1>8, RefuseMeans DEF Working
  <2>2. KeyInv' /\ MemoType'
    <3>1. MemoType'
      BY <1>0, <1>2, <1>8 DEF MemoType
    <3> QED BY <1>0, <1>2, <1>8, <2>1, <3>1, KeysKept DEF KeyGoesOn
  <2>3. TurnInv'
    BY <1>0, <2>1, TurnsApart
  <2>4. CallOk(r)'
    BY <1>0, <1>4, <2>1, CallOkKept
  <2>5. calls[c].key # NoKey => r.at \in Working /\ r.key # NoKey
    BY <1>0, <2>1 DEF KeyGoesOn, Working
  <2>6. PICK at \in {"begin", "off"} : at = "off"
    OBVIOUS
  <2> QED BY <1>6, <1>8, <2>1, <2>2, <2>3, <2>4, <2>5, <2>6
<1> QED BY <1>1, <1>7, <1>8 DEF ReviveTurn

LEMMA checkQuotasStep ==
    ASSUME AdmissionIInv, NEW c \in Calls, checkQuotas(c)
    PROVE  AdmissionIInv'
<1>0. /\ calls \in [Calls -> CallType] /\ calls[c] \in CallType /\ CallOk(calls[c]) /\ RestType
      /\ calls[c].at = "lock" /\ admission = Nobody /\ LockInv /\ CallInv /\ StoreType
  BY CallFacts DEF checkQuotas, At, AdmissionIInv, TypeOK
<1>1. PICK cl \in Clients : cl = calls[c].client
  BY <1>0 DEF CallOk, Working
<1>2. /\ UNCHANGED <<rows, owners, launch, memo, lapsed, began, binding, startup>>
      /\ Fault \/ Fine
  BY DEF checkQuotas
<1>3. tokens' \in [Clients -> 0..Rate]
  <2>1. tokens \in [Clients -> 0..Rate] /\ Rate \in Nat
    BY <1>0, AdmissionAssumption DEF RestType
  <2>2. CASE tokens' = tokens
    BY <2>1, <2>2
  <2>3. CASE tokens[cl] > 0 /\ tokens' = [tokens EXCEPT ![cl] = @ - 1]
    BY <2>1, <2>3
  <2> QED BY <1>1, <2>2, <2>3 DEF checkQuotas, allow, SpendToken
<1>4. faults' \in 0..MaxFaults
  BY <1>0, <1>2, FaultCounted
<1>5. CASE Refuse(c) /\ UNCHANGED admission
  <2>1. PICK r \in CallType :
          /\ calls' = [calls EXCEPT ![c] = r] /\ CallOk(r) /\ KeyGoesOn(c, r)
          /\ ~Turned(r) /\ r.at \in {"refused", "failed"}
    BY <1>0, <1>5, RefuseMeans DEF Working
  <2>2. RestType'
    BY <1>0, <1>2, <1>3, <1>4, <1>5 DEF RestType
  <2> QED BY <1>0, <1>2, <1>5, <2>1, <2>2, CallAway DEF TurnGoesOn
<1>6. ASSUME ~(calls[c].op = "create"
                 /\ Reached(Cardinality(ListLiveSessionsByClient(rows, cl)), binding[cl].live)),
             NEW seen \in SUBSET Sessions,
             calls' = [calls EXCEPT ![c].at = "pending", ![c].seen = seen], admission' = c
      PROVE  AdmissionIInv'
  <2>1. PICK r \in CallType : r = [calls[c] EXCEPT !.at = "pending", !.seen = seen]
    BY <1>0 DEF CallType, Working
  <2>2. /\ r.at = "pending" /\ r.key = calls[c].key /\ r.open = calls[c].open
        /\ r.session = calls[c].session /\ r.client = calls[c].client /\ r.op = calls[c].op
    BY <1>0, <2>1 DEF CallType
  <2>3. calls' = [calls EXCEPT ![c] = r]
    BY <1>0, <1>6, <2>1
  <2>4. CallOk(r)
    BY <1>0, <2>2 DEF CallOk, Working
  <2>5. KeyGoesOn(c, r) /\ TurnGoesOn(c, r)
    BY <1>0, <2>2 DEF KeyGoesOn, TurnGoesOn, Turned, Working
  <2>6. RestType'
    BY <1>0, <1>2, <1>3, <1>4, <1>6 DEF RestType
  <2>7. r.op = "create" =>
          Room(Cardinality(ListLiveSessionsByClient(rows, cl)), binding[cl].live)
    <3>1. Cardinality(ListLiveSessionsByClient(rows, cl)) \in Nat
      <4>1. ListLiveSessionsByClient(rows, cl) \subseteq Sessions
        BY <1>0 DEF ListLiveSessionsByClient, StoreType
      <4> QED BY <4>1, AdmissionAssumption, FS_Subset, FS_CardinalityType
    <3>2. binding[cl].live \in Nat
      BY <1>0, AdmissionAssumption DEF RestType, BindingType
    <3> QED BY <1>6, <2>2, <3>1, <3>2 DEF Room, Reached
  <2>8. ASSUME NEW d \in Calls PROVE LockAt(d)'
    <3>1. CASE d = c
      <4>1. calls'[d] = r
        BY <1>0, <2>3, <3>1
      <4> QED BY <1>1, <1>2, <1>6, <2>2, <2>7, <3>1, <4>1 DEF LockAt, At
    <3>2. CASE d # c
      <4>1. calls'[d] = calls[d]
        BY <1>0, <2>3, <3>2
      <4>2. calls[d].at \notin {"pending", "accept"}
        BY <1>0, AdmissionAssumption DEF LockInv, LockAt
      <4> QED BY <4>1, <4>2 DEF LockAt, At
    <3> QED BY <3>1, <3>2
  <2>9. calls'[admission'].at \in {"pending", "accept"}
    BY <1>0, <1>6, <2>2, <2>3
  <2>10. LockInv'
    BY <2>8, <2>9 DEF LockInv
  <2> QED BY <1>2, <2>2, <2>3, <2>4, <2>5, <2>6, <2>10, CallOnly
<1>7. {s \in ListLiveSessionsByClient(rows, cl) : rows[s].status \in Pending} \in SUBSET Sessions
  BY <1>0 DEF ListLiveSessionsByClient, StoreType
<1> QED BY <1>1, <1>5, <1>6, <1>7 DEF checkQuotas

\* A call with the lock is refused and gives it back.
LEMMA LockRefused ==
    ASSUME AdmissionIInv, NEW c \in Calls, calls[c].at \in {"pending", "accept"}, Refuse(c),
           admission' = Nobody, Fault \/ Fine,
           UNCHANGED <<rows, owners, launch, tokens, memo, lapsed, began, binding, startup>>
    PROVE  AdmissionIInv'
<1>0. calls \in [Calls -> CallType] /\ RestType /\ LockInv
  BY CallFacts DEF AdmissionIInv
<1>1. PICK r \in CallType :
        /\ calls' = [calls EXCEPT ![c] = r] /\ CallOk(r) /\ KeyGoesOn(c, r)
        /\ ~Turned(r) /\ r.at \in {"refused", "failed"}
  BY RefuseMeans DEF Working
<1>2. RestType'
  <2>1. faults' \in 0..MaxFaults
    BY <1>0, FaultCounted
  <2> QED BY <1>0, <2>1 DEF RestType
<1>3. LockInv'
  BY <1>0, <1>1, LockReleased
<1> QED BY <1>1, <1>2, <1>3, CallOnly DEF TurnGoesOn

LEMMA checkPendingStep ==
    ASSUME AdmissionIInv, NEW c \in Calls, checkPending(c)
    PROVE  AdmissionIInv'
<1>0. /\ calls \in [Calls -> CallType] /\ calls[c] \in CallType /\ CallOk(calls[c]) /\ RestType
      /\ calls[c].at = "pending" /\ LockInv /\ CallInv /\ StoreType
  BY CallFacts DEF checkPending, PendingBelowCap, At, AdmissionIInv, TypeOK
<1>1. PICK cl \in Clients : cl = calls[c].client
  BY <1>0 DEF CallOk, Working
<1>2. UNCHANGED <<rows, owners, launch, tokens, memo, lapsed, began, binding, startup, faults>>
  BY DEF checkPending, PendingBelowCap
<1>3. CASE Refuse(c) /\ admission' = Nobody
  BY <1>0, <1>2, <1>3, LockRefused DEF Fine
<1>4. CASE /\ ~Reached(Cardinality(calls[c].seen \cup launchesOf(cl)), binding[cl].pending)
           /\ Goes(c, "accept") /\ UNCHANGED admission
  <2>1. PICK r \in CallType : r = [calls[c] EXCEPT !.at = "accept"]
    BY <1>0 DEF CallType, Working
  <2>2. /\ r.at = "accept" /\ r.key = calls[c].key /\ r.open = calls[c].open
        /\ r.session = calls[c].session /\ r.client = calls[c].client /\ r.op = calls[c].op
    BY <1>0, <2>1 DEF CallType
  <2>3. calls' = [calls EXCEPT ![c] = r]
    BY <1>0, <1>4, <2>1 DEF Goes
  <2>4. CallOk(r)
    BY <1>0, <2>2 DEF CallOk, Working
  <2>5. KeyGoesOn(c, r) /\ TurnGoesOn(c, r)
    BY <1>0, <2>2 DEF KeyGoesOn, TurnGoesOn, Turned, Working
  <2>6. RestType'
    BY <1>0, <1>2, <1>4 DEF RestType
  <2>7. Room(Cardinality(launchesOf(cl)), binding[cl].pending)
    <3>1. PICK A, B : A = launchesOf(cl) /\ B = calls[c].seen \cup launchesOf(cl)
      OBVIOUS
    <3>2. A \subseteq B /\ B \subseteq Sessions
      BY <1>0, <3>1 DEF launchesOf, CallType
    <3>3. IsFiniteSet(B) /\ Cardinality(B) \in Nat
      BY <3>2, AdmissionAssumption, FS_Subset, FS_CardinalityType
    <3>4. Cardinality(A) \in Nat /\ Cardinality(A) <= Cardinality(B)
      BY <3>2, <3>3, FS_Subset, FS_CardinalityType
    <3>5. binding[cl].pending \in Nat
      BY <1>0, AdmissionAssumption DEF RestType, BindingType
    <3> QED BY <1>4, <3>1, <3>3, <3>4, <3>5 DEF Room, Reached
  <2>8. /\ admission = c
        /\ calls[c].op = "create" =>
             Room(Cardinality(ListLiveSessionsByClient(rows, cl)), binding[cl].live)
    BY <1>0, <1>1 DEF LockInv, LockAt
  <2>9. NoNewLive /\ NoNewLaunch /\ CapsKept /\ StoreType'
    BY <1>0, <1>2 DEF NoNewLive, NoNewLaunch, CapsKept, StoreType
  <2>10. ASSUME NEW d \in Calls PROVE LockAt(d)'
    <3>1. CASE d = c
      <4>1. calls'[d] = r
        BY <1>0, <2>3, <3>1
      <4>2. launchesOf(cl)' = launchesOf(cl)
        BY <1>2 DEF launchesOf
      <4> QED BY <1>1, <1>2, <1>4, <2>2, <2>7, <2>8, <3>1, <4>1, <4>2 DEF LockAt, At, launchesOf
    <3>2. CASE d # c
      <4>1. calls'[d] = calls[d]
        BY <1>0, <2>3, <3>2
      <4> QED BY <1>0, <1>4, <2>9, <4>1, LockAtKept DEF CallInv, LockInv
    <3> QED BY <3>1, <3>2
  <2>11. calls'[admission'].at \in {"pending", "accept"}
    BY <1>0, <1>4, <2>2, <2>3, <2>8
  <2>12. LockInv'
    BY <2>10, <2>11 DEF LockInv
  <2> QED BY <1>2, <2>2, <2>3, <2>4, <2>5, <2>6, <2>12, CallOnly
<1> QED BY <1>1, <1>3, <1>4 DEF checkPending, PendingBelowCap

\* One more element.
LEMMA OneMore ==
    ASSUME NEW A, NEW B, NEW x, IsFiniteSet(A), B \subseteq A \cup {x}
    PROVE  /\ Cardinality(A) \in Nat /\ Cardinality(B) \in Nat
           /\ Cardinality(B) <= Cardinality(A) + 1
<1>1. Cardinality(A) \in Nat /\ IsFiniteSet(A \cup {x})
      /\ (Cardinality(A \cup {x}) = Cardinality(A)
            \/ Cardinality(A \cup {x}) = Cardinality(A) + 1)
  BY FS_AddElement, FS_CardinalityType
<1>2. Cardinality(B) <= Cardinality(A \cup {x}) /\ Cardinality(B) \in Nat
      /\ Cardinality(A \cup {x}) \in Nat
  BY <1>1, FS_Subset, FS_CardinalityType
<1> QED BY <1>1, <1>2

\* A launch starts, of a client with room for it.
LEMMA LaunchAdded ==
    ASSUME RestType, binding' = binding, QuotasHold, ServiceType,
           NEW s \in Sessions, NEW cl \in Clients, owners' = [owners EXCEPT ![s] = "launch"],
           rows'[s].client = cl,
           \A t \in Sessions : t # s => rows'[t].client = rows[t].client,
           Room(Cardinality(launchesOf(cl)), binding[cl].pending)
    PROVE  \A d \in Clients : binding'[d].pending > 0 =>
                                  Cardinality(launchesOf(d)') <= binding'[d].pending
<1> SUFFICES ASSUME NEW d \in Clients, binding[d].pending > 0
             PROVE  Cardinality(launchesOf(d)') <= binding[d].pending
  OBVIOUS
<1>1. PICK A, B : A = launchesOf(d) /\ B = launchesOf(d)'
  OBVIOUS
<1>2. /\ A \subseteq Sessions /\ B \subseteq A \cup {s}
      /\ d # cl => B \subseteq A
  BY <1>1 DEF launchesOf, ServiceType
<1>3. IsFiniteSet(A)
  BY <1>2, AdmissionAssumption, FS_Subset
<1>4. binding[d].pending \in Nat /\ Cardinality(A) <= binding[d].pending
  BY <1>1, AdmissionAssumption DEF RestType, BindingType, QuotasHold
<1>5. CASE d = cl
  <2>1. Cardinality(A) < binding[d].pending
    BY <1>1, <1>5 DEF Room
  <2>2. Cardinality(A) \in Nat /\ Cardinality(B) \in Nat
        /\ Cardinality(B) <= Cardinality(A) + 1
    BY <1>2, <1>3, OneMore
  <2> QED BY <1>1, <1>4, <2>1, <2>2
<1>6. CASE d # cl
  <2>1. Cardinality(B) <= Cardinality(A) /\ Cardinality(A) \in Nat /\ Cardinality(B) \in Nat
    BY <1>2, <1>3, <1>6, FS_Subset, FS_CardinalityType
  <2> QED BY <1>1, <1>4, <2>1
<1> QED BY <1>5, <1>6

\* A session is created, of a client with room for it.
LEMMA LiveAdded ==
    ASSUME RestType, binding' = binding, QuotasHold, StoreType,
           NEW s \in Sessions, NEW row \in RowType, NEW cl \in Clients,
           rows' = [rows EXCEPT ![s] = row], row.client = cl,
           Room(Cardinality(ListLiveSessionsByClient(rows, cl)), binding[cl].live)
    PROVE  \A d \in Clients : binding'[d].live > 0 =>
               Cardinality(ListLiveSessionsByClient(rows', d)) <= binding'[d].live
<1> SUFFICES ASSUME NEW d \in Clients, binding[d].live > 0
             PROVE  Cardinality(ListLiveSessionsByClient(rows', d)) <= binding[d].live
  OBVIOUS
<1>1. PICK A, B : A = ListLiveSessionsByClient(rows, d) /\ B = ListLiveSessionsByClient(rows', d)
  OBVIOUS
<1>2. /\ A \subseteq Sessions /\ B \subseteq A \cup {s}
      /\ d # cl => B \subseteq A
  <2>1. rows'[s] = row /\ \A t \in Sessions : t # s => rows'[t] = rows[t]
    BY DEF StoreType
  <2>2. DOMAIN rows = Sessions /\ DOMAIN rows' = Sessions
    BY DEF StoreType
  <2> QED BY <1>1, <2>1, <2>2 DEF ListLiveSessionsByClient, Live, Exists
<1>3. IsFiniteSet(A)
  BY <1>2, AdmissionAssumption, FS_Subset
<1>4. binding[d].live \in Nat /\ Cardinality(A) <= binding[d].live
  BY <1>1, AdmissionAssumption DEF RestType, BindingType, QuotasHold
<1>5. CASE d = cl
  <2>1. Cardinality(A) < binding[d].live
    BY <1>1, <1>5 DEF Room
  <2>2. Cardinality(A) \in Nat /\ Cardinality(B) \in Nat
        /\ Cardinality(B) <= Cardinality(A) + 1
    BY <1>2, <1>3, OneMore
  <2> QED BY <1>1, <1>4, <2>1, <2>2
<1>6. CASE d # cl
  <2>1. Cardinality(B) <= Cardinality(A) /\ Cardinality(A) \in Nat /\ Cardinality(B) \in Nat
    BY <1>2, <1>3, <1>6, FS_Subset, FS_CardinalityType
  <2> QED BY <1>1, <1>4, <2>1
<1> QED BY <1>5, <1>6

LEMMA FirstLaunches ==
    0 \in 0..MaxLaunches /\ 1 \in 0..MaxLaunches
<1>1. MaxLaunches \in Nat /\ MaxLaunches # 0
  BY AdmissionAssumption
<1> QED BY <1>1

LEMMA AcceptCreateStep ==
    ASSUME AdmissionIInv, NEW c \in Calls, AcceptCreate(c)
    PROVE  AdmissionIInv'
<1>0. /\ calls \in [Calls -> CallType] /\ calls[c] \in CallType /\ CallOk(calls[c]) /\ RestType
      /\ calls[c].at = "accept" /\ calls[c].op = "create" /\ LockInv /\ CallInv /\ StoreType
      /\ ServiceType /\ MemoType /\ QuotasHold /\ RunningIsAdoptable /\ LaunchInv /\ KeyInv
      /\ TurnInv
  BY CallFacts DEF AcceptCreate, At, AdmissionIInv, TypeOK
<1>1. PICK cl \in Clients : cl = calls[c].client /\ calls[c].key = NoKey
  BY <1>0 DEF CallOk, Working
<1>2. /\ admission' = Nobody /\ (Fault \/ Fine)
      /\ UNCHANGED <<tokens, memo, lapsed, startup, binding, began>>
  BY DEF AcceptCreate
<1>3. CASE Refuse(c) /\ UNCHANGED <<rows, owners, launch>>
  BY <1>0, <1>2, <1>3, LockRefused
<1>4. ASSUME NEW s \in Sessions, ~Exists(rows, s),
             rows' = CreateSession(rows, s, calls[c].client, calls[c].conv),
             owners' = [owners EXCEPT ![s] = "launch"],
             launch' = [launch EXCEPT ![s] = [at |-> "begin", number |-> 1, revive |-> FALSE]],
             calls' = [calls EXCEPT ![c] =
                          [NoCall EXCEPT !.at = "ok", !.op = "create", !.session = s]]
      PROVE  AdmissionIInv'
  <2>1. PICK r \in CallType : r = [NoCall EXCEPT !.at = "ok", !.op = "create", !.session = s]
    BY DEF NoCall, CallType
  <2>2. r.at = "ok" /\ r.op = "create" /\ r.key = NoKey /\ r.open = FALSE
    BY <2>1 DEF NoCall
  <2>3. calls' = [calls EXCEPT ![c] = r]
    BY <1>4, <2>1
  <2>4. PICK row \in RowType :
          row = [NoRow EXCEPT !.client = cl, !.conv = calls[c].conv, !.status = "pending"]
    BY <1>0 DEF NoRow, RowType, Statuses, CallType
  <2>5. row.client = cl /\ row.status = "pending" /\ row.turns = 0
    BY <2>4 DEF NoRow
  <2>6. rows' = [rows EXCEPT ![s] = row]
    BY <1>1, <1>4, <2>4 DEF CreateSession
  <2>7. PICK l \in LaunchType : l = [at |-> "begin", number |-> 1, revive |-> FALSE]
    <3>1. 1 \in 0..MaxLaunches
      BY FirstLaunches
    <3> QED BY <3>1 DEF LaunchType, Starting
  <2>8. l.at = "begin" /\ l.number = 1 /\ launch' = [launch EXCEPT ![s] = l]
    BY <1>4, <2>7
  <2>9. \A t \in Sessions : t # s => rows'[t] = rows[t] /\ owners'[t] = owners[t]
                                      /\ launch'[t] = launch[t]
    BY <1>0, <1>4, <2>6, <2>8 DEF StoreType, ServiceType
  <2>10. rows'[s] = row /\ owners'[s] = "launch" /\ launch'[s] = l
    BY <1>0, <1>4, <2>6, <2>8 DEF StoreType, ServiceType
  <2>11. StoreType' /\ ServiceType' /\ MemoType'
    BY <1>0, <1>2, <1>4, <2>6, <2>8 DEF StoreType, ServiceType, MemoType
  <2>12. RestType'
    <3>1. faults' \in 0..MaxFaults
      BY <1>0, <1>2, FaultCounted
    <3> QED BY <1>0, <1>2, <3>1 DEF RestType
  <2>13. RowsKeep
    <3>1. \A t \in Sessions : rows[t].turns \in Nat
      BY <1>0 DEF StoreType, RowType
    <3> QED BY <1>4, <2>9, <3>1 DEF RowsKeep, Exists
  <2>14. QuotasHold'
    <3>1. /\ Room(Cardinality(ListLiveSessionsByClient(rows, cl)), binding[cl].live)
          /\ Room(Cardinality(launchesOf(cl)), binding[cl].pending)
      BY <1>0, <1>1 DEF LockInv, LockAt, At
    <3>2. \A d \in Clients : binding'[d].live > 0 =>
              Cardinality(ListLiveSessionsByClient(rows', d)) <= binding'[d].live
      BY <1>0, <1>2, <2>5, <2>6, <3>1, LiveAdded
    <3>3. \A d \in Clients : binding'[d].pending > 0 =>
              Cardinality(launchesOf(d)') <= binding'[d].pending
      BY <1>0, <1>2, <1>4, <2>5, <2>9, <2>10, <3>1, LaunchAdded
    <3> QED BY <3>2, <3>3 DEF QuotasHold
  <2>15. RunningIsAdoptable'
    <3>1. \A t \in Sessions : Adoptable(rows'[t])
      BY <1>0, <2>5, <2>9, <2>10 DEF RunningIsAdoptable, Adoptable
    <3> QED BY <3>1 DEF RunningIsAdoptable, Adoptable
  <2>16. LockInv'
    BY <1>0, <1>2, <2>2, <2>3, LockReleased
  <2>17. LaunchInv'
    <3>1. ASSUME NEW t \in Sessions PROVE LaunchOk(owners'[t], launch'[t], rows'[t])
      <4>1. CASE t = s
        <5>1. LaunchOk("launch", l, row)
          BY <2>5, <2>8 DEF LaunchOk, Starting, Linking, Terminal
        <5> QED BY <2>10, <4>1, <5>1
      <4>2. CASE t # s
        BY <1>0, <2>9, <4>2 DEF LaunchInv
      <4> QED BY <4>1, <4>2
    <3>2. ASSUME NEW d \in Calls PROVE ReviveAt(d)'
      <4>1. \A e \in Calls : calls'[e].at = "revive" => calls'[e] = calls[e]
        BY <1>0, <2>2, <2>3
      <4>2. calls[d].at = "revive" =>
              calls[d].session \in Sessions /\ Exists(rows, calls[d].session)
        BY <1>0 DEF CallInv, CallOk, Working
      <4>3. calls[d].at = "revive" => launch'[calls[d].session] = launch[calls[d].session]
        BY <1>4, <2>9, <4>2
      <4> QED BY <1>0, <4>1, <4>3 DEF LaunchInv, ReviveAt, At
    <3> QED BY <3>1, <3>2 DEF LaunchInv, LaunchOk, Terminal
  <2>18. KeyInv'
    BY <1>0, <1>1, <1>2, <2>2, <2>3, KeysKept DEF Working
  <2>19. TurnInv'
    BY <1>0, <2>2, <2>3, TurnsApart DEF Turned
  <2>20. CallOk(r)'
    BY <2>2 DEF CallOk, Working
  <2> QED BY <1>0, <1>1, <1>2, <2>2, <2>3, <2>11, <2>12, <2>13, <2>14, <2>15, <2>16, <2>17,
             <2>18, <2>19, <2>20, CallAndSession
<1>5. ASSUME ~\A s \in Sessions : Exists(rows, s)
      PROVE  /\ (CHOOSE s \in Sessions : ~Exists(rows, s)) \in Sessions
             /\ ~Exists(rows, CHOOSE s \in Sessions : ~Exists(rows, s))
  BY <1>5
<1> QED BY <1>3, <1>4, <1>5 DEF AcceptCreate

LEMMA claimReviveStep ==
    ASSUME AdmissionIInv, NEW c \in Calls, claimRevive(c)
    PROVE  AdmissionIInv'
<1>0. /\ calls \in [Calls -> CallType] /\ calls[c] \in CallType /\ CallOk(calls[c]) /\ RestType
      /\ calls[c].at = "accept" /\ calls[c].op = "prompt" /\ LockInv /\ CallInv /\ StoreType
      /\ ServiceType /\ MemoType /\ QuotasHold /\ RunningIsAdoptable /\ LaunchInv /\ KeyInv
      /\ TurnInv
  BY CallFacts DEF claimRevive, At, AdmissionIInv, TypeOK
<1>1. PICK cl \in Clients, s \in Sessions :
        /\ cl = calls[c].client /\ s = calls[c].session /\ Exists(rows, s)
        /\ rows[s].client = cl
  BY <1>0 DEF CallOk, Working
<1>2. /\ admission' = Nobody /\ (Fault \/ Fine)
      /\ UNCHANGED <<rows, tokens, memo, lapsed, startup, binding, began>>
  BY DEF claimRevive
<1>3. CASE Refuse(c) /\ UNCHANGED <<owners, launch>>
  BY <1>0, <1>2, <1>3, LockRefused
<1>4. CASE /\ owners[s] = "none" /\ rows[s].status = "suspended"
           /\ launch[s].number < MaxLaunches
           /\ owners' = [owners EXCEPT ![s] = "launch"]
           /\ launch' = [launch EXCEPT ![s] = [at |-> "turn", number |-> @.number + 1,
                                                revive |-> TRUE]]
           /\ Goes(c, "revive")
  <2>1. PICK r \in CallType : r = [calls[c] EXCEPT !.at = "revive"]
    BY <1>0 DEF CallType, Working
  <2>2. /\ r.at = "revive" /\ r.key = calls[c].key /\ r.open = calls[c].open
        /\ r.session = s /\ r.client = calls[c].client /\ r.op = calls[c].op
    BY <1>0, <1>1, <2>1 DEF CallType
  <2>3. calls' = [calls EXCEPT ![c] = r]
    BY <1>0, <1>4, <2>1 DEF Goes
  <2>4. PICK n \in 0..MaxLaunches : n = launch[s].number + 1 /\ n # 0
    <3>1. launch[s].number \in 0..MaxLaunches /\ MaxLaunches \in Nat
      <4>1. launch[s] \in LaunchType
        BY SessionFacts
      <4> QED BY <4>1, AdmissionAssumption DEF LaunchType
    <3> QED BY <1>4, <3>1
  <2>5. PICK l \in LaunchType : l = [at |-> "turn", number |-> n, revive |-> TRUE]
    BY DEF LaunchType, Starting
  <2>6. l.at = "turn" /\ l.number # 0 /\ launch' = [launch EXCEPT ![s] = l]
    BY <1>0, <1>4, <2>4, <2>5 DEF ServiceType
  <2>7. \A t \in Sessions : t # s => owners'[t] = owners[t] /\ launch'[t] = launch[t]
    BY <1>0, <1>4, <2>6 DEF ServiceType
  <2>8. owners'[s] = "launch" /\ launch'[s] = l
    BY <1>0, <1>4, <2>6 DEF ServiceType
  <2>9. StoreType' /\ ServiceType' /\ MemoType' /\ RunningIsAdoptable'
    BY <1>0, <1>2, <1>4, <2>6 DEF StoreType, ServiceType, MemoType, RunningIsAdoptable, Adoptable
  <2>10. RestType'
    <3>1. faults' \in 0..MaxFaults
      BY <1>0, <1>2, FaultCounted
    <3> QED BY <1>0, <1>2, <3>1 DEF RestType
  <2>11. RowsKeep
    <3>1. \A t \in Sessions : rows[t].turns \in Nat
      BY <1>0 DEF StoreType, RowType
    <3> QED BY <1>2, <3>1 DEF RowsKeep
  <2>12. QuotasHold'
    <3>1. Room(Cardinality(launchesOf(cl)), binding[cl].pending)
      BY <1>0, <1>1 DEF LockInv, LockAt, At
    <3>2. \A d \in Clients : binding'[d].pending > 0 =>
              Cardinality(launchesOf(d)') <= binding'[d].pending
      BY <1>0, <1>1, <1>2, <1>4, <3>1, LaunchAdded
    <3>3. \A d \in Clients : binding'[d].live > 0 =>
              Cardinality(ListLiveSessionsByClient(rows', d)) <= binding'[d].live
      BY <1>0, <1>2 DEF QuotasHold
    <3> QED BY <3>2, <3>3 DEF QuotasHold
  <2>13. LockInv'
    BY <1>0, <1>2, <2>2, <2>3, LockReleased
  <2>14. LaunchInv'
    <3>1. ASSUME NEW t \in Sessions PROVE LaunchOk(owners'[t], launch'[t], rows'[t])
      <4>1. CASE t = s
        <5>1. LaunchOk("launch", l, rows[s])
          BY <1>4, <2>6 DEF LaunchOk, Starting, Linking, Terminal
        <5> QED BY <1>2, <2>8, <4>1, <5>1
      <4>2. CASE t # s
        BY <1>0, <1>2, <2>7, <4>2 DEF LaunchInv
      <4> QED BY <4>1, <4>2
    <3>2. launch[s].at # "turn"
      BY <1>0, <1>4 DEF LaunchInv, LaunchOk, Starting
    <3>3. \A e \in Calls : calls[e].at = "revive" =>
            calls[e].session # s /\ calls[e].session \in Sessions
      BY <1>0, <3>2 DEF LaunchInv, ReviveAt, At, CallInv, CallOk, Working
    <3>4. \A e \in Calls : e # c => calls'[e] = calls[e]
      BY <1>0, <2>3
    <3>5. calls'[c] = r
      BY <1>0, <2>3
    <3>6. ASSUME NEW d \in Calls PROVE ReviveAt(d)'
      <4>1. CASE d = c
        BY <2>2, <2>6, <2>8, <3>3, <3>4, <3>5, <4>1 DEF ReviveAt, At
      <4>2. CASE d # c
        <5>1. ReviveAt(d)
          BY <1>0 DEF LaunchInv
        <5>2. calls[d].at = "revive" => launch'[calls[d].session] = launch[calls[d].session]
          BY <2>7, <3>3
        <5> QED BY <2>2, <3>3, <3>4, <3>5, <4>2, <5>1, <5>2 DEF ReviveAt, At
      <4> QED BY <4>1, <4>2
    <3> QED BY <3>1, <3>6 DEF LaunchInv, LaunchOk, Terminal
  <2>15. KeyInv'
    BY <1>0, <1>1, <1>2, <2>2, <2>3, KeysKept DEF Working
  <2>16. TurnInv'
    BY <1>0, <2>2, <2>3, TurnsApart DEF Turned
  <2>17. CallOk(r)'
    <3>1. CallOk(r)
      BY <1>0, <1>1, <2>2 DEF CallOk, Working
    <3> QED BY <1>2, <3>1 DEF CallOk, Exists
  <2> QED BY <1>0, <1>2, <2>2, <2>3, <2>9, <2>10, <2>11, <2>12, <2>13, <2>14, <2>15, <2>16,
             <2>17, CallAndSession DEF Working
<1> QED BY <1>1, <1>3, <1>4 DEF claimRevive

-----------------------------------------------------------------------------
(* The start, every step, and what follows.                                *)

LEMMA AdmissionInit ==
    ASSUME Init
    PROVE  AdmissionIInv
<1> DEFINE s0 == CHOOSE s \in Sessions : TRUE
           v0 == CHOOSE v \in Convs : TRUE
           none == [s \in Sessions |-> NoRow]
<1>1. s0 \in Sessions /\ v0 \in Convs
  BY AdmissionAssumption
<1>2. NoRow \in RowType /\ NoRow.status = "none" /\ NoRow.client = ""
  BY DEF NoRow, RowType, Statuses
<1>3. NoLaunch \in LaunchType /\ NoLaunch.at = "off"
  BY FirstLaunches DEF NoLaunch, LaunchType
<1>4. ASSUME NEW cl \in Clients, NEW row, row \in Left(cl, v0)
      PROVE  row \in RowType /\ Adoptable(row)
  <2>1. ASSUME NEW status \in {"running", "suspended"},
               row = [NoRow EXCEPT !.client = cl, !.conv = v0, !.status = status, !.claim = 1,
                                   !.run = 1, !.acp = 1, !.stream = 1, !.approver = 1]
        PROVE  row \in RowType /\ Adoptable(row)
    <3>1. PICK q \in RowType :
            q = [NoRow EXCEPT !.client = cl, !.conv = v0, !.status = status, !.claim = 1,
                              !.run = 1, !.acp = 1, !.stream = 1, !.approver = 1]
      BY <1>1 DEF NoRow, RowType, Statuses
    <3>2. q.claim = 1 /\ q.run = 1 /\ q.stream = 1
      BY <3>1 DEF NoRow
    <3> QED BY <2>1, <3>1, <3>2 DEF Adoptable
  <2>2. CASE row = [NoRow EXCEPT !.client = cl, !.conv = v0, !.status = "awaiting_approval",
                                 !.claim = 1, !.run = 1]
    <3>1. PICK q \in RowType :
            q = [NoRow EXCEPT !.client = cl, !.conv = v0, !.status = "awaiting_approval",
                              !.claim = 1, !.run = 1]
      BY <1>1 DEF NoRow, RowType, Statuses
    <3>2. q.status = "awaiting_approval"
      BY <3>1 DEF NoRow
    <3> QED BY <2>2, <3>1, <3>2 DEF Adoptable
  <2> HIDE DEF v0
  <2> QED BY <1>4, <2>1, <2>2 DEF Left
<1>5. [NoLaunch EXCEPT !.number = 1] \in LaunchType /\ [NoLaunch EXCEPT !.number = 1].at = "off"
  BY FirstLaunches DEF NoLaunch, LaunchType
<1>6. /\ launch \in [Sessions -> LaunchType] /\ \A s \in Sessions : launch[s].at = "off"
      /\ rows \in [Sessions -> RowType] /\ \A s \in Sessions : Adoptable(rows[s])
      /\ \A s \in Sessions : s # s0 => rows[s].status = "none"
  <2>1. CASE rows = none /\ launch = [s \in Sessions |-> NoLaunch]
    BY <1>1, <1>2, <1>3, <2>1 DEF Adoptable
  <2>2. CASE /\ \E cl \in Clients : \E row \in Left(cl, v0) : rows = [none EXCEPT ![s0] = row]
             /\ launch = [s \in Sessions |->
                             IF s = s0 THEN [NoLaunch EXCEPT !.number = 1] ELSE NoLaunch]
    <3>0. PICK cl \in Clients : \E row \in Left(cl, v0) : rows = [none EXCEPT ![s0] = row]
      BY <2>2
    <3>1. PICK row \in Left(cl, v0) : rows = [none EXCEPT ![s0] = row]
      BY <3>0
    <3>2. row \in RowType /\ Adoptable(row)
      BY <1>4
    <3>3. \A s \in Sessions : rows[s] = IF s = s0 THEN row ELSE NoRow
      BY <3>1
    <3>4. rows \in [Sessions -> RowType] /\ \A s \in Sessions : Adoptable(rows[s])
      BY <1>1, <1>2, <3>1, <3>2, <3>3 DEF Adoptable
    <3>5. launch \in [Sessions -> LaunchType] /\ \A s \in Sessions : launch[s].at = "off"
      BY <1>1, <1>3, <1>5, <2>2
    <3> QED BY <1>2, <3>3, <3>4, <3>5
  <2> QED BY <2>1, <2>2 DEF Init
<1> HIDE DEF s0, v0, none
<1>7. /\ owners = [s \in Sessions |-> "none"] /\ admission = Nobody
      /\ tokens = [cl \in Clients |-> Rate] /\ lapsed = {} /\ faults = 0
      /\ memo = [s \in Sessions |-> [k \in Keys |-> Nobody]]
      /\ began = [s \in Sessions |-> [k \in Keys |-> {}]]
      /\ calls = [c \in Calls |-> NoCall]
      /\ startup \subseteq Sessions
      /\ binding \in [Clients -> [to : {"template"}, live : LiveCaps, pending : PendingCaps]]
  BY <1>6 DEF Init, ListActiveSessions
<1>8. StoreType /\ ServiceType /\ MemoType
  BY <1>6, <1>7 DEF StoreType, ServiceType, MemoType
<1>9. RestType
  <2>1. binding \in [Clients -> BindingType]
    BY <1>7 DEF BindingType
  <2>2. tokens \in [Clients -> 0..Rate] /\ faults \in 0..MaxFaults
    <3>1. Rate \in Nat /\ MaxFaults \in Nat
      BY AdmissionAssumption
    <3>2. Rate \in 0..Rate /\ 0 \in 0..MaxFaults
      BY <3>1
    <3> QED BY <1>7, <3>2
  <2> QED BY <1>7, <2>1, <2>2 DEF RestType
<1>10. calls \in [Calls -> CallType] /\ \A c \in Calls : calls[c] = NoCall
  BY <1>7, NoCallType
<1>11. CallInv /\ TurnInv
  BY <1>10, NoCallType DEF CallInv, CallOk, WaitAt, At, Working, TurnInv, SameTurn, Turned
<1>12. LockInv
  BY <1>7, <1>10, NoCallType DEF LockInv, LockAt, At
<1>13. LaunchInv
  BY <1>6, <1>7, <1>10, NoCallType DEF LaunchInv, LaunchOk, ReviveAt, At, Starting, Linking
<1>14. KeyInv
  BY <1>7, <1>10, NoCallType DEF KeyInv, ClaimAt, MemoAt, Working
<1>15. QuotasHold
  <2> SUFFICES ASSUME NEW cl \in Clients
               PROVE  /\ binding[cl].live > 0 =>
                           Cardinality(ListLiveSessionsByClient(rows, cl)) <= binding[cl].live
                      /\ binding[cl].pending > 0 =>
                           Cardinality(launchesOf(cl)) <= binding[cl].pending
    BY DEF QuotasHold
  <2>1. binding[cl].live \in Nat /\ binding[cl].pending \in Nat
    BY <1>9, AdmissionAssumption DEF RestType, BindingType
  <2>2. launchesOf(cl) = {}
    BY <1>7 DEF launchesOf
  <2>3. Cardinality(launchesOf(cl)) = 0
    BY <2>2, FS_EmptySet
  <2>4. PICK A : A = ListLiveSessionsByClient(rows, cl)
    OBVIOUS
  <2>5. A \subseteq {} \cup {s0}
    BY <1>6, <2>4 DEF ListLiveSessionsByClient, Live, Exists
  <2>6. Cardinality(A) \in Nat /\ Cardinality(A) <= 0 + 1
    BY <2>5, FS_EmptySet, OneMore
  <2> QED BY <2>1, <2>3, <2>4, <2>6
<1> QED BY <1>6, <1>8, <1>9, <1>10, <1>11, <1>12, <1>13, <1>14, <1>15
        DEF AdmissionIInv, TypeOK, RunningIsAdoptable

LEMMA AdmissionStep ==
    ASSUME AdmissionIInv, [Next]_vars
    PROVE  AdmissionIInv'
<1>1. CASE UNCHANGED vars
  <2>1. UNCHANGED <<rows, owners, launch, admission, memo, lapsed, calls, began>> /\ CapsKept
    BY <1>1 DEF vars, service, CapsKept
  <2>2. RestType'
    BY <1>1 DEF vars, service, AdmissionIInv, TypeOK, RestType
  <2> QED BY <2>1, <2>2, BindingStep
<1>2. ASSUME NEW c \in Calls, Call(c) \/ CallStep(c) \/ RepeatGivesUp(c) \/ Lapse(c)
      PROVE  AdmissionIInv'
  BY <1>2, CreateStep, PromptStep, doStep, RepeatAnsweredStep, KeyDoneStep, startTurnStep,
     SendPromptStep, checkQuotasStep, checkPendingStep, AcceptCreateStep, claimReviveStep,
     ReviveTurnStep, RepeatGivesUpStep, LapseStep
     DEF Call, CallStep, admit
<1>3. ASSUME NEW s \in Sessions, Launch(s) \/ detach(s) \/ StopEnds(s) \/ reconcile(s)
      PROVE  AdmissionIInv'
  BY <1>3, beginLaunchStep, PrepareStep, CreateRunStep, ActivateStep, LinkStep, RunsStep,
     recordApproverStep, LinkFailsStep, LaunchFailsStep, detachStep, StopEndsStep, reconcileStep
     DEF Launch
<1>4. ASSUME NEW cl \in Clients, Rebind(cl) \/ Refill(cl) PROVE AdmissionIInv'
  BY <1>4, RebindStep, RefillStep
<1> QED BY <1>1, <1>2, <1>3, <1>4 DEF Next

\* A remembered key has one turn, and a turn one key or one call.
LEMMA KeysStartOne ==
    ASSUME AdmissionIInv
    PROVE  KeyStartsOneTurn
<1>1. ASSUME NEW s \in Sessions, NEW k \in Keys PROVE Cardinality(began[s][k]) <= 1
  <2>1. began[s][k] = {} \/ \E t : began[s][k] = {t}
    <3>1. MemoAt(s, k)
      BY DEF AdmissionIInv, KeyInv
    <3> QED BY <3>1 DEF MemoAt
  <2>2. CASE began[s][k] = {}
    BY <2>2, FS_EmptySet
  <2>3. CASE \E t : began[s][k] = {t}
    BY <2>3, FS_Singleton
  <2> QED BY <2>1, <2>2, <2>3
<1>2. ASSUME NEW c \in Calls, NEW d \in Calls,
             c # d, At(c, "ok"), At(d, "ok"),
             calls[c].op = "prompt", calls[d].op = "prompt",
             calls[c].session = calls[d].session, calls[c].turn = calls[d].turn
      PROVE  calls[c].key = calls[d].key /\ calls[c].key # NoKey
  BY <1>2 DEF AdmissionIInv, TurnInv, SameTurn, Turned, At
<1> QED BY <1>1, <1>2 DEF KeyStartsOneTurn

\* Whatever calls, launches, stops and faults meet, the quotas hold, a running
\* row can be adopted, a remembered key starts one turn, and the calls, the
\* launches, the lock and the keys fit together (admit, promptKeys.do).
THEOREM AdmissionInvariant == Spec => []AdmissionInv
<1>1. AdmissionIInv => AdmissionInv
  BY KeysStartOne DEF AdmissionInv, AdmissionIInv
<1> QED BY <1>1, AdmissionInit, AdmissionStep, PTL DEF Spec

\* A client never has more live sessions, nor more launches that wait for an
\* approval, than its binding allows (checkQuotas, checkPending under
\* admissionMu).
THEOREM QuotasAlwaysHold == Spec => []QuotasHold
<1>1. AdmissionInv => QuotasHold
  BY DEF AdmissionInv
<1> QED BY <1>1, AdmissionInvariant, PTL

\* A restart at any moment finds running sessions that it can adopt.
THEOREM AlwaysAdoptable == Spec => []RunningIsAdoptable
<1>1. AdmissionInv => RunningIsAdoptable
  BY DEF AdmissionInv
<1> QED BY <1>1, AdmissionInvariant, PTL

\* A repeated prompt never starts a second turn while its key is remembered
\* (promptKeys.do).
THEOREM OneTurnPerKey == Spec => []KeyStartsOneTurn
<1>1. AdmissionInv => KeyStartsOneTurn
  BY DEF AdmissionInv
<1> QED BY <1>1, AdmissionInvariant, PTL

\* Nobody waits for somebody who waits: neither at the admission lock nor for
\* the answer to a key.
THEOREM WaitersServed == Spec => []WaitersAreServed
<1>1. AdmissionInv => WaitersAreServed
  BY DEF AdmissionInv, WaitersAreServed, CallInv, CallOk, WaitAt, At, LockInv
<1> QED BY <1>1, AdmissionInvariant, PTL

=============================================================================
