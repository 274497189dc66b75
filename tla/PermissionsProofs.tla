-------------------------- MODULE PermissionsProofs --------------------------
(***************************************************************************)
(* Theorems about Permissions, for any number of requests, options, calls  *)
(* and faults, without the rare faults: whoever closes a request, and      *)
(* whatever is lost on the way, the log tells one answer and the agent got *)
(* that one.                                                               *)
(*                                                                         *)
(* The invariant is DecisionInv.  A request that has a waiter is open; the *)
(* one who takes the waiter decides alone, under permMu; the decision is   *)
(* saved before anyone is told of it and deleted only once no State frame  *)
(* on its way can say that the pod still waits.                            *)
(***************************************************************************)
EXTENDS Permissions, FiniteSetTheorems, SequenceTheorems, TLAPS

-----------------------------------------------------------------------------
(* Sequences.                                                              *)

LEMMA TailOf ==
    ASSUME NEW S, NEW s \in Seq(S), s # <<>>
    PROVE  /\ Head(s) = s[1] /\ Head(s) \in S /\ 1 \in DOMAIN s
           /\ Tail(s) \in Seq(S) /\ Len(Tail(s)) = Len(s) - 1
           /\ \A i \in DOMAIN Tail(s) : i + 1 \in DOMAIN s /\ Tail(s)[i] = s[i + 1] /\ i + 1 > 1
           /\ \A i \in DOMAIN s : i > 1 => i - 1 \in DOMAIN Tail(s) /\ Tail(s)[i - 1] = s[i]
  OBVIOUS

LEMMA AppendTo ==
    ASSUME NEW S, NEW s \in Seq(S), NEW e \in S
    PROVE  /\ Append(s, e) \in Seq(S) /\ Len(Append(s, e)) = Len(s) + 1
           /\ Append(s, e)[Len(s) + 1] = e /\ Len(s) + 1 \in DOMAIN Append(s, e)
           /\ \A i \in DOMAIN s : i \in DOMAIN Append(s, e) /\ Append(s, e)[i] = s[i] /\ i < Len(s) + 1
           /\ \A i \in DOMAIN Append(s, e) : i \in DOMAIN s \/ i = Len(s) + 1
  OBVIOUS

LEMMA SuffixOf ==
    ASSUME NEW S, NEW s \in Seq(S), NEW k \in 0..Len(s)
    PROVE  /\ SubSeq(s, k + 1, Len(s)) \in Seq(S)
           /\ \A i \in DOMAIN SubSeq(s, k + 1, Len(s)) :
                i + k \in DOMAIN s /\ SubSeq(s, k + 1, Len(s))[i] = s[i + k]
  OBVIOUS

LEMMA ConcatOf ==
    ASSUME NEW S, NEW s \in Seq(S), NEW t \in Seq(S)
    PROVE  /\ s \o t \in Seq(S)
           /\ \A i \in DOMAIN (s \o t) :
                \/ i \in DOMAIN s /\ (s \o t)[i] = s[i]
                \/ \E j \in DOMAIN t : (s \o t)[i] = t[j]
<1>1. s \o t \in Seq(S) /\ Len(s \o t) = Len(s) + Len(t)
  OBVIOUS
<1>2. ASSUME NEW i \in DOMAIN (s \o t), i \notin DOMAIN s
      PROVE  i - Len(s) \in DOMAIN t /\ (s \o t)[i] = t[i - Len(s)]
  BY <1>2, <1>1
<1>3. \A i \in DOMAIN s : (s \o t)[i] = s[i]
  OBVIOUS
<1> QED BY <1>1, <1>2, <1>3

LEMMA FunctionIsSeq ==
    ASSUME NEW S, NEW n \in Nat, NEW f \in [1..n -> S]
    PROVE  f \in Seq(S) /\ Len(f) = n /\ DOMAIN f = 1..n
<1>1. f \in Seq(S)
  BY SeqDef
<1>2. DOMAIN f = 1..n
  OBVIOUS
<1> QED BY <1>1, <1>2

\* The elements of a finite set, in some order.
LEMMA SetToSeqOf ==
    ASSUME NEW S, IsFiniteSet(S)
    PROVE  \E n \in Nat : SetToSeq(S) \in [1..n -> S]
<1>1. Cardinality(S) \in Nat /\ ExistsBijection(1..Cardinality(S), S)
  BY FS_CardinalityType
<1>2. PICK f \in [1..Cardinality(S) -> S] : IsInjective(f)
  BY <1>1 DEF ExistsBijection, Bijection, Injection, IsInjective
<1>3. SetToSeq(S) \in [1..Cardinality(S) -> S]
  BY <1>2 DEF SetToSeq
<1> QED BY <1>1, <1>3

-----------------------------------------------------------------------------
(* The store.                                                              *)

\* The log grows by one event or not at all.
Grew(e) ==
    \/ log' = log
    \/ /\ log' \in Seq(Entry) /\ Len(log') = Len(log) + 1
       /\ log'[Len(log) + 1] = e
       /\ \A i \in 1..Len(log) : log'[i] = log[i]

LEMMA Recorded ==
    ASSUME StoreType, NEW e \in Entry, recordEvent(e)
    PROVE  /\ Grew(e)
           /\ ~ended => \E i \in DOMAIN log' : log'[i] = e
<1>0. log \in Seq(Entry) /\ Len(log) \in Nat
  BY DEF StoreType
<1>1. CASE ended
  BY <1>1 DEF recordEvent, Grew
<1>2. CASE ~ended
  <2> DEFINE n == Len(log) + 1
  <2>1. log' = [k \in 1..n |-> IF k = n THEN e ELSE log[k]]
    BY <1>2 DEF recordEvent, Store!InsertSessionEvent, Store!NextSessionEventSeq
  <2>2. log' \in [1..n -> Entry]
    BY <2>1, <1>0
  <2>3. n \in Nat
    BY <1>0
  <2> HIDE DEF n
  <2>4. log' \in Seq(Entry) /\ Len(log') = n /\ DOMAIN log' = 1..n
    BY <2>2, <2>3, FunctionIsSeq
  <2>5. log'[n] = e /\ \A i \in 1..Len(log) : log'[i] = log[i]
    BY <2>1, <1>0 DEF n
  <2>6. n \in DOMAIN log'
    BY <2>4, <1>0 DEF n
  <2> QED BY <2>4, <2>5, <2>6 DEF Grew, n
<1> QED BY <1>1, <1>2

LEMMA EmitGrew ==
    ASSUME StoreType, NEW e \in Entry, emit(e)
    PROVE  Grew(e)
BY Recorded DEF emit, Grew

\* No trace of an answer is new, and nothing that was asked for is forgotten.
NoNews  == \A r \in Requests, o \in Outcomes : Verdict(r, o)' => Verdict(r, o)
LogKept == \A r \in Requests : InLog(r) => InLog(r)'
LogSame == \A r \in Requests, i \in DOMAIN log' :
             AnswersIt(i, r)' => i \in DOMAIN log /\ AnswersIt(i, r)

LEMMA GrewFacts ==
    ASSUME StoreType, NEW e \in Entry, Grew(e)
    PROVE  /\ log' \in Seq(Entry) /\ LogKept
           /\ \A r \in Requests : InLog(r)' => InLog(r) \/ e = Asked(r)
           /\ \A i \in DOMAIN log' : i \in DOMAIN log \/ i = Len(log) + 1
           /\ \A r \in Requests, i \in DOMAIN log' : AnswersIt(i, r)' =>
                \/ i \in DOMAIN log /\ AnswersIt(i, r) /\ log'[i] = log[i]
                \/ /\ i = Len(log) + 1 /\ e.request = r /\ e.how \notin {None, Superseded}
                   /\ log'[i] = e
<1>0. log \in Seq(Entry) /\ Len(log) \in Nat /\ DOMAIN log = 1..Len(log)
  BY DEF StoreType
<1>1. CASE log' = log
  BY <1>1, <1>0 DEF LogKept, InLog, AnswersIt
<1>2. CASE log' # log
  <2>1. /\ log' \in Seq(Entry) /\ Len(log') = Len(log) + 1
        /\ log'[Len(log) + 1] = e /\ \A i \in DOMAIN log : log'[i] = log[i]
        /\ DOMAIN log' = 1..(Len(log) + 1)
    BY <1>2, <1>0 DEF Grew
  <2>2. \A i \in DOMAIN log' : i \in DOMAIN log \/ i = Len(log) + 1
    BY <2>1, <1>0
  <2>3. \A i \in DOMAIN log : i \in DOMAIN log'
    BY <2>1, <1>0
  <2>4. LogKept /\ \A r \in Requests : InLog(r)' => InLog(r) \/ e = Asked(r)
    BY <2>1, <2>2, <2>3 DEF LogKept, InLog, Asked
  <2>5. \A r \in Requests, i \in DOMAIN log' : AnswersIt(i, r)' =>
          \/ i \in DOMAIN log /\ AnswersIt(i, r) /\ log'[i] = log[i]
          \/ i = Len(log) + 1 /\ e.request = r /\ e.how \notin {None, Superseded} /\ log'[i] = e
    BY <2>1, <2>2 DEF AnswersIt
  <2> QED BY <2>1, <2>2, <2>4, <2>5
<1> QED BY <1>1, <1>2

\* An event that is no answer is no trace of one.
LEMMA GrewQuietly ==
    ASSUME StoreType, NEW e \in Entry, Grew(e), e.how \in {None, Superseded},
           UNCHANGED <<cmds, got, down>>
    PROVE  NoNews /\ LogSame
BY GrewFacts DEF NoNews, LogSame, Verdict

LEMMA Untouched ==
    ASSUME UNCHANGED <<log, cmds, got, down>>
    PROVE  NoNews /\ LogKept /\ LogSame
BY DEF NoNews, LogKept, LogSame, Verdict, InLog, AnswersIt

-----------------------------------------------------------------------------
(* What a step that leaves a part's variables alone does to the part.      *)

LEMMA KeepMu ==
    ASSUME MuHeld, UNCHANGED <<permMu, consumer, expiry, stopper, calls>>
    PROVE  MuHeld'
BY DEF MuHeld

LEMMA KeepStop ==
    ASSUME StopWaits, UNCHANGED <<stopper, closed, consumer, stopped, restarts, ended>>
    PROVE  StopWaits'
BY DEF StopWaits

LEMMA KeepAsked ==
    ASSUME AskedOnce, UNCHANGED <<emitted, perms, got>>
    PROVE  AskedOnce'
BY DEF AskedOnce

LEMMA KeepHandled ==
    ASSUME HandledOnce, UNCHANGED <<emitted, log, podSeq, inbox, delivered, consumer>>
    PROVE  HandledOnce'
BY DEF HandledOnce, InLog

LEMMA KeepFrames ==
    ASSUME FramesInOrder, perms' \subseteq perms, UNCHANGED <<inbox, emitted, delivered>>
    PROVE  FramesInOrder'
BY DEF FramesInOrder

LEMMA KeepVerdict ==
    ASSUME OneVerdict, NoNews, LogKept, LogSame
    PROVE  OneVerdict'
<1>1. \A r \in Requests : Decided(r)' => Decided(r)
  BY DEF NoNews, Decided
<1>2. \A r \in Requests : \A o, p \in Outcomes : Verdict(r, o)' /\ Verdict(r, p)' => o = p
  BY DEF NoNews, OneVerdict
<1>3. \A r \in Requests : \A i, j \in DOMAIN log' : AnswersIt(i, r)' /\ AnswersIt(j, r)' => i = j
  BY DEF LogSame, OneVerdict
<1> QED BY <1>1, <1>2, <1>3 DEF OneVerdict, LogKept, Outcomes

LEMMA KeepOpen ==
    ASSUME OpenWaits, NoNews, LogKept, UNCHANGED <<waiters, fired, consumer>>
    PROVE  OpenWaits'
<1>1. \A r \in Requests : Decided(r)' => Decided(r)
  BY DEF NoNews, Decided
<1> QED BY <1>1 DEF OpenWaits, LogKept

\* Nobody decides.
NoClaims ==
    /\ expiry.at = "idle"
    /\ \A c \in Callers : calls[c].at \notin {"save", "emit", "decide"}

LEMMA NobodyDecides ==
    ASSUME MuHeld, BindType, permMu \notin Callers \cup {"timer"}
    PROVE  NoClaims
BY DEF MuHeld, NoClaims

\* A record that decides nothing claims nothing but that its request is known.
LEMMA LockKeeps ==
    ASSUME NEW x, x.at \notin {"save", "emit", "decide"}, ClaimOf(x), LogKept
    PROVE  ClaimOf(x)'
BY DEF ClaimOf, LogKept

LEMMA ClaimKeeps ==
    ASSUME NEW x, ClaimOf(x), NoNews, LogKept, LogSame, cmds' = cmds,
           \A r \in Requests : waiters[r] = "no" /\ InLog(r) => waiters'[r] = "no"
    PROVE  ClaimOf(x)'
<1>1. CASE x.at \in {"save", "emit", "decide"}
  <2>1. x.req \in Requests /\ InLog(x.req) /\ waiters[x.req] = "no" /\ x.opt \in Outcomes
    BY <1>1 DEF ClaimOf
  <2>2. InLog(x.req)' /\ waiters'[x.req] = "no" /\ cmds'[x.req] = cmds[x.req]
    BY <2>1 DEF LogKept
  <2>3. ~Decided(x.req) => ~Decided(x.req)'
    BY <2>1 DEF NoNews, Decided, Outcomes
  <2>4. (\A i \in DOMAIN log : ~AnswersIt(i, x.req))
          => \A i \in DOMAIN log' : ~AnswersIt(i, x.req)'
    BY <2>1 DEF LogSame
  <2>5. x.opt \in Outcomes'
    BY <2>1 DEF Outcomes
  <2> QED BY <1>1, <2>1, <2>2, <2>3, <2>4, <2>5 DEF ClaimOf
<1>2. CASE x.at \notin {"save", "emit", "decide"}
  BY <1>2, LockKeeps
<1> QED BY <1>1, <1>2

LEMMA KeepClaims ==
    ASSUME Claims, NoNews, LogKept, LogSame, UNCHANGED <<expiry, calls, cmds>>,
           \A r \in Requests : waiters[r] = "no" /\ InLog(r) => waiters'[r] = "no"
    PROVE  Claims'
<1>1. ClaimOf(expiry)'
  <2>1. PICK x : x = expiry /\ x = expiry'
    OBVIOUS
  <2>2. ClaimOf(x)
    BY <2>1 DEF Claims
  <2>3. ClaimOf(x)'
    BY <2>2, ClaimKeeps
  <2> QED BY <2>1, <2>3 DEF ClaimOf
<1>2. ASSUME NEW c \in Callers PROVE ClaimOf(calls[c])'
  <2>1. PICK x : x = calls[c] /\ x = calls'[c]
    OBVIOUS
  <2>2. ClaimOf(x)
    BY <2>1 DEF Claims
  <2>3. ClaimOf(x)'
    BY <2>2, ClaimKeeps
  <2> QED BY <2>1, <2>3 DEF ClaimOf
<1> QED BY <1>1, <1>2 DEF Claims

\* While nobody decides, waiters and rows may change.
LEMMA FreeClaims ==
    ASSUME Claims, NoClaims, LogKept, UNCHANGED <<expiry, calls>>
    PROVE  Claims'
<1>1. ClaimOf(expiry)'
  <2>1. PICK x : x = expiry /\ x = expiry'
    OBVIOUS
  <2>2. ClaimOf(x) /\ x.at \notin {"save", "emit", "decide"}
    BY <2>1 DEF Claims, NoClaims
  <2>3. ClaimOf(x)'
    BY <2>2, LockKeeps
  <2> QED BY <2>1, <2>3 DEF ClaimOf
<1>2. ASSUME NEW c \in Callers PROVE ClaimOf(calls[c])'
  <2>1. PICK x : x = calls[c] /\ x = calls'[c]
    OBVIOUS
  <2>2. ClaimOf(x) /\ x.at \notin {"save", "emit", "decide"}
    BY <2>1 DEF Claims, NoClaims
  <2>3. ClaimOf(x)'
    BY <2>2, LockKeeps
  <2> QED BY <2>1, <2>3 DEF ClaimOf
<1> QED BY <1>1, <1>2 DEF Claims

\* One call goes on, while nobody else decides.
LEMMA CallClaims ==
    ASSUME Claims, LogKept, NEW c \in Callers, calls \in [Callers -> CallState],
           expiry' = expiry, expiry.at = "idle",
           \A d \in Callers \ {c} : calls'[d] = calls[d] /\ calls[d].at \notin {"save", "emit", "decide"},
           ClaimOf(calls[c])'
    PROVE  Claims'
<1>1. ClaimOf(expiry)'
  <2>1. PICK x : x = expiry /\ x = expiry'
    OBVIOUS
  <2>2. ClaimOf(x) /\ x.at \notin {"save", "emit", "decide"}
    BY <2>1 DEF Claims
  <2>3. ClaimOf(x)'
    BY <2>2, LockKeeps
  <2> QED BY <2>1, <2>3 DEF ClaimOf
<1>2. ASSUME NEW d \in Callers, d # c PROVE ClaimOf(calls[d])'
  <2>1. PICK x : x = calls[d] /\ x = calls'[d]
    BY <1>2
  <2>2. ClaimOf(x) /\ x.at \notin {"save", "emit", "decide"}
    BY <1>2, <2>1 DEF Claims
  <2>3. ClaimOf(x)'
    BY <2>2, LockKeeps
  <2> QED BY <2>1, <2>3 DEF ClaimOf
<1> QED BY <1>1, <1>2 DEF Claims

\* The expiry goes on, while no call decides.
LEMMA TimerClaims ==
    ASSUME Claims, LogKept, calls' = calls, ClaimOf(expiry)',
           \A d \in Callers : calls[d].at \notin {"save", "emit", "decide"}
    PROVE  Claims'
<1>2. ASSUME NEW d \in Callers PROVE ClaimOf(calls[d])'
  <2>1. PICK x : x = calls[d] /\ x = calls'[d]
    BY <1>2
  <2>2. ClaimOf(x) /\ x.at \notin {"save", "emit", "decide"}
    BY <1>2, <2>1 DEF Claims
  <2>3. ClaimOf(x)'
    BY <2>2, LockKeeps
  <2> QED BY <2>1, <2>3 DEF ClaimOf
<1> QED BY <1>2 DEF Claims

LEMMA KeepSupersedes ==
    ASSUME Supersedes, UNCHANGED <<consumer, cmds>>,
           \A r \in Requests : waiters[r] # "no" => waiters'[r] # "no"
    PROVE  Supersedes'
BY DEF Supersedes

LEMMA KeepSettled ==
    ASSUME SettledForGood, NoNews, perms' \subseteq perms,
           \A r \in Requests : cmds'[r] = None => cmds[r] = None,
           UNCHANGED <<inbox, consumer, stopper>>
    PROVE  SettledForGood'
<1>1. \A r \in Requests : Decided(r)' => Decided(r)
  BY DEF NoNews, Decided
<1> QED BY <1>1 DEF SettledForGood

-----------------------------------------------------------------------------
(* The agent and its runner.                                               *)

LEMMA KeepBindType ==
    ASSUME BindType, UNCHANGED bindVars
    PROVE  BindType'
BY DEF BindType, bindVars

LEMMA KeepSinkType ==
    ASSUME SinkType, UNCHANGED sinkVars
    PROVE  SinkType'
BY DEF SinkType, sinkVars

LEMMA KeepFaultType ==
    ASSUME FaultType, UNCHANGED faultVars
    PROVE  FaultType'
BY DEF FaultType, faultVars

LEMMA KeepStoreType ==
    ASSUME StoreType, UNCHANGED <<log, cmds, ended>>
    PROVE  StoreType'
BY DEF StoreType, Outcomes

LEMMA KeepPodType ==
    ASSUME PodType, UNCHANGED podVars
    PROVE  PodType'
BY DEF PodType, podVars, Outcomes

LEMMA KeepLinkType ==
    ASSUME LinkType, UNCHANGED <<stream, inbox, delivered, down, podSeq, emitted>>
    PROVE  LinkType'
BY DEF LinkType

LEMMA Parts ==
    ASSUME DecisionInv
    PROVE  /\ PodType /\ LinkType /\ StoreType /\ SinkType /\ BindType /\ FaultType
           /\ MuHeld /\ StopWaits /\ AskedOnce /\ HandledOnce /\ FramesInOrder
           /\ OneVerdict /\ OpenWaits /\ Claims /\ Supersedes /\ SettledForGood
BY DEF DecisionInv, TypeOK

LEMMA RequestStep ==
    ASSUME DecisionInv, NEW r \in Requests, RequestPermission(r)
    PROVE  DecisionInv'
<1> USE DEF linkVars, storeVars, sinkVars, bindVars, faultVars
<1>1. /\ perms' = perms \cup {r} /\ emitted' = Append(emitted, r)
      /\ got[r] = None /\ r \notin perms
      /\ UNCHANGED <<got, agent, linkVars, storeVars, sinkVars, bindVars, faultVars>>
  BY DEF RequestPermission
<1>2. /\ emitted \in Seq(Requests) /\ emitted' \in Seq(Requests)
      /\ Len(emitted') = Len(emitted) + 1 /\ Len(emitted) \in Nat
      /\ emitted'[Len(emitted) + 1] = r /\ Len(emitted) + 1 \in DOMAIN emitted'
      /\ \A n \in DOMAIN emitted :
           n \in DOMAIN emitted' /\ emitted'[n] = emitted[n] /\ n < Len(emitted) + 1
      /\ \A n \in DOMAIN emitted' : n \in DOMAIN emitted \/ n = Len(emitted) + 1
  BY <1>1, Parts, AppendTo DEF PodType
<1>3. \A n \in DOMAIN emitted : emitted[n] # r
  BY <1>1, Parts DEF AskedOnce
<1>4. ~Decided(r)
  BY <1>3, Parts DEF OneVerdict, HandledOnce
<1>5. NoNews /\ LogKept /\ LogSame
  BY <1>1, Untouched
<1>6. delivered \in Nat /\ delivered <= Len(emitted) /\ podSeq \in 0..delivered
  BY <1>2, Parts DEF LinkType
<1>7. PodType'
  BY <1>1, <1>2, Parts DEF PodType, Outcomes
<1>8. LinkType'
  <2>1. delivered \in 0..Len(emitted')
    BY <1>2, <1>6
  <2> QED BY <1>1, <2>1, Parts DEF LinkType
<1>9. TypeOK'
  BY <1>1, <1>7, <1>8, Parts, KeepBindType, KeepSinkType, KeepFaultType, KeepStoreType DEF TypeOK
<1>10. AskedOnce'
  BY <1>1, <1>2, <1>3, Parts DEF AskedOnce
<1>11. HandledOnce'
  BY <1>1, <1>2, Parts DEF HandledOnce, InLog
<1>12. FramesInOrder'
  <2> SUFFICES ASSUME NEW i \in DOMAIN inbox, NEW n \in DOMAIN emitted',
                      inbox[i].type = "state", emitted'[n] \notin inbox[i].pending
               PROVE  \/ n > delivered
                      \/ \E j \in DOMAIN inbox : j > i /\ inbox[j].type = "event" /\ inbox[j].n = n
                      \/ /\ emitted'[n] \notin perms'
                         /\ \A j \in DOMAIN inbox :
                              j > i /\ inbox[j].type = "state" => emitted'[n] \notin inbox[j].pending
    BY <1>1 DEF FramesInOrder
  <2>1. CASE n \in DOMAIN emitted
    <3>1. emitted'[n] = emitted[n] /\ emitted[n] # r
      BY <2>1, <1>2, <1>3
    <3> QED BY <2>1, <3>1, <1>1, Parts DEF FramesInOrder
  <2>2. CASE n = Len(emitted) + 1
    BY <2>2, <1>2, <1>6
  <2> QED BY <2>1, <2>2, <1>2
<1>13. SettledForGood'
  <2>1. \A q \in Requests : Decided(q)' => Decided(q) /\ q # r
    BY <1>4, <1>5 DEF NoNews, Decided, Outcomes
  <2> QED BY <1>1, <2>1, Parts DEF SettledForGood
<1>14. MuHeld' /\ StopWaits' /\ OneVerdict' /\ OpenWaits' /\ Claims' /\ Supersedes'
  BY <1>1, <1>5, Parts, KeepMu, KeepStop, KeepVerdict, KeepOpen, KeepClaims, KeepSupersedes
<1> QED BY <1>9, <1>10, <1>11, <1>12, <1>13, <1>14 DEF DecisionInv

LEMMA decideStep ==
    ASSUME DecisionInv, decide
    PROVE  DecisionInv'
<1> USE DEF storeVars, sinkVars, bindVars, faultVars
<1>1. /\ down # <<>> /\ down' = Tail(down)
      /\ UNCHANGED <<emitted, agent, stream, inbox, delivered, storeVars, sinkVars, bindVars, faultVars>>
  BY DEF decide
<1>2. /\ down \in Seq(Decision) /\ Tail(down) \in Seq(Decision) /\ Head(down) \in Decision
      /\ 1 \in DOMAIN down /\ Head(down) = down[1]
      /\ \A i \in DOMAIN Tail(down) : i + 1 \in DOMAIN down /\ Tail(down)[i] = down[i + 1]
  BY <1>1, Parts, TailOf DEF LinkType
<1>3. PICK d \in Decision : d = Head(down)
  BY <1>2
<1>4. /\ d.req \in Requests /\ d.opt \in Outcomes /\ d.opt # None
      /\ down[1].req = d.req /\ down[1].opt = d.opt
  BY <1>2, <1>3, PermissionsAssumption DEF Decision, Outcomes, None, Cancelled
<1>5. \/ d.req \in perms /\ perms' = perms \ {d.req} /\ got' = [got EXCEPT ![d.req] = d.opt]
      \/ perms' = perms /\ got' = got
  BY <1>3 DEF decide
<1>6. Verdict(d.req, d.opt)
  BY <1>2, <1>4 DEF Verdict
<1>7. got \in [Requests -> Outcomes \cup {None, Dropped}] /\ perms \subseteq Requests
  BY Parts DEF PodType
<1>8. \A r \in Requests : got'[r] = got[r] \/ (r = d.req /\ got'[r] = d.opt)
  <2>1. PICK q \in Requests : q = d.req
    BY <1>4
  <2>2. \/ got' = [got EXCEPT ![q] = d.opt] \/ got' = got
    BY <1>5, <2>1
  <2> QED BY <1>7, <2>1, <2>2
<1>9. NoNews
  BY <1>1, <1>2, <1>6, <1>8 DEF NoNews, Verdict, AnswersIt
<1>10. LogKept /\ LogSame
  BY <1>1 DEF LogKept, LogSame, InLog, AnswersIt
<1>11. PodType'
  BY <1>1, <1>4, <1>5, <1>7, Parts DEF PodType, Outcomes
<1>12. LinkType'
  BY <1>1, <1>2, Parts DEF LinkType
<1>13. TypeOK'
  BY <1>1, <1>11, <1>12, Parts, KeepBindType, KeepSinkType, KeepFaultType, KeepStoreType DEF TypeOK
<1>14. AskedOnce'
  <2>1. \A r \in Requests : r \in perms \/ got[r] # None => r \in perms' \/ got'[r] # None
    BY <1>4, <1>5, <1>7
  <2>2. \A n \in DOMAIN emitted : emitted[n] \in Requests
    BY Parts DEF PodType
  <2> QED BY <2>1, <2>2, <1>1, Parts DEF AskedOnce
<1>15. perms' \subseteq perms
  BY <1>5
<1>16. MuHeld' /\ StopWaits' /\ HandledOnce' /\ FramesInOrder' /\ OneVerdict' /\ OpenWaits'
  BY <1>1, <1>9, <1>10, <1>15, Parts, KeepMu, KeepStop, KeepHandled, KeepFrames, KeepVerdict, KeepOpen
<1>17. Claims' /\ Supersedes' /\ SettledForGood'
  BY <1>1, <1>9, <1>10, <1>15, Parts, KeepClaims, KeepSupersedes, KeepSettled
<1> QED BY <1>13, <1>14, <1>16, <1>17 DEF DecisionInv

\* The agent is gone: whatever it waited for is dropped.
LEMMA AgentGone ==
    ASSUME DecisionInv, got' = [r \in Requests |-> IF r \in perms THEN Dropped ELSE got[r]],
           perms' = {}, UNCHANGED <<emitted, log, cmds, down>>
    PROVE  /\ NoNews /\ LogKept /\ LogSame /\ AskedOnce'
           /\ got' \in [Requests -> Outcomes \cup {None, Dropped}]
<1>1. Dropped \notin Outcomes /\ Dropped # None
  BY PermissionsAssumption DEF Outcomes, Dropped, Cancelled, None
<1>2. got \in [Requests -> Outcomes \cup {None, Dropped}] /\ \A n \in DOMAIN emitted : emitted[n] \in Requests
  BY Parts DEF PodType
<1>3. \A r \in Requests : got'[r] = got[r] \/ got'[r] = Dropped
  OBVIOUS
<1>4. NoNews
  BY <1>1, <1>3 DEF NoNews, Verdict, AnswersIt
<1>5. LogKept /\ LogSame
  BY DEF LogKept, LogSame, InLog, AnswersIt
<1>6. AskedOnce'
  BY <1>1, <1>2, Parts DEF AskedOnce
<1> QED BY <1>2, <1>4, <1>5, <1>6

LEMMA DropPermissionsStep ==
    ASSUME DecisionInv, dropPermissions
    PROVE  DecisionInv'
<1> USE DEF linkVars, storeVars, sinkVars, bindVars, faultVars
<1>1. /\ got' = [r \in Requests |-> IF r \in perms THEN Dropped ELSE got[r]] /\ perms' = {}
      /\ agent' = "exited"
      /\ UNCHANGED <<emitted, linkVars, storeVars, sinkVars, bindVars, faultVars>>
  BY DEF dropPermissions
<1>2. /\ NoNews /\ LogKept /\ LogSame /\ AskedOnce'
      /\ got' \in [Requests -> Outcomes \cup {None, Dropped}]
  BY <1>1, AgentGone
<1>3. TypeOK'
  <2>1. PodType'
    BY <1>1, <1>2, Parts DEF PodType, Outcomes
  <2> QED BY <2>1, <1>1, Parts, KeepLinkType, KeepBindType, KeepSinkType, KeepFaultType, KeepStoreType
          DEF TypeOK
<1>4. perms' \subseteq perms
  BY <1>1
<1>5. MuHeld' /\ StopWaits' /\ HandledOnce' /\ FramesInOrder' /\ OneVerdict' /\ OpenWaits'
  BY <1>1, <1>2, <1>4, Parts, KeepMu, KeepStop, KeepHandled, KeepFrames, KeepVerdict, KeepOpen
<1>6. Claims' /\ Supersedes' /\ SettledForGood'
  BY <1>1, <1>2, <1>4, Parts, KeepClaims, KeepSupersedes, KeepSettled
<1> QED BY <1>2, <1>3, <1>5, <1>6 DEF DecisionInv

LEMMA StopEndsStep ==
    ASSUME DecisionInv, StopEnds
    PROVE  DecisionInv'
<1> USE DEF linkVars, sinkVars, bindVars, faultVars
<1>1. /\ got' = [r \in Requests |-> IF r \in perms THEN Dropped ELSE got[r]] /\ perms' = {}
      /\ agent' = "exited" /\ ended' = TRUE /\ stopper.at = "teardown"
      /\ UNCHANGED <<emitted, linkVars, podSeq, log, cmds, sinkVars, bindVars, faultVars>>
  BY DEF StopEnds
<1>2. /\ NoNews /\ LogKept /\ LogSame /\ AskedOnce'
      /\ got' \in [Requests -> Outcomes \cup {None, Dropped}]
  BY <1>1, AgentGone
<1>3. TypeOK'
  <2>1. PodType'
    BY <1>1, <1>2, Parts DEF PodType, Outcomes
  <2>2. StoreType'
    BY <1>1, Parts DEF StoreType, Outcomes
  <2> QED BY <2>1, <2>2, <1>1, Parts, KeepLinkType, KeepBindType, KeepSinkType, KeepFaultType
          DEF TypeOK
<1>4. perms' \subseteq perms
  BY <1>1
<1>5. StopWaits'
  BY <1>1, Parts DEF StopWaits
<1>6. MuHeld' /\ HandledOnce' /\ FramesInOrder' /\ OneVerdict' /\ OpenWaits'
  BY <1>1, <1>2, <1>4, Parts, KeepMu, KeepHandled, KeepFrames, KeepVerdict, KeepOpen
<1>7. Claims' /\ Supersedes' /\ SettledForGood'
  BY <1>1, <1>2, <1>4, Parts, KeepClaims, KeepSupersedes, KeepSettled
<1> QED BY <1>2, <1>3, <1>5, <1>6, <1>7 DEF DecisionInv

-----------------------------------------------------------------------------
(* The link.                                                               *)

\* A frame at the end of the inbox.
LEMMA InboxGrows ==
    ASSUME LinkType, NEW f \in Frame, inbox' = Append(inbox, f), Len(inbox) < InboxMax
    PROVE  /\ inbox' \in Seq(Frame) /\ Len(inbox') <= InboxMax
           /\ inbox'[Len(inbox) + 1] = f /\ Len(inbox) + 1 \in DOMAIN inbox'
           /\ \A i \in DOMAIN inbox :
                i \in DOMAIN inbox' /\ inbox'[i] = inbox[i] /\ i < Len(inbox) + 1
           /\ \A i \in DOMAIN inbox' : i \in DOMAIN inbox \/ i = Len(inbox) + 1
<1>1. inbox \in Seq(Frame) /\ Len(inbox) \in Nat /\ InboxMax \in Nat
  BY PermissionsAssumption DEF LinkType
<1>2. /\ inbox' \in Seq(Frame) /\ Len(inbox') = Len(inbox) + 1
      /\ inbox'[Len(inbox) + 1] = f /\ Len(inbox) + 1 \in DOMAIN inbox'
      /\ \A i \in DOMAIN inbox :
           i \in DOMAIN inbox' /\ inbox'[i] = inbox[i] /\ i < Len(inbox) + 1
      /\ \A i \in DOMAIN inbox' : i \in DOMAIN inbox \/ i = Len(inbox) + 1
  BY <1>1, AppendTo
<1> QED BY <1>1, <1>2

LEMMA FrameFacts ==
    /\ \A ps \in SUBSET Requests : /\ StateFrame(ps) \in Frame /\ StateFrame(ps).type = "state"
                                   /\ StateFrame(ps).pending = ps
    /\ \A k \in Nat : /\ EventFrame(k) \in Frame /\ EventFrame(k).type = "event" /\ EventFrame(k).n = k
BY DEF StateFrame, EventFrame, Frame

LEMMA AttachStep ==
    ASSUME DecisionInv, Attach
    PROVE  DecisionInv'
<1> USE DEF podVars, storeVars, sinkVars, bindVars, faultVars
<1>1. /\ stream' = TRUE /\ inbox' = Append(inbox, StateFrame(perms)) /\ Len(inbox) < InboxMax
      /\ closed = Nobody
      /\ UNCHANGED <<podVars, delivered, down, storeVars, sinkVars, bindVars, faultVars>>
  BY DEF Attach
<1>2. PICK f \in Frame : f = StateFrame(perms) /\ f.type = "state" /\ f.pending = perms
  BY Parts, FrameFacts DEF PodType
<1>3. /\ inbox' \in Seq(Frame) /\ Len(inbox') <= InboxMax
      /\ inbox'[Len(inbox) + 1] = f /\ Len(inbox) + 1 \in DOMAIN inbox'
      /\ \A i \in DOMAIN inbox :
           i \in DOMAIN inbox' /\ inbox'[i] = inbox[i] /\ i < Len(inbox) + 1
      /\ \A i \in DOMAIN inbox' : i \in DOMAIN inbox \/ i = Len(inbox) + 1
  BY <1>1, <1>2, Parts, InboxGrows
<1>4. NoNews /\ LogKept /\ LogSame
  BY <1>1, Untouched
<1>5. TypeOK'
  <2>1. LinkType'
    BY <1>1, <1>3, Parts DEF LinkType
  <2> QED BY <2>1, <1>1, Parts, KeepPodType, KeepBindType, KeepSinkType, KeepFaultType, KeepStoreType
          DEF TypeOK
<1>6. HandledOnce'
  <2>1. \A i \in DOMAIN inbox' : inbox'[i].type = "event" => i \in DOMAIN inbox /\ inbox'[i] = inbox[i]
    BY <1>2, <1>3
  <2> QED BY <2>1, <1>1, Parts DEF HandledOnce, InLog
<1>7. FramesInOrder'
  <2> SUFFICES ASSUME NEW i \in DOMAIN inbox', NEW n \in DOMAIN emitted,
                      inbox'[i].type = "state", emitted[n] \notin inbox'[i].pending
               PROVE  \/ n > delivered
                      \/ \E j \in DOMAIN inbox' : j > i /\ inbox'[j].type = "event" /\ inbox'[j].n = n
                      \/ /\ emitted[n] \notin perms
                         /\ \A j \in DOMAIN inbox' :
                              j > i /\ inbox'[j].type = "state" => emitted[n] \notin inbox'[j].pending
    BY <1>1 DEF FramesInOrder
  <2>0. Len(inbox) \in Nat /\ \A k \in DOMAIN inbox : k \in Nat
    BY Parts DEF LinkType
  <2>1. CASE i \in DOMAIN inbox
    <3>1. inbox'[i] = inbox[i]
      BY <2>1, <1>3
    <3>2. \/ n > delivered
          \/ \E j \in DOMAIN inbox : j > i /\ inbox[j].type = "event" /\ inbox[j].n = n
          \/ /\ emitted[n] \notin perms
             /\ \A j \in DOMAIN inbox :
                  j > i /\ inbox[j].type = "state" => emitted[n] \notin inbox[j].pending
      BY <2>1, <3>1, Parts DEF FramesInOrder
    <3> QED BY <3>2, <1>2, <1>3
  <2>2. CASE i = Len(inbox) + 1
    <3>1. emitted[n] \notin perms
      BY <2>2, <1>2, <1>3
    <3>2. \A j \in DOMAIN inbox' : ~(j > i)
      BY <2>0, <2>2, <1>3
    <3> QED BY <3>1, <3>2
  <2> QED BY <2>1, <2>2, <1>3
<1>8. SettledForGood'
  <2>1. \A r \in Requests : Decided(r)' => Decided(r)
    BY <1>4 DEF NoNews, Decided
  <2>2. ASSUME NEW r \in Requests, Decided(r), cmds[r] = None, stopper.at # "teardown"
        PROVE  \A i \in DOMAIN inbox' : inbox'[i].type = "state" => r \notin inbox'[i].pending
    BY <2>2, <1>2, <1>3, Parts DEF SettledForGood
  <2> QED BY <2>1, <2>2, <1>1, Parts DEF SettledForGood
<1>9. MuHeld' /\ StopWaits' /\ AskedOnce' /\ OneVerdict' /\ OpenWaits' /\ Claims' /\ Supersedes'
  BY <1>1, <1>4, Parts, KeepMu, KeepStop, KeepAsked, KeepVerdict, KeepOpen, KeepClaims, KeepSupersedes
<1> QED BY <1>5, <1>6, <1>7, <1>8, <1>9 DEF DecisionInv

LEMMA DeliverStep ==
    ASSUME DecisionInv, Deliver
    PROVE  DecisionInv'
<1> USE DEF podVars, storeVars, sinkVars, bindVars, faultVars
<1>1. /\ delivered < Len(emitted) /\ Len(inbox) < InboxMax /\ delivered' = delivered + 1
      /\ inbox' = Append(inbox, EventFrame(delivered + 1))
      /\ UNCHANGED <<podVars, stream, down, storeVars, sinkVars, bindVars, faultVars>>
  BY DEF Deliver
<1>0. /\ delivered \in Nat /\ podSeq \in Nat /\ podSeq <= delivered /\ Len(emitted) \in Nat
      /\ Len(inbox) \in Nat /\ \A k \in DOMAIN inbox : k \in Nat
      /\ DOMAIN emitted = 1..Len(emitted)
  BY Parts DEF LinkType, PodType
<1>2. PICK f \in Frame : f = EventFrame(delivered + 1) /\ f.type = "event" /\ f.n = delivered + 1
  BY <1>0, FrameFacts
<1>3. /\ inbox' \in Seq(Frame) /\ Len(inbox') <= InboxMax
      /\ inbox'[Len(inbox) + 1] = f /\ Len(inbox) + 1 \in DOMAIN inbox'
      /\ \A i \in DOMAIN inbox :
           i \in DOMAIN inbox' /\ inbox'[i] = inbox[i] /\ i < Len(inbox) + 1
      /\ \A i \in DOMAIN inbox' : i \in DOMAIN inbox \/ i = Len(inbox) + 1
  BY <1>1, <1>2, Parts, InboxGrows
<1>4. NoNews /\ LogKept /\ LogSame
  BY <1>1, Untouched
<1>5. TypeOK'
  <2>1. LinkType'
    BY <1>0, <1>1, <1>3, Parts DEF LinkType
  <2> QED BY <2>1, <1>1, Parts, KeepPodType, KeepBindType, KeepSinkType, KeepFaultType, KeepStoreType
          DEF TypeOK
<1>6. HandledOnce'
  <2>1. \A i \in DOMAIN inbox' : inbox'[i].type = "event" => inbox'[i].n \in (podSeq + 1)..delivered'
    BY <1>0, <1>1, <1>2, <1>3, Parts DEF HandledOnce
  <2>2. \A i, j \in DOMAIN inbox' :
          i < j /\ inbox'[i].type = "event" /\ inbox'[j].type = "event" => inbox'[i].n < inbox'[j].n
    <3> SUFFICES ASSUME NEW i \in DOMAIN inbox', NEW j \in DOMAIN inbox', i < j,
                        inbox'[i].type = "event", inbox'[j].type = "event"
                 PROVE  inbox'[i].n < inbox'[j].n
      OBVIOUS
    <3>1. i \in DOMAIN inbox
      BY <1>0, <1>3
    <3>2. inbox[i].type = "event" /\ inbox[i].n \in (podSeq + 1)..delivered /\ inbox'[i] = inbox[i]
      BY <3>1, <1>3, Parts DEF HandledOnce
    <3>3. CASE j \in DOMAIN inbox
      BY <3>1, <3>2, <3>3, <1>3, Parts DEF HandledOnce
    <3>4. CASE j = Len(inbox) + 1
      BY <3>2, <3>4, <1>0, <1>2, <1>3
    <3> QED BY <3>3, <3>4, <1>3
  <2>3. ASSUME consumer.at = "record"
        PROVE  \E n \in DOMAIN emitted :
                  /\ consumer.left = {n} /\ emitted[n] = consumer.req /\ n \in (podSeq + 1)..delivered'
                  /\ \A i \in DOMAIN inbox' : inbox'[i].type = "event" => n < inbox'[i].n
    <3>1. PICK n \in DOMAIN emitted :
                  /\ consumer.left = {n} /\ emitted[n] = consumer.req /\ n \in (podSeq + 1)..delivered
                  /\ \A i \in DOMAIN inbox : inbox[i].type = "event" => n < inbox[i].n
      BY <2>3, Parts DEF HandledOnce
    <3>2. n \in (podSeq + 1)..delivered' /\ n < delivered + 1
      BY <3>1, <1>0, <1>1
    <3>3. \A i \in DOMAIN inbox' : inbox'[i].type = "event" => n < inbox'[i].n
      BY <3>1, <3>2, <1>2, <1>3
    <3> QED BY <3>1, <3>2, <3>3
  <2> QED BY <2>1, <2>2, <2>3, <1>1, Parts DEF HandledOnce, InLog
<1>7. FramesInOrder'
  <2> SUFFICES ASSUME NEW i \in DOMAIN inbox', NEW n \in DOMAIN emitted,
                      inbox'[i].type = "state", emitted[n] \notin inbox'[i].pending
               PROVE  \/ n > delivered'
                      \/ \E j \in DOMAIN inbox' : j > i /\ inbox'[j].type = "event" /\ inbox'[j].n = n
                      \/ /\ emitted[n] \notin perms
                         /\ \A j \in DOMAIN inbox' :
                              j > i /\ inbox'[j].type = "state" => emitted[n] \notin inbox'[j].pending
    BY <1>1 DEF FramesInOrder
  <2>1. i \in DOMAIN inbox /\ inbox'[i] = inbox[i] /\ i < Len(inbox) + 1
    BY <1>2, <1>3
  <2>2. \/ n > delivered
        \/ \E j \in DOMAIN inbox : j > i /\ inbox[j].type = "event" /\ inbox[j].n = n
        \/ /\ emitted[n] \notin perms
           /\ \A j \in DOMAIN inbox :
                j > i /\ inbox[j].type = "state" => emitted[n] \notin inbox[j].pending
    BY <2>1, Parts DEF FramesInOrder
  <2>3. CASE n > delivered
    <3>1. n > delivered' \/ n = delivered + 1
      BY <2>3, <1>0, <1>1
    <3> QED BY <3>1, <2>1, <1>0, <1>2, <1>3
  <2>4. CASE \E j \in DOMAIN inbox : j > i /\ inbox[j].type = "event" /\ inbox[j].n = n
    BY <2>4, <1>3
  <2>5. CASE /\ emitted[n] \notin perms
             /\ \A j \in DOMAIN inbox :
                  j > i /\ inbox[j].type = "state" => emitted[n] \notin inbox[j].pending
    BY <2>5, <1>2, <1>3
  <2> QED BY <2>2, <2>3, <2>4, <2>5
<1>8. SettledForGood'
  <2>1. \A r \in Requests : Decided(r)' => Decided(r)
    BY <1>4 DEF NoNews, Decided
  <2>2. ASSUME NEW r \in Requests, Decided(r), cmds[r] = None, stopper.at # "teardown"
        PROVE  \A i \in DOMAIN inbox' : inbox'[i].type = "state" => r \notin inbox'[i].pending
    BY <2>2, <1>2, <1>3, Parts DEF SettledForGood
  <2> QED BY <2>1, <2>2, <1>1, Parts DEF SettledForGood
<1>9. MuHeld' /\ StopWaits' /\ AskedOnce' /\ OneVerdict' /\ OpenWaits' /\ Claims' /\ Supersedes'
  BY <1>1, <1>4, Parts, KeepMu, KeepStop, KeepAsked, KeepVerdict, KeepOpen, KeepClaims, KeepSupersedes
<1> QED BY <1>5, <1>6, <1>7, <1>8, <1>9 DEF DecisionInv

LEMMA DropStep ==
    ASSUME DecisionInv, Drop
    PROVE  DecisionInv'
<1> USE DEF podVars, storeVars, sinkVars, bindVars
<1>1. /\ drops < MaxDrops /\ drops' = drops + 1 /\ stream' = FALSE
      /\ UNCHANGED <<podVars, inbox, delivered, storeVars, sinkVars, bindVars, restarts, storeFaults>>
  BY DEF Drop
<1>2. PICK k \in 0..Len(down) : down' = SubSeq(down, k + 1, Len(down))
  BY DEF Drop
<1>3. down \in Seq(Decision)
  BY Parts DEF LinkType
<1>4. /\ down' \in Seq(Decision)
      /\ \A i \in DOMAIN down' : i + k \in DOMAIN down /\ down'[i] = down[i + k]
  BY <1>2, <1>3, SuffixOf
<1>5. NoNews
  BY <1>1, <1>4 DEF NoNews, Verdict, AnswersIt
<1>6. LogKept /\ LogSame
  BY <1>1 DEF LogKept, LogSame, InLog, AnswersIt
<1>7. TypeOK'
  <2>1. LinkType'
    BY <1>1, <1>4, Parts DEF LinkType
  <2>2. FaultType'
    BY <1>1, Parts, PermissionsAssumption DEF FaultType
  <2> QED BY <2>1, <2>2, <1>1, Parts, KeepPodType, KeepBindType, KeepSinkType, KeepStoreType DEF TypeOK
<1>8. MuHeld' /\ StopWaits' /\ AskedOnce' /\ HandledOnce' /\ FramesInOrder' /\ OneVerdict'
  BY <1>1, <1>5, <1>6, Parts, KeepMu, KeepStop, KeepAsked, KeepHandled, KeepFrames, KeepVerdict
<1>9. OpenWaits' /\ Claims' /\ Supersedes' /\ SettledForGood'
  BY <1>1, <1>5, <1>6, Parts, KeepOpen, KeepClaims, KeepSupersedes, KeepSettled
<1> QED BY <1>7, <1>8, <1>9 DEF DecisionInv

-----------------------------------------------------------------------------
(* The consumer.                                                           *)

LEMMA IdleFacts ==
    Idle.at = "idle"
BY DEF Idle

\* While the consumer is at work nothing is stopped.
LEMMA AtWork ==
    ASSUME DecisionInv, consumer.at # "gone"
    PROVE  stopper.at = "idle" /\ ~stopped /\ ~ended
BY Parts DEF StopWaits, StoreType, SinkType

LEMMA InboxPops ==
    ASSUME DecisionInv, inbox # <<>>, inbox' = Tail(inbox), UNCHANGED <<emitted, delivered, perms>>
    PROVE  /\ inbox' \in Seq(Frame) /\ Len(inbox') <= InboxMax
           /\ Head(inbox) = inbox[1] /\ Head(inbox) \in Frame /\ 1 \in DOMAIN inbox
           /\ \A i \in DOMAIN inbox' : i + 1 \in DOMAIN inbox /\ inbox'[i] = inbox[i + 1] /\ i + 1 > 1
           /\ \A i \in DOMAIN inbox : i > 1 => i - 1 \in DOMAIN inbox' /\ inbox'[i - 1] = inbox[i]
           /\ FramesInOrder'
<1>1. inbox \in Seq(Frame) /\ Len(inbox) \in Nat /\ InboxMax \in Nat /\ Len(inbox) <= InboxMax
  BY Parts, PermissionsAssumption DEF LinkType
<1>2. /\ inbox' \in Seq(Frame) /\ Len(inbox') = Len(inbox) - 1
      /\ Head(inbox) = inbox[1] /\ Head(inbox) \in Frame /\ 1 \in DOMAIN inbox
      /\ \A i \in DOMAIN inbox' : i + 1 \in DOMAIN inbox /\ inbox'[i] = inbox[i + 1] /\ i + 1 > 1
      /\ \A i \in DOMAIN inbox : i > 1 => i - 1 \in DOMAIN inbox' /\ inbox'[i - 1] = inbox[i]
  BY <1>1, TailOf
<1>3. /\ \A i \in DOMAIN inbox' : i \in Nat
      /\ \A i \in DOMAIN inbox : i \in Nat
  BY <1>1, <1>2
<1>4. FramesInOrder'
  <2> SUFFICES ASSUME NEW i \in DOMAIN inbox', NEW n \in DOMAIN emitted,
                      inbox'[i].type = "state", emitted[n] \notin inbox'[i].pending
               PROVE  \/ n > delivered
                      \/ \E j \in DOMAIN inbox' : j > i /\ inbox'[j].type = "event" /\ inbox'[j].n = n
                      \/ /\ emitted[n] \notin perms
                         /\ \A j \in DOMAIN inbox' :
                              j > i /\ inbox'[j].type = "state" => emitted[n] \notin inbox'[j].pending
    BY DEF FramesInOrder
  <2>1. i + 1 \in DOMAIN inbox /\ inbox'[i] = inbox[i + 1]
    BY <1>2
  <2>2. \/ n > delivered
        \/ \E j \in DOMAIN inbox : j > i + 1 /\ inbox[j].type = "event" /\ inbox[j].n = n
        \/ /\ emitted[n] \notin perms
           /\ \A j \in DOMAIN inbox :
                j > i + 1 /\ inbox[j].type = "state" => emitted[n] \notin inbox[j].pending
    BY <2>1, Parts DEF FramesInOrder
  <2>3. CASE \E j \in DOMAIN inbox : j > i + 1 /\ inbox[j].type = "event" /\ inbox[j].n = n
    <3>1. PICK j \in DOMAIN inbox : j > i + 1 /\ inbox[j].type = "event" /\ inbox[j].n = n
      BY <2>3
    <3>2. j - 1 \in DOMAIN inbox' /\ inbox'[j - 1] = inbox[j] /\ j - 1 > i
      BY <3>1, <1>2, <1>3
    <3> QED BY <3>1, <3>2
  <2>4. CASE /\ emitted[n] \notin perms
             /\ \A j \in DOMAIN inbox :
                  j > i + 1 /\ inbox[j].type = "state" => emitted[n] \notin inbox[j].pending
    <3>1. ASSUME NEW j \in DOMAIN inbox', j > i, inbox'[j].type = "state"
          PROVE  emitted[n] \notin inbox'[j].pending
      <4>1. j + 1 \in DOMAIN inbox /\ inbox'[j] = inbox[j + 1] /\ j + 1 > i + 1
        BY <3>1, <1>2, <1>3
      <4> QED BY <3>1, <4>1, <2>4
    <3> QED BY <2>4, <3>1
  <2> QED BY <2>2, <2>3, <2>4
<1> QED BY <1>1, <1>2, <1>4

\* What waits in the inbox after the head.
LEMMA EventsPop ==
    ASSUME DecisionInv, inbox # <<>>, inbox' = Tail(inbox), UNCHANGED <<emitted, delivered, perms>>
    PROVE  /\ \A i \in DOMAIN inbox' : inbox'[i].type = "event" =>
                /\ inbox'[i].n \in (podSeq + 1)..delivered
                /\ Head(inbox).type = "event" => Head(inbox).n < inbox'[i].n
           /\ \A i, j \in DOMAIN inbox' :
                i < j /\ inbox'[i].type = "event" /\ inbox'[j].type = "event"
                  => inbox'[i].n < inbox'[j].n
<1>1. /\ Head(inbox) = inbox[1] /\ 1 \in DOMAIN inbox
      /\ \A i \in DOMAIN inbox' : i + 1 \in DOMAIN inbox /\ inbox'[i] = inbox[i + 1] /\ i + 1 > 1
  BY InboxPops
<1>2. \A i \in DOMAIN inbox' : i \in Nat
  BY InboxPops
<1>3. \A i, j \in DOMAIN inbox' : i < j => i + 1 < j + 1
  BY <1>2
<1> QED BY <1>1, <1>3, Parts DEF HandledOnce

LEMMA HandleEventStep ==
    ASSUME DecisionInv, HandleEvent
    PROVE  DecisionInv'
<1> USE DEF podVars, storeVars, faultVars
<1>1. /\ consumer = Idle /\ inbox # <<>> /\ Head(inbox).type = "event" /\ inbox' = Tail(inbox)
      /\ UNCHANGED <<podVars, stream, delivered, down, storeVars, fired, stopped, closed, permMu,
                     expiry, stopper, memo, calls, faultVars>>
  BY DEF HandleEvent
<1>2. /\ inbox' \in Seq(Frame) /\ Len(inbox') <= InboxMax
      /\ Head(inbox) = inbox[1] /\ Head(inbox) \in Frame /\ 1 \in DOMAIN inbox
      /\ \A i \in DOMAIN inbox' : i + 1 \in DOMAIN inbox /\ inbox'[i] = inbox[i + 1]
      /\ FramesInOrder'
  BY <1>1, InboxPops
<1>3. consumer.at = "idle" /\ stopper.at = "idle" /\ ~stopped /\ ~ended
  BY <1>1, IdleFacts, AtWork
<1>4. /\ Len(emitted) \in Nat /\ DOMAIN emitted = 1..Len(emitted) /\ emitted \in Seq(Requests)
      /\ podSeq \in Nat /\ delivered \in 0..Len(emitted)
  BY Parts DEF PodType, LinkType
<1>5. Head(inbox).n \in (podSeq + 1)..delivered
  BY <1>1, <1>2, Parts DEF HandledOnce
<1>6. PICK n \in DOMAIN emitted : n = Head(inbox).n /\ n \in (podSeq + 1)..delivered
  BY <1>4, <1>5
<1>7. PICK r \in Requests : r = emitted[n]
  BY <1>4
<1>8. ~InLog(r)
  <2>1. \A m \in DOMAIN emitted : m <= podSeq => m # n
    BY <1>4, <1>6
  <2> QED BY <2>1, <1>7, Parts DEF HandledOnce, AskedOnce
<1>9. ~Decided(r) /\ waiters[r] = "no" /\ waiters \in [Requests -> {"no", "bare", "armed", "spent"}]
  BY <1>3, <1>8, Parts DEF OneVerdict, OpenWaits, SinkType
<1>10. register(r)
  BY <1>3, <1>9 DEF register
<1>11. waiters' = [waiters EXCEPT ![r] = "bare"] /\ consumer' = At("record", r, "fresh", {n})
  BY <1>6, <1>7, <1>10 DEF HandleEvent
<1>12. /\ consumer'.at = "record" /\ consumer'.req = r /\ consumer'.opt = "fresh"
       /\ consumer'.left = {n}
  BY <1>11 DEF At
<1>13. NoNews /\ LogKept /\ LogSame
  BY <1>1, Untouched
<1>14. TypeOK'
  <2>1. LinkType'
    BY <1>1, <1>2, Parts DEF LinkType
  <2>2. SinkType'
    BY <1>1, <1>9, <1>11, Parts DEF SinkType
  <2>3. consumer' \in ConsumerState
    <3>1. {n} \in SUBSET (Requests \cup Nat)
      BY <1>4
    <3> QED BY <1>11, <3>1 DEF At, ConsumerState
  <2>4. BindType'
    BY <1>1, <2>3, Parts DEF BindType
  <2> QED BY <2>1, <2>2, <2>4, <1>1, Parts, KeepPodType, KeepFaultType, KeepStoreType DEF TypeOK
<1>15. MuHeld'
  BY <1>1, <1>3, <1>12, Parts DEF MuHeld
<1>16. StopWaits'
  BY <1>1, <1>3, Parts DEF StopWaits
<1>17. HandledOnce'
  <2>1. /\ \A i \in DOMAIN inbox' : inbox'[i].type = "event" =>
             inbox'[i].n \in (podSeq + 1)..delivered /\ n < inbox'[i].n
        /\ \A i, j \in DOMAIN inbox' :
             i < j /\ inbox'[i].type = "event" /\ inbox'[j].type = "event"
               => inbox'[i].n < inbox'[j].n
    BY <1>1, <1>6, EventsPop
  <2>2. \E m \in DOMAIN emitted :
          /\ consumer'.left = {m} /\ emitted[m] = consumer'.req /\ m \in (podSeq + 1)..delivered
          /\ \A i \in DOMAIN inbox' : inbox'[i].type = "event" => m < inbox'[i].n
    BY <2>1, <1>6, <1>7, <1>12
  <2> QED BY <2>1, <2>2, <1>1, <1>12, Parts DEF HandledOnce, InLog
<1>18. OpenWaits'
  <2>1. \A q \in Requests : Decided(q)' => Decided(q)
    BY <1>13 DEF NoNews, Decided
  <2>2. \A q \in Requests : q # r => waiters'[q] = waiters[q]
    BY <1>9, <1>11
  <2>3. waiters'[r] = "bare"
    BY <1>9, <1>11
  <2> QED BY <2>1, <2>2, <2>3, <1>1, <1>3, <1>9, <1>12, <1>13, Parts DEF OpenWaits, LogKept
<1>19. Claims'
  <2>1. \A q \in Requests : waiters[q] = "no" /\ InLog(q) => waiters'[q] = "no"
    BY <1>8, <1>9, <1>11
  <2> QED BY <2>1, <1>1, <1>13, Parts, KeepClaims
<1>20. Supersedes'
  BY <1>12 DEF Supersedes
<1>21. SettledForGood'
  <2>1. \A q \in Requests : Decided(q)' => Decided(q)
    BY <1>13 DEF NoNews, Decided
  <2> QED BY <2>1, <1>1, <1>2, <1>12, Parts DEF SettledForGood
<1>22. AskedOnce' /\ OneVerdict'
  BY <1>1, <1>13, Parts, KeepAsked, KeepVerdict
<1> QED BY <1>2, <1>14, <1>15, <1>16, <1>17, <1>18, <1>19, <1>20, <1>21, <1>22 DEF DecisionInv

LEMMA AskedFacts ==
    ASSUME NEW r \in Requests
    PROVE  Asked(r) \in Entry /\ Asked(r).how = None /\ Asked(r).request = r
BY DEF Asked, Entry

LEMMA ResolvedFacts ==
    ASSUME NEW r \in Requests, NEW h \in Options \cup {Expired, Superseded}
    PROVE  Resolved(r, h) \in Entry /\ Resolved(r, h).how = h /\ Resolved(r, h).request = r
BY DEF Resolved, Entry

LEMMA RecordRequestStep ==
    ASSUME DecisionInv, RecordRequest
    PROVE  DecisionInv'
<1> USE DEF podVars, linkVars, sinkVars, faultVars
<1>1. /\ consumer.at = "record" /\ recordEvent(Asked(consumer.req))
      /\ consumer' = [consumer EXCEPT !.at = "arm"]
      /\ UNCHANGED <<podVars, linkVars, cmds, ended, sinkVars, closed, permMu, expiry,
                     stopper, memo, calls, faultVars>>
  BY DEF RecordRequest
<1>2. stopper.at = "idle" /\ ~stopped /\ ~ended
  BY <1>1, AtWork
<1>3. /\ Len(emitted) \in Nat /\ DOMAIN emitted = 1..Len(emitted) /\ emitted \in Seq(Requests)
      /\ podSeq \in Nat /\ delivered \in 0..Len(emitted)
  BY Parts DEF PodType, LinkType
<1>4. PICK n \in DOMAIN emitted :
         /\ consumer.left = {n} /\ emitted[n] = consumer.req /\ n \in (podSeq + 1)..delivered
         /\ \A i \in DOMAIN inbox : inbox[i].type = "event" => n < inbox[i].n
  BY <1>1, Parts DEF HandledOnce
<1>5. PICK r \in Requests : r = consumer.req /\ r = emitted[n]
  BY <1>3, <1>4
<1>6. podSeq' = n
  <2>1. (CHOOSE m \in consumer.left : TRUE) = n
    BY <1>4
  <2>2. n > podSeq
    BY <1>3, <1>4
  <2> QED BY <2>1, <2>2, <1>2 DEF RecordRequest, Store!AdvancePodSeq
<1>7. PICK e \in Entry : e = Asked(r) /\ e.how = None
  BY AskedFacts
<1>8. Grew(e) /\ \E i \in DOMAIN log' : log'[i] = e
  BY <1>1, <1>2, <1>5, <1>7, Parts, Recorded
<1>9. /\ log' \in Seq(Entry) /\ LogKept
      /\ \A q \in Requests : InLog(q)' => InLog(q) \/ e = Asked(q)
  BY <1>8, Parts, GrewFacts
<1>10. NoNews /\ LogSame
  BY <1>1, <1>7, <1>8, Parts, GrewQuietly
<1>11. InLog(r)'
  BY <1>7, <1>8 DEF InLog, Asked
<1>12. consumer'.at = "arm" /\ consumer'.req = r /\ consumer' \in ConsumerState
  BY <1>1, <1>5, Parts DEF BindType, ConsumerState
<1>13. \A q \in Requests : InLog(q)' => InLog(q) \/ q = r
  BY <1>7, <1>9 DEF Asked
<1>14. TypeOK'
  <2>1. LinkType'
    BY <1>1, <1>3, <1>4, <1>6, Parts DEF LinkType
  <2>2. StoreType'
    BY <1>1, <1>9, Parts DEF StoreType, Outcomes
  <2>3. BindType'
    BY <1>1, <1>12, Parts DEF BindType
  <2> QED BY <2>1, <2>2, <2>3, <1>1, Parts, KeepPodType, KeepSinkType, KeepFaultType DEF TypeOK
<1>15. MuHeld'
  BY <1>1, <1>12, Parts DEF MuHeld
<1>16. StopWaits'
  BY <1>1, <1>2, Parts DEF StopWaits
<1>17. HandledOnce'
  <2>1. \A q \in Requests : InLog(q)' => \E m \in DOMAIN emitted : m <= n /\ emitted[m] = q
    <3> SUFFICES ASSUME NEW q \in Requests, InLog(q)'
                 PROVE  \E m \in DOMAIN emitted : m <= n /\ emitted[m] = q
      OBVIOUS
    <3>1. CASE InLog(q)
      <4>1. PICK m \in DOMAIN emitted : m <= podSeq /\ emitted[m] = q
        BY <3>1, Parts DEF HandledOnce
      <4>2. m <= n
        BY <4>1, <1>3, <1>4
      <4> QED BY <4>1, <4>2
    <3>2. CASE q = r
      <4>1. n <= n
        BY <1>3
      <4> QED BY <3>2, <4>1, <1>5
    <3> QED BY <3>1, <3>2, <1>13
  <2>2. \A i \in DOMAIN inbox : inbox[i].type = "event" => inbox[i].n \in (n + 1)..delivered
    <3> SUFFICES ASSUME NEW i \in DOMAIN inbox, inbox[i].type = "event"
                 PROVE  inbox[i].n \in (n + 1)..delivered
      OBVIOUS
    <3>1. n < inbox[i].n /\ inbox[i].n \in (podSeq + 1)..delivered
      BY <1>4, Parts DEF HandledOnce
    <3> QED BY <3>1, <1>3, <1>4
  <2> QED BY <2>1, <2>2, <1>1, <1>6, <1>11, <1>12, Parts DEF HandledOnce
<1>18. OpenWaits'
  <2>1. \A q \in Requests : Decided(q)' => Decided(q)
    BY <1>10 DEF NoNews, Decided
  <2> QED BY <2>1, <1>1, <1>5, <1>9, <1>11, <1>12, Parts DEF OpenWaits, LogKept
<1>19. Supersedes'
  BY <1>12 DEF Supersedes
<1>20. SettledForGood'
  <2>1. \A q \in Requests : Decided(q)' => Decided(q)
    BY <1>10 DEF NoNews, Decided
  <2> QED BY <2>1, <1>1, <1>12, Parts DEF SettledForGood
<1>21. AskedOnce' /\ OneVerdict' /\ Claims' /\ FramesInOrder'
  BY <1>1, <1>9, <1>10, Parts, KeepAsked, KeepVerdict, KeepClaims, KeepFrames
<1> QED BY <1>14, <1>15, <1>16, <1>17, <1>18, <1>19, <1>20, <1>21 DEF DecisionInv

LEMMA DropRequestStep ==
    ASSUME DecisionInv, DropRequest
    PROVE  DecisionInv'
<1> USE DEF podVars, linkVars, storeVars, faultVars
<1>1. /\ consumer.at = "record" /\ closed # Nobody
      /\ consumer' = At("gone", None, None, {})
      /\ IF consumer.opt = "fresh" THEN take(consumer.req) ELSE UNCHANGED waiters
      /\ UNCHANGED <<podVars, linkVars, storeVars, fired, stopped, closed, permMu,
                     expiry, stopper, memo, calls, faultVars>>
  BY DEF DropRequest
<1>2. stopper.at = "idle" /\ ~stopped /\ ~ended
  BY <1>1, AtWork
<1>3. waiters \in [Requests -> {"no", "bare", "armed", "spent"}] /\ consumer.req \in Requests
  <2>1. \A n \in DOMAIN emitted : emitted[n] \in Requests
    BY Parts DEF PodType
  <2> QED BY <2>1, <1>1, Parts DEF SinkType, HandledOnce
<1>4. /\ \A q \in Requests : waiters'[q] = waiters[q] \/ waiters'[q] = "no"
      /\ consumer.opt = "fresh" => waiters'[consumer.req] = "no"
      /\ waiters' \in [Requests -> {"no", "bare", "armed", "spent"}]
  BY <1>1, <1>3 DEF take
<1>5. consumer'.at = "gone" /\ consumer' \in ConsumerState
  BY <1>1 DEF At, ConsumerState
<1>6. NoNews /\ LogKept /\ LogSame
  BY <1>1, Untouched
<1>7. TypeOK'
  <2>1. SinkType'
    BY <1>1, <1>4, Parts DEF SinkType
  <2>2. BindType'
    BY <1>1, <1>5, Parts DEF BindType
  <2> QED BY <2>1, <2>2, <1>1, Parts, KeepPodType, KeepLinkType, KeepStoreType, KeepFaultType DEF TypeOK
<1>8. MuHeld'
  BY <1>1, <1>5, Parts DEF MuHeld
<1>9. StopWaits'
  BY <1>1, <1>2, <1>5, Parts DEF StopWaits
<1>10. HandledOnce'
  BY <1>1, <1>5, Parts DEF HandledOnce, InLog
<1>11. OpenWaits'
  <2>1. \A q \in Requests : Decided(q)' => Decided(q)
    BY <1>6 DEF NoNews, Decided
  <2> QED BY <2>1, <1>1, <1>4, <1>5, <1>6, Parts DEF OpenWaits, LogKept
<1>12. Supersedes'
  BY <1>5 DEF Supersedes
<1>13. SettledForGood'
  <2>1. \A q \in Requests : Decided(q)' => Decided(q)
    BY <1>6 DEF NoNews, Decided
  <2> QED BY <2>1, <1>1, <1>5, Parts DEF SettledForGood
<1>14. Claims'
  BY <1>1, <1>4, <1>6, Parts, KeepClaims
<1>15. AskedOnce' /\ OneVerdict' /\ FramesInOrder'
  BY <1>1, <1>6, Parts, KeepAsked, KeepVerdict, KeepFrames
<1> QED BY <1>7, <1>8, <1>9, <1>10, <1>11, <1>12, <1>13, <1>14, <1>15 DEF DecisionInv

LEMMA IdleTypes ==
    Idle \in ConsumerState /\ Idle \in TimerState /\ Idle \in StopState /\ Idle \in CallState
BY DEF Idle, ConsumerState, TimerState, StopState, CallState

LEMMA ArmRequestStep ==
    ASSUME DecisionInv, ArmRequest
    PROVE  DecisionInv'
<1> USE DEF podVars, linkVars, storeVars, faultVars
<1>1. /\ consumer.at = "arm" /\ consumer' = Idle
      /\ IF consumer.opt = "fresh" THEN arm(consumer.req) ELSE UNCHANGED waiters
      /\ UNCHANGED <<podVars, linkVars, storeVars, fired, stopped, closed, permMu,
                     expiry, stopper, memo, calls, faultVars>>
  BY DEF ArmRequest
<1>2. stopper.at = "idle" /\ ~stopped /\ ~ended
  BY <1>1, AtWork
<1>3. /\ waiters \in [Requests -> {"no", "bare", "armed", "spent"}]
      /\ consumer.req \in Requests /\ InLog(consumer.req)
  BY <1>1, Parts DEF SinkType, HandledOnce
<1>4. /\ \A q \in Requests : \/ waiters'[q] = waiters[q]
                             \/ q = consumer.req /\ waiters[q] = "bare" /\ waiters'[q] = "armed"
      /\ waiters' \in [Requests -> {"no", "bare", "armed", "spent"}]
  BY <1>1, <1>3 DEF arm
<1>5. consumer'.at = "idle" /\ consumer' \in ConsumerState
  BY <1>1, IdleFacts, IdleTypes
<1>6. NoNews /\ LogKept /\ LogSame
  BY <1>1, Untouched
<1>7. TypeOK'
  <2>1. SinkType'
    BY <1>1, <1>4, Parts DEF SinkType
  <2>2. BindType'
    BY <1>1, <1>5, Parts DEF BindType
  <2> QED BY <2>1, <2>2, <1>1, Parts, KeepPodType, KeepLinkType, KeepStoreType, KeepFaultType DEF TypeOK
<1>8. MuHeld'
  BY <1>1, <1>5, Parts DEF MuHeld
<1>9. StopWaits'
  BY <1>1, <1>2, <1>5, Parts DEF StopWaits
<1>10. HandledOnce'
  BY <1>1, <1>5, Parts DEF HandledOnce, InLog
<1>11. OpenWaits'
  <2>1. \A q \in Requests : Decided(q)' => Decided(q)
    BY <1>6 DEF NoNews, Decided
  <2> QED BY <2>1, <1>1, <1>3, <1>4, <1>5, <1>6, Parts DEF OpenWaits, LogKept
<1>12. Supersedes'
  BY <1>5 DEF Supersedes
<1>13. SettledForGood'
  <2>1. \A q \in Requests : Decided(q)' => Decided(q)
    BY <1>6 DEF NoNews, Decided
  <2> QED BY <2>1, <1>1, <1>5, Parts DEF SettledForGood
<1>14. Claims'
  <2>1. \A q \in Requests : waiters[q] = "no" /\ InLog(q) => waiters'[q] = "no"
    BY <1>4
  <2> QED BY <2>1, <1>1, <1>6, Parts, KeepClaims
<1>15. AskedOnce' /\ OneVerdict' /\ FramesInOrder'
  BY <1>1, <1>6, Parts, KeepAsked, KeepVerdict, KeepFrames
<1> QED BY <1>7, <1>8, <1>9, <1>10, <1>11, <1>12, <1>13, <1>14, <1>15 DEF DecisionInv

\* A store write that may fail.
LEMMA FaultCounted ==
    ASSUME FaultType, StoreOK \/ StoreFault, UNCHANGED <<drops, restarts>>
    PROVE  FaultType'
BY PermissionsAssumption DEF FaultType, StoreOK, StoreFault

\* The decisions that are sent again are the saved ones.
LEMMA Resent ==
    ASSUME StoreType, NEW S \in SUBSET Requests, \A r \in S : cmds[r] # None
    PROVE  LET resend == SetToSeq(S)
               again  == [i \in DOMAIN resend |-> [req |-> resend[i], opt |-> cmds[resend[i]]]]
           IN  /\ again \in Seq(Decision)
               /\ \A j \in DOMAIN again : \E r \in Requests : again[j].req = r /\ again[j].opt = cmds[r]
<1> DEFINE resend == SetToSeq(S)
           again  == [i \in DOMAIN resend |-> [req |-> resend[i], opt |-> cmds[resend[i]]]]
<1>1. IsFiniteSet(S)
  BY PermissionsAssumption, FS_Subset
<1>2. PICK n \in Nat : resend \in [1..n -> S]
  BY <1>1, SetToSeqOf
<1> HIDE DEF resend
<1>3. \A r \in S : r \in Requests /\ cmds[r] \in Outcomes
  BY DEF StoreType
<1>4. ASSUME NEW i \in 1..n
      PROVE  [req |-> resend[i], opt |-> cmds[resend[i]]] \in Decision
  <2>1. resend[i] \in S
    BY <1>2
  <2> QED BY <2>1, <1>3 DEF Decision
<1>5. again \in [1..n -> Decision] /\ DOMAIN again = 1..n
  BY <1>2, <1>4
<1>6. again \in Seq(Decision)
  BY <1>5, FunctionIsSeq
<1>7. ASSUME NEW j \in DOMAIN again
      PROVE  \E r \in Requests : again[j].req = r /\ again[j].opt = cmds[r]
  <2>1. resend[j] \in Requests
    BY <1>2, <1>3, <1>5
  <2>2. again[j].req = resend[j] /\ again[j].opt = cmds[resend[j]]
    BY <1>2, <1>5
  <2> QED BY <2>1, <2>2
<1> QED BY <1>6, <1>7 DEF resend

LEMMA ReconcileStep ==
    ASSUME DecisionInv, reconcileState
    PROVE  DecisionInv'
<1> USE DEF podVars, sinkVars
<1> DEFINE pending == Head(inbox).pending
           saved   == Store!ListPodCommands(cmds, None)
           resend  == SetToSeq(saved \cap pending)
           again   == [i \in DOMAIN resend |-> [req |-> resend[i], opt |-> cmds[resend[i]]]]
<1>1. /\ consumer = Idle /\ inbox # <<>> /\ Head(inbox).type = "state"
      /\ permMu = Nobody /\ permMu' = "consumer" /\ inbox' = Tail(inbox)
      /\ down' = down \o again
      /\ consumer' = At("await", None, None, pending)
      /\ UNCHANGED <<podVars, stream, delivered, podSeq, log, ended, sinkVars, closed,
                     expiry, stopper, memo, calls, drops, restarts>>
  BY DEF reconcileState
<1>2. PICK kept \in SUBSET (saved \ pending) :
         /\ IF kept = {} THEN StoreOK ELSE StoreFault
         /\ cmds' = dropCommands((saved \ pending) \ kept)
  BY DEF reconcileState
<1>3. /\ inbox' \in Seq(Frame) /\ Len(inbox') <= InboxMax
      /\ Head(inbox) = inbox[1] /\ Head(inbox) \in Frame /\ 1 \in DOMAIN inbox
      /\ \A i \in DOMAIN inbox' : i + 1 \in DOMAIN inbox /\ inbox'[i] = inbox[i + 1] /\ i + 1 > 1
      /\ FramesInOrder'
  BY <1>1, InboxPops
<1>4. pending \in SUBSET Requests /\ pending = inbox[1].pending
  BY <1>3 DEF Frame
<1>5. /\ cmds \in [Requests -> Outcomes \cup {None}]
      /\ saved \in SUBSET Requests /\ \A r \in saved : cmds[r] # None
  BY Parts DEF StoreType, Store!ListPodCommands
<1>6. /\ again \in Seq(Decision)
      /\ \A j \in DOMAIN again : \E r \in Requests : again[j].req = r /\ again[j].opt = cmds[r]
  <2> HIDE DEF saved, pending
  <2>1. PICK S \in SUBSET Requests : S = saved \cap pending /\ \A r \in S : cmds[r] # None
    BY <1>5
  <2>2. resend = SetToSeq(S)
    BY <2>1
  <2> QED BY <2>1, <2>2, Parts, Resent
<1> HIDE DEF pending, saved, resend, again
<1>7. \A r \in Requests : /\ cmds'[r] = cmds[r] \/ cmds'[r] = None
                          /\ r \in pending => cmds'[r] = cmds[r]
  <2>1. \A r \in Requests : Store!DeletePodCommand(cmds, r, None)[r] = None
    BY <1>5 DEF Store!DeletePodCommand
  <2> QED BY <2>1, <1>2 DEF dropCommands
<1>8. cmds' \in [Requests -> Outcomes \cup {None}]
  <2>1. cmds' = [r \in Requests |-> cmds'[r]]
    BY <1>2 DEF dropCommands
  <2> QED BY <2>1, <1>5, <1>7
<1>9. /\ down' \in Seq(Decision)
      /\ \A i \in DOMAIN down' :
           \/ i \in DOMAIN down /\ down'[i] = down[i]
           \/ \E r \in Requests : down'[i].req = r /\ down'[i].opt = cmds[r]
  <2>1. down \in Seq(Decision)
    BY Parts DEF LinkType
  <2>2. /\ down' \in Seq(Decision)
        /\ \A i \in DOMAIN down' :
             \/ i \in DOMAIN down /\ down'[i] = down[i]
             \/ \E j \in DOMAIN again : down'[i] = again[j]
    BY <1>1, <1>6, <2>1, ConcatOf
  <2> QED BY <2>2, <1>6
<1>10. NoNews
  <2> SUFFICES ASSUME NEW r \in Requests, NEW o \in Outcomes, Verdict(r, o)'
               PROVE  Verdict(r, o)
    BY DEF NoNews, Outcomes
  <2>1. o # None
    BY PermissionsAssumption DEF Outcomes, Cancelled, None
  <2>2. CASE \E i \in DOMAIN log' : AnswersIt(i, r)' /\ Outcome(log'[i].how) = o
    BY <2>2, <1>1 DEF Verdict, AnswersIt
  <2>3. CASE cmds'[r] = o \/ got'[r] = o
    BY <2>1, <2>3, <1>1, <1>7 DEF Verdict
  <2>4. CASE \E i \in DOMAIN down' : down'[i].req = r /\ down'[i].opt = o
    BY <2>4, <1>9 DEF Verdict
  <2> QED BY <2>2, <2>3, <2>4 DEF Verdict, Outcome
<1>11. LogKept /\ LogSame
  BY <1>1 DEF LogKept, LogSame, InLog, AnswersIt
<1>12. consumer.at = "idle" /\ stopper.at = "idle" /\ ~stopped /\ ~ended
  BY <1>1, IdleFacts, AtWork
<1>13. consumer'.at = "await" /\ consumer'.left = pending /\ consumer' \in ConsumerState
  BY <1>1, <1>4 DEF At, ConsumerState
<1>14. TypeOK'
  <2>1. LinkType'
    BY <1>1, <1>3, <1>9, Parts DEF LinkType
  <2>2. StoreType'
    BY <1>1, <1>8, Parts DEF StoreType, Outcomes
  <2>3. BindType'
    BY <1>1, <1>13, Parts DEF BindType
  <2>4. FaultType'
    BY <1>1, <1>2, Parts, FaultCounted
  <2> QED BY <2>1, <2>2, <2>3, <2>4, <1>1, Parts, KeepPodType, KeepSinkType DEF TypeOK
<1>15. NoClaims
  BY <1>1, Parts, NobodyDecides, PermissionsAssumption DEF Nobody
<1>16. MuHeld'
  BY <1>1, <1>12, <1>13, <1>15, Parts, PermissionsAssumption DEF MuHeld, NoClaims, Nobody
<1>17. StopWaits'
  BY <1>1, <1>12, Parts DEF StopWaits
<1>18. HandledOnce'
  <2>1. /\ \A i \in DOMAIN inbox' : inbox'[i].type = "event" => inbox'[i].n \in (podSeq + 1)..delivered
        /\ \A i, j \in DOMAIN inbox' :
             i < j /\ inbox'[i].type = "event" /\ inbox'[j].type = "event"
               => inbox'[i].n < inbox'[j].n
    BY <1>1, EventsPop
  <2> QED BY <2>1, <1>1, <1>13, Parts DEF HandledOnce, InLog
<1>19. OpenWaits'
  <2>1. \A q \in Requests : Decided(q)' => Decided(q)
    BY <1>10 DEF NoNews, Decided
  <2> QED BY <2>1, <1>1, <1>11, <1>12, Parts DEF OpenWaits, LogKept
<1>20. Supersedes'
  BY <1>4, <1>13 DEF Supersedes
<1>21. SettledForGood'
  <2> SUFFICES ASSUME NEW r \in Requests, Decided(r), cmds'[r] = None
               PROVE  /\ r \notin perms /\ r \notin pending
                      /\ \A i \in DOMAIN inbox' : inbox'[i].type = "state" => r \notin inbox'[i].pending
    <3>1. \A q \in Requests : Decided(q)' => Decided(q)
      BY <1>10 DEF NoNews, Decided
    <3> QED BY <3>1, <1>1, <1>13 DEF SettledForGood
  <2>1. CASE cmds[r] = None
    <3>1. /\ r \notin perms
          /\ \A i \in DOMAIN inbox : inbox[i].type = "state" => r \notin inbox[i].pending
      BY <2>1, <1>12, Parts DEF SettledForGood
    <3> QED BY <3>1, <1>1, <1>3, <1>4
  <2>2. CASE cmds[r] # None
    <3>1. r \notin pending
      BY <2>2, <1>7
    <3>2. PICK n \in DOMAIN emitted : n <= podSeq /\ emitted[n] = r
      BY Parts DEF OneVerdict, HandledOnce
    <3>3. podSeq \in Nat /\ delivered \in Nat /\ podSeq <= delivered /\ n \in Nat
      BY Parts DEF PodType, LinkType
    <3>4. ~(n > delivered)
      BY <3>2, <3>3
    <3>5. \A j \in DOMAIN inbox : inbox[j].type = "event" => inbox[j].n # n
      <4>1. \A j \in DOMAIN inbox : inbox[j].type = "event" => inbox[j].n \in (podSeq + 1)..delivered
        BY Parts DEF HandledOnce
      <4>2. n \notin (podSeq + 1)..delivered
        BY <3>2, <3>3
      <4> QED BY <4>1, <4>2
    <3>6. /\ r \notin perms
          /\ \A j \in DOMAIN inbox : j > 1 /\ inbox[j].type = "state" => r \notin inbox[j].pending
      BY <3>1, <3>2, <3>4, <3>5, <1>1, <1>3, <1>4, Parts DEF FramesInOrder
    <3> QED BY <3>1, <3>6, <1>3
  <2> QED BY <2>1, <2>2
<1>22. Claims'
  BY <1>1, <1>11, <1>15, Parts, FreeClaims
<1>23. AskedOnce' /\ OneVerdict'
  BY <1>1, <1>10, <1>11, Parts, KeepAsked, KeepVerdict
<1> QED BY <1>3, <1>14, <1>16, <1>17, <1>18, <1>19, <1>20, <1>21, <1>22, <1>23 DEF DecisionInv

LEMMA DeadlinesStep ==
    ASSUME DecisionInv, RareFaults = {}, recordedDeadlines
    PROVE  DecisionInv'
<1> USE DEF podVars, linkVars, storeVars
<1> DEFINE missing  == {r \in consumer.left : cmds[r] = None /\ register(r)}
           history  == Range(Store!ListSessionEvents(log, 0, Len(log)))
           recorded == {r \in missing : Asked(r) \in history}
<1>1. /\ consumer.at = "await"
      /\ UNCHANGED <<podVars, linkVars, storeVars, fired, stopped, closed, permMu,
                     expiry, stopper, memo, calls, drops, restarts>>
  BY DEF recordedDeadlines
<1>2. /\ StoreOK
      /\ waiters' = [r \in Requests |-> IF r \in recorded THEN "armed" ELSE waiters[r]]
      /\ consumer' = At("supersede", None, None, (Pending \cup recorded) \ consumer.left)
  BY DEF recordedDeadlines
<1>3. \A r \in recorded : r \in consumer.left /\ cmds[r] = None /\ Asked(r) \in history
  OBVIOUS
<1> HIDE DEF missing, recorded
<1>4. consumer.left \subseteq Requests
  BY <1>1, Parts DEF Supersedes
<1>5. stopper.at = "idle" /\ ~stopped /\ ~ended
  BY <1>1, AtWork
<1>6. \A r \in recorded : r \in Requests /\ InLog(r)
  <2>1. log \in Seq(Entry) /\ Len(log) \in Nat
    BY Parts DEF StoreType
  <2>2. Store!ListSessionEvents(log, 0, Len(log)) = SubSeq(log, 1, Len(log))
    BY <2>1 DEF Store!ListSessionEvents
  <2>3. SubSeq(log, 1, Len(log)) = log
    BY <2>1
  <2>4. history = {log[i] : i \in DOMAIN log}
    BY <2>2, <2>3 DEF Range
  <2> QED BY <2>4, <1>3, <1>4 DEF InLog
<1> HIDE DEF history
<1>7. \A r \in recorded : ~Decided(r)
  BY <1>1, <1>3, <1>5, <1>6, Parts DEF SettledForGood
<1>8. /\ waiters \in [Requests -> {"no", "bare", "armed", "spent"}]
      /\ waiters' \in [Requests -> {"no", "bare", "armed", "spent"}]
  BY <1>2, Parts DEF SinkType
<1>9. \A r \in Requests : IF r \in recorded THEN waiters'[r] = "armed" ELSE waiters'[r] = waiters[r]
  BY <1>2
<1>10. /\ consumer'.at = "supersede" /\ consumer'.left = (Pending \cup recorded) \ consumer.left
       /\ consumer' \in ConsumerState
  <2>1. (Pending \cup recorded) \ consumer.left \in SUBSET (Requests \cup Nat)
    BY <1>6 DEF Pending
  <2> QED BY <2>1, <1>2 DEF At, ConsumerState
<1>11. NoNews /\ LogKept /\ LogSame
  BY <1>1, Untouched
<1>12. TypeOK'
  <2>1. SinkType'
    BY <1>1, <1>8, Parts DEF SinkType
  <2>2. BindType'
    BY <1>1, <1>10, Parts DEF BindType
  <2>3. FaultType'
    BY <1>1, <1>2, Parts, FaultCounted
  <2> QED BY <2>1, <2>2, <2>3, <1>1, Parts, KeepPodType, KeepLinkType, KeepStoreType DEF TypeOK
<1>13. MuHeld'
  BY <1>1, <1>10, Parts DEF MuHeld
<1>14. StopWaits'
  BY <1>1, <1>5, Parts DEF StopWaits
<1>15. HandledOnce'
  BY <1>1, <1>10, Parts DEF HandledOnce, InLog
<1>16. OpenWaits'
  <2>1. \A q \in Requests : Decided(q)' => Decided(q)
    BY <1>11 DEF NoNews, Decided
  <2> QED BY <2>1, <1>1, <1>6, <1>7, <1>9, <1>11, Parts DEF OpenWaits, LogKept
<1>17. Supersedes'
  <2>1. ASSUME NEW r \in consumer'.left PROVE r \in Requests /\ waiters'[r] # "no"
    <3>1. CASE r \in recorded
      BY <3>1, <1>6, <1>9
    <3>2. CASE r \notin recorded /\ r \in Pending
      BY <3>2, <1>9 DEF Pending
    <3> QED BY <2>1, <3>1, <3>2, <1>10
  <2> QED BY <2>1, <1>10 DEF Supersedes
<1>18. SettledForGood'
  <2>1. \A q \in Requests : Decided(q)' => Decided(q)
    BY <1>11 DEF NoNews, Decided
  <2> QED BY <2>1, <1>1, <1>10, Parts DEF SettledForGood
<1>19. Claims'
  <2>1. NoClaims
    BY <1>1, Parts, NobodyDecides, PermissionsAssumption DEF MuHeld
  <2> QED BY <2>1, <1>1, <1>11, Parts, FreeClaims
<1>20. AskedOnce' /\ OneVerdict' /\ FramesInOrder'
  BY <1>1, <1>11, Parts, KeepAsked, KeepVerdict, KeepFrames
<1> QED BY <1>12, <1>13, <1>14, <1>15, <1>16, <1>17, <1>18, <1>19, <1>20 DEF DecisionInv

LEMMA SupersedeStep ==
    ASSUME DecisionInv, NEW r \in Requests, SupersedeDropped(r)
    PROVE  DecisionInv'
<1> USE DEF podVars, linkVars, faultVars
<1>1. /\ consumer.at = "supersede" /\ r \in consumer.left
      /\ UNCHANGED <<podVars, linkVars, podSeq, cmds, ended, fired, stopped, closed, permMu,
                     expiry, stopper, memo, calls, faultVars>>
  BY DEF SupersedeDropped
<1>2. stopper.at = "idle" /\ ~stopped /\ ~ended
  BY <1>1, AtWork
<1>3. /\ consumer.left \subseteq Requests /\ \A q \in consumer.left : waiters[q] # "no"
      /\ waiters \in [Requests -> {"no", "bare", "armed", "spent"}]
      /\ cmds \in [Requests -> Outcomes \cup {None}]
  BY <1>1, Parts DEF Supersedes, SinkType, StoreType
<1>4. ~Decided(r) /\ InLog(r) /\ cmds[r] = None
  BY <1>1, <1>3, Parts DEF OpenWaits, Decided, Verdict
<1>5. PICK e \in Entry : e = Resolved(r, Superseded) /\ e.how = Superseded
  BY ResolvedFacts
<1>6. NoClaims
  BY <1>1, Parts, NobodyDecides, PermissionsAssumption DEF MuHeld
<1>7. /\ Grew(e)
      /\ \/ /\ waiters' = [waiters EXCEPT ![r] = "no"]
            /\ consumer' = [consumer EXCEPT !.at = "clear", !.req = r]
         \/ /\ waiters' = [waiters EXCEPT ![r] = "bare"]
            /\ consumer' = [consumer EXCEPT !.left = @ \ {r}]
  <2>1. CASE log' = log
    BY <2>1 DEF SupersedeDropped, take, Grew
  <2>2. CASE log' # log
    BY <2>2, <1>5, Parts, Recorded DEF SupersedeDropped, take
  <2> QED BY <2>1, <2>2
<1>8. NoNews /\ LogKept /\ LogSame /\ log' \in Seq(Entry)
  BY <1>1, <1>5, <1>7, Parts, GrewFacts, GrewQuietly
<1>9. \A q \in Requests : InLog(q)' => InLog(q)
  BY <1>5, <1>7, Parts, GrewFacts DEF Asked, None, Superseded
<1>10. /\ waiters' \in [Requests -> {"no", "bare", "armed", "spent"}]
       /\ \A q \in Requests : q # r => waiters'[q] = waiters[q]
       /\ waiters'[r] \in {"no", "bare"}
  BY <1>3, <1>7
<1>11. consumer \in ConsumerState
  BY Parts DEF BindType
<1>12. /\ consumer' \in ConsumerState /\ consumer'.at \in {"supersede", "clear"}
       /\ consumer'.left \subseteq Requests
       /\ consumer'.at = "clear" => consumer'.req = r /\ consumer'.left = consumer.left
       /\ consumer'.at = "supersede" => consumer'.left = consumer.left \ {r}
  <2>1. CASE consumer' = [consumer EXCEPT !.at = "clear", !.req = r]
    BY <2>1, <1>3, <1>11 DEF ConsumerState
  <2>2. CASE consumer' = [consumer EXCEPT !.left = @ \ {r}]
    <3>1. consumer.left \ {r} \in SUBSET (Requests \cup Nat)
      BY <1>3
    <3> QED BY <2>2, <3>1, <1>1, <1>3, <1>11 DEF ConsumerState
  <2> QED BY <2>1, <2>2, <1>7
<1>13. TypeOK'
  <2>1. SinkType'
    BY <1>1, <1>10, Parts DEF SinkType
  <2>2. BindType'
    BY <1>1, <1>12, Parts DEF BindType
  <2>3. StoreType'
    BY <1>1, <1>8, Parts DEF StoreType, Outcomes
  <2> QED BY <2>1, <2>2, <2>3, <1>1, Parts, KeepPodType, KeepLinkType, KeepFaultType DEF TypeOK
<1>14. MuHeld'
  BY <1>1, <1>12, Parts DEF MuHeld
<1>15. StopWaits'
  BY <1>1, <1>2, Parts DEF StopWaits
<1>16. HandledOnce'
  <2>1. consumer'.at \notin {"record", "arm"}
    BY <1>12
  <2> QED BY <2>1, <1>1, <1>9, Parts DEF HandledOnce
<1>17. OpenWaits'
  <2>1. \A q \in Requests : Decided(q)' => Decided(q)
    BY <1>8 DEF NoNews, Decided
  <2> QED BY <2>1, <1>1, <1>4, <1>8, <1>10, Parts DEF OpenWaits, LogKept
<1>18. Supersedes'
  BY <1>1, <1>3, <1>4, <1>10, <1>12 DEF Supersedes
<1>19. SettledForGood'
  <2>1. \A q \in Requests : Decided(q)' => Decided(q)
    BY <1>8 DEF NoNews, Decided
  <2> QED BY <2>1, <1>1, <1>12, Parts DEF SettledForGood
<1>20. Claims'
  BY <1>1, <1>6, <1>8, Parts, FreeClaims
<1>21. AskedOnce' /\ OneVerdict' /\ FramesInOrder'
  BY <1>1, <1>8, Parts, KeepAsked, KeepVerdict, KeepFrames
<1> QED BY <1>13, <1>14, <1>15, <1>16, <1>17, <1>18, <1>19, <1>20, <1>21 DEF DecisionInv

LEMMA ClearStep ==
    ASSUME DecisionInv, ClearDropped
    PROVE  DecisionInv'
<1> USE DEF podVars, linkVars, sinkVars, faultVars
<1>1. /\ consumer.at = "clear"
      /\ \/ cmds' = Store!DeletePodCommand(cmds, consumer.req, None)
         \/ cmds' = cmds
      /\ consumer' = At("supersede", None, None, consumer.left \ {consumer.req})
      /\ UNCHANGED <<podVars, linkVars, podSeq, log, ended, sinkVars, closed, permMu,
                     expiry, stopper, memo, calls, faultVars>>
  BY DEF ClearDropped
<1>2. stopper.at = "idle" /\ ~stopped /\ ~ended
  BY <1>1, AtWork
<1>3. /\ consumer.left \subseteq Requests /\ consumer.req \in Requests /\ cmds[consumer.req] = None
      /\ \A q \in consumer.left \ {consumer.req} : waiters[q] # "no"
      /\ cmds \in [Requests -> Outcomes \cup {None}]
  BY <1>1, Parts DEF Supersedes, StoreType
<1>4. cmds' = cmds
  BY <1>1, <1>3 DEF Store!DeletePodCommand
<1>5. /\ consumer'.at = "supersede" /\ consumer'.left = consumer.left \ {consumer.req}
      /\ consumer' \in ConsumerState
  <2>1. consumer.left \ {consumer.req} \in SUBSET (Requests \cup Nat)
    BY <1>3
  <2> QED BY <1>1, <2>1 DEF At, ConsumerState
<1>6. NoNews /\ LogKept /\ LogSame
  BY <1>1, <1>4, Untouched
<1>7. TypeOK'
  <2>1. BindType'
    BY <1>1, <1>5, Parts DEF BindType
  <2> QED BY <2>1, <1>1, <1>4, Parts, KeepPodType, KeepLinkType, KeepStoreType, KeepSinkType, KeepFaultType
          DEF TypeOK
<1>8. MuHeld'
  BY <1>1, <1>5, Parts DEF MuHeld
<1>9. StopWaits'
  BY <1>1, <1>2, Parts DEF StopWaits
<1>10. HandledOnce'
  BY <1>1, <1>5, Parts DEF HandledOnce, InLog
<1>11. OpenWaits'
  <2>1. \A q \in Requests : Decided(q)' => Decided(q)
    BY <1>6 DEF NoNews, Decided
  <2> QED BY <2>1, <1>1, <1>6, Parts DEF OpenWaits, LogKept
<1>12. Supersedes'
  BY <1>1, <1>3, <1>5 DEF Supersedes
<1>13. SettledForGood'
  <2>1. \A q \in Requests : Decided(q)' => Decided(q)
    BY <1>6 DEF NoNews, Decided
  <2> QED BY <2>1, <1>1, <1>4, <1>5, Parts DEF SettledForGood
<1>14. AskedOnce' /\ OneVerdict' /\ FramesInOrder' /\ Claims'
  BY <1>1, <1>4, <1>6, Parts, KeepAsked, KeepVerdict, KeepFrames, KeepClaims
<1> QED BY <1>7, <1>8, <1>9, <1>10, <1>11, <1>12, <1>13, <1>14 DEF DecisionInv

LEMMA ReconciledStep ==
    ASSUME DecisionInv, Reconciled
    PROVE  DecisionInv'
<1> USE DEF podVars, linkVars, storeVars, sinkVars, faultVars
<1>1. /\ consumer.at = "supersede" /\ consumer' = Idle /\ permMu' = Nobody
      /\ UNCHANGED <<podVars, linkVars, storeVars, sinkVars, closed, expiry, stopper,
                     memo, calls, faultVars>>
  BY DEF Reconciled
<1>2. stopper.at = "idle" /\ ~stopped /\ ~ended
  BY <1>1, AtWork
<1>3. consumer'.at = "idle" /\ consumer' \in ConsumerState
  BY <1>1, IdleFacts, IdleTypes
<1>4. NoNews /\ LogKept /\ LogSame
  BY <1>1, Untouched
<1>5. NoClaims
  BY <1>1, Parts, NobodyDecides, PermissionsAssumption DEF MuHeld
<1>6. TypeOK'
  <2>1. BindType'
    BY <1>1, <1>3, Parts DEF BindType
  <2> QED BY <2>1, <1>1, Parts, KeepPodType, KeepLinkType, KeepStoreType, KeepSinkType, KeepFaultType
          DEF TypeOK
<1>7. MuHeld'
  BY <1>1, <1>2, <1>3, <1>5, PermissionsAssumption DEF MuHeld, NoClaims, Nobody
<1>8. StopWaits'
  BY <1>1, <1>2, Parts DEF StopWaits
<1>9. HandledOnce'
  BY <1>1, <1>3, Parts DEF HandledOnce, InLog
<1>10. OpenWaits'
  <2>1. \A q \in Requests : Decided(q)' => Decided(q)
    BY <1>4 DEF NoNews, Decided
  <2> QED BY <2>1, <1>1, <1>4, Parts DEF OpenWaits, LogKept
<1>11. Supersedes'
  BY <1>3 DEF Supersedes
<1>12. SettledForGood'
  <2>1. \A q \in Requests : Decided(q)' => Decided(q)
    BY <1>4 DEF NoNews, Decided
  <2> QED BY <2>1, <1>1, <1>3, Parts DEF SettledForGood
<1>13. AskedOnce' /\ OneVerdict' /\ FramesInOrder' /\ Claims'
  BY <1>1, <1>4, Parts, KeepAsked, KeepVerdict, KeepFrames, KeepClaims
<1> QED BY <1>6, <1>7, <1>8, <1>9, <1>10, <1>11, <1>12, <1>13 DEF DecisionInv

LEMMA ConsumerReturnsStep ==
    ASSUME DecisionInv, ConsumerReturns
    PROVE  DecisionInv'
<1> USE DEF podVars, linkVars, storeVars, sinkVars, faultVars
<1>1. /\ consumer = Idle /\ consumer' = At("gone", None, None, {})
      /\ UNCHANGED <<podVars, linkVars, storeVars, sinkVars, closed, permMu, expiry,
                     stopper, memo, calls, faultVars>>
  BY DEF ConsumerReturns
<1>2. consumer.at = "idle" /\ stopper.at = "idle" /\ ~stopped /\ ~ended
  BY <1>1, IdleFacts, AtWork
<1>3. consumer'.at = "gone" /\ consumer' \in ConsumerState
  BY <1>1 DEF At, ConsumerState
<1>4. NoNews /\ LogKept /\ LogSame
  BY <1>1, Untouched
<1>5. TypeOK'
  <2>1. BindType'
    BY <1>1, <1>3, Parts DEF BindType
  <2> QED BY <2>1, <1>1, Parts, KeepPodType, KeepLinkType, KeepStoreType, KeepSinkType, KeepFaultType
          DEF TypeOK
<1>6. MuHeld'
  BY <1>1, <1>2, <1>3, Parts DEF MuHeld
<1>7. StopWaits'
  BY <1>1, <1>2, Parts DEF StopWaits
<1>8. HandledOnce'
  BY <1>1, <1>3, Parts DEF HandledOnce, InLog
<1>9. OpenWaits'
  <2>1. \A q \in Requests : Decided(q)' => Decided(q)
    BY <1>4 DEF NoNews, Decided
  <2> QED BY <2>1, <1>1, <1>2, <1>4, Parts DEF OpenWaits, LogKept
<1>10. Supersedes'
  BY <1>3 DEF Supersedes
<1>11. SettledForGood'
  <2>1. \A q \in Requests : Decided(q)' => Decided(q)
    BY <1>4 DEF NoNews, Decided
  <2> QED BY <2>1, <1>1, <1>3, Parts DEF SettledForGood
<1>12. AskedOnce' /\ OneVerdict' /\ FramesInOrder' /\ Claims'
  BY <1>1, <1>4, Parts, KeepAsked, KeepVerdict, KeepFrames, KeepClaims
<1> QED BY <1>5, <1>6, <1>7, <1>8, <1>9, <1>10, <1>11, <1>12 DEF DecisionInv

-----------------------------------------------------------------------------
(* A decision: taken, saved, recorded, sent.                               *)

\* The first trace of an answer.
LEMMA Saved ==
    ASSUME DecisionInv, NEW r \in Requests, NEW o \in Outcomes, ~Decided(r), InLog(r),
           cmds' = Store!PutPodCommand(cmds, r, o), UNCHANGED <<log, got, down>>
    PROVE  /\ cmds' \in [Requests -> Outcomes \cup {None}] /\ cmds'[r] = o /\ cmds'[r] # None
           /\ \A q \in Requests : q # r => cmds'[q] = cmds[q]
           /\ \A q \in Requests : Decided(q)' => Decided(q) \/ q = r
           /\ OneVerdict' /\ LogKept /\ LogSame
           /\ \A i \in DOMAIN log' : ~AnswersIt(i, r)'
<1>1. cmds \in [Requests -> Outcomes \cup {None}]
  BY Parts DEF StoreType
<1>2. cmds' = [cmds EXCEPT ![r] = o]
  BY DEF Store!PutPodCommand
<1>3. /\ cmds' \in [Requests -> Outcomes \cup {None}] /\ cmds'[r] = o
      /\ \A q \in Requests : q # r => cmds'[q] = cmds[q]
  BY <1>1, <1>2
<1>4. o # None
  BY PermissionsAssumption DEF Outcomes, Cancelled, None
<1>5. LogKept /\ LogSame
  BY DEF LogKept, LogSame, InLog, AnswersIt
<1>6. \A q \in Requests, p \in Outcomes : q # r => (Verdict(q, p)' => Verdict(q, p))
  BY <1>3 DEF Verdict, AnswersIt
<1>7. \A p \in Outcomes : ~Verdict(r, p)
  BY DEF Decided
<1>8. \A p \in Outcomes : Verdict(r, p)' => p = o
  BY <1>3, <1>7 DEF Verdict, AnswersIt
<1>9. \A q \in Requests : Decided(q)' => Decided(q) \/ q = r
  BY <1>6 DEF Decided, Outcomes
<1>10. \A i \in DOMAIN log' : ~AnswersIt(i, r)'
  <2> SUFFICES ASSUME NEW i \in DOMAIN log, AnswersIt(i, r) PROVE FALSE
    BY DEF AnswersIt
  <2>1. Outcome(log[i].how) \in Outcomes
    <3>1. log[i] \in Entry
      BY Parts DEF StoreType
    <3>2. log[i].how \in Options \cup {Expired}
      BY <3>1 DEF Entry, AnswersIt
    <3> QED BY <3>2 DEF Outcome, Outcomes
  <2> QED BY <2>1, <1>7 DEF Verdict
<1>11. OneVerdict'
  <2>1. \A q \in Requests : \A p, s \in Outcomes : Verdict(q, p)' /\ Verdict(q, s)' => p = s
    BY <1>6, <1>8, Parts DEF OneVerdict
  <2>2. \A q \in Requests : \A i, j \in DOMAIN log' : AnswersIt(i, q)' /\ AnswersIt(j, q)' => i = j
    BY <1>5, Parts DEF LogSame, OneVerdict
  <2>3. \A q \in Requests : Decided(q)' => InLog(q)'
    BY <1>5, <1>9, Parts DEF OneVerdict, LogKept
  <2> QED BY <2>1, <2>2, <2>3 DEF OneVerdict, Outcomes
<1> QED BY <1>3, <1>4, <1>5, <1>9, <1>10, <1>11

\* The log tells what was saved.
LEMMA TellsSaved ==
    ASSUME DecisionInv, NEW r \in Requests, NEW h \in Options \cup {Expired},
           cmds[r] = Outcome(h), InLog(r), \A i \in DOMAIN log : ~AnswersIt(i, r),
           emit(Resolved(r, h)), UNCHANGED <<cmds, got, down>>
    PROVE  /\ NoNews /\ LogKept /\ OneVerdict' /\ log' \in Seq(Entry)
           /\ \A q \in Requests : InLog(q)' => InLog(q)
<1>1. PICK e \in Entry : e = Resolved(r, h) /\ e.how = h /\ e.request = r
  BY ResolvedFacts
<1>2. Grew(e)
  BY <1>1, Parts, EmitGrew
<1>3. h # None
  BY PermissionsAssumption DEF None, Expired
<1>4. /\ log' \in Seq(Entry) /\ LogKept
      /\ \A q \in Requests : InLog(q)' => InLog(q) \/ e = Asked(q)
      /\ \A q \in Requests, i \in DOMAIN log' : AnswersIt(i, q)' =>
           \/ i \in DOMAIN log /\ AnswersIt(i, q) /\ log'[i] = log[i]
           \/ /\ i = Len(log) + 1 /\ e.request = q /\ e.how \notin {None, Superseded}
              /\ log'[i] = e
  BY <1>2, Parts, GrewFacts
<1>5. \A q \in Requests : InLog(q)' => InLog(q)
  <2>1. \A q \in Requests : e # Asked(q)
    BY <1>1, <1>3, AskedFacts
  <2> QED BY <2>1, <1>4
<1>6. NoNews
  <2> SUFFICES ASSUME NEW q \in Requests, NEW o \in Outcomes, Verdict(q, o)'
               PROVE  Verdict(q, o)
    BY DEF NoNews, Outcomes
  <2>1. CASE \E i \in DOMAIN log' : AnswersIt(i, q)' /\ Outcome(log'[i].how) = o
    <3>1. PICK i \in DOMAIN log' : AnswersIt(i, q)' /\ Outcome(log'[i].how) = o
      BY <2>1
    <3>2. CASE i \in DOMAIN log /\ AnswersIt(i, q) /\ log'[i] = log[i]
      BY <3>1, <3>2 DEF Verdict
    <3>3. CASE e.request = q /\ log'[i] = e
      BY <3>1, <3>3, <1>1 DEF Verdict
    <3> QED BY <3>1, <3>2, <3>3, <1>4
  <2>2. CASE cmds'[q] = o \/ got'[q] = o \/ \E i \in DOMAIN down' : down'[i].req = q /\ down'[i].opt = o
    BY <2>2 DEF Verdict
  <2> QED BY <2>1, <2>2 DEF Verdict, Outcome
<1>7. OneVerdict'
  <2>1. \A q \in Requests : Decided(q)' => Decided(q)
    BY <1>6 DEF NoNews, Decided
  <2>2. \A q \in Requests : \A o, p \in Outcomes : Verdict(q, o)' /\ Verdict(q, p)' => o = p
    BY <1>6, Parts DEF NoNews, OneVerdict
  <2>3. \A q \in Requests : \A i, j \in DOMAIN log' : AnswersIt(i, q)' /\ AnswersIt(j, q)' => i = j
    <3> SUFFICES ASSUME NEW q \in Requests, NEW i \in DOMAIN log', NEW j \in DOMAIN log',
                        AnswersIt(i, q)', AnswersIt(j, q)'
                 PROVE  i = j
      OBVIOUS
    <3>1. CASE q = r
      BY <3>1, <1>4
    <3>2. CASE q # r
      BY <3>2, <1>1, <1>4, Parts DEF OneVerdict
    <3> QED BY <3>1, <3>2
  <2> QED BY <2>1, <2>2, <2>3, <1>4, Parts DEF OneVerdict, LogKept, Outcomes
<1> QED BY <1>4, <1>5, <1>6, <1>7

\* The pod is sent what was saved.
LEMMA SendsSaved ==
    ASSUME DecisionInv, NEW r \in Requests, NEW o \in Outcomes, cmds[r] = o,
           Decide(r, o), UNCHANGED <<log, cmds, got>>
    PROVE  /\ NoNews /\ LogKept /\ LogSame /\ down' \in Seq(Decision)
<1>0. [req |-> r, opt |-> o] \in Decision
  BY DEF Decision
<1>1. PICK d \in Decision : d = [req |-> r, opt |-> o] /\ d.req = r /\ d.opt = o
  BY <1>0
<1>2. down \in Seq(Decision) /\ down' = Append(down, d)
  BY <1>1, Parts DEF LinkType, Decide
<1>3. /\ down' \in Seq(Decision)
      /\ down'[Len(down) + 1] = d
      /\ \A i \in DOMAIN down : down'[i] = down[i]
      /\ \A i \in DOMAIN down' : i \in DOMAIN down \/ i = Len(down) + 1
  BY <1>2, AppendTo
<1>4. NoNews
  BY <1>1, <1>3 DEF NoNews, Verdict, AnswersIt
<1>5. LogKept /\ LogSame
  BY DEF LogKept, LogSame, InLog, AnswersIt
<1> QED BY <1>3, <1>4, <1>5

-----------------------------------------------------------------------------
(* The timer.                                                              *)

LEMMA FireStep ==
    ASSUME DecisionInv, NEW r \in Requests, fire(r)
    PROVE  DecisionInv'
<1> USE DEF podVars, linkVars, storeVars, bindVars, faultVars
<1>1. /\ waiters[r] = "armed" /\ waiters' = [waiters EXCEPT ![r] = "spent"]
      /\ fired' = [fired EXCEPT ![r] = @ + 1]
      /\ UNCHANGED <<stopped, podVars, linkVars, storeVars, bindVars, faultVars>>
  BY DEF fire
<1>2. waiters \in [Requests -> {"no", "bare", "armed", "spent"}] /\ fired \in [Requests -> Nat]
  BY Parts DEF SinkType
<1>3. /\ waiters' \in [Requests -> {"no", "bare", "armed", "spent"}] /\ fired' \in [Requests -> Nat]
      /\ waiters'[r] = "spent"
      /\ \A q \in Requests : q # r => waiters'[q] = waiters[q] /\ fired'[q] = fired[q]
  BY <1>1, <1>2
<1>4. NoNews /\ LogKept /\ LogSame
  BY <1>1, Untouched
<1>5. TypeOK'
  <2>1. SinkType'
    BY <1>1, <1>3, Parts DEF SinkType
  <2> QED BY <2>1, <1>1, Parts, KeepPodType, KeepLinkType, KeepStoreType, KeepBindType, KeepFaultType
          DEF TypeOK
<1>6. OpenWaits'
  <2>1. \A q \in Requests : Decided(q)' => Decided(q)
    BY <1>4 DEF NoNews, Decided
  <2>2. ~Decided(r) /\ InLog(r)
    BY <1>1, Parts DEF OpenWaits
  <2> QED BY <2>1, <2>2, <1>1, <1>3, <1>4, Parts DEF OpenWaits, LogKept
<1>7. Claims' /\ Supersedes'
  <2>1. /\ \A q \in Requests : waiters[q] = "no" /\ InLog(q) => waiters'[q] = "no"
        /\ \A q \in Requests : waiters[q] # "no" => waiters'[q] # "no"
    BY <1>1, <1>3
  <2> QED BY <2>1, <1>1, <1>4, Parts, KeepClaims, KeepSupersedes
<1>8. MuHeld' /\ StopWaits' /\ AskedOnce' /\ HandledOnce' /\ FramesInOrder' /\ OneVerdict' /\ SettledForGood'
  BY <1>1, <1>4, Parts, KeepMu, KeepStop, KeepAsked, KeepHandled, KeepFrames, KeepVerdict, KeepSettled
<1> QED BY <1>5, <1>6, <1>7, <1>8 DEF DecisionInv

LEMMA ExpireTakeStep ==
    ASSUME DecisionInv, NEW r \in Requests, ExpireTake(r)
    PROVE  DecisionInv'
<1> USE DEF podVars, linkVars, storeVars, faultVars
<1>1. /\ fired[r] > 0 /\ permMu = Nobody /\ fired' = [fired EXCEPT ![r] = @ - 1]
      /\ UNCHANGED <<podVars, linkVars, storeVars, stopped, closed, consumer, stopper,
                     memo, calls, faultVars>>
  BY DEF ExpireTake
<1>2. waiters \in [Requests -> {"no", "bare", "armed", "spent"}] /\ fired \in [Requests -> Nat]
  BY Parts DEF SinkType
<1>3. /\ fired' \in [Requests -> Nat]
      /\ \A q \in Requests : fired'[q] > 0 => fired[q] > 0
  BY <1>1, <1>2
<1>4. NoNews /\ LogKept /\ LogSame
  BY <1>1, Untouched
<1>5. NoClaims
  BY <1>1, Parts, NobodyDecides, PermissionsAssumption DEF Nobody
<1>6. \A q \in Requests : Decided(q)' => Decided(q)
  BY <1>4 DEF NoNews, Decided
<1>7. AskedOnce' /\ HandledOnce' /\ FramesInOrder' /\ OneVerdict' /\ SettledForGood' /\ StopWaits'
  BY <1>1, <1>4, Parts, KeepAsked, KeepHandled, KeepFrames, KeepVerdict, KeepSettled, KeepStop
<1>8. CASE UNCHANGED <<waiters, permMu, expiry>>
  <2>1. TypeOK'
    <3>1. SinkType'
      BY <1>1, <1>3, <1>8, Parts DEF SinkType
    <3>2. BindType'
      BY <1>1, <1>8, Parts DEF BindType
    <3> QED BY <3>1, <3>2, <1>1, Parts, KeepPodType, KeepLinkType, KeepStoreType, KeepFaultType DEF TypeOK
  <2>2. OpenWaits'
    BY <1>1, <1>3, <1>4, <1>6, <1>8, Parts DEF OpenWaits, LogKept
  <2>3. MuHeld' /\ Claims' /\ Supersedes'
    BY <1>1, <1>4, <1>8, Parts, KeepMu, KeepClaims, KeepSupersedes
  <2> QED BY <2>1, <2>2, <2>3, <1>7 DEF DecisionInv
<1>9. CASE /\ r \in Pending /\ waiters' = [waiters EXCEPT ![r] = "no"] /\ permMu' = "timer"
           /\ expiry' = At("save", r, Cancelled, {})
  <2>1. /\ waiters' \in [Requests -> {"no", "bare", "armed", "spent"}] /\ waiters'[r] = "no"
        /\ \A q \in Requests : q # r => waiters'[q] = waiters[q]
    BY <1>2, <1>9
  <2>2. /\ expiry'.at = "save" /\ expiry'.req = r /\ expiry'.opt = Cancelled
        /\ expiry' \in TimerState
    BY <1>9 DEF At, TimerState
  <2>3. waiters[r] # "no" /\ ~Decided(r) /\ InLog(r)
    BY <1>1, <1>9, Parts DEF Pending, OpenWaits
  <2>4. TypeOK'
    <3>1. SinkType'
      BY <1>1, <1>3, <2>1, Parts DEF SinkType
    <3>2. BindType'
      BY <1>1, <1>9, <2>2, Parts DEF BindType
    <3> QED BY <3>1, <3>2, <1>1, Parts, KeepPodType, KeepLinkType, KeepStoreType, KeepFaultType DEF TypeOK
  <2>5. OpenWaits'
    BY <1>1, <1>3, <1>4, <1>6, <2>1, Parts DEF OpenWaits, LogKept
  <2>6. ClaimOf(expiry)'
    BY <1>4, <1>6, <2>1, <2>2, <2>3 DEF ClaimOf, LogKept, Outcomes
  <2>7. Claims'
    BY <1>1, <1>4, <1>5, <2>6, Parts, TimerClaims DEF NoClaims
  <2>8. MuHeld'
    BY <1>1, <1>5, <1>9, <2>2, Parts, PermissionsAssumption DEF MuHeld, NoClaims, Nobody
  <2>9. Supersedes'
    BY <1>1, Parts DEF Supersedes, MuHeld, Nobody
  <2> QED BY <2>4, <2>5, <2>7, <2>8, <2>9, <1>7 DEF DecisionInv
<1> QED BY <1>8, <1>9 DEF ExpireTake, take

\* The timer alone decides.
LEMMA TimerDecides ==
    ASSUME DecisionInv, expiry.at # "idle"
    PROVE  /\ permMu = "timer" /\ expiry.at \in {"save", "emit", "decide"}
           /\ \A c \in Callers : calls[c].at \notin {"save", "emit", "decide"}
           /\ consumer.at \notin {"await", "supersede", "clear"} /\ stopper.at # "supersede"
           /\ expiry.req \in Requests /\ InLog(expiry.req) /\ waiters[expiry.req] = "no"
<1>1. expiry.at \in {"save", "emit", "decide"}
  BY Parts DEF BindType, TimerState
<1>2. permMu = "timer" /\ \A c \in Callers : c # "timer"
  BY Parts, PermissionsAssumption DEF MuHeld
<1> QED BY <1>1, <1>2, Parts DEF MuHeld, Claims, ClaimOf

\* permMu is free again.
LEMMA MuFreed ==
    ASSUME DecisionInv, permMu' = Nobody,
           consumer'.at \notin {"await", "supersede", "clear"}, stopper'.at # "supersede",
           expiry'.at = "idle", \A c \in Callers : calls'[c].at \notin {"save", "emit", "decide"}
    PROVE  MuHeld'
BY PermissionsAssumption DEF MuHeld, Nobody

LEMMA ExpireSaveStep ==
    ASSUME DecisionInv, ExpireSave
    PROVE  DecisionInv'
<1> USE DEF podVars, linkVars
<1>1. /\ expiry.at = "save"
      /\ UNCHANGED <<podVars, linkVars, podSeq, log, ended, fired, stopped, closed,
                     consumer, stopper, memo, calls, drops, restarts>>
  BY DEF ExpireSave
<1>2. /\ permMu = "timer" /\ consumer.at \notin {"await", "supersede", "clear"}
      /\ \A c \in Callers : calls[c].at \notin {"save", "emit", "decide"}
      /\ stopper.at # "supersede"
  BY <1>1, TimerDecides
<1>3. PICK r \in Requests : r = expiry.req
  BY <1>1, TimerDecides
<1>4. InLog(r) /\ waiters[r] = "no" /\ ~Decided(r)
  BY <1>1, <1>3, Parts DEF Claims, ClaimOf
<1>5. /\ waiters \in [Requests -> {"no", "bare", "armed", "spent"}] /\ expiry \in TimerState
  BY Parts DEF SinkType, BindType
<1>6. Cancelled \in Outcomes
  BY DEF Outcomes
<1>7. AskedOnce' /\ HandledOnce' /\ FramesInOrder' /\ StopWaits'
  BY <1>1, Parts, KeepAsked, KeepHandled, KeepFrames, KeepStop
<1>8. Supersedes'
  BY <1>1, <1>2 DEF Supersedes
<1>9. CASE /\ StoreOK /\ cmds' = Store!PutPodCommand(cmds, r, Cancelled)
           /\ expiry' = [expiry EXCEPT !.at = "emit"] /\ UNCHANGED <<waiters, permMu>>
  <2>1. /\ cmds' \in [Requests -> Outcomes \cup {None}] /\ cmds'[r] = Cancelled /\ cmds'[r] # None
        /\ \A q \in Requests : q # r => cmds'[q] = cmds[q]
        /\ \A q \in Requests : Decided(q)' => Decided(q) \/ q = r
        /\ OneVerdict' /\ LogKept /\ LogSame
        /\ \A i \in DOMAIN log' : ~AnswersIt(i, r)'
    BY <1>1, <1>4, <1>6, <1>9, Saved
  <2>2. /\ expiry' \in TimerState /\ expiry'.at = "emit" /\ expiry'.req = r /\ expiry'.opt = expiry.opt
    BY <1>3, <1>5, <1>9 DEF TimerState
  <2>3. expiry.opt = Cancelled
    <3>1. expiry.opt \in Outcomes /\ None \notin Outcomes
      BY <1>1, Parts, PermissionsAssumption DEF Claims, ClaimOf, Outcomes, Cancelled, None
    <3> QED BY <3>1, <1>5 DEF TimerState
  <2>4. TypeOK'
    <3>1. StoreType'
      BY <1>1, <2>1, Parts DEF StoreType, Outcomes
    <3>2. BindType'
      BY <1>1, <1>9, <2>2, Parts DEF BindType
    <3>3. FaultType'
      BY <1>1, <1>9, Parts, FaultCounted
    <3>4. SinkType'
      BY <1>1, <1>9, Parts DEF SinkType
    <3> QED BY <3>1, <3>2, <3>3, <3>4, <1>1, Parts, KeepPodType, KeepLinkType DEF TypeOK
  <2>5. OpenWaits'
    BY <1>1, <1>4, <1>9, <2>1, Parts DEF OpenWaits, LogKept
  <2>6. ClaimOf(expiry)'
    BY <1>4, <1>6, <1>9, <2>1, <2>2, <2>3 DEF ClaimOf, LogKept, Outcomes
  <2>7. Claims'
    BY <1>1, <1>2, <2>1, <2>6, Parts, TimerClaims
  <2>8. MuHeld'
    BY <1>1, <1>2, <1>9, <2>2, Parts DEF MuHeld
  <2>9. SettledForGood'
    BY <1>1, <2>1, Parts DEF SettledForGood
  <2> QED BY <2>1, <2>4, <2>5, <2>7, <2>8, <2>9, <1>7, <1>8 DEF DecisionInv
<1>10. CASE /\ StoreFault /\ restore(r) /\ expiry' = Idle /\ permMu' = Nobody /\ UNCHANGED cmds
  <2>1. /\ waiters' \in [Requests -> {"no", "bare", "armed", "spent"}]
        /\ waiters'[r] \in {"no", "armed"}
        /\ \A q \in Requests : q # r => waiters'[q] = waiters[q]
    BY <1>4, <1>5, <1>10 DEF restore
  <2>2. expiry' \in TimerState /\ expiry'.at = "idle"
    BY <1>10, IdleFacts, IdleTypes
  <2>3. NoNews /\ LogKept /\ LogSame
    BY <1>1, <1>10, Untouched
  <2>4. TypeOK'
    <3>1. SinkType'
      BY <1>1, <2>1, Parts DEF SinkType
    <3>2. BindType'
      BY <1>1, <1>10, <2>2, Parts DEF BindType
    <3>3. FaultType'
      BY <1>1, <1>10, Parts, FaultCounted
    <3> QED BY <3>1, <3>2, <3>3, <1>1, <1>10, Parts, KeepPodType, KeepLinkType, KeepStoreType DEF TypeOK
  <2>5. OpenWaits'
    <3>1. \A q \in Requests : Decided(q)' => Decided(q)
      BY <2>3 DEF NoNews, Decided
    <3> QED BY <3>1, <1>1, <1>4, <2>1, <2>3, Parts DEF OpenWaits, LogKept
  <2>6. ClaimOf(expiry)'
    BY <2>2 DEF ClaimOf
  <2>7. Claims'
    BY <1>1, <1>2, <2>3, <2>6, Parts, TimerClaims
  <2>8. MuHeld'
    BY <1>1, <1>2, <1>10, <2>2, MuFreed
  <2>9. OneVerdict' /\ SettledForGood'
    BY <1>1, <1>10, <2>3, Parts, KeepVerdict, KeepSettled
  <2> QED BY <2>4, <2>5, <2>7, <2>8, <2>9, <1>7, <1>8 DEF DecisionInv
<1> QED BY <1>3, <1>9, <1>10 DEF ExpireSave

LEMMA ExpireEmitStep ==
    ASSUME DecisionInv, ExpireEmit
    PROVE  DecisionInv'
<1> USE DEF podVars, linkVars, sinkVars
<1>1. /\ expiry.at = "emit" /\ emit(Resolved(expiry.req, Expired))
      /\ expiry' = [expiry EXCEPT !.at = "decide"]
      /\ UNCHANGED <<podVars, linkVars, podSeq, cmds, ended, sinkVars, closed, permMu,
                     consumer, stopper, memo, calls, drops, restarts>>
  BY DEF ExpireEmit
<1>2. /\ permMu = "timer" /\ \A c \in Callers : calls[c].at \notin {"save", "emit", "decide"}
  BY <1>1, TimerDecides
<1>3. PICK r \in Requests : r = expiry.req
  BY <1>1, TimerDecides
<1>4. /\ InLog(r) /\ waiters[r] = "no" /\ cmds[r] = expiry.opt /\ expiry.opt \in Outcomes
      /\ \A i \in DOMAIN log : ~AnswersIt(i, r)
  BY <1>1, <1>3, Parts DEF Claims, ClaimOf
<1>5. expiry \in TimerState
  BY Parts DEF BindType
<1>6. cmds[r] = Outcome(Expired)
  BY <1>4, <1>5, PermissionsAssumption DEF TimerState, Outcome, Outcomes, None, Cancelled
<1>7. /\ NoNews /\ LogKept /\ OneVerdict' /\ log' \in Seq(Entry)
      /\ \A q \in Requests : InLog(q)' => InLog(q)
  <2>1. PICK h \in Options \cup {Expired} : h = Expired
    OBVIOUS
  <2> QED BY <2>1, <1>1, <1>3, <1>4, <1>6, TellsSaved
<1>8. /\ expiry' \in TimerState /\ expiry'.at = "decide" /\ expiry'.req = r /\ expiry'.opt = expiry.opt
  BY <1>1, <1>3, <1>5 DEF TimerState
<1>9. TypeOK'
  <2>1. StoreType'
    BY <1>1, <1>7, Parts DEF StoreType, Outcomes
  <2>2. BindType'
    BY <1>1, <1>8, Parts DEF BindType
  <2>3. FaultType'
    BY <1>1, Parts, FaultCounted DEF emit
  <2> QED BY <2>1, <2>2, <2>3, <1>1, Parts, KeepPodType, KeepLinkType, KeepSinkType DEF TypeOK
<1>10. ClaimOf(expiry)'
  BY <1>1, <1>4, <1>7, <1>8 DEF ClaimOf, LogKept, Outcomes
<1>11. Claims'
  BY <1>1, <1>2, <1>7, <1>10, Parts, TimerClaims
<1>12. MuHeld'
  BY <1>1, <1>2, <1>8, Parts DEF MuHeld
<1>13. HandledOnce'
  BY <1>1, <1>7, Parts DEF HandledOnce, LogKept
<1>14. StopWaits' /\ AskedOnce' /\ FramesInOrder' /\ OpenWaits' /\ Supersedes' /\ SettledForGood'
  BY <1>1, <1>7, Parts, KeepStop, KeepAsked, KeepFrames, KeepOpen, KeepSupersedes, KeepSettled
<1> QED BY <1>7, <1>9, <1>11, <1>12, <1>13, <1>14 DEF DecisionInv

LEMMA ExpireDecideStep ==
    ASSUME DecisionInv, ExpireDecide
    PROVE  DecisionInv'
<1> USE DEF podVars, storeVars, sinkVars, faultVars
<1>1. /\ expiry.at = "decide" /\ Decide(expiry.req, Cancelled)
      /\ expiry' = Idle /\ permMu' = Nobody
      /\ UNCHANGED <<podVars, stream, inbox, delivered, storeVars, sinkVars, closed,
                     consumer, stopper, memo, calls, faultVars>>
  BY DEF ExpireDecide
<1>2. /\ permMu = "timer" /\ \A c \in Callers : calls[c].at \notin {"save", "emit", "decide"}
      /\ consumer.at \notin {"await", "supersede", "clear"} /\ stopper.at # "supersede"
  BY <1>1, TimerDecides
<1>3. PICK r \in Requests : r = expiry.req
  BY <1>1, TimerDecides
<1>4. cmds[r] = expiry.opt /\ expiry.opt \in Outcomes
  BY <1>1, <1>3, Parts DEF Claims, ClaimOf
<1>5. PICK o \in Outcomes : o = Cancelled /\ cmds[r] = o
  BY <1>4, Parts, PermissionsAssumption DEF BindType, TimerState, Outcomes, None, Cancelled
<1>6. NoNews /\ LogKept /\ LogSame /\ down' \in Seq(Decision)
  BY <1>1, <1>3, <1>5, SendsSaved
<1>7. expiry' \in TimerState /\ expiry'.at = "idle"
  BY <1>1, IdleFacts, IdleTypes
<1>8. TypeOK'
  <2>1. LinkType'
    BY <1>1, <1>6, Parts DEF LinkType
  <2>2. BindType'
    BY <1>1, <1>7, Parts DEF BindType
  <2> QED BY <2>1, <2>2, <1>1, Parts, KeepPodType, KeepStoreType, KeepSinkType, KeepFaultType DEF TypeOK
<1>9. ClaimOf(expiry)'
  BY <1>7 DEF ClaimOf
<1>10. Claims'
  BY <1>1, <1>2, <1>6, <1>9, Parts, TimerClaims
<1>11. MuHeld'
  BY <1>1, <1>2, <1>7, MuFreed
<1>12. StopWaits' /\ AskedOnce' /\ HandledOnce' /\ FramesInOrder' /\ OneVerdict'
  BY <1>1, <1>6, Parts, KeepStop, KeepAsked, KeepHandled, KeepFrames, KeepVerdict
<1>13. OpenWaits' /\ Supersedes' /\ SettledForGood'
  BY <1>1, <1>6, Parts, KeepOpen, KeepSupersedes, KeepSettled
<1> QED BY <1>8, <1>10, <1>11, <1>12, <1>13 DEF DecisionInv

-----------------------------------------------------------------------------
(* RespondPermission.                                                      *)

CallAts == {"idle", "lock", "save", "emit", "decide", "ok", "refused"}

\* One field of a call's record changes.
LEMMA CallMoves ==
    ASSUME BindType, NEW c \in Callers, NEW a \in CallAts,
           calls' = [calls EXCEPT ![c].at = a]
    PROVE  /\ calls' \in [Callers -> CallState] /\ calls'[c].at = a
           /\ calls'[c].req = calls[c].req /\ calls'[c].opt = calls[c].opt
           /\ \A d \in Callers \ {c} : calls'[d] = calls[d]
<1>1. calls \in [Callers -> CallState]
  BY DEF BindType
<1>2. PICK x \in CallState : x = calls[c]
  BY <1>1
<1>3. PICK y : y = [x EXCEPT !.at = a]
  OBVIOUS
<1>4. y \in CallState /\ y.at = a /\ y.req = x.req /\ y.opt = x.opt
  BY <1>3 DEF CallState, CallAts
<1>5. calls' = [calls EXCEPT ![c] = y]
  BY <1>2, <1>3
<1> QED BY <1>1, <1>2, <1>4, <1>5

\* A call alone decides.
LEMMA CallDecides ==
    ASSUME DecisionInv, NEW c \in Callers, calls[c].at \in {"save", "emit", "decide"}
    PROVE  /\ permMu = c /\ expiry.at = "idle"
           /\ \A d \in Callers \ {c} : calls[d].at \notin {"save", "emit", "decide"}
           /\ consumer.at \notin {"await", "supersede", "clear"} /\ stopper.at # "supersede"
           /\ calls[c].req \in Requests /\ calls[c].opt \in Options
           /\ InLog(calls[c].req) /\ waiters[calls[c].req] = "no"
<1>1. permMu = c /\ c \notin {Nobody, "consumer", "timer", "stop"}
  BY Parts, PermissionsAssumption DEF MuHeld
<1>2. calls[c] \in CallState
  BY Parts DEF BindType
<1>3. ClaimOf(calls[c])
  BY Parts DEF Claims
<1>4. calls[c].opt \in Options
  <2>1. calls[c].opt \in Outcomes
    BY <1>3 DEF ClaimOf
  <2>2. calls[c].opt \in Options \cup {None, Unoffered}
    BY <1>2 DEF CallState
  <2> QED BY <2>1, <2>2 DEF Outcomes, None, Unoffered, Cancelled
<1> QED BY <1>1, <1>3, <1>4, Parts DEF MuHeld, ClaimOf

LEMMA RespondStep ==
    ASSUME DecisionInv, NEW c \in Callers, NEW r \in Requests, NEW o \in Options \cup {Unoffered},
           Respond(c, r, o)
    PROVE  DecisionInv'
<1> USE DEF podVars, linkVars, storeVars, sinkVars, faultVars
<1>1. /\ calls[c] = Idle /\ InLog(r)
      /\ UNCHANGED <<podVars, linkVars, storeVars, sinkVars, closed, permMu, consumer,
                     expiry, stopper, memo, faultVars>>
  BY DEF Respond
<1>2. PICK a \in {"ok", "refused", "lock"} : calls' = [calls EXCEPT ![c] = At(a, r, o, {})]
  BY DEF Respond
<1>3. PICK y : y = At(a, r, o, {})
  OBVIOUS
<1>4. y \in CallState /\ y.at = a /\ y.req = r /\ y.opt = o
  BY <1>3 DEF At, CallState
<1>5. /\ calls' \in [Callers -> CallState] /\ calls'[c] = y
      /\ \A d \in Callers \ {c} : calls'[d] = calls[d]
  BY <1>2, <1>3, <1>4, Parts DEF BindType
<1>6. NoNews /\ LogKept /\ LogSame
  BY <1>1, Untouched
<1>7. TypeOK'
  <2>1. BindType'
    BY <1>1, <1>5, Parts DEF BindType
  <2> QED BY <2>1, <1>1, Parts, KeepPodType, KeepLinkType, KeepStoreType, KeepSinkType, KeepFaultType
          DEF TypeOK
<1>8. MuHeld'
  <2>1. calls[c].at = "idle"
    BY <1>1, IdleFacts
  <2> QED BY <2>1, <1>1, <1>4, <1>5, Parts DEF MuHeld
<1>9. Claims'
  <2>1. ClaimOf(expiry)'
    <3>1. PICK x : x = expiry /\ x = expiry'
      BY <1>1
    <3>2. ClaimOf(x)
      BY <3>1, Parts DEF Claims
    <3>3. ClaimOf(x)'
      BY <1>1, <3>2, <1>6, ClaimKeeps
    <3> QED BY <3>1, <3>3 DEF ClaimOf
  <2>2. ASSUME NEW d \in Callers PROVE ClaimOf(calls[d])'
    <3>1. CASE d = c
      BY <3>1, <1>1, <1>4, <1>5, <1>6 DEF ClaimOf, LogKept
    <3>2. CASE d # c
      <4>1. PICK x : x = calls[d] /\ x = calls'[d]
        BY <3>2, <1>5
      <4>2. ClaimOf(x)
        BY <4>1, Parts DEF Claims
      <4>3. ClaimOf(x)'
        BY <1>1, <4>2, <1>6, ClaimKeeps
      <4> QED BY <4>1, <4>3 DEF ClaimOf
    <3> QED BY <3>1, <3>2
  <2> QED BY <2>1, <2>2 DEF Claims
<1>10. StopWaits' /\ AskedOnce' /\ HandledOnce' /\ FramesInOrder' /\ OneVerdict'
  BY <1>1, <1>6, Parts, KeepStop, KeepAsked, KeepHandled, KeepFrames, KeepVerdict
<1>11. OpenWaits' /\ Supersedes' /\ SettledForGood'
  BY <1>1, <1>6, Parts, KeepOpen, KeepSupersedes, KeepSettled
<1> QED BY <1>7, <1>8, <1>9, <1>10, <1>11 DEF DecisionInv

LEMMA RespondTakeStep ==
    ASSUME DecisionInv, NEW c \in Callers, RespondTake(c)
    PROVE  DecisionInv'
<1> USE DEF podVars, linkVars, storeVars, faultVars
<1>1. /\ calls[c].at = "lock" /\ permMu = Nobody
      /\ UNCHANGED <<podVars, linkVars, storeVars, fired, stopped, closed, consumer,
                     expiry, stopper, memo, faultVars>>
  BY DEF RespondTake
<1>2. PICK r \in Requests : r = calls[c].req /\ InLog(r)
  BY <1>1, Parts DEF Claims, ClaimOf
<1>3. waiters \in [Requests -> {"no", "bare", "armed", "spent"}]
  BY Parts DEF SinkType
<1>4. NoNews /\ LogKept /\ LogSame
  BY <1>1, Untouched
<1>5. NoClaims
  BY <1>1, Parts, NobodyDecides, PermissionsAssumption DEF Nobody
<1>6. \A q \in Requests : Decided(q)' => Decided(q)
  BY <1>4 DEF NoNews, Decided
<1>7. AskedOnce' /\ HandledOnce' /\ FramesInOrder' /\ OneVerdict' /\ SettledForGood' /\ StopWaits'
  BY <1>1, <1>4, Parts, KeepAsked, KeepHandled, KeepFrames, KeepVerdict, KeepSettled, KeepStop
<1>8. CASE calls' = [calls EXCEPT ![c].at = "refused"] /\ UNCHANGED <<waiters, permMu>>
  <2>1. PICK a \in CallAts : a = "refused"
    BY DEF CallAts
  <2>2. /\ calls' \in [Callers -> CallState] /\ calls'[c].at = "refused"
        /\ \A d \in Callers \ {c} : calls'[d] = calls[d]
    BY <1>8, <2>1, Parts, CallMoves
  <2>3. TypeOK'
    <3>1. SinkType'
      BY <1>1, <1>8, Parts DEF SinkType
    <3>2. BindType'
      BY <1>1, <1>8, <2>2, Parts DEF BindType
    <3> QED BY <3>1, <3>2, <1>1, Parts, KeepPodType, KeepLinkType, KeepStoreType, KeepFaultType DEF TypeOK
  <2>4. MuHeld'
    BY <1>1, <1>8, <2>2, Parts DEF MuHeld
  <2>5. ClaimOf(calls[c])'
    BY <2>2 DEF ClaimOf
  <2>6. Claims'
    BY <1>1, <1>4, <1>5, <2>2, <2>5, Parts, CallClaims DEF NoClaims, BindType
  <2>7. OpenWaits' /\ Supersedes'
    BY <1>1, <1>4, <1>8, Parts, KeepOpen, KeepSupersedes
  <2> QED BY <2>3, <2>4, <2>6, <2>7, <1>7 DEF DecisionInv
<1>9. CASE /\ validate(r, calls[c].opt) /\ waiters' = [waiters EXCEPT ![r] = "no"]
           /\ permMu' = c /\ calls' = [calls EXCEPT ![c].at = "save"]
  <2>1. PICK a \in CallAts : a = "save"
    BY DEF CallAts
  <2>2. /\ calls' \in [Callers -> CallState] /\ calls'[c].at = "save"
        /\ calls'[c].req = r /\ calls'[c].opt = calls[c].opt
        /\ \A d \in Callers \ {c} : calls'[d] = calls[d]
    BY <1>2, <1>9, <2>1, Parts, CallMoves
  <2>3. /\ waiters' \in [Requests -> {"no", "bare", "armed", "spent"}] /\ waiters'[r] = "no"
        /\ \A q \in Requests : q # r => waiters'[q] = waiters[q]
    BY <1>3, <1>9
  <2>4. ~Decided(r) /\ calls[c].opt \in Outcomes
    BY <1>9, Parts DEF validate, Pending, OpenWaits, Outcomes
  <2>5. TypeOK'
    <3>1. SinkType'
      BY <1>1, <2>3, Parts DEF SinkType
    <3>2. BindType'
      BY <1>1, <1>9, <2>2, Parts DEF BindType
    <3> QED BY <3>1, <3>2, <1>1, Parts, KeepPodType, KeepLinkType, KeepStoreType, KeepFaultType DEF TypeOK
  <2>6. MuHeld'
    <3>1. c \notin {Nobody, "consumer", "timer", "stop"}
      BY PermissionsAssumption
    <3> QED BY <3>1, <1>1, <1>5, <1>9, <2>2, Parts DEF MuHeld, NoClaims, Nobody
  <2>7. ClaimOf(calls[c])'
    BY <1>2, <1>4, <1>6, <2>2, <2>3, <2>4 DEF ClaimOf, LogKept, Outcomes
  <2>8. Claims'
    BY <1>1, <1>4, <1>5, <2>2, <2>7, Parts, CallClaims DEF NoClaims, BindType
  <2>9. OpenWaits'
    BY <1>1, <1>4, <1>6, <2>3, Parts DEF OpenWaits, LogKept
  <2>10. Supersedes'
    BY <1>1, Parts DEF Supersedes, MuHeld, Nobody
  <2> QED BY <2>5, <2>6, <2>8, <2>9, <2>10, <1>7 DEF DecisionInv
<1> QED BY <1>2, <1>8, <1>9 DEF RespondTake, take

LEMMA RespondSaveStep ==
    ASSUME DecisionInv, NEW c \in Callers, RespondSave(c)
    PROVE  DecisionInv'
<1> USE DEF podVars, linkVars
<1>1. /\ calls[c].at = "save"
      /\ UNCHANGED <<podVars, linkVars, podSeq, log, ended, fired, stopped, closed,
                     consumer, expiry, stopper, memo, drops, restarts>>
  BY DEF RespondSave
<1>2. /\ permMu = c /\ consumer.at \notin {"await", "supersede", "clear"} /\ expiry.at = "idle"
      /\ \A d \in Callers \ {c} : calls[d].at \notin {"save", "emit", "decide"}
      /\ stopper.at # "supersede"
  BY <1>1, CallDecides
<1>3. PICK r \in Requests : r = calls[c].req
  BY <1>1, CallDecides
<1>4. PICK o \in Outcomes : o = calls[c].opt
  BY <1>1, CallDecides DEF Outcomes
<1>5. InLog(r) /\ waiters[r] = "no" /\ ~Decided(r)
  BY <1>1, <1>3, Parts DEF Claims, ClaimOf
<1>6. /\ waiters \in [Requests -> {"no", "bare", "armed", "spent"}]
      /\ calls \in [Callers -> CallState]
  BY Parts DEF SinkType, BindType
<1>7. AskedOnce' /\ HandledOnce' /\ FramesInOrder' /\ StopWaits'
  BY <1>1, Parts, KeepAsked, KeepHandled, KeepFrames, KeepStop
<1>8. Supersedes'
  BY <1>1, <1>2 DEF Supersedes
<1>9. CASE /\ StoreOK /\ cmds' = Store!PutPodCommand(cmds, r, o)
           /\ calls' = [calls EXCEPT ![c].at = "emit"] /\ UNCHANGED <<waiters, permMu>>
  <2>1. /\ cmds' \in [Requests -> Outcomes \cup {None}] /\ cmds'[r] = o /\ cmds'[r] # None
        /\ \A q \in Requests : q # r => cmds'[q] = cmds[q]
        /\ \A q \in Requests : Decided(q)' => Decided(q) \/ q = r
        /\ OneVerdict' /\ LogKept /\ LogSame
        /\ \A i \in DOMAIN log' : ~AnswersIt(i, r)'
    BY <1>1, <1>5, <1>9, Saved
  <2>2. PICK a \in CallAts : a = "emit"
    BY DEF CallAts
  <2>3. /\ calls' \in [Callers -> CallState] /\ calls'[c].at = "emit"
        /\ calls'[c].req = r /\ calls'[c].opt = o
        /\ \A d \in Callers \ {c} : calls'[d] = calls[d]
    BY <1>3, <1>4, <1>9, <2>2, Parts, CallMoves
  <2>4. TypeOK'
    <3>1. StoreType'
      BY <1>1, <2>1, Parts DEF StoreType, Outcomes
    <3>2. BindType'
      BY <1>1, <1>9, <2>3, Parts DEF BindType
    <3>3. FaultType'
      BY <1>1, <1>9, Parts, FaultCounted
    <3>4. SinkType'
      BY <1>1, <1>9, Parts DEF SinkType
    <3> QED BY <3>1, <3>2, <3>3, <3>4, <1>1, Parts, KeepPodType, KeepLinkType DEF TypeOK
  <2>5. OpenWaits'
    BY <1>1, <1>5, <1>9, <2>1, Parts DEF OpenWaits, LogKept
  <2>6. ClaimOf(calls[c])'
    BY <1>5, <1>9, <2>1, <2>3 DEF ClaimOf, LogKept, Outcomes
  <2>7. Claims'
    BY <1>1, <1>2, <1>6, <2>1, <2>3, <2>6, Parts, CallClaims
  <2>8. MuHeld'
    BY <1>1, <1>2, <1>9, <2>3, Parts DEF MuHeld
  <2>9. SettledForGood'
    BY <1>1, <2>1, Parts DEF SettledForGood
  <2> QED BY <2>1, <2>4, <2>5, <2>7, <2>8, <2>9, <1>7, <1>8 DEF DecisionInv
<1>10. CASE /\ StoreFault /\ restore(r) /\ calls' = [calls EXCEPT ![c].at = "refused"]
            /\ permMu' = Nobody /\ UNCHANGED cmds
  <2>1. /\ waiters' \in [Requests -> {"no", "bare", "armed", "spent"}]
        /\ waiters'[r] \in {"no", "armed"}
        /\ \A q \in Requests : q # r => waiters'[q] = waiters[q]
    BY <1>5, <1>6, <1>10 DEF restore
  <2>2. PICK a \in CallAts : a = "refused"
    BY DEF CallAts
  <2>3. /\ calls' \in [Callers -> CallState] /\ calls'[c].at = "refused"
        /\ \A d \in Callers \ {c} : calls'[d] = calls[d]
    BY <1>10, <2>2, Parts, CallMoves
  <2>4. NoNews /\ LogKept /\ LogSame
    BY <1>1, <1>10, Untouched
  <2>5. TypeOK'
    <3>1. SinkType'
      BY <1>1, <2>1, Parts DEF SinkType
    <3>2. BindType'
      BY <1>1, <1>10, <2>3, Parts DEF BindType
    <3>3. FaultType'
      BY <1>1, <1>10, Parts, FaultCounted
    <3> QED BY <3>1, <3>2, <3>3, <1>1, <1>10, Parts, KeepPodType, KeepLinkType, KeepStoreType DEF TypeOK
  <2>6. OpenWaits'
    <3>1. \A q \in Requests : Decided(q)' => Decided(q)
      BY <2>4 DEF NoNews, Decided
    <3> QED BY <3>1, <1>1, <1>5, <2>1, <2>4, Parts DEF OpenWaits, LogKept
  <2>7. ClaimOf(calls[c])'
    BY <2>3 DEF ClaimOf
  <2>8. Claims'
    BY <1>1, <1>2, <1>6, <2>3, <2>4, <2>7, Parts, CallClaims
  <2>9. MuHeld'
    <3>1. \A d \in Callers : calls'[d].at \notin {"save", "emit", "decide"}
      BY <1>2, <2>3
    <3> QED BY <3>1, <1>1, <1>2, <1>10, MuFreed
  <2>10. OneVerdict' /\ SettledForGood'
    BY <1>1, <1>10, <2>4, Parts, KeepVerdict, KeepSettled
  <2> QED BY <2>5, <2>6, <2>8, <2>9, <2>10, <1>7, <1>8 DEF DecisionInv
<1> QED BY <1>3, <1>4, <1>9, <1>10 DEF RespondSave

LEMMA RespondEmitStep ==
    ASSUME DecisionInv, NEW c \in Callers, RespondEmit(c)
    PROVE  DecisionInv'
<1> USE DEF podVars, linkVars, sinkVars
<1>1. /\ calls[c].at = "emit" /\ emit(Resolved(calls[c].req, calls[c].opt))
      /\ calls' = [calls EXCEPT ![c].at = "decide"]
      /\ UNCHANGED <<podVars, linkVars, podSeq, cmds, ended, sinkVars, closed, permMu,
                     consumer, expiry, stopper, memo, drops, restarts>>
  BY DEF RespondEmit
<1>2. /\ permMu = c /\ expiry.at = "idle"
      /\ \A d \in Callers \ {c} : calls[d].at \notin {"save", "emit", "decide"}
  BY <1>1, CallDecides
<1>3. PICK r \in Requests : r = calls[c].req
  BY <1>1, CallDecides
<1>4. PICK o \in Options : o = calls[c].opt
  BY <1>1, CallDecides
<1>5. /\ InLog(r) /\ waiters[r] = "no" /\ cmds[r] = o
      /\ \A i \in DOMAIN log : ~AnswersIt(i, r)
  BY <1>1, <1>3, <1>4, Parts DEF Claims, ClaimOf
<1>6. cmds[r] = Outcome(o)
  BY <1>5, PermissionsAssumption DEF Outcome
<1>7. /\ NoNews /\ LogKept /\ OneVerdict' /\ log' \in Seq(Entry)
      /\ \A q \in Requests : InLog(q)' => InLog(q)
  <2>1. PICK h \in Options \cup {Expired} : h = o
    OBVIOUS
  <2> QED BY <2>1, <1>1, <1>3, <1>4, <1>5, <1>6, TellsSaved
<1>8. PICK a \in CallAts : a = "decide"
  BY DEF CallAts
<1>9. /\ calls' \in [Callers -> CallState] /\ calls'[c].at = "decide"
      /\ calls'[c].req = r /\ calls'[c].opt = o
      /\ \A d \in Callers \ {c} : calls'[d] = calls[d]
  BY <1>1, <1>3, <1>4, <1>8, Parts, CallMoves
<1>10. TypeOK'
  <2>1. StoreType'
    BY <1>1, <1>7, Parts DEF StoreType, Outcomes
  <2>2. BindType'
    BY <1>1, <1>9, Parts DEF BindType
  <2>3. FaultType'
    BY <1>1, Parts, FaultCounted DEF emit
  <2> QED BY <2>1, <2>2, <2>3, <1>1, Parts, KeepPodType, KeepLinkType, KeepSinkType DEF TypeOK
<1>11. ClaimOf(calls[c])'
  BY <1>1, <1>5, <1>7, <1>9 DEF ClaimOf, LogKept, Outcomes
<1>12. Claims'
  BY <1>1, <1>2, <1>7, <1>9, <1>11, Parts, CallClaims DEF BindType
<1>13. MuHeld'
  BY <1>1, <1>2, <1>9, Parts DEF MuHeld
<1>14. HandledOnce'
  BY <1>1, <1>7, Parts DEF HandledOnce, LogKept
<1>15. StopWaits' /\ AskedOnce' /\ FramesInOrder' /\ OpenWaits' /\ Supersedes' /\ SettledForGood'
  BY <1>1, <1>7, Parts, KeepStop, KeepAsked, KeepFrames, KeepOpen, KeepSupersedes, KeepSettled
<1> QED BY <1>7, <1>10, <1>12, <1>13, <1>14, <1>15 DEF DecisionInv

LEMMA RespondDecideStep ==
    ASSUME DecisionInv, NEW c \in Callers, RespondDecide(c)
    PROVE  DecisionInv'
<1> USE DEF podVars, storeVars, sinkVars, faultVars
<1>1. /\ calls[c].at = "decide" /\ Decide(calls[c].req, calls[c].opt)
      /\ memo' = memo \cup {calls[c].req} /\ permMu' = Nobody
      /\ calls' = [calls EXCEPT ![c].at = "ok"]
      /\ UNCHANGED <<podVars, stream, inbox, delivered, storeVars, sinkVars, closed,
                     consumer, expiry, stopper, faultVars>>
  BY DEF RespondDecide
<1>2. /\ permMu = c /\ expiry.at = "idle"
      /\ \A d \in Callers \ {c} : calls[d].at \notin {"save", "emit", "decide"}
      /\ consumer.at \notin {"await", "supersede", "clear"} /\ stopper.at # "supersede"
  BY <1>1, CallDecides
<1>3. PICK r \in Requests : r = calls[c].req
  BY <1>1, CallDecides
<1>4. PICK o \in Outcomes : o = calls[c].opt
  BY <1>1, CallDecides DEF Outcomes
<1>5. cmds[r] = o
  BY <1>1, <1>3, <1>4, Parts DEF Claims, ClaimOf
<1>6. NoNews /\ LogKept /\ LogSame /\ down' \in Seq(Decision)
  BY <1>1, <1>3, <1>4, <1>5, SendsSaved
<1>7. PICK a \in CallAts : a = "ok"
  BY DEF CallAts
<1>8. /\ calls' \in [Callers -> CallState] /\ calls'[c].at = "ok"
      /\ \A d \in Callers \ {c} : calls'[d] = calls[d]
  BY <1>1, <1>7, Parts, CallMoves
<1>9. TypeOK'
  <2>1. LinkType'
    BY <1>1, <1>6, Parts DEF LinkType
  <2>2. BindType'
    BY <1>1, <1>3, <1>8, Parts DEF BindType
  <2> QED BY <2>1, <2>2, <1>1, Parts, KeepPodType, KeepStoreType, KeepSinkType, KeepFaultType DEF TypeOK
<1>10. ClaimOf(calls[c])'
  BY <1>8 DEF ClaimOf
<1>11. Claims'
  BY <1>1, <1>2, <1>6, <1>8, <1>10, Parts, CallClaims DEF BindType
<1>12. MuHeld'
  <2>1. \A d \in Callers : calls'[d].at \notin {"save", "emit", "decide"}
    BY <1>2, <1>8
  <2> QED BY <2>1, <1>1, <1>2, MuFreed
<1>13. StopWaits' /\ AskedOnce' /\ HandledOnce' /\ FramesInOrder' /\ OneVerdict'
  BY <1>1, <1>6, Parts, KeepStop, KeepAsked, KeepHandled, KeepFrames, KeepVerdict
<1>14. OpenWaits' /\ Supersedes' /\ SettledForGood'
  BY <1>1, <1>6, Parts, KeepOpen, KeepSupersedes, KeepSettled
<1> QED BY <1>9, <1>11, <1>12, <1>13, <1>14 DEF DecisionInv

LEMMA ForgetStep ==
    ASSUME DecisionInv, NEW r \in Requests, ForgetResolved(r)
    PROVE  DecisionInv'
<1> USE DEF podVars, linkVars, storeVars, sinkVars, faultVars
<1>1. /\ memo' = memo \ {r}
      /\ UNCHANGED <<podVars, linkVars, storeVars, sinkVars, closed, permMu, consumer,
                     expiry, stopper, calls, faultVars>>
  BY DEF ForgetResolved
<1>2. NoNews /\ LogKept /\ LogSame
  BY <1>1, Untouched
<1>3. TypeOK'
  <2>1. BindType'
    BY <1>1, Parts DEF BindType
  <2> QED BY <2>1, <1>1, Parts, KeepPodType, KeepLinkType, KeepStoreType, KeepSinkType, KeepFaultType
          DEF TypeOK
<1>4. MuHeld' /\ StopWaits' /\ AskedOnce' /\ HandledOnce' /\ FramesInOrder' /\ OneVerdict'
  BY <1>1, <1>2, Parts, KeepMu, KeepStop, KeepAsked, KeepHandled, KeepFrames, KeepVerdict
<1>5. OpenWaits' /\ Claims' /\ Supersedes' /\ SettledForGood'
  BY <1>1, <1>2, Parts, KeepOpen, KeepClaims, KeepSupersedes, KeepSettled
<1> QED BY <1>3, <1>4, <1>5 DEF DecisionInv

-----------------------------------------------------------------------------
(* Stop, shutdown and restart.                                             *)

\* The binding closes, for a stop or for a shutdown.
LEMMA CloseStep ==
    ASSUME DecisionInv, StopClose \/ ShutdownClose
    PROVE  DecisionInv'
<1> USE DEF podVars, linkVars, storeVars, sinkVars, faultVars
<1>1. /\ closed = Nobody /\ closed' \in {"stop", "shutdown"}
      /\ closed' = "shutdown" => restarts < MaxRestarts
      /\ UNCHANGED <<podVars, linkVars, storeVars, sinkVars, permMu, consumer, expiry,
                     stopper, memo, calls, faultVars>>
  BY DEF StopClose, ShutdownClose
<1>2. NoNews /\ LogKept /\ LogSame
  BY <1>1, Untouched
<1>3. TypeOK'
  <2>1. BindType'
    BY <1>1, Parts DEF BindType
  <2> QED BY <2>1, <1>1, Parts, KeepPodType, KeepLinkType, KeepStoreType, KeepSinkType, KeepFaultType
          DEF TypeOK
<1>4. StopWaits'
  BY <1>1, Parts DEF StopWaits, Nobody
<1>5. MuHeld' /\ AskedOnce' /\ HandledOnce' /\ FramesInOrder' /\ OneVerdict'
  BY <1>1, <1>2, Parts, KeepMu, KeepAsked, KeepHandled, KeepFrames, KeepVerdict
<1>6. OpenWaits' /\ Claims' /\ Supersedes' /\ SettledForGood'
  BY <1>1, <1>2, Parts, KeepOpen, KeepClaims, KeepSupersedes, KeepSettled
<1> QED BY <1>3, <1>4, <1>5, <1>6 DEF DecisionInv

LEMMA ShutdownStopStep ==
    ASSUME DecisionInv, ShutdownStop
    PROVE  DecisionInv'
<1> USE DEF podVars, linkVars, storeVars, bindVars, faultVars
<1>1. /\ closed = "shutdown" /\ consumer.at = "gone" /\ stopped' = TRUE
      /\ UNCHANGED <<podVars, linkVars, storeVars, waiters, fired, bindVars, faultVars>>
  BY DEF ShutdownStop
<1>2. NoNews /\ LogKept /\ LogSame
  BY <1>1, Untouched
<1>3. TypeOK'
  <2>1. SinkType'
    BY <1>1, Parts DEF SinkType
  <2> QED BY <2>1, <1>1, Parts, KeepPodType, KeepLinkType, KeepStoreType, KeepBindType, KeepFaultType
          DEF TypeOK
<1>4. StopWaits'
  BY <1>1, Parts DEF StopWaits
<1>5. MuHeld' /\ AskedOnce' /\ HandledOnce' /\ FramesInOrder' /\ OneVerdict'
  BY <1>1, <1>2, Parts, KeepMu, KeepAsked, KeepHandled, KeepFrames, KeepVerdict
<1>6. OpenWaits' /\ Claims' /\ Supersedes' /\ SettledForGood'
  BY <1>1, <1>2, Parts, KeepOpen, KeepClaims, KeepSupersedes, KeepSettled
<1> QED BY <1>3, <1>4, <1>5, <1>6 DEF DecisionInv

LEMMA StopLiveStep ==
    ASSUME DecisionInv, StopLive
    PROVE  DecisionInv'
<1> USE DEF podVars, storeVars, sinkVars, faultVars
<1>1. /\ closed = "stop" /\ stopper = Idle /\ consumer.at = "gone" /\ permMu = Nobody
      /\ permMu' = "stop" /\ stream' = FALSE /\ stopper' = At("supersede", None, None, {})
      /\ UNCHANGED <<podVars, inbox, delivered, down, storeVars, sinkVars, closed, consumer,
                     expiry, memo, calls, faultVars>>
  BY DEF StopLive
<1>2. NoNews /\ LogKept /\ LogSame
  BY <1>1, Untouched
<1>3. stopper'.at = "supersede" /\ stopper' \in StopState /\ stopper.at = "idle"
  BY <1>1, IdleFacts DEF At, StopState
<1>4. NoClaims
  BY <1>1, Parts, NobodyDecides, PermissionsAssumption DEF Nobody
<1>5. TypeOK'
  <2>1. BindType'
    BY <1>1, <1>3, Parts DEF BindType
  <2>2. LinkType'
    BY <1>1, Parts DEF LinkType
  <2> QED BY <2>1, <2>2, <1>1, Parts, KeepPodType, KeepStoreType, KeepSinkType, KeepFaultType DEF TypeOK
<1>6. MuHeld'
  BY <1>1, <1>3, <1>4, Parts, PermissionsAssumption DEF MuHeld, NoClaims, Nobody
<1>7. StopWaits'
  BY <1>1, <1>3, Parts DEF StopWaits
<1>8. SettledForGood'
  <2>1. \A q \in Requests : Decided(q)' => Decided(q)
    BY <1>2 DEF NoNews, Decided
  <2> QED BY <2>1, <1>1, <1>3, Parts DEF SettledForGood
<1>9. AskedOnce' /\ HandledOnce' /\ FramesInOrder' /\ OneVerdict' /\ OpenWaits' /\ Claims' /\ Supersedes'
  BY <1>1, <1>2, Parts, KeepAsked, KeepHandled, KeepFrames, KeepVerdict, KeepOpen, KeepClaims, KeepSupersedes
<1> QED BY <1>5, <1>6, <1>7, <1>8, <1>9 DEF DecisionInv

LEMMA SupersedeAllStep ==
    ASSUME DecisionInv, NEW r \in Requests, supersedeAll(r)
    PROVE  DecisionInv'
<1> USE DEF podVars, linkVars
<1>1. /\ stopper.at = "supersede" /\ waiters' = [waiters EXCEPT ![r] = "no"]
      /\ emit(Resolved(r, Superseded))
      /\ UNCHANGED <<podVars, linkVars, podSeq, cmds, ended, fired, stopped, closed, permMu,
                     consumer, expiry, stopper, memo, calls, drops, restarts>>
  BY DEF supersedeAll, take
<1>2. PICK e \in Entry : e = Resolved(r, Superseded) /\ e.how = Superseded
  BY ResolvedFacts
<1>3. Grew(e)
  BY <1>1, <1>2, Parts, EmitGrew
<1>4. NoNews /\ LogKept /\ LogSame /\ log' \in Seq(Entry)
  BY <1>1, <1>2, <1>3, Parts, GrewFacts, GrewQuietly
<1>5. \A q \in Requests : InLog(q)' => InLog(q)
  BY <1>2, <1>3, Parts, GrewFacts DEF Asked, None, Superseded
<1>6. /\ waiters \in [Requests -> {"no", "bare", "armed", "spent"}]
      /\ consumer.at = "gone"
  BY <1>1, Parts DEF SinkType, StopWaits
<1>7. /\ waiters' \in [Requests -> {"no", "bare", "armed", "spent"}] /\ waiters'[r] = "no"
      /\ \A q \in Requests : q # r => waiters'[q] = waiters[q]
  BY <1>1, <1>6
<1>8. TypeOK'
  <2>1. SinkType'
    BY <1>1, <1>7, Parts DEF SinkType
  <2>2. StoreType'
    BY <1>1, <1>4, Parts DEF StoreType, Outcomes
  <2>3. FaultType'
    BY <1>1, Parts, FaultCounted DEF emit
  <2>4. BindType'
    BY <1>1, Parts DEF BindType
  <2> QED BY <2>1, <2>2, <2>3, <2>4, <1>1, Parts, KeepPodType, KeepLinkType DEF TypeOK
<1>9. HandledOnce'
  BY <1>1, <1>5, <1>6, Parts DEF HandledOnce
<1>10. OpenWaits'
  <2>1. \A q \in Requests : Decided(q)' => Decided(q)
    BY <1>4 DEF NoNews, Decided
  <2> QED BY <2>1, <1>1, <1>4, <1>7, Parts DEF OpenWaits, LogKept
<1>11. Supersedes'
  BY <1>1, <1>6 DEF Supersedes
<1>12. Claims'
  <2>1. \A q \in Requests : waiters[q] = "no" /\ InLog(q) => waiters'[q] = "no"
    BY <1>7
  <2> QED BY <2>1, <1>1, <1>4, Parts, KeepClaims
<1>13. MuHeld' /\ StopWaits' /\ AskedOnce' /\ FramesInOrder' /\ OneVerdict' /\ SettledForGood'
  BY <1>1, <1>4, Parts, KeepMu, KeepStop, KeepAsked, KeepFrames, KeepVerdict, KeepSettled
<1> QED BY <1>8, <1>9, <1>10, <1>11, <1>12, <1>13 DEF DecisionInv

LEMMA StopDeletesStep ==
    ASSUME DecisionInv, StopDeletes
    PROVE  DecisionInv'
<1> USE DEF podVars, linkVars, sinkVars
<1>1. /\ stopper.at = "supersede" /\ permMu' = Nobody
      /\ stopper' = At("teardown", None, None, {})
      /\ \/ StoreOK /\ cmds' = Store!DeletePodCommandsForSession(cmds, None)
         \/ StoreFault /\ UNCHANGED cmds
      /\ UNCHANGED <<podVars, linkVars, podSeq, log, ended, sinkVars, closed, consumer,
                     expiry, memo, calls, drops, restarts>>
  BY DEF StopDeletes
<1>2. cmds \in [Requests -> Outcomes \cup {None}] /\ consumer.at = "gone" /\ permMu = "stop"
  BY <1>1, Parts DEF StoreType, StopWaits, MuHeld
<1>3. /\ cmds' \in [Requests -> Outcomes \cup {None}]
      /\ \A r \in Requests : cmds'[r] = cmds[r] \/ cmds'[r] = None
  BY <1>1, <1>2 DEF Store!DeletePodCommandsForSession
<1>4. NoNews
  <2>1. None \notin Outcomes
    BY PermissionsAssumption DEF Outcomes, Cancelled, None
  <2> QED BY <2>1, <1>1, <1>3 DEF NoNews, Verdict, AnswersIt
<1>5. LogKept /\ LogSame
  BY <1>1 DEF LogKept, LogSame, InLog, AnswersIt
<1>6. stopper'.at = "teardown" /\ stopper' \in StopState
  BY <1>1 DEF At, StopState
<1>7. NoClaims
  BY <1>2, Parts, NobodyDecides, PermissionsAssumption
<1>8. TypeOK'
  <2>1. StoreType'
    BY <1>1, <1>3, Parts DEF StoreType, Outcomes
  <2>2. BindType'
    BY <1>1, <1>6, Parts DEF BindType
  <2>3. FaultType'
    BY <1>1, Parts, FaultCounted
  <2> QED BY <2>1, <2>2, <2>3, <1>1, Parts, KeepPodType, KeepLinkType, KeepSinkType DEF TypeOK
<1>9. MuHeld'
  BY <1>1, <1>2, <1>6, <1>7, MuFreed DEF NoClaims
<1>10. StopWaits'
  BY <1>1, <1>6, Parts DEF StopWaits
<1>11. Supersedes'
  BY <1>1, <1>2 DEF Supersedes
<1>12. SettledForGood'
  BY <1>6 DEF SettledForGood
<1>13. Claims'
  BY <1>1, <1>5, <1>7, Parts, FreeClaims
<1>14. AskedOnce' /\ HandledOnce' /\ FramesInOrder' /\ OneVerdict' /\ OpenWaits'
  BY <1>1, <1>4, <1>5, Parts, KeepAsked, KeepHandled, KeepFrames, KeepVerdict, KeepOpen
<1> QED BY <1>8, <1>9, <1>10, <1>11, <1>12, <1>13, <1>14 DEF DecisionInv

LEMMA AdoptStep ==
    ASSUME DecisionInv, Adopt, stopper.at = "idle", ~ended, restarts < MaxRestarts
    PROVE  DecisionInv'
<1> USE DEF podVars, storeVars
<1>1. /\ restarts' = restarts + 1 /\ stream' = FALSE /\ inbox' = <<>> /\ delivered' = podSeq
      /\ down' = <<>> /\ waiters' = [r \in Requests |-> "no"] /\ fired' = [r \in Requests |-> 0]
      /\ stopped' = FALSE /\ closed' = Nobody /\ permMu' = Nobody
      /\ consumer' = Idle /\ expiry' = Idle /\ stopper' = Idle /\ memo' = {}
      /\ calls' = [c \in Callers |-> IF calls[c].at \in {"idle", "ok", "refused"}
                                     THEN calls[c] ELSE [calls[c] EXCEPT !.at = "refused"]]
      /\ UNCHANGED <<podVars, storeVars, drops, storeFaults>>
  BY DEF Adopt
<1>2. Len(inbox') = 0 /\ DOMAIN inbox' = {} /\ DOMAIN down' = {}
  BY <1>1
<1>3. LogKept /\ LogSame
  BY <1>1 DEF LogKept, LogSame, InLog, AnswersIt
<1>4. NoNews
  BY <1>1, <1>2 DEF NoNews, Verdict, AnswersIt
<1>5. \A c \in Callers : calls'[c] \in CallState /\ calls'[c].at \in {"idle", "ok", "refused"}
  <2> SUFFICES ASSUME NEW c \in Callers
               PROVE  calls'[c] \in CallState /\ calls'[c].at \in {"idle", "ok", "refused"}
    OBVIOUS
  <2>1. PICK x \in CallState : x = calls[c]
    BY Parts DEF BindType
  <2>2. CASE x.at \in {"idle", "ok", "refused"}
    BY <2>1, <2>2, <1>1
  <2>3. CASE x.at \notin {"idle", "ok", "refused"}
    <3>1. PICK y : y = [x EXCEPT !.at = "refused"]
      OBVIOUS
    <3>2. y \in CallState /\ y.at = "refused"
      BY <3>1 DEF CallState
    <3>3. calls'[c] = y
      BY <2>1, <2>3, <3>1, <1>1
    <3> QED BY <3>2, <3>3
  <2> QED BY <2>2, <2>3
<1>6. /\ consumer'.at = "idle" /\ expiry'.at = "idle" /\ stopper'.at = "idle"
      /\ consumer' \in ConsumerState /\ expiry' \in TimerState /\ stopper' \in StopState
  BY <1>1, IdleFacts, IdleTypes
<1>7. TypeOK'
  <2>1. LinkType'
    <3>1. podSeq \in 0..Len(emitted) /\ podSeq \in 0..podSeq
      BY Parts DEF LinkType, PodType
    <3>2. <<>> \in Seq(Frame) /\ <<>> \in Seq(Decision)
      OBVIOUS
    <3>3. Len(inbox') <= InboxMax
      BY <1>2, PermissionsAssumption
    <3> QED BY <1>1, <3>1, <3>2, <3>3 DEF LinkType
  <2>2. SinkType'
    BY <1>1 DEF SinkType
  <2>3. calls' \in [Callers -> CallState]
    <3>1. calls' = [c \in Callers |-> calls'[c]]
      BY <1>1
    <3> QED BY <3>1, <1>5
  <2>4. BindType'
    BY <1>1, <1>6, <2>3 DEF BindType
  <2>5. FaultType'
    BY <1>1, Parts, PermissionsAssumption DEF FaultType
  <2> QED BY <2>1, <2>2, <2>4, <2>5, <1>1, Parts, KeepPodType, KeepStoreType DEF TypeOK
<1>8. MuHeld'
  BY <1>1, <1>5, <1>6, MuFreed
<1>9. StopWaits'
  BY <1>1, <1>6 DEF StopWaits, Nobody
<1>10. HandledOnce'
  BY <1>1, <1>2, <1>6, Parts DEF HandledOnce, InLog
<1>11. FramesInOrder'
  BY <1>2 DEF FramesInOrder
<1>12. OpenWaits'
  BY <1>1 DEF OpenWaits
<1>13. Claims'
  BY <1>5, <1>6 DEF Claims, ClaimOf
<1>14. Supersedes'
  BY <1>6 DEF Supersedes
<1>15. SettledForGood'
  <2>1. \A q \in Requests : Decided(q)' => Decided(q)
    BY <1>4 DEF NoNews, Decided
  <2> QED BY <2>1, <1>1, <1>2, <1>6, Parts DEF SettledForGood
<1>16. AskedOnce' /\ OneVerdict'
  BY <1>1, <1>3, <1>4, Parts, KeepAsked, KeepVerdict
<1> QED BY <1>7, <1>8, <1>9, <1>10, <1>11, <1>12, <1>13, <1>14, <1>15, <1>16 DEF DecisionInv

LEMMA RestartStep ==
    ASSUME DecisionInv, RareFaults = {}, Crash \/ ShutdownDone
    PROVE  DecisionInv'
<1>1. CASE Crash
  <2>1. Adopt /\ stopper = Idle /\ ~ended /\ restarts < MaxRestarts
    BY <1>1 DEF Crash
  <2> QED BY <2>1, IdleFacts, AdoptStep
<1>2. CASE ShutdownDone
  <2>1. Adopt /\ stopped
    BY <1>2 DEF ShutdownDone
  <2>2. closed = "shutdown" /\ restarts < MaxRestarts
    BY <2>1, Parts DEF StopWaits
  <2>3. stopper.at = "idle" /\ ~ended
    BY <2>2, Parts DEF StopWaits, StoreType
  <2> QED BY <2>1, <2>2, <2>3, AdoptStep
<1> QED BY <1>1, <1>2

-----------------------------------------------------------------------------
LEMMA DecisionInit ==
    Init => DecisionInv
<1> SUFFICES ASSUME Init PROVE DecisionInv
  OBVIOUS
<1>1. /\ DOMAIN emitted = {} /\ DOMAIN inbox = {} /\ DOMAIN log = {} /\ DOMAIN down = {}
      /\ Len(emitted) = 0 /\ Len(inbox) = 0
  BY DEF Init
<1>2. \A c \in Callers : calls[c] = Idle
  BY DEF Init
<1>3. consumer.at = "idle" /\ expiry.at = "idle" /\ stopper.at = "idle" /\ Idle.at = "idle"
  BY IdleFacts DEF Init
<1>4. None \notin Outcomes
  BY PermissionsAssumption DEF Outcomes, Cancelled, None
<1>5. TypeOK
  <2>1. PodType /\ StoreType /\ SinkType
    <3>1. <<>> \in Seq(Requests) /\ <<>> \in Seq(Entry)
      OBVIOUS
    <3>2. PodType
      BY <3>1 DEF Init, PodType
    <3>3. StoreType
      BY <3>1 DEF Init, StoreType
    <3>4. SinkType
      <4>1. waiters \in [Requests -> {"no", "bare", "armed", "spent"}]
        BY DEF Init
      <4>2. fired \in [Requests -> Nat]
        BY DEF Init
      <4> QED BY <4>1, <4>2 DEF Init, SinkType
    <3> QED BY <3>2, <3>3, <3>4
  <2>2. LinkType
    <3>1. 0 \in 0..0 /\ 0 \in 0..Len(emitted) /\ Len(inbox) <= InboxMax
      BY <1>1, PermissionsAssumption
    <3>2. <<>> \in Seq(Frame) /\ <<>> \in Seq(Decision)
      OBVIOUS
    <3> QED BY <3>1, <3>2 DEF Init, LinkType
  <2>3. BindType
    BY IdleTypes DEF Init, BindType
  <2>4. FaultType
    BY PermissionsAssumption DEF Init, FaultType
  <2> QED BY <2>1, <2>2, <2>3, <2>4 DEF TypeOK
<1>6. MuHeld
  <2>1. \A c \in Callers : c # Nobody
    BY PermissionsAssumption
  <2> QED BY <2>1, <1>2, <1>3 DEF Init, MuHeld, Nobody
<1>7. StopWaits /\ AskedOnce /\ FramesInOrder /\ Supersedes
  BY <1>1, <1>3 DEF Init, StopWaits, AskedOnce, FramesInOrder, Supersedes, Nobody
<1>8. \A r \in Requests : ~InLog(r)
  BY <1>1 DEF InLog
<1>9. HandledOnce
  BY <1>1, <1>3, <1>8 DEF HandledOnce
<1>10. \A r \in Requests, o \in Outcomes : ~Verdict(r, o)
  BY <1>1, <1>4 DEF Init, Verdict
<1>11. OneVerdict /\ SettledForGood
  BY <1>1, <1>10 DEF OneVerdict, SettledForGood, Decided
<1>12. OpenWaits
  BY DEF Init, OpenWaits
<1>13. Claims
  BY <1>2, <1>3 DEF Claims, ClaimOf
<1> QED BY <1>5, <1>6, <1>7, <1>9, <1>11, <1>12, <1>13 DEF DecisionInv

LEMMA DecisionStep ==
    ASSUME DecisionInv, RareFaults = {}, [Next]_vars
    PROVE  DecisionInv'
<1>1. CASE Agent
  BY <1>1, RequestStep, decideStep, DropPermissionsStep DEF Agent
<1>2. CASE Link
  BY <1>2, AttachStep, DeliverStep, DropStep DEF Link
<1>3. CASE Consumer
  BY <1>3, HandleEventStep, RecordRequestStep, DropRequestStep, ArmRequestStep, ReconcileStep,
     DeadlinesStep, SupersedeStep, ClearStep, ReconciledStep, ConsumerReturnsStep DEF Consumer
<1>4. CASE Timer
  BY <1>4, FireStep, ExpireTakeStep, ExpireSaveStep, ExpireEmitStep, ExpireDecideStep DEF Timer
<1>5. CASE \E c \in Callers : RespondPermission(c)
  BY <1>5, RespondStep, RespondTakeStep, RespondSaveStep, RespondEmitStep, RespondDecideStep
     DEF RespondPermission
<1>6. CASE \E r \in Requests : ForgetResolved(r)
  BY <1>6, ForgetStep
<1>7. CASE StopClose \/ stopLive
  BY <1>7, CloseStep, StopLiveStep, SupersedeAllStep, StopDeletesStep, StopEndsStep DEF stopLive
<1>8. CASE Shutdown \/ Crash
  BY <1>8, CloseStep, ShutdownStopStep, RestartStep DEF Shutdown
<1>9. CASE UNCHANGED vars
  <2> USE <1>9 DEF vars, podVars, linkVars, storeVars, sinkVars, bindVars, faultVars
  <2>1. NoNews /\ LogKept /\ LogSame
    BY Untouched
  <2>2. TypeOK'
    BY Parts, KeepPodType, KeepLinkType, KeepStoreType, KeepSinkType, KeepBindType, KeepFaultType DEF TypeOK
  <2>3. MuHeld' /\ StopWaits' /\ AskedOnce' /\ HandledOnce' /\ FramesInOrder' /\ OneVerdict'
    BY <2>1, Parts, KeepMu, KeepStop, KeepAsked, KeepHandled, KeepFrames, KeepVerdict
  <2>4. OpenWaits' /\ Claims' /\ Supersedes' /\ SettledForGood'
    BY <2>1, Parts, KeepOpen, KeepClaims, KeepSupersedes, KeepSettled
  <2> QED BY <2>2, <2>3, <2>4 DEF DecisionInv
<1> QED BY <1>1, <1>2, <1>3, <1>4, <1>5, <1>6, <1>7, <1>8, <1>9 DEF Next

\* What the invariant says of the answers.
LEMMA DecisionSafe ==
    DecisionInv => PermissionInv
<1> SUFFICES ASSUME DecisionInv PROVE AnsweredOnce /\ AgentGotTheAnswer
  BY DEF PermissionInv
<1>1. \A r \in Requests : \A i \in Answers(r) : i \in DOMAIN log /\ AnswersIt(i, r)
  BY DEF Answers, Resolutions, AnswersIt
<1>2. ASSUME NEW r \in Requests PROVE Cardinality(Answers(r)) <= 1
  <2>1. \A i, j \in Answers(r) : i = j
    BY <1>1, Parts DEF OneVerdict
  <2>2. CASE Answers(r) = {}
    BY <2>2, FS_EmptySet
  <2>3. CASE Answers(r) # {}
    <3>1. PICK i : Answers(r) = {i}
      BY <2>1, <2>3
    <3> QED BY <3>1, FS_Singleton
  <2> QED BY <2>2, <2>3
<1>3. ASSUME NEW r \in Requests, NEW i \in Answers(r), got[r] \in Outcomes
      PROVE  got[r] = Outcome(log[i].how)
  <2>1. i \in DOMAIN log /\ AnswersIt(i, r)
    BY <1>1
  <2>2. log[i].how \in Options \cup {Expired}
    <3>1. log[i] \in Entry
      BY <2>1, Parts DEF StoreType
    <3> QED BY <2>1, <3>1 DEF Entry, AnswersIt
  <2>3. Outcome(log[i].how) \in Outcomes
    BY <2>2 DEF Outcome, Outcomes
  <2>4. Verdict(r, Outcome(log[i].how)) /\ Verdict(r, got[r])
    BY <2>1 DEF Verdict
  <2> QED BY <1>3, <2>3, <2>4, Parts DEF OneVerdict
<1> QED BY <1>2, <1>3 DEF AnsweredOnce, AgentGotTheAnswer, Outcome

\* A caller, the deadline, a reconciliation, a stop and a restart may reach for
\* a request in any order, with any number of requests, calls, lost streams,
\* failed writes and restarts: the log tells one answer, and the agent got that
\* one.  The rare faults are excluded: the reads of the log succeed, and no
\* crash falls between the writes of a stop.
THEOREM PermissionSafety ==
    ASSUME RareFaults = {}
    PROVE  Spec => []PermissionInv
<1>1. Init => DecisionInv
  BY DecisionInit
<1>2. DecisionInv /\ [Next]_vars => DecisionInv'
  BY DecisionStep
<1>3. DecisionInv => PermissionInv
  BY DecisionSafe
<1> QED BY <1>1, <1>2, <1>3, PTL DEF Spec

=============================================================================
