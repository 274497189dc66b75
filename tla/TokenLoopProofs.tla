-------------------------- MODULE TokenLoopProofs --------------------------
(***************************************************************************)
(* Proofs about TokenLoop, for every lifetime, interval and timeout: the   *)
(* invariant TokenInv, with what follows from it for the token that the    *)
(* loop counts on, the token that Envoy has and the client that gives up.  *)
(***************************************************************************)
EXTENDS TokenLoop, FiniteSetTheorems, TLAPS

-----------------------------------------------------------------------------
(* Names and times.                                                        *)

\* Three things never use up the names.
LEMMA NameLeft ==
    ASSUME NEW a, NEW b, NEW c
    PROVE  \E n \in Names : n \notin {a, b, c}
<1>1. /\ IsFiniteSet({a}) /\ Cardinality({a}) = 1
  BY FS_Singleton
<1>2. /\ IsFiniteSet({a} \cup {b}) /\ Cardinality({a} \cup {b}) \in {1, 2}
  BY <1>1, FS_AddElement
<1>3. /\ IsFiniteSet({a} \cup {b} \cup {c})
      /\ Cardinality({a} \cup {b} \cup {c}) \in {1, 2, 3}
  BY <1>2, FS_AddElement
<1>4. ASSUME Names \subseteq {a} \cup {b} \cup {c} PROVE FALSE
  <2>1. Cardinality(Names) <= Cardinality({a} \cup {b} \cup {c})
    BY <1>3, <1>4, FS_Subset
  <2>2. Cardinality(Names) >= 4
    BY TokenAssumption
  <2>3. Cardinality(Names) \in Nat
    BY TokenAssumption, FS_CardinalityType
  <2> QED
    BY <1>3, <2>1, <2>2, <2>3
<1> QED
  BY <1>4

\* A new token has a name of its own, whenever one is minted or rotated.
LEMMA FreshName ==
    ASSUME TokenInv, loop = "polling" \/ mode = "workload"
    PROVE  Fresh \in Names /\ Fresh # held
<1> DEFINE Known == {held, secret, file.name, client.bearer, client.deniedBearer}
<1>1. mode \in {"user", "workload"}
  BY TokenAssumption DEF TokenInv, TypeOK, EnvType
<1>2. CASE mode = "workload"
  <2>1. client.bearer = None /\ client.deniedBearer = None
    BY <1>2 DEF TokenInv, ClientInv
  <2>2. PICK n \in Names : n \notin {held, secret, file.name}
    BY NameLeft
  <2>3. n \notin Known
    BY <2>1, <2>2, TokenAssumption DEF None
  <2> QED
    BY <2>2, <2>3 DEF Fresh
<1>3. CASE mode = "user"
  <2>1. file.name = None /\ secret = held
    BY <1>3 DEF TokenInv, ClientInv, SecretIsHeld
  <2>2. PICK n \in Names : n \notin {held, client.bearer, client.deniedBearer}
    BY NameLeft
  <2>3. n \notin Known
    BY <2>1, <2>2, TokenAssumption DEF None
  <2> QED
    BY <2>2, <2>3 DEF Fresh
<1> QED
  BY <1>1, <1>2, <1>3

\* The smaller and the larger of two times, and a time that passes.
LEMMA Times ==
    ASSUME NEW a \in Nat, NEW b \in Nat
    PROVE  /\ Smaller(a, b) \in Nat /\ Smaller(a, b) <= a /\ Smaller(a, b) <= b
           /\ Larger(a, b) \in Nat /\ Larger(a, b) >= a /\ Larger(a, b) >= b
           /\ Less(a) \in Nat /\ Less(a) <= a
           /\ a <= b => Less(a) <= Less(b)
<1> QED
  BY DEF Smaller, Larger, Less

\* What is left of a token is never more than its lifetime.
LEMMA RemainingType ==
    ASSUME TypeOK, NEW token, token.expiresIn \in 0..Lifetime
    PROVE  Remaining(token) \in 0..Lifetime /\ Remaining(token) <= token.expiresIn
<1>1. spent \in Nat /\ token.expiresIn \in Nat /\ Lifetime \in Nat
  BY TokenAssumption DEF TypeOK, TimeType
<1> DEFINE s == Smaller(spent, token.expiresIn)
<1>2. s \in Nat /\ s <= token.expiresIn
  BY <1>1, Times
<1> HIDE DEF s
<1>3. Remaining(token) = token.expiresIn - s
  BY DEF Remaining, s
<1> QED
  BY <1>1, <1>2, <1>3

-----------------------------------------------------------------------------
(* One lemma for each action.                                              *)

\* The invariant holds at the start.
LEMMA TokenInit == Init => TokenInv
<1> SUFFICES ASSUME Init PROVE TokenInv
  OBVIOUS
<1>1. \E n \in Names : TRUE
  BY NameLeft
<1>2. (CHOOSE n \in Names : TRUE) \in Names
  BY <1>1
<1>3. EnvType
  BY <1>2, TokenAssumption DEF Init, EnvType, Token
<1>4. LoopType
  BY TokenAssumption DEF Init, LoopType, Token, NoToken
<1>5. TimeType
  BY TokenAssumption DEF Init, TimeType
<1>6. ClientType
  BY TokenAssumption DEF Init, ClientType, Token, NewClient
<1>7. FlagType
  BY DEF Init, FlagType
<1> QED
  BY <1>2, <1>3, <1>4, <1>5, <1>6, <1>7, TokenAssumption
     DEF Init, TypeOK, TokenInv, NeverLate, SecretIsHeld, AskedFirst, ReturnedInv, ClientInv,
         RefreshInv, Holding, NewClient, None

\* The parts of the invariant that read only what a step leaves alone.
LEMMA EnvKept == EnvType /\ UNCHANGED <<mode, run, file>> => EnvType'
  BY DEF EnvType
LEMMA LoopKept == LoopType /\ UNCHANGED <<loop, held, secret, next>> => LoopType'
  BY DEF LoopType
LEMMA TimeKept == TimeType /\ UNCHANGED <<left, valid, spent, sleep, retry>> => TimeType'
  BY DEF TimeType
LEMMA ClientKept == ClientType /\ UNCHANGED client => ClientType'
  BY DEF ClientType
LEMMA FlagKept == FlagType /\ UNCHANGED <<refresh, asked, over>> => FlagType'
  BY DEF FlagType

\* A run is approved, lapses or is revoked.
LEMMA RunInv == TokenInv /\ Run => TokenInv'
<1> SUFFICES ASSUME TokenInv, Run PROVE TokenInv'
  OBVIOUS
<1> USE DEF TokenInv, Run, loopVars
<1>1. EnvType'
  BY DEF TypeOK, EnvType
<1>2. TypeOK'
  BY <1>1, LoopKept, TimeKept, ClientKept, FlagKept DEF TypeOK
<1> QED
  BY <1>2 DEF NeverLate, SecretIsHeld, AskedFirst, ReturnedInv, ClientInv, RefreshInv, Holding,
              Remaining

\* A poll begins.
LEMMA PollInv == TokenInv /\ Poll => TokenInv'
<1> SUFFICES ASSUME TokenInv, Poll PROVE TokenInv'
  OBVIOUS
<1> USE DEF TokenInv, Poll
<1>1. LoopType'
  BY DEF TypeOK, LoopType
<1>2. TimeType'
  BY TokenAssumption DEF TypeOK, TimeType
<1>3. FlagType'
  BY DEF TypeOK, FlagType
<1>4. TypeOK'
  BY <1>1, <1>2, <1>3, EnvKept, ClientKept DEF TypeOK
<1> QED
  BY <1>4, TokenAssumption
     DEF TypeOK, LoopType, TimeType, FlagType, ClientType, Token, None, NeverLate, SecretIsHeld, AskedFirst, ReturnedInv, ClientInv, RefreshInv, Holding,
         Remaining

\* The loop ends.
LEMMA TerminateInv == TokenInv /\ loop \in {"polling", "sink"} /\ Terminate => TokenInv'
<1> SUFFICES ASSUME TokenInv, loop \in {"polling", "sink"}, Terminate PROVE TokenInv'
  OBVIOUS
<1> USE DEF TokenInv, Terminate
<1>1. LoopType'
  BY DEF TypeOK, LoopType
<1>2. TypeOK'
  BY <1>1, EnvKept, TimeKept, ClientKept, FlagKept DEF TypeOK
<1> QED
  BY <1>2, TokenAssumption
     DEF TypeOK, LoopType, TimeType, FlagType, ClientType, Token, None, NeverLate, SecretIsHeld, AskedFirst, ReturnedInv, ClientInv, RefreshInv, Holding,
         Remaining

\* The timer fires, or the loop takes the value of the refresh channel.
LEMMA WakesInv == TokenInv /\ Wakes => TokenInv'
<1> SUFFICES ASSUME TokenInv, Wakes PROVE TokenInv'
  OBVIOUS
<1> USE DEF TokenInv, Wakes
<1>1. LoopType'
  BY DEF TypeOK, LoopType
<1>2. FlagType'
  BY DEF TypeOK, FlagType
<1>3. TypeOK'
  BY <1>1, <1>2, EnvKept, TimeKept, ClientKept DEF TypeOK
<1> QED
  BY <1>3, TokenAssumption
     DEF TypeOK, LoopType, TimeType, FlagType, ClientType, Token, None, NeverLate, SecretIsHeld, AskedFirst, ReturnedInv, ClientInv, RefreshInv, Holding,
         Remaining

\* The secret is written before the token is held.
LEMMA SinkInv == TokenInv /\ Sink => TokenInv'
<1> SUFFICES ASSUME TokenInv, Sink PROVE TokenInv'
  OBVIOUS
<1> USE DEF TokenInv, Sink
<1>1. LoopType'
  BY DEF TypeOK, LoopType
<1>2. TypeOK'
  BY <1>1, EnvKept, TimeKept, ClientKept, FlagKept DEF TypeOK
<1> QED
  BY <1>2, TokenAssumption
     DEF TypeOK, LoopType, TimeType, FlagType, ClientType, Token, None, NeverLate, SecretIsHeld, AskedFirst, ReturnedInv, ClientInv, RefreshInv, Holding,
         Remaining

\* The sidecar is over.
LEMMA EndsInv == TokenInv /\ Ends => TokenInv'
<1> SUFFICES ASSUME TokenInv, Ends PROVE TokenInv'
  OBVIOUS
<1> USE DEF TokenInv, Ends, loopVars
<1>1. FlagType'
  BY DEF TypeOK, FlagType
<1>2. TypeOK'
  BY <1>1, EnvKept, LoopKept, TimeKept, ClientKept DEF TypeOK
<1> QED
  BY <1>2, TokenAssumption
     DEF TypeOK, LoopType, TimeType, FlagType, ClientType, Token, None, NeverLate, SecretIsHeld, AskedFirst, ReturnedInv, ClientInv, RefreshInv, Holding,
         Remaining


\* Poll returned a token: one that the loop holds already needs no new secret.
LEMMA ReturnedStep ==
    ASSUME TokenInv, loop = "polling", NEW token, Returned(token),
           token \in [name : Token, expiresIn : 0..Lifetime, valid : 0..Lifetime],
           token.name \in Names, Remaining(token) <= token.valid
    PROVE  TokenInv'
<1> USE DEF TokenInv, Returned
<1>1. LoopType'
  BY DEF TypeOK, LoopType
<1>2. TypeOK'
  BY <1>1, EnvKept, TimeKept, ClientKept, FlagKept DEF TypeOK
<1>3. ReturnedInv'
  BY DEF ReturnedInv, Remaining
<1>4. SecretIsHeld'
  BY DEF SecretIsHeld
<1> QED
  BY <1>2, <1>3, <1>4 DEF NeverLate, AskedFirst, ClientInv, RefreshInv, Holding

\* The server minted a token while the request was under way.
LEMMA ExchangedInv == TokenInv /\ Exchanged => TokenInv'
<1> SUFFICES ASSUME TokenInv, Exchanged PROVE TokenInv'
  OBVIOUS
<1>1. PICK token \in Minted : Returned(token)
  BY DEF Exchanged
<1>2. loop = "polling" /\ Fresh \in Names
  BY FreshName DEF Exchanged
<1> DEFINE s == Smaller(spent, Lifetime)
<1>3. s \in Nat /\ s <= Lifetime /\ Lifetime \in Nat
  <2>1. spent \in Nat /\ Lifetime \in Nat
    BY TokenAssumption DEF TokenInv, TypeOK, TimeType
  <2> QED
    BY <2>1, Times
<1> HIDE DEF s
<1>4. PICK v \in (Lifetime - s)..Lifetime :
         token = [name |-> Fresh, expiresIn |-> Lifetime, valid |-> v]
  BY <1>1 DEF Minted, s
<1>5. /\ token \in [name : Token, expiresIn : 0..Lifetime, valid : 0..Lifetime]
      /\ token.name \in Names
  BY <1>2, <1>3, <1>4 DEF Token
<1>6. Remaining(token) <= token.valid
  BY <1>3, <1>4 DEF Remaining, s
<1> QED
  BY <1>1, <1>2, <1>5, <1>6, ReturnedStep

\* The projected file was read.
LEMMA FileReadInv == TokenInv /\ FileRead => TokenInv'
<1> SUFFICES ASSUME TokenInv, FileRead PROVE TokenInv'
  OBVIOUS
<1> DEFINE token == [name |-> file.name, expiresIn |-> file.valid, valid |-> file.valid]
<1>1. loop = "polling" /\ Returned(token) /\ mode = "workload"
  BY DEF FileRead
<1>2. file.name \in Names /\ file.valid \in 0..Lifetime
  BY <1>1 DEF TokenInv, TypeOK, EnvType, Token, ClientInv
<1>3. /\ token \in [name : Token, expiresIn : 0..Lifetime, valid : 0..Lifetime]
      /\ token.name \in Names /\ token.valid = token.expiresIn
      /\ token.expiresIn \in 0..Lifetime
  BY <1>2 DEF Token
<1> HIDE DEF token
<1>4. Remaining(token) <= token.valid
  BY <1>3, RemainingType DEF TokenInv
<1> QED
  BY <1>1, <1>3, <1>4, ReturnedStep


\* The token is held, and the next rotation is before its end.
LEMMA HoldInv == TokenInv /\ Hold => TokenInv'
<1> SUFFICES ASSUME TokenInv, Hold PROVE TokenInv'
  OBVIOUS
<1>1. /\ next.name \in Names /\ Remaining(next) <= next.valid
      /\ next.expiresIn \in 0..Lifetime /\ next.valid \in 0..Lifetime
  BY DEF TokenInv, TypeOK, LoopType, ReturnedInv, Hold
<1>2. Remaining(next) \in 0..Lifetime
  BY <1>1, RemainingType DEF TokenInv
<1>3. Lifetime \in Nat /\ next.expiresIn \in Nat /\ next.expiresIn \div 6 \in Nat
  BY <1>1, TokenAssumption
<1>4. rotationInterval(next) \in Nat
  BY <1>3, Times, TokenAssumption DEF rotationInterval
<1>5. /\ left' = Remaining(next) /\ valid' = next.valid /\ held' = next.name
      /\ sleep' = Smaller(rotationInterval(next), left') /\ spent' = 0 /\ retry' = 1
      /\ loop' = "sleep" /\ next' = NoToken
      /\ UNCHANGED <<mode, run, file, refresh, secret, client, asked, over>>
  BY DEF Hold
<1>6. sleep' \in Nat
  BY <1>2, <1>3, <1>4, <1>5, Times
<1>7. TimeType'
  BY <1>1, <1>2, <1>5, <1>6, TokenAssumption DEF TimeType
<1>8. LoopType'
  BY <1>1, <1>5, TokenAssumption DEF TokenInv, TypeOK, LoopType, NoToken, Token
<1>9. TypeOK'
  BY <1>5, <1>7, <1>8, EnvKept, ClientKept, FlagKept DEF TokenInv, TypeOK
<1>10. NeverLate'
  BY <1>1, <1>5 DEF NeverLate
<1>11. SecretIsHeld'
  BY <1>5 DEF Hold, TokenInv, SecretIsHeld
<1>12. ClientInv'
  BY <1>1, <1>5, TokenAssumption DEF TokenInv, ClientInv, Holding, None
<1>13. RefreshInv'
  BY <1>5 DEF Hold, TokenInv, RefreshInv
<1> QED
  BY <1>5, <1>9, <1>10, <1>11, <1>12, <1>13 DEF TokenInv, AskedFirst, ReturnedInv


\* The loop waits, at most until the token that it holds is over.
LEMMA WaitInv ==
    ASSUME TokenInv, loop = "polling", NEW d \in Nat, Wait(d), retry' \in 1..MaxBackoff
    PROVE  TokenInv'
<1>1. /\ loop' = "sleep" /\ spent' = 0 /\ sleep' = IF Holding THEN Smaller(d, left) ELSE d
      /\ UNCHANGED <<mode, run, file, held, left, valid, refresh, next, secret, client, asked, over>>
  BY DEF Wait
<1>2. left \in Nat
  BY TokenAssumption DEF TokenInv, TypeOK, TimeType
<1>3. sleep' \in Nat
  BY <1>1, <1>2, Times
<1>4. TimeType'
  BY <1>1, <1>3, TokenAssumption DEF TokenInv, TypeOK, TimeType
<1>5. LoopType'
  BY <1>1 DEF TokenInv, TypeOK, LoopType
<1>6. TypeOK'
  BY <1>1, <1>4, <1>5, EnvKept, ClientKept, FlagKept DEF TokenInv, TypeOK
<1>7. SecretIsHeld'
  BY <1>1 DEF TokenInv, SecretIsHeld
<1>8. RefreshInv'
  BY <1>1 DEF TokenInv, RefreshInv
<1> QED
  BY <1>1, <1>6, <1>7, <1>8 DEF TokenInv, NeverLate, AskedFirst, ReturnedInv, ClientInv, Holding

\* The run waits for its approval.
LEMMA PollPendingInv == TokenInv /\ PollPending => TokenInv'
<1> SUFFICES ASSUME TokenInv, PollPending PROVE TokenInv'
  OBVIOUS
<1>1. CASE Holding /\ left = 0
  BY <1>1, TerminateInv DEF PollPending
<1>2. CASE ~(Holding /\ left = 0)
  <2>1. loop = "polling" /\ Wait(PendingInterval) /\ retry' = retry
    BY <1>2 DEF PollPending
  <2>2. retry' \in 1..MaxBackoff
    BY <2>1 DEF TokenInv, TypeOK, TimeType
  <2> QED
    BY <2>1, <2>2, WaitInv, TokenAssumption
<1> QED
  BY <1>1, <1>2

\* The server cannot be reached.
LEMMA PollRetryableInv == TokenInv /\ PollRetryable => TokenInv'
<1> SUFFICES ASSUME TokenInv, PollRetryable PROVE TokenInv'
  OBVIOUS
<1>1. CASE Holding /\ left = 0
  BY <1>1, TerminateInv DEF PollRetryable
<1>2. CASE ~(Holding /\ left = 0)
  <2>1. loop = "polling" /\ Wait(retry) /\ retry' = Smaller(2 * retry, MaxBackoff)
    BY <1>2 DEF PollRetryable
  <2>2. retry \in 1..MaxBackoff
    BY DEF TokenInv, TypeOK, TimeType
  <2>3. retry' \in 1..MaxBackoff /\ retry \in Nat
    BY <2>1, <2>2, TokenAssumption DEF Smaller
  <2> QED
    BY <2>1, <2>3, WaitInv
<1> QED
  BY <1>1, <1>2

\* A terminal answer, or a secret that cannot be written.
LEMMA GivenUpInv == TokenInv /\ (PollTerminal \/ SinkFails) => TokenInv'
  BY TerminateInv DEF PollTerminal, SinkFails

-----------------------------------------------------------------------------
(* The client.                                                             *)

\* A step of the client that leaves the loop alone, apart from its channel.
LEMMA ClientStepKept ==
    ASSUME TokenInv, mode = "user", NEW c, ClientGoes(c), ClientType', FlagType',
           c.at # "start" => Holding, c.at = "session" => c.bearer # None,
           c.why = "no fresh token" => asked', c.why # None => c.at = "over", RefreshInv'
    PROVE  TokenInv'
<1>1. client' = c /\ UNCHANGED <<mode, run, file, loop, held, left, valid, spent, sleep, retry,
                                 next, secret, over>>
  BY DEF ClientGoes
<1>2. TypeOK'
  BY <1>1, EnvKept, LoopKept, TimeKept DEF TokenInv, TypeOK
<1>3. ClientInv'
  BY <1>1 DEF TokenInv, ClientInv, Holding
<1> QED
  BY <1>1, <1>2, <1>3
     DEF TokenInv, NeverLate, SecretIsHeld, AskedFirst, ReturnedInv, Holding, Remaining


\* A session is one of user mode, with a token.
LEMMA InSession ==
    ASSUME TokenInv, client.at = "session"
    PROVE  mode = "user" /\ Holding /\ client.bearer # None
<1>1. mode \in {"user", "workload"}
  BY TokenAssumption DEF TokenInv, TypeOK, EnvType
<1> QED
  BY <1>1 DEF TokenInv, ClientInv

\* The fields of the client.
LEMMA ClientFields ==
    ASSUME TokenInv
    PROVE  /\ client.waited \in 0..(RefreshTimeout + 1) /\ client.denied \in 0..DeniedLimit
           /\ client.bearer \in Token /\ client.deniedBearer \in Token
           /\ 0 \in 0..(RefreshTimeout + 1) /\ 0 \in 0..DeniedLimit /\ 1 \in 0..1
<1>1. 0 \in 0..(RefreshTimeout + 1) /\ 0 \in 0..DeniedLimit /\ 1 \in 0..1
  BY TokenAssumption
<1> QED
  BY <1>1 DEF TokenInv, TypeOK, ClientType

\* The client dials with the token held.
LEMMA DialInv == TokenInv /\ Dial => TokenInv'
<1> SUFFICES ASSUME TokenInv, Dial PROVE TokenInv'
  OBVIOUS
<1> DEFINE c == [client EXCEPT !.at = "session", !.bearer = held]
<1>1. ClientGoes(c) /\ mode = "user" /\ UNCHANGED <<refresh, asked, over>>
  BY DEF Dial, ClientGoes
<1>2. Holding
  BY DEF Dial, TokenInv, ClientInv
<1>3. c \in [at : {"start", "session", "pause", "over"}, bearer : Token,
             deniedBearer : Token, waited : 0..(RefreshTimeout + 1),
             denied : 0..DeniedLimit, pause : 0..1,
             why : {None, "denied", "no fresh token", "ended"}]
  BY DEF TokenInv, TypeOK, ClientType, LoopType
<1>4. /\ c.at = "session" /\ c.bearer = held /\ c.why = client.why /\ client.at # "over"
      /\ c.deniedBearer = client.deniedBearer /\ c.waited = client.waited
  BY DEF TokenInv, TypeOK, ClientType, Dial
<1> HIDE DEF c
<1>5. ClientType' /\ FlagType'
  BY <1>1, <1>3, FlagKept DEF ClientGoes, ClientType, TokenInv, TypeOK
<1>6. RefreshInv'
  BY <1>1, <1>4 DEF TokenInv, RefreshInv, ClientGoes
<1> QED
  BY <1>1, <1>2, <1>4, <1>5, <1>6, ClientStepKept DEF Holding, TokenInv, ClientInv, None

\* The client gives up.
LEMMA GivesUpInv ==
    ASSUME TokenInv, client.at = "session", NEW why \in {"denied", "no fresh token", "ended"},
           GivesUp(why), why = "no fresh token" => asked
    PROVE  TokenInv'
<1> DEFINE c == [client EXCEPT !.at = "over", !.why = why]
<1>1. ClientGoes(c) /\ mode = "user" /\ Holding /\ UNCHANGED <<refresh, asked, over>>
  BY InSession DEF GivesUp, ClientGoes
<1>2. c \in [at : {"start", "session", "pause", "over"}, bearer : Token,
             deniedBearer : Token, waited : 0..(RefreshTimeout + 1),
             denied : 0..DeniedLimit, pause : 0..1,
             why : {None, "denied", "no fresh token", "ended"}]
  BY DEF TokenInv, TypeOK, ClientType
<1>3. /\ c.at = "over" /\ c.why = why
      /\ c.deniedBearer = client.deniedBearer /\ c.waited = client.waited
  BY DEF TokenInv, TypeOK, ClientType
<1> HIDE DEF c
<1>4. ClientType' /\ FlagType'
  BY <1>1, <1>2, FlagKept DEF ClientGoes, ClientType, TokenInv, TypeOK
<1>5. RefreshInv'
  BY <1>1, <1>3 DEF TokenInv, RefreshInv, ClientGoes
<1> QED
  BY <1>1, <1>3, <1>4, <1>5, ClientStepKept

\* The client is denied with a new bearer, and asks the loop for another one.
LEMMA DeniedInv == TokenInv /\ Denied => TokenInv'
<1> SUFFICES ASSUME TokenInv, Denied PROVE TokenInv'
  OBVIOUS
<1>1. client.at = "session"
  BY DEF Denied
<1>2. CASE client.denied = DeniedLimit
  BY <1>1, <1>2, GivesUpInv DEF Denied
<1>3. CASE client.denied # DeniedLimit
  <2> DEFINE c == [client EXCEPT !.at = "pause", !.pause = 1, !.waited = 0,
                                 !.deniedBearer = client.bearer, !.denied = @ + 1]
  <2>1. /\ ClientGoes(c) /\ mode = "user" /\ Holding
        /\ refresh' = TRUE /\ asked' = FALSE /\ over' = over
    BY <1>1, <1>3, InSession DEF Denied, Refresh, ClientGoes
  <2>2. client.denied + 1 \in 0..DeniedLimit
    BY <1>3, ClientFields, TokenAssumption
  <2>3. c \in [at : {"start", "session", "pause", "over"}, bearer : Token,
               deniedBearer : Token, waited : 0..(RefreshTimeout + 1),
               denied : 0..DeniedLimit, pause : 0..1,
               why : {None, "denied", "no fresh token", "ended"}]
    BY <2>2, ClientFields DEF TokenInv, TypeOK, ClientType
  <2>4. c.at = "pause" /\ c.why = client.why /\ c.waited = 0
    BY DEF TokenInv, TypeOK, ClientType
  <2>5. client.why = None /\ None # "no fresh token"
    BY <1>1 DEF TokenInv, ClientInv, None
  <2> HIDE DEF c
  <2>6. ClientType' /\ FlagType'
    BY <2>1, <2>3 DEF ClientGoes, ClientType, FlagType, TokenInv, TypeOK
  <2>7. RefreshInv'
    BY <2>1, <2>4, TokenAssumption DEF TokenInv, TypeOK, TimeType, RefreshInv, ClientGoes
  <2> QED
    BY <2>1, <2>4, <2>5, <2>6, <2>7, ClientStepKept
<1> QED
  BY <1>2, <1>3

\* The client is denied again: it waits for the loop, and gives up when the
\* loop has asked and brought nothing.
LEMMA DeniedAgainInv == TokenInv /\ DeniedAgain => TokenInv'
<1> SUFFICES ASSUME TokenInv, DeniedAgain PROVE TokenInv'
  OBVIOUS
<1>1. client.at = "session" /\ client.deniedBearer # None
  BY InSession DEF DeniedAgain
<1>2. CASE client.waited > RefreshTimeout
  <2>1. asked
    BY <1>1, <1>2, ClientFields, TokenAssumption DEF TokenInv, RefreshInv
  <2> QED
    BY <1>1, <1>2, <2>1, GivesUpInv DEF DeniedAgain
<1>3. CASE ~(client.waited > RefreshTimeout)
  <2> DEFINE c == [client EXCEPT !.at = "pause", !.pause = 1]
  <2>1. ClientGoes(c) /\ mode = "user" /\ Holding /\ UNCHANGED <<refresh, asked, over>>
    BY <1>1, <1>3, InSession DEF DeniedAgain, ClientGoes
  <2>2. c \in [at : {"start", "session", "pause", "over"}, bearer : Token,
               deniedBearer : Token, waited : 0..(RefreshTimeout + 1),
               denied : 0..DeniedLimit, pause : 0..1,
               why : {None, "denied", "no fresh token", "ended"}]
    BY ClientFields DEF TokenInv, TypeOK, ClientType
  <2>3. /\ c.at = "pause" /\ c.why = client.why
        /\ c.deniedBearer = client.deniedBearer /\ c.waited = client.waited
    BY DEF TokenInv, TypeOK, ClientType
  <2> HIDE DEF c
  <2>4. ClientType' /\ FlagType'
    BY <2>1, <2>2, FlagKept DEF ClientGoes, ClientType, TokenInv, TypeOK
  <2>5. RefreshInv'
    BY <2>1, <2>3 DEF TokenInv, RefreshInv, ClientGoes
  <2> QED
    BY <1>1, <2>1, <2>3, <2>4, <2>5, ClientStepKept DEF TokenInv, ClientInv, None
<1> QED
  BY <1>2, <1>3

\* A session that was lost forgets the denials.
LEMMA SessionLostInv == TokenInv /\ SessionLost => TokenInv'
<1> SUFFICES ASSUME TokenInv, SessionLost PROVE TokenInv'
  OBVIOUS
<1> DEFINE c == [client EXCEPT !.at = "pause", !.pause = 1, !.denied = 0, !.deniedBearer = None]
<1>1. ClientGoes(c) /\ mode = "user" /\ Holding /\ UNCHANGED <<refresh, asked, over>>
  BY InSession DEF SessionLost, ClientGoes
<1>2. c \in [at : {"start", "session", "pause", "over"}, bearer : Token,
             deniedBearer : Token, waited : 0..(RefreshTimeout + 1),
             denied : 0..DeniedLimit, pause : 0..1,
             why : {None, "denied", "no fresh token", "ended"}]
  BY ClientFields DEF TokenInv, TypeOK, ClientType, Token
<1>3. c.at = "pause" /\ c.why = client.why /\ c.deniedBearer = None
  BY DEF TokenInv, TypeOK, ClientType
<1> HIDE DEF c
<1>4. ClientType' /\ FlagType'
  BY <1>1, <1>2, FlagKept DEF ClientGoes, ClientType, TokenInv, TypeOK
<1>5. RefreshInv'
  BY <1>1, <1>3 DEF RefreshInv, ClientGoes
<1> QED
  BY <1>1, <1>3, <1>4, <1>5, ClientStepKept DEF TokenInv, ClientInv, None, SessionLost


\* A session that is over.
LEMMA SessionOverInv == TokenInv /\ SessionOver => TokenInv'
  BY GivesUpInv DEF SessionOver

-----------------------------------------------------------------------------
(* The kubelet and time.                                                   *)

\* The kubelet rotates the file.
LEMMA RotateInv == TokenInv /\ Rotate => TokenInv'
<1> SUFFICES ASSUME TokenInv, Rotate PROVE TokenInv'
  OBVIOUS
<1>1. /\ mode = "workload" /\ file' = [name |-> Fresh, valid |-> Lifetime]
      /\ UNCHANGED <<mode, run, loopVars, client, asked, over>>
  BY DEF Rotate
<1>2. Fresh \in Names
  BY <1>1, FreshName
<1>3. EnvType'
  BY <1>1, <1>2, TokenAssumption DEF TokenInv, TypeOK, EnvType, Token
<1>4. TypeOK'
  BY <1>1, <1>3, LoopKept, TimeKept, ClientKept, FlagKept DEF TokenInv, TypeOK, loopVars
<1>5. ClientInv'
  BY <1>1, <1>2, TokenAssumption DEF TokenInv, ClientInv, None, Holding, loopVars
<1> QED
  BY <1>1, <1>4, <1>5
     DEF TokenInv, NeverLate, SecretIsHeld, AskedFirst, ReturnedInv, RefreshInv, Holding,
         Remaining, loopVars

\* Time passes, and does so only where nothing happens at once.
LEMMA TickInv == TokenInv /\ Tick => TokenInv'
<1> SUFFICES ASSUME TokenInv, Tick PROVE TokenInv'
  OBVIOUS
<1>1. /\ loop \in {"polling", "sleep"}
      /\ loop = "sleep" => ~refresh
      /\ loop = "polling" => spent # PollTimeout
  BY DEF TokenInv, TypeOK, LoopType, Tick, AtOnce
<1>2. /\ left' = Less(left) /\ valid' = Less(valid) /\ sleep' = Less(sleep)
      /\ spent' = IF loop = "polling" THEN spent + 1 ELSE spent
      /\ UNCHANGED <<mode, run, loop, held, retry, refresh, next, secret, asked, over>>
  BY DEF Tick
<1>3. left \in Nat /\ valid \in Nat /\ sleep \in Nat /\ left <= Lifetime /\ valid <= Lifetime
  BY TokenAssumption DEF TokenInv, TypeOK, TimeType
<1>4. /\ Less(left) \in 0..Lifetime /\ Less(valid) \in 0..Lifetime /\ Less(sleep) \in Nat
      /\ left <= valid => Less(left) <= Less(valid)
  BY <1>3, TokenAssumption DEF Less
<1>5. TimeType'
  BY <1>1, <1>2, <1>4, TokenAssumption DEF TokenInv, TypeOK, TimeType
<1>6. EnvType' /\ file'.name = file.name
  <2>1. file.valid \in 0..Lifetime /\ Less(file.valid) \in 0..Lifetime
    BY TokenAssumption DEF TokenInv, TypeOK, EnvType, Less
  <2> QED
    BY <1>2, <2>1 DEF Tick, TokenInv, TypeOK, EnvType
<1>7. LoopType' /\ FlagType'
  BY <1>2, LoopKept, FlagKept DEF TokenInv, TypeOK
<1> DEFINE w == IF client.deniedBearer = None THEN 0
                ELSE Smaller(client.waited + 1, RefreshTimeout + 1)
           c == [client EXCEPT !.pause = Less(client.pause), !.waited = w]
<1>8. client' = c
  BY DEF Tick
<1>9. w \in 0..(RefreshTimeout + 1) /\ (client.deniedBearer # None => w <= client.waited + 1)
  BY ClientFields, TokenAssumption DEF Smaller
<1>10. Less(client.pause) \in 0..1
  <2>1. client.pause \in 0..1
    BY DEF TokenInv, TypeOK, ClientType
  <2> QED
    BY <2>1 DEF Less
<1> HIDE DEF w
<1>11. ClientType'
  BY <1>8, <1>9, <1>10 DEF TokenInv, TypeOK, ClientType
<1>12. /\ c.at = client.at /\ c.why = client.why /\ c.bearer = client.bearer
       /\ c.deniedBearer = client.deniedBearer /\ c.waited = w
  BY DEF TokenInv, TypeOK, ClientType
<1> HIDE DEF c
<1>13. TypeOK'
  BY <1>5, <1>6, <1>7, <1>11 DEF TypeOK
<1>14. NeverLate' /\ SecretIsHeld' /\ AskedFirst' /\ ReturnedInv'
  BY <1>1, <1>2, <1>4, <1>8, <1>12
     DEF TokenInv, NeverLate, SecretIsHeld, AskedFirst, ReturnedInv, Holding
<1>15. ClientInv'
  BY <1>2, <1>6, <1>8, <1>12 DEF TokenInv, ClientInv, Holding
<1>16. RefreshInv'
  <2> SUFFICES ASSUME client.deniedBearer # None, ~asked
               PROVE  RefreshInv'
    BY <1>2, <1>8, <1>12 DEF RefreshInv
  <2>1. loop = "polling" /\ refresh /\ client.waited <= spent
    BY <1>1 DEF TokenInv, RefreshInv
  <2>2. w <= spent + 1 /\ spent' = spent + 1 /\ spent' <= PollTimeout
    BY <1>1, <1>2, <1>5, <1>9, <2>1, ClientFields, TokenAssumption
       DEF TokenInv, TypeOK, TimeType
  <2>3. w <= PollTimeout
    BY <1>9, <2>2, TokenAssumption DEF TokenInv, TypeOK, TimeType
  <2> QED
    BY <1>2, <1>8, <1>12, <2>1, <2>2, <2>3 DEF RefreshInv
<1> QED
  BY <1>13, <1>14, <1>15, <1>16 DEF TokenInv

\* Nothing happens.
LEMMA StutterInv == TokenInv /\ UNCHANGED vars => TokenInv'
<1> SUFFICES ASSUME TokenInv, UNCHANGED vars PROVE TokenInv'
  OBVIOUS
<1>1. TypeOK'
  BY EnvKept, LoopKept, TimeKept, ClientKept, FlagKept DEF TokenInv, TypeOK, vars, loopVars
<1> QED
  BY <1>1 DEF TokenInv, vars, loopVars, NeverLate, SecretIsHeld, AskedFirst, ReturnedInv,
              ClientInv, RefreshInv, Holding, Remaining

-----------------------------------------------------------------------------
(* The theorems.                                                           *)

\* Every step keeps the invariant.
LEMMA TokenStep == TokenInv /\ [Next]_vars => TokenInv'
<1> SUFFICES ASSUME TokenInv, [Next]_vars PROVE TokenInv'
  OBVIOUS
<1>1. CASE LoopStep
  BY <1>1, PollInv, ExchangedInv, FileReadInv, GivenUpInv, PollPendingInv, PollRetryableInv,
     SinkInv, HoldInv, WakesInv DEF LoopStep
<1>2. CASE ClientStep
  BY <1>2, DialInv, DeniedInv, DeniedAgainInv, SessionLostInv, SessionOverInv DEF ClientStep
<1> QED
  BY <1>1, <1>2, RunInv, RotateInv, EndsInv, TickInv, StutterInv DEF Next

\* The loop of Loop.Run and the client of Client.Run keep TokenInv for every
\* lifetime, rotation, backoff and timeout, and for any number of denials.
THEOREM TokenInvariant == Spec => []TokenInv
  BY TokenInit, TokenStep, PTL DEF Spec

\* However slow an exchange was, the loop stops counting on a token no later
\* than the server does (heldAt = polledAt).
THEOREM TokensNeverLate == Spec => []NeverLate
<1>1. TokenInv => NeverLate
  BY DEF TokenInv
<1> QED
  BY <1>1, TokenInvariant, PTL

\* A client gives up for want of a fresh token only after the loop has asked
\* for one since the denial (Loop.Refresh, Loop.sleep, TokenRefreshTimeout).
THEOREM LoopAsksFirst == Spec => []AskedFirst
<1>1. TokenInv => AskedFirst
  BY DEF TokenInv
<1> QED
  BY <1>1, TokenInvariant, PTL

=============================================================================
