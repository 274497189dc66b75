----------------------------- MODULE TokenLoop -----------------------------
(***************************************************************************)
(* The token of a sidecar: the loop that polls for it and rotates it       *)
(* (sidecar/agentic/loop.go) with its two pollers, the exchange of a run   *)
(* token (poller.go) and the projected file (filepoller.go); the secret    *)
(* that Envoy reads (envoyconfig/runtoken.go); the client that dials with  *)
(* the token and asks for another one when it is denied (harnessclient     *)
(* Client.Run); and cmd/sidecar, which ends when the loop or the client    *)
(* does.  What an attached client does is Attach.                          *)
(*                                                                         *)
(* Time passes in ticks, and no variable holds a date: each holds the time *)
(* that is left or has passed.  A tick waits for what the process does at  *)
(* once, for a timer that is due and for a request at its deadline.        *)
(***************************************************************************)
EXTENDS Naturals, FiniteSets

CONSTANTS
    Names,           \* what tells one token from another
    Modes,           \* "user": the run token; "workload": the projected file
    Lifetime,        \* expires_in of a new token
    Rotation,        \* RotationInterval
    PendingInterval,
    MaxBackoff,
    PollTimeout,     \* the HTTP client's timeout
    RefreshTimeout,  \* TokenRefreshTimeout
    DeniedLimit      \* deniedRetryLimit

ASSUME TokenAssumption ==
    /\ IsFiniteSet(Names) /\ Cardinality(Names) >= 4 /\ "none" \notin Names
    /\ Modes \subseteq {"user", "workload"}
    /\ Lifetime \in Nat \ {0} /\ Rotation \in Nat \ {0}
    /\ PendingInterval \in Nat \ {0} /\ MaxBackoff \in Nat \ {0}
    /\ PollTimeout \in Nat \ {0}
    /\ RefreshTimeout \in Nat /\ RefreshTimeout >= PollTimeout
    /\ DeniedLimit \in Nat

None == "none"

VARIABLES
    mode,
    run,      \* the run at the authorization server
    file,     \* the projected token file: a token, and how long it is valid
    \* Loop
    loop,     \* where Run() is
    held,     \* the token held
    left,     \* how long it is valid, as the loop counts
    valid,    \* how long it is valid
    spent,    \* the time that this poll has taken
    sleep,    \* the time until the timer fires
    retry,    \* the next wait of the backoff
    refresh,  \* whether the refresh channel has its value
    next,     \* the token that Poll returned
    secret,   \* the token in Envoy's secret file
    \* Client.Run
    client,
    asked,    \* history: the loop began a poll since the client was denied
    over      \* whether the sidecar is over

loopVars == <<loop, held, left, valid, spent, sleep, retry, refresh, next, secret>>
vars     == <<mode, run, file, loopVars, client, asked, over>>

Smaller(a, b) == IF a < b THEN a ELSE b
Larger(a, b)  == IF a > b THEN a ELSE b

NoToken == [name |-> None, expiresIn |-> 0, valid |-> 0]

NewClient == [at |-> "start", bearer |-> None, deniedBearer |-> None, waited |-> 0,
              denied |-> 0, pause |-> 0, why |-> None]

Init ==
    /\ mode \in Modes /\ run = "pending"
    /\ file = IF mode = "user" THEN [name |-> None, valid |-> 0]
              ELSE [name |-> CHOOSE n \in Names : TRUE, valid |-> Lifetime]
    /\ loop = "poll" /\ held = None /\ left = 0 /\ valid = 0 /\ spent = 0 /\ sleep = 0
    /\ retry = 1 /\ refresh = FALSE /\ next = NoToken /\ secret = None
    /\ client = NewClient /\ asked = FALSE /\ over = FALSE

Holding == held # None

\* A name that no part of the process knows; names are only compared.
Fresh == CHOOSE n \in Names : n \notin {held, secret, file.name, client.bearer,
                                        client.deniedBearer}

-----------------------------------------------------------------------------
(* The authorization server and the kubelet.                               *)

\* A person approves the run; it expires or is revoked; an approval may lapse.
Run ==
    /\ \/ run = "pending" /\ run' \in {"approved", "revoked"}
       \/ run = "approved" /\ run' \in {"pending", "revoked"}
    /\ UNCHANGED <<mode, file, loopVars, client, asked, over>>

Rotate ==
    /\ mode = "workload" /\ ~over
    /\ file' = [name |-> Fresh, valid |-> Lifetime]
    /\ UNCHANGED <<mode, run, loopVars, client, asked, over>>

-----------------------------------------------------------------------------
(* Loop.Run                                                                *)

\* poll(): the request ends with the token that is held.
Poll ==
    /\ loop = "poll" /\ ~over
    /\ loop' = "polling" /\ spent' = 0 /\ asked' = TRUE
    /\ UNCHANGED <<mode, run, file, held, left, valid, sleep, retry, refresh, next, secret,
                   client, over>>

\* Mutant: the lifetime counts from the answer.
CountsFromAnswer(token) == token.expiresIn
\* The lifetime of a token counts from the start of its poll.
Remaining(token) == token.expiresIn - Smaller(spent, token.expiresIn)

\* The server minted the token while the request was under way.
Minted ==
    {[name |-> Fresh, expiresIn |-> Lifetime, valid |-> v] :
         v \in (Lifetime - Smaller(spent, Lifetime))..Lifetime}

Returned(token) ==
    /\ next' = token
    /\ loop' = IF token.name = held THEN "hold" ELSE "sink"
    /\ UNCHANGED <<mode, run, file, held, left, valid, spent, sleep, retry, refresh, secret,
                   client, asked, over>>

\* HTTPPoller.Poll, 200.  After its deadline a request returns no answer.
Exchanged ==
    /\ loop = "polling" /\ ~over /\ mode = "user" /\ run = "approved"
    /\ Holding => left > 0
    /\ \E token \in Minted : Returned(token)

\* FilePoller.Poll, which does not look at the deadline.
FileRead ==
    /\ loop = "polling" /\ ~over /\ mode = "workload" /\ file.valid > 0
    /\ Returned([name |-> file.name, expiresIn |-> file.valid, valid |-> file.valid])

Terminate ==
    /\ loop' = "over"
    /\ UNCHANGED <<mode, run, file, held, left, valid, spent, sleep, retry, refresh, next, secret,
                   client, asked, over>>

\* 403, another answer, or a file that cannot be read or has expired.
PollTerminal ==
    /\ loop = "polling" /\ ~over
    /\ Terminate

\* Sink: the secret is written to another file and renamed.
Sink ==
    /\ loop = "sink" /\ ~over
    /\ secret' = next.name /\ loop' = "hold"
    /\ UNCHANGED <<mode, run, file, held, left, valid, spent, sleep, retry, refresh, next, client,
                   asked, over>>

SinkFails == loop = "sink" /\ ~over /\ Terminate

rotationInterval(token) == Smaller(Rotation, Larger(token.expiresIn \div 6, 1))

Hold ==
    /\ loop = "hold" /\ ~over
    /\ held' = next.name /\ left' = Remaining(next) /\ valid' = next.valid
    /\ retry' = 1 /\ next' = NoToken /\ spent' = 0
    /\ loop' = "sleep" /\ sleep' = Smaller(rotationInterval(next), left')
    /\ UNCHANGED <<mode, run, file, refresh, secret, client, asked, over>>

\* The run waits for its approval, or the server cannot be reached: the loop
\* tries again until the token that it holds is over.
Wait(d) ==
    /\ loop' = "sleep" /\ sleep' = IF Holding THEN Smaller(d, left) ELSE d
    /\ spent' = 0
    /\ UNCHANGED <<mode, run, file, held, left, valid, refresh, next, secret, client, asked, over>>

PollPending ==
    /\ loop = "polling" /\ ~over /\ mode = "user" /\ run = "pending"
    /\ IF Holding /\ left = 0
       THEN Terminate
       ELSE Wait(PendingInterval) /\ UNCHANGED retry

\* Mutant: the loop serves its last token whatever its age.
RetriesForEver ==
    /\ loop = "polling" /\ ~over /\ mode = "user"
    /\ Wait(retry) /\ retry' = Smaller(2 * retry, MaxBackoff)

PollRetryable ==
    /\ loop = "polling" /\ ~over /\ mode = "user"
    /\ IF Holding /\ left = 0
       THEN Terminate
       ELSE Wait(retry) /\ retry' = Smaller(2 * retry, MaxBackoff)

\* The timer, or the refresh channel.
Wakes ==
    /\ loop = "sleep" /\ ~over
    /\ \/ sleep = 0 /\ UNCHANGED refresh
       \/ refresh /\ refresh' = FALSE
    /\ loop' = "poll"
    /\ UNCHANGED <<mode, run, file, held, left, valid, spent, sleep, retry, next, secret, client,
                   asked, over>>

-----------------------------------------------------------------------------
(* Client.Run                                                              *)

\* Refresh(): the channel keeps one value.
Refresh == TRUE

ClientGoes(c) == client' = c /\ UNCHANGED <<mode, run, file, loop, held, left, valid, spent, sleep,
                                            retry, next, secret, over>>

\* awaitToken, and then every attempt with the token held then.
Dial ==
    /\ ~over /\ mode = "user" /\ client.pause = 0
    /\ client.at = "pause" \/ (client.at = "start" /\ Holding)
    /\ ClientGoes([client EXCEPT !.at = "session", !.bearer = held]) /\ UNCHANGED <<refresh, asked>>

GivesUp(why) ==
    ClientGoes([client EXCEPT !.at = "over", !.why = why]) /\ UNCHANGED <<refresh, asked>>

\* PermissionDenied: Pomerium did not take the bearer.
Denied ==
    /\ ~over /\ client.at = "session" /\ client.bearer # client.deniedBearer
    /\ IF client.denied = DeniedLimit
       THEN GivesUp("denied")
       ELSE /\ ClientGoes([client EXCEPT !.at = "pause", !.pause = 1, !.waited = 0,
                                         !.deniedBearer = client.bearer, !.denied = @ + 1])
            /\ refresh' = Refresh /\ asked' = FALSE

DeniedAgain ==
    /\ ~over /\ client.at = "session" /\ client.bearer = client.deniedBearer
    /\ IF client.waited > RefreshTimeout
       THEN GivesUp("no fresh token")
       ELSE /\ ClientGoes([client EXCEPT !.at = "pause", !.pause = 1])
            /\ UNCHANGED <<refresh, asked>>

\* The session was lost, or never came up.
SessionLost ==
    /\ ~over /\ client.at = "session"
    /\ ClientGoes([client EXCEPT !.at = "pause", !.pause = 1, !.denied = 0, !.deniedBearer = None])
    /\ UNCHANGED <<refresh, asked>>

\* NotFound, FailedPrecondition, a terminal error or a clean end.
SessionOver == ~over /\ client.at = "session" /\ GivesUp("ended")

-----------------------------------------------------------------------------
\* sidecar.serve: the first of the two that returns ends the other.
Ends ==
    /\ loop = "over" \/ client.at = "over"
    /\ ~over /\ over' = TRUE
    /\ UNCHANGED <<mode, run, file, loopVars, client, asked>>

Less(n) == IF n > 0 THEN n - 1 ELSE 0

\* What does not wait for time.
AtOnce ==
    \/ loop \in {"poll", "sink", "hold", "over"} \/ client.at = "over"
    \/ loop = "sleep" /\ (sleep = 0 \/ refresh)
    \/ loop = "polling" /\ (mode = "workload" \/ spent = PollTimeout \/ (Holding /\ left = 0))

Tick ==
    /\ ~over /\ ~AtOnce
    /\ file' = IF mode = "workload" THEN [file EXCEPT !.valid = Less(@)] ELSE file
    /\ left' = Less(left) /\ valid' = Less(valid)
    /\ spent' = IF loop = "polling" THEN spent + 1 ELSE spent
    /\ sleep' = Less(sleep)
    /\ client' = [client EXCEPT !.pause = Less(@),
                                !.waited = IF client.deniedBearer = None THEN 0
                                           ELSE Smaller(@ + 1, RefreshTimeout + 1)]
    /\ UNCHANGED <<mode, run, loop, held, retry, refresh, next, secret, asked, over>>

LoopStep ==
    \/ Poll \/ Exchanged \/ FileRead \/ PollTerminal \/ PollPending \/ PollRetryable
    \/ Sink \/ SinkFails \/ Hold \/ Wakes

ClientStep == Dial \/ Denied \/ DeniedAgain \/ SessionLost \/ SessionOver

Next == Run \/ Rotate \/ LoopStep \/ ClientStep \/ Ends \/ Tick

Spec == Init /\ [][Next]_vars

\* The loop runs, a request ends at its deadline, time passes.  A session may
\* last for ever.
FairSpec == Spec /\ WF_vars(AtOnce /\ LoopStep) /\ WF_vars(Ends) /\ WF_vars(Tick)

-----------------------------------------------------------------------------
Token == Names \cup {None}

EnvType ==
    /\ mode \in Modes /\ run \in {"pending", "approved", "revoked"}
    /\ file \in [name : Token, valid : 0..Lifetime]

LoopType ==
    /\ loop \in {"poll", "polling", "sink", "hold", "sleep", "over"}
    /\ held \in Token /\ secret \in Token
    /\ next \in [name : Token, expiresIn : 0..Lifetime, valid : 0..Lifetime]

TimeType ==
    /\ left \in 0..Lifetime /\ valid \in 0..Lifetime /\ spent \in 0..PollTimeout
    /\ sleep \in Nat /\ retry \in 1..MaxBackoff

ClientType ==
    client \in [at : {"start", "session", "pause", "over"}, bearer : Token,
                deniedBearer : Token, waited : 0..(RefreshTimeout + 1),
                denied : 0..DeniedLimit, pause : 0..1,
                why : {None, "denied", "no fresh token", "ended"}]

FlagType == refresh \in BOOLEAN /\ asked \in BOOLEAN /\ over \in BOOLEAN

TypeOK == EnvType /\ LoopType /\ TimeType /\ ClientType /\ FlagType

\* The loop never counts on a token for longer than the server does, however
\* slow the exchange was (Loop.Run, heldAt = polledAt).
NeverLate == Holding => left <= valid

\* Envoy sends the token with which the client dials; a new one reaches Envoy
\* just before it is held (sink before held).
SecretIsHeld == secret = IF loop = "hold" THEN next.name ELSE held

\* A client that gives up for want of a fresh token does so after the loop has
\* asked for one since the denial, wherever the loop was then (Refresh, sleep,
\* TokenRefreshTimeout).
AskedFirst == client.why = "no fresh token" => asked

\* What the three rest on.  The token that Poll returned is valid for as long as
\* the loop will count on it.
ReturnedInv ==
    loop \in {"sink", "hold"} => next.name \in Names /\ Remaining(next) <= next.valid

\* The client runs in user mode, and dials only with a token.
ClientInv ==
    /\ mode = "user" <=> file.name = None
    /\ mode = "workload" =>
          client.at = "start" /\ client.bearer = None /\ client.deniedBearer = None
    /\ client.at # "start" => Holding
    /\ client.at = "session" => client.bearer # None
    /\ client.why # None => client.at = "over"

\* A denied client whose loop has not asked yet: the channel has its value
\* unless the loop is about to poll, and no time passes but in the poll that was
\* under way.
RefreshInv ==
    client.deniedBearer # None /\ ~asked =>
        /\ client.waited <= PollTimeout
        /\ loop \in {"polling", "sink", "hold", "sleep"} => refresh
        /\ loop = "polling" => client.waited <= spent

TokenInv ==
    /\ TypeOK /\ NeverLate /\ SecretIsHeld /\ AskedFirst
    /\ ReturnedInv /\ ClientInv /\ RefreshInv

\* A run that was revoked ends its sidecar, also when the server cannot be
\* reached any more: at the latest when the token expires (Loop.Run, the
\* deadline of poll and the sleeps that stop at the expiry).
RevokedEnds == run = "revoked" /\ mode = "user" /\ Holding ~> over

=============================================================================
