----------------------------- MODULE EventStream -----------------------------
(***************************************************************************)
(* The event log of one session and one subscription to it:                *)
(*                                                                         *)
(*   recordEvent/Finish -> store -> publish -> live buffer                 *)
(*                           |                    |                        *)
(*                        History  -- batch -->  pump -- wire --> client   *)
(*                                                                         *)
(* durableLog (harness/internal/harnessapi/eventlog.go) stores an event    *)
(* and then offers it to each subscriber's bounded buffer without waiting. *)
(* A subscription registers before it reads the log, and its pump joins    *)
(* the pages it reads with the live events.  The client library            *)
(* (harness/api/client/subscribe.go) opens the stream again after the last *)
(* event that it has.                                                      *)
(*                                                                         *)
(* Subscriptions share nothing but the log, so one is modelled.  It names  *)
(* its session by session_id.  An event is its seq.                        *)
(***************************************************************************)
EXTENDS Integers, Sequences

CONSTANTS
    MaxEvents,        \* bound: events of the session
    SubscriberBuffer, \* subscriberBuffer
    EventPage,        \* sessionstore.DefaultEventPage
    WireMax,          \* events on the stream before its sender blocks
    MaxDrops,         \* bound: streams that are lost
    MaxReadErrors,    \* bound: reads of the log that fail
    MaxRestarts,      \* bound: restarts of the platform
    MaxStatusErrors   \* bound: reads of the session's status that fail

ASSUME StreamBounds ==
    /\ MaxEvents \in Nat /\ SubscriberBuffer \in Nat \ {0}
    /\ EventPage \in Nat \ {0} /\ WireMax \in Nat \ {0}
    /\ MaxDrops \in Nat /\ MaxReadErrors \in Nat
    /\ MaxRestarts \in Nat /\ MaxStatusErrors \in Nat

VARIABLES
    stored,     \* the session's event_seq: events 1..stored are in the store
    endAt,      \* the seq of SessionEnded, 0 while the session is not terminal
    published,  \* events 1..published were offered to the subscribers
    \* the subscription
    phase,      \* where Subscribe() and pump() are
    sent,       \* pump's sent
    batch,      \* what is left of the page that pump is sending
    full,       \* whether that page had EventPage events
    live,       \* subscription.live
    stale,      \* subscription.stale has a token
    wire,       \* events on the stream
    \* the client
    client,     \* where Subscription.run is
    last,       \* afterSeq: the last event delivered
    start,      \* the request's after_seq
    received,   \* every event handed to the subscriber
    \* the faults used up
    drops, readErrors, restarts, statusErrors

logVars    == <<stored, endAt, published>>
subVars    == <<phase, sent, batch, full, live, stale>>
clientVars == <<client, last, start, received>>
faultVars  == <<drops, readErrors, restarts, statusErrors>>

vars == <<logVars, subVars, wire, clientVars, faultVars>>

-----------------------------------------------------------------------------

Init ==
    /\ stored = 0 /\ endAt = 0 /\ published = 0
    /\ phase = "none" /\ sent = 0 /\ batch = <<>> /\ full = FALSE
    /\ live = <<>> /\ stale = FALSE /\ wire = <<>>
    /\ client = "idle" /\ last = 0 /\ start = 0 /\ received = <<>>
    /\ drops = 0 /\ readErrors = 0 /\ restarts = 0 /\ statusErrors = 0

-----------------------------------------------------------------------------
(* The log.  lockEvents() holds the session's lock from the check of its   *)
(* status until the event is published.                                    *)

\* recordEvent() drops an event of a session that has ended.
Record ==
    /\ published = stored /\ stored < MaxEvents
    /\ endAt = 0
    /\ stored' = stored + 1
    /\ UNCHANGED <<endAt, published, subVars, wire, clientVars, faultVars>>

\* When the session's status cannot be read, recordEvent() appends the event.
RecordUnchecked ==
    /\ published = stored /\ stored < MaxEvents
    /\ statusErrors < MaxStatusErrors
    /\ stored' = stored + 1
    /\ statusErrors' = statusErrors + 1
    /\ UNCHANGED <<endAt, published, subVars, wire, clientVars, drops, readErrors, restarts>>

\* Finish(): one transaction ends the session and records StateChanged and
\* SessionEnded, if the session has not ended.
Finish ==
    /\ published = stored /\ stored + 2 <= MaxEvents
    /\ endAt = 0
    /\ stored' = stored + 2 /\ endAt' = stored + 2
    /\ UNCHANGED <<published, subVars, wire, clientVars, faultVars>>

\* Subscribe() registers before its first read.
Subscribed == phase \in {"registered", "checking", "batch", "live", "reading"}

OfferSilently(n) ==
    IF Subscribed /\ Len(live) < SubscriberBuffer
    THEN live' = Append(live, n) /\ UNCHANGED stale
    ELSE UNCHANGED <<live, stale>>

\* publish() never waits: an event that finds the buffer full is not kept, and
\* leaves the token that makes the pump read the log.
Offer(n) ==
    IF Subscribed
    THEN IF Len(live) < SubscriberBuffer
         THEN live' = Append(live, n) /\ UNCHANGED stale
         ELSE stale' = TRUE /\ UNCHANGED live
    ELSE UNCHANGED <<live, stale>>

Publish ==
    /\ published < stored
    /\ published' = published + 1
    /\ Offer(published + 1)
    /\ UNCHANGED <<stored, endAt, phase, sent, batch, full, wire, clientVars, faultVars>>

-----------------------------------------------------------------------------
(* The subscription.                                                       *)

Least(a, b) == IF a < b THEN a ELSE b

\* History(): the next page of events after n.
History(n) == [i \in 1..Least(stored - n, EventPage) |-> n + i]

\* A read fails: the subscription is over with an error.
ReadFails ==
    /\ readErrors < MaxReadErrors
    /\ readErrors' = readErrors + 1
    /\ phase' = "failed"
    /\ UNCHANGED <<batch, full>>

ReadPage ==
    /\ batch' = History(sent)
    /\ full' = (Len(History(sent)) = EventPage)
    /\ UNCHANGED readErrors

\* Subscribe(): an empty page leaves the question whether the log ends here.
SubscribeRead ==
    /\ phase = "registered"
    /\ \/ /\ ReadPage
          /\ phase' = IF History(sent) = <<>> /\ sent > 0 THEN "checking" ELSE "batch"
       \/ ReadFails
    /\ UNCHANGED <<logVars, sent, live, stale, wire, clientVars, drops, restarts,
                   statusErrors>>

EndsAtNever(n) == FALSE

\* endsAt(): event n is SessionEnded.
EndsAt(n) == n = endAt

SubscribeEndsAt ==
    /\ phase = "checking"
    /\ \/ /\ phase' = IF EndsAt(sent) THEN "over" ELSE "batch"
          /\ UNCHANGED <<batch, full, readErrors>>
       \/ ReadFails
    /\ UNCHANGED <<logVars, sent, live, stale, wire, clientVars, drops, restarts,
                   statusErrors>>

\* The pump sends event n: it returns after SessionEnded.
Send(n, then) ==
    /\ Len(wire) < WireMax
    /\ wire' = Append(wire, n)
    /\ sent' = n
    /\ phase' = IF n = endAt THEN "over" ELSE then

PumpBatch ==
    /\ phase = "batch" /\ batch # <<>>
    /\ batch' = Tail(batch)
    /\ IF Head(batch) <= sent
       THEN UNCHANGED <<phase, sent, wire>>
       ELSE Send(Head(batch), "batch")
    /\ UNCHANGED <<logVars, full, live, stale, clientVars, faultVars>>

PumpJoinsAlways == phase' = "live"

\* After a page that was not full the pump goes on with the live events.
PumpJoins == phase' = IF full THEN "reading" ELSE "live"

PumpBatchDone ==
    /\ phase = "batch" /\ batch = <<>>
    /\ PumpJoins
    /\ UNCHANGED <<logVars, sent, batch, full, live, stale, wire, clientVars, faultVars>>

GapNever(n) == FALSE

\* The live event n does not follow the last one that was sent.
Gap(n) == n # sent + 1

\* A live event that was sent is dropped, and one after a gap makes the pump
\* read the log.
PumpLive ==
    /\ phase = "live" /\ live # <<>>
    /\ live' = Tail(live)
    /\ LET n == Head(live)
       IN  \/ n <= sent /\ UNCHANGED <<phase, sent, wire>>
           \/ n > sent /\ Gap(n) /\ phase' = "reading" /\ UNCHANGED <<sent, wire>>
           \/ n > sent /\ ~Gap(n) /\ Send(n, "live")
    /\ UNCHANGED <<logVars, batch, full, stale, clientVars, faultVars>>

PumpStale ==
    /\ phase = "live" /\ stale
    /\ stale' = FALSE
    /\ phase' = "reading"
    /\ UNCHANGED <<logVars, sent, batch, full, live, wire, clientVars, faultVars>>

PumpRead ==
    /\ phase = "reading"
    /\ \/ ReadPage /\ phase' = "batch"
       \/ ReadFails
    /\ UNCHANGED <<logVars, sent, live, stale, wire, clientVars, drops, restarts,
                   statusErrors>>

-----------------------------------------------------------------------------
(* The client.                                                             *)

\* Service.Subscribe() makes a subscription that starts after event n.
Register(n) ==
    /\ phase' = "registered" /\ sent' = n
    /\ batch' = <<>> /\ full' = FALSE /\ live' = <<>> /\ stale' = FALSE
    /\ wire' = <<>>

\* The stream is over for the client and the server.
Hangup ==
    /\ phase' = "none" /\ sent' = 0
    /\ batch' = <<>> /\ full' = FALSE /\ live' = <<>> /\ stale' = FALSE
    /\ wire' = <<>>

\* A subscriber starts after an event that it has, or at the first one.
ClientSubscribe ==
    /\ client = "idle"
    /\ \E n \in 0..stored : start' = n /\ last' = n /\ Register(n)
    /\ client' = "open"
    /\ UNCHANGED <<logVars, received, faultVars>>

\* run() opens the stream again after the last event it delivered.  A first open
\* that failed is retried by the subscriber (the slackbot's App.subscribe).
Resume == Register(last)

ClientResume ==
    /\ client = "lost"
    /\ client' = "open"
    /\ Resume
    /\ UNCHANGED <<logVars, last, start, received, faultVars>>

\* deliver(): an event that the subscriber has is dropped.
Deliver(n) ==
    IF n <= last
    THEN UNCHANGED <<received, last>>
    ELSE received' = Append(received, n) /\ last' = n

\* drain() ends with SessionEnded.
ClientReceive ==
    /\ client = "open" /\ wire # <<>>
    /\ Deliver(Head(wire))
    /\ IF last' # last /\ last' = endAt
       THEN client' = "done" /\ Hangup
       ELSE wire' = Tail(wire) /\ UNCHANGED <<client, subVars>>
    /\ UNCHANGED <<logVars, start, faultVars>>

\* A stream that ends with status OK ends the subscription, any other end is
\* retried.
ClientStreamEnd ==
    /\ client = "open" /\ wire = <<>> /\ phase \in {"over", "failed"}
    /\ client' = IF phase = "over" THEN "done" ELSE "lost"
    /\ Hangup
    /\ UNCHANGED <<logVars, last, start, received, faultVars>>

-----------------------------------------------------------------------------
(* Faults.                                                                 *)

\* The stream is lost, or is silent for too long.
Drop ==
    /\ client = "open" /\ drops < MaxDrops
    /\ drops' = drops + 1
    /\ client' = "lost"
    /\ Hangup
    /\ UNCHANGED <<logVars, last, start, received, readErrors, restarts, statusErrors>>

\* What was stored and not published is published by nobody.
Restart ==
    /\ restarts < MaxRestarts
    /\ restarts' = restarts + 1
    /\ published' = stored
    /\ client' = IF client = "open" THEN "lost" ELSE client
    /\ Hangup
    /\ UNCHANGED <<stored, endAt, last, start, received, drops, readErrors, statusErrors>>

-----------------------------------------------------------------------------

LogNext == Record \/ RecordUnchecked \/ Finish \/ Publish
PumpNext == SubscribeRead \/ SubscribeEndsAt \/ PumpBatch \/ PumpBatchDone
            \/ PumpLive \/ PumpStale \/ PumpRead
ClientNext == ClientSubscribe \/ ClientResume \/ ClientReceive \/ ClientStreamEnd
FaultNext == Drop \/ Restart

Next == LogNext \/ PumpNext \/ ClientNext \/ FaultNext

Spec == Init /\ [][Next]_vars

\* Every goroutine that can move does.  What is recorded, the first Subscribe
\* and the faults are the environment's.
Fairness ==
    /\ WF_vars(Publish) /\ WF_vars(PumpNext)
    /\ WF_vars(ClientResume) /\ WF_vars(ClientReceive) /\ WF_vars(ClientStreamEnd)

FairSpec == Spec /\ Fairness

-----------------------------------------------------------------------------
(* Properties.                                                             *)

LogType == stored \in Nat /\ endAt \in Nat /\ published \in Nat
PumpType ==
    /\ phase \in {"none", "registered", "checking", "batch", "live", "reading", "over",
                  "failed"}
    /\ sent \in Nat /\ batch \in Seq(Nat) /\ live \in Seq(Nat) /\ wire \in Seq(Nat)
FlagType == full \in BOOLEAN /\ stale \in BOOLEAN
ClientType ==
    /\ client \in {"idle", "open", "lost", "done"}
    /\ last \in Nat /\ start \in Nat /\ received \in Seq(Nat)
FaultType ==
    drops \in Nat /\ readErrors \in Nat /\ restarts \in Nat /\ statusErrors \in Nat

\* Every variable has its type.
TypeOK == LogType /\ PumpType /\ FlagType /\ ClientType /\ FaultType

\* The subscriber gets each event after its after_seq once, in seq order and
\* with no gap, over full buffers, lost streams, failed reads and restarts.
ReceivedInOrder ==
    /\ last = start + Len(received) /\ last <= stored
    /\ \A i \in 1..Len(received) : received[i] = start + i

\* A subscription that is done has SessionEnded.
DoneOnlyAtEnd == client = "done" => endAt # 0 /\ last = endAt

\* A pump that waits has missed nothing: an event that was published and not
\* sent is in its buffer, or the token to read the log is.
WaitingMissedNothing ==
    (phase = "live" /\ live = <<>> /\ ~stale) => published <= sent

\* The subscription implements the abstract feed.
Feed == INSTANCE OrderedFeed WITH count <- stored, end <- endAt, from <- start,
            got <- received,
            status <- IF client = "idle" THEN "idle"
                      ELSE IF client = "done" THEN "done" ELSE "on"

\* The pages, the buffer, the stream and its repeats are one ordered feed.
ImplementsFeed == Feed!FeedSpec

\* Whatever streams were lost and whatever reads failed, the subscriber gets
\* every event in the end, and is done after SessionEnded.
ImplementsFairFeed == Feed!FairFeedSpec

-----------------------------------------------------------------------------
(* The inductive invariant: from the client back to the store, the stream, *)
(* the page and the buffer hold consecutive events, and cover all of them. *)

\* The events of s follow event n, one after the other.
Continues(n, s) == \A i \in 1..Len(s) : s[i] = n + i

LogInv ==
    /\ published <= stored /\ endAt <= stored
    /\ ReceivedInOrder /\ DoneOnlyAtEnd
    /\ client = "idle" => received = <<>>

\* What is on the stream leads from the client to the pump.
WireInv ==
    /\ (client = "open") = (phase # "none")
    /\ phase # "none" => /\ Continues(last, wire)
                         /\ sent = last + Len(wire) /\ sent <= stored
    /\ phase = "over" => endAt # 0 /\ sent = endAt
    /\ phase = "checking" => sent > 0

\* The page goes on where the pump is.
PageInv ==
    /\ phase \in {"registered", "checking", "live", "reading"} => batch = <<>>
    /\ phase = "batch" => Continues(sent, batch) /\ sent + Len(batch) <= stored
    /\ phase = "live" => ~full

\* An event that was published and not sent is in the page or in the buffer,
\* unless the pump is bound to read the log again.
CoverInv ==
    (phase \in {"checking", "batch", "live"} /\ ~stale /\ ~full) =>
        \A e \in (sent + 1)..published :
            e <= sent + Len(batch) \/ \E i \in 1..Len(live) : live[i] = e

\* The buffer holds events that were published.
BufferInv == \A i \in 1..Len(live) : live[i] <= published

\* From the client back to the store, the stream, the page and the buffer hold
\* consecutive events, and what they do not hold the pump will read.
FeedInv == LogInv /\ WireInv /\ PageInv /\ CoverInv /\ BufferInv
=============================================================================
