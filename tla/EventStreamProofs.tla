-------------------------- MODULE EventStreamProofs --------------------------
(***************************************************************************)
(* Proofs about EventStream, for every buffer, page and number of faults:  *)
(* the types, the inductive invariant FeedInv with the properties that     *)
(* follow from it, and the implementation of OrderedFeed.                  *)
(***************************************************************************)
EXTENDS EventStream, TLAPS

-----------------------------------------------------------------------------
(* Pages and sequences.                                                    *)

\* A page has at most EventPage events, and the ones it has are stored.
LEMMA HistoryPage ==
    ASSUME stored \in Nat, NEW n \in 0..stored
    PROVE  /\ History(n) \in Seq(Nat)
           /\ Len(History(n)) = Least(stored - n, EventPage)
           /\ Continues(n, History(n))
           /\ Len(History(n)) \in Nat /\ n + Len(History(n)) <= stored
           /\ Len(History(n)) # EventPage => n + Len(History(n)) = stored
<1>1. Least(stored - n, EventPage) \in Nat
  BY StreamBounds DEF Least
<1>2. History(n) \in Seq(Nat) /\ Len(History(n)) = Least(stored - n, EventPage)
  BY <1>1 DEF History
<1>3. Continues(n, History(n))
  BY <1>1, <1>2 DEF Continues, History
<1> QED
  BY <1>1, <1>2, <1>3, StreamBounds DEF Least

\* Adding the next event to a sequence that continues n.
LEMMA ContinuesAppend ==
    ASSUME NEW n \in Nat, NEW s \in Seq(Nat), Continues(n, s), NEW e \in Nat,
           e = n + Len(s) + 1
    PROVE  /\ Append(s, e) \in Seq(Nat) /\ Len(Append(s, e)) = Len(s) + 1
           /\ Continues(n, Append(s, e))
<1>1. /\ Append(s, e) \in Seq(Nat) /\ Len(Append(s, e)) = Len(s) + 1
      /\ \A i \in 1..Len(s) : Append(s, e)[i] = s[i]
      /\ Append(s, e)[Len(s) + 1] = e
  OBVIOUS
<1> QED
  BY <1>1 DEF Continues

\* Adding an event to a sequence.
LEMMA AppendTo ==
    ASSUME NEW s \in Seq(Nat), NEW e \in Nat
    PROVE  /\ Append(s, e) \in Seq(Nat) /\ Len(s) \in Nat
           /\ Len(Append(s, e)) = Len(s) + 1
           /\ \A i \in 1..Len(s) : Append(s, e)[i] = s[i]
           /\ Append(s, e)[Len(s) + 1] = e
<1> QED
  OBVIOUS

\* Taking the first event off a sequence.
LEMMA TailOf ==
    ASSUME NEW s \in Seq(Nat), s # <<>>
    PROVE  /\ Len(s) \in Nat \ {0} /\ Head(s) = s[1] /\ Head(s) \in Nat
           /\ Tail(s) \in Seq(Nat) /\ Len(Tail(s)) = Len(s) - 1
           /\ \A i \in 1..Len(Tail(s)) : Tail(s)[i] = s[i + 1]
<1> QED
  OBVIOUS

\* Taking the first event off a sequence that continues n.
LEMMA ContinuesTail ==
    ASSUME NEW n \in Nat, NEW s \in Seq(Nat), s # <<>>, Continues(n, s)
    PROVE  Head(s) = n + 1 /\ Continues(n + 1, Tail(s))
<1>1. Head(s) = n + 1
  BY TailOf DEF Continues
<1>2. \A i \in 1..Len(Tail(s)) : Tail(s)[i] = n + 1 + i
  BY TailOf DEF Continues
<1> QED
  BY <1>1, <1>2 DEF Continues

-----------------------------------------------------------------------------
(* Types.                                                                  *)

LEMMA TypeInit == Init => TypeOK
<1> SUFFICES ASSUME Init PROVE TypeOK
  OBVIOUS
<1>1. LogType /\ PumpType /\ ClientType /\ FaultType
  BY DEF Init, LogType, PumpType, ClientType, FaultType
<1>2. FlagType
  BY Zenon DEF Init, FlagType
<1> QED
  BY <1>1, <1>2 DEF TypeOK

\* Hangup and Register leave an empty subscription.
LEMMA HangupType == Hangup => PumpType' /\ FlagType'
<1> SUFFICES ASSUME Hangup PROVE PumpType' /\ FlagType'
  OBVIOUS
<1>1. PumpType'
  BY DEF Hangup, PumpType
<1>2. FlagType'
  BY Zenon DEF Hangup, FlagType
<1> QED
  BY <1>1, <1>2

LEMMA RegisterType ==
    ASSUME NEW n \in Nat, Register(n)
    PROVE  PumpType' /\ FlagType'
<1>1. PumpType'
  BY DEF Register, PumpType
<1>2. FlagType'
  BY Zenon DEF Register, FlagType
<1> QED
  BY <1>1, <1>2

\* A read of the log keeps the types of the page.
LEMMA ReadType ==
    ASSUME TypeOK, FeedInv, phase # "none", ReadPage \/ ReadFails
    PROVE  batch' \in Seq(Nat) /\ full' \in BOOLEAN /\ readErrors' \in Nat
<1>1. CASE ReadPage
  <2>1. sent \in 0..stored /\ stored \in Nat
    BY DEF FeedInv, WireInv, TypeOK, PumpType, LogType
  <2>2. batch' \in Seq(Nat)
    BY <1>1, <2>1, HistoryPage DEF ReadPage
  <2>3. full' \in BOOLEAN
    BY <1>1, Zenon DEF ReadPage
  <2>4. readErrors' \in Nat
    BY <1>1 DEF ReadPage, TypeOK, FaultType
  <2> QED
    BY <2>2, <2>3, <2>4
<1>2. CASE ReadFails
  <2>1. batch' \in Seq(Nat) /\ readErrors' \in Nat
    BY <1>2 DEF ReadFails, TypeOK, PumpType, FaultType
  <2>2. full' \in BOOLEAN
    BY <1>2, Zenon DEF ReadFails, TypeOK, FlagType
  <2> QED
    BY <2>1, <2>2
<1> QED
  BY <1>1, <1>2

LEMMA TypeStep == TypeOK /\ FeedInv /\ [Next]_vars => TypeOK'
<1> SUFFICES ASSUME TypeOK, FeedInv, [Next]_vars PROVE TypeOK'
  OBVIOUS
<1> USE DEF TypeOK
<1>u. /\ UNCHANGED logVars => LogType'
      /\ UNCHANGED <<subVars, wire>> => PumpType' /\ FlagType'
      /\ UNCHANGED <<full, stale>> => FlagType'
      /\ UNCHANGED clientVars => ClientType'
      /\ UNCHANGED faultVars => FaultType'
  <2>1. UNCHANGED logVars => LogType'
    BY DEF logVars, LogType
  <2>2. UNCHANGED <<subVars, wire>> => PumpType'
    BY DEF subVars, PumpType
  <2>3. UNCHANGED <<full, stale>> => FlagType'
    BY Zenon DEF FlagType
  <2>4. UNCHANGED <<subVars, wire>> => UNCHANGED <<full, stale>>
    BY DEF subVars
  <2>5. UNCHANGED clientVars => ClientType'
    BY DEF clientVars, ClientType
  <2>6. UNCHANGED faultVars => FaultType'
    BY DEF faultVars, FaultType
  <2> QED
    BY <2>1, <2>2, <2>3, <2>4, <2>5, <2>6
<1>1. CASE Record \/ Finish
  <2>1. LogType'
    BY <1>1 DEF Record, Finish, LogType
  <2> QED
    BY <1>1, <1>u, <2>1 DEF Record, Finish
<1>2. CASE RecordUnchecked
  <2>1. LogType' /\ FaultType'
    BY <1>2 DEF RecordUnchecked, LogType, FaultType
  <2> QED
    BY <1>2, <1>u, <2>1 DEF RecordUnchecked
<1>3. CASE Publish
  <2>1. LogType'
    BY <1>3 DEF Publish, LogType
  <2>2. live' \in Seq(Nat)
    <3>1. live' = live \/ live' = Append(live, published + 1)
      BY <1>3 DEF Publish, Offer
    <3>2. live \in Seq(Nat) /\ published + 1 \in Nat
      BY DEF PumpType, LogType
    <3>3. Append(live, published + 1) \in Seq(Nat)
      BY <3>2, AppendTo
    <3> QED
      BY <3>1, <3>2, <3>3
  <2>3. PumpType'
    BY <1>3, <2>2 DEF Publish, PumpType
  <2>4. FlagType'
    <3>1. stale' = stale \/ stale' = TRUE
      BY <1>3 DEF Publish, Offer
    <3>2. full' = full
      BY <1>3 DEF Publish
    <3> QED
      BY <3>1, <3>2, Zenon DEF FlagType
  <2> QED
    BY <1>3, <1>u, <2>1, <2>3, <2>4 DEF Publish
<1>4. CASE SubscribeRead \/ SubscribeEndsAt \/ PumpRead
  <2>1. batch' \in Seq(Nat) /\ full' \in BOOLEAN /\ readErrors' \in Nat
    <3>1. CASE SubscribeRead
      BY <3>1, ReadType DEF SubscribeRead
    <3>2. CASE SubscribeEndsAt /\ ReadFails
      BY <3>2, ReadType DEF SubscribeEndsAt
    <3>3. CASE SubscribeEndsAt /\ UNCHANGED <<batch, full, readErrors>>
      <4>1. batch' \in Seq(Nat) /\ readErrors' \in Nat
        BY <3>3 DEF PumpType, FaultType
      <4>2. full' \in BOOLEAN
        BY <3>3, Zenon DEF FlagType
      <4> QED
        BY <4>1, <4>2
    <3>4. CASE PumpRead
      BY <3>4, ReadType DEF PumpRead
    <3> QED
      BY <1>4, <3>1, <3>2, <3>3, <3>4 DEF SubscribeEndsAt
  <2>2. phase' \in {"checking", "batch", "over", "failed"}
    BY <1>4 DEF SubscribeRead, SubscribeEndsAt, PumpRead, ReadFails
  <2>3. UNCHANGED <<sent, live, stale, wire, drops, restarts, statusErrors>>
    BY <1>4 DEF SubscribeRead, SubscribeEndsAt, PumpRead
  <2>4. PumpType' /\ FaultType'
    BY <2>1, <2>2, <2>3 DEF PumpType, FaultType
  <2>5. FlagType'
    BY <2>1, <2>3, Zenon DEF FlagType
  <2> QED
    BY <1>4, <1>u, <2>4, <2>5 DEF SubscribeRead, SubscribeEndsAt, PumpRead
<1>5. CASE PumpBatch
  <2>1. Head(batch) \in Nat /\ batch' \in Seq(Nat)
    BY <1>5 DEF PumpBatch, PumpType
  <2>2. \/ UNCHANGED <<sent, wire>>
        \/ sent' = Head(batch) /\ wire' = Append(wire, Head(batch))
    BY <1>5 DEF PumpBatch, Send
  <2>3. sent' \in Nat /\ wire' \in Seq(Nat)
    <3>1. Append(wire, Head(batch)) \in Seq(Nat)
      BY <2>1, AppendTo DEF PumpType
    <3> QED
      BY <2>1, <2>2, <3>1 DEF PumpType
  <2>4. phase' \in {"batch", "live", "reading", "over"}
    BY <1>5 DEF PumpBatch, Send
  <2>5. PumpType'
    BY <1>5, <2>1, <2>3, <2>4 DEF PumpBatch, PumpType
  <2> QED
    BY <1>5, <1>u, <2>5 DEF PumpBatch
<1>6. CASE PumpBatchDone
  <2>1. PumpType'
    BY <1>6 DEF PumpBatchDone, PumpJoins, PumpType
  <2> QED
    BY <1>6, <1>u, <2>1 DEF PumpBatchDone
<1>7. CASE PumpLive
  <2>1. Head(live) \in Nat /\ live' \in Seq(Nat)
    BY <1>7 DEF PumpLive, PumpType
  <2>2. \/ UNCHANGED <<sent, wire>>
        \/ sent' = Head(live) /\ wire' = Append(wire, Head(live))
    BY <1>7 DEF PumpLive, Send
  <2>3. sent' \in Nat /\ wire' \in Seq(Nat)
    <3>1. Append(wire, Head(live)) \in Seq(Nat)
      BY <2>1, AppendTo DEF PumpType
    <3> QED
      BY <2>1, <2>2, <3>1 DEF PumpType
  <2>4. phase' \in {"batch", "live", "reading", "over"}
    BY <1>7 DEF PumpLive, Send
  <2>5. PumpType'
    BY <1>7, <2>1, <2>3, <2>4 DEF PumpLive, PumpType
  <2> QED
    BY <1>7, <1>u, <2>5 DEF PumpLive
<1>8. CASE PumpStale
  <2>1. PumpType'
    BY <1>8 DEF PumpStale, PumpType
  <2>2. FlagType'
    BY <1>8, Zenon DEF PumpStale, FlagType
  <2> QED
    BY <1>8, <1>u, <2>1, <2>2 DEF PumpStale
<1>9. CASE ClientSubscribe
  <2>1. PICK n \in 0..stored : start' = n /\ last' = n /\ Register(n)
    BY <1>9 DEF ClientSubscribe
  <2>2. n \in Nat
    BY DEF LogType
  <2>3. ClientType'
    BY <1>9, <2>1, <2>2 DEF ClientSubscribe, ClientType
  <2> QED
    BY <1>9, <1>u, <2>1, <2>2, <2>3, RegisterType DEF ClientSubscribe
<1>10. CASE ClientResume
  <2>1. last \in Nat /\ Register(last)
    BY <1>10 DEF ClientResume, Resume, ClientType
  <2>2. ClientType'
    BY <1>10 DEF ClientResume, ClientType
  <2> QED
    BY <1>10, <1>u, <2>1, <2>2, RegisterType DEF ClientResume
<1>11. CASE ClientReceive
  <2>1. Head(wire) \in Nat /\ Tail(wire) \in Seq(Nat)
    BY <1>11 DEF ClientReceive, PumpType
  <2>2. last' \in Nat /\ received' \in Seq(Nat)
    <3>1. \/ UNCHANGED <<last, received>>
          \/ last' = Head(wire) /\ received' = Append(received, Head(wire))
      BY <1>11 DEF ClientReceive, Deliver
    <3> QED
      BY <2>1, <3>1, AppendTo DEF ClientType
  <2>3. ClientType'
    BY <1>11, <2>2 DEF ClientReceive, ClientType
  <2>4. PumpType' /\ FlagType'
    <3>1. CASE Hangup
      BY <3>1, HangupType
    <3>2. CASE wire' = Tail(wire) /\ UNCHANGED subVars
      <4>1. PumpType'
        BY <3>2, <2>1 DEF PumpType, subVars
      <4>2. UNCHANGED <<full, stale>>
        BY <3>2 DEF subVars
      <4> QED
        BY <4>1, <4>2, <1>u
    <3> QED
      BY <1>11, <3>1, <3>2 DEF ClientReceive
  <2> QED
    BY <1>11, <1>u, <2>3, <2>4 DEF ClientReceive
<1>12. CASE ClientStreamEnd
  <2>1. ClientType'
    BY <1>12 DEF ClientStreamEnd, ClientType
  <2> QED
    BY <1>12, <1>u, <2>1, HangupType DEF ClientStreamEnd
<1>13. CASE Drop
  <2>1. ClientType' /\ FaultType'
    BY <1>13 DEF Drop, ClientType, FaultType
  <2> QED
    BY <1>13, <1>u, <2>1, HangupType DEF Drop
<1>14. CASE Restart
  <2>1. LogType' /\ ClientType' /\ FaultType'
    BY <1>14 DEF Restart, LogType, ClientType, FaultType
  <2> QED
    BY <1>14, <2>1, HangupType DEF Restart
<1>15. CASE UNCHANGED vars
  BY <1>15, <1>u DEF vars
<1> QED
  BY <1>1, <1>2, <1>3, <1>4, <1>5, <1>6, <1>7, <1>8, <1>9, <1>10, <1>11, <1>12, <1>13, <1>14,
     <1>15 DEF Next, LogNext, PumpNext, ClientNext, FaultNext

-----------------------------------------------------------------------------
(* The inductive invariant.                                                *)

LEMMA FeedInit == Init => FeedInv
<1> QED
  BY DEF Init, FeedInv, LogInv, WireInv, PageInv, CoverInv, BufferInv, ReceivedInOrder,
         DoneOnlyAtEnd, Continues

\* The parts of the invariant are about these variables.
LEMMA FeedUnchanged ==
    /\ LogInv /\ UNCHANGED <<stored, endAt, published, client, last, start, received>> => LogInv'
    /\ PageInv /\ UNCHANGED <<phase, batch, full, sent, stored>> => PageInv'
    /\ CoverInv /\ UNCHANGED <<phase, stale, full, sent, published, batch, live>> => CoverInv'
    /\ BufferInv /\ UNCHANGED <<live, published>> => BufferInv'
<1>1. LogInv /\ UNCHANGED <<stored, endAt, published, client, last, start, received>> => LogInv'
  BY DEF LogInv, ReceivedInOrder, DoneOnlyAtEnd
<1>2. PageInv /\ UNCHANGED <<phase, batch, full, sent, stored>> => PageInv'
  BY DEF PageInv, Continues
<1>3. CoverInv /\ UNCHANGED <<phase, stale, full, sent, published, batch, live>> => CoverInv'
  BY DEF CoverInv
<1>4. BufferInv /\ UNCHANGED <<live, published>> => BufferInv'
  BY DEF BufferInv
<1> QED
  BY <1>1, <1>2, <1>3, <1>4

\* What is recorded comes after everything that is under way.
LEMMA FeedRecord ==
    ASSUME TypeOK, FeedInv, stored' \in Nat, stored < stored',
           UNCHANGED endAt \/ (endAt = 0 /\ endAt' = stored'),
           UNCHANGED <<published, subVars, wire, clientVars>>
    PROVE  FeedInv'
<1>t. /\ stored \in Nat /\ endAt \in Nat /\ published \in Nat /\ sent \in Nat /\ last \in Nat
      /\ batch \in Seq(Nat)
  BY DEF TypeOK, LogType, PumpType, ClientType
<1>u. UNCHANGED <<published, phase, sent, batch, full, live, stale, wire, client, last, start,
                  received>>
  BY DEF subVars, clientVars
<1>1. LogInv'
  <2>1. ReceivedInOrder'
    BY <1>t, <1>u DEF FeedInv, LogInv, ReceivedInOrder
  <2>2. DoneOnlyAtEnd'
    BY <1>t, <1>u DEF FeedInv, LogInv, DoneOnlyAtEnd
  <2> QED
    BY <1>t, <1>u, <2>1, <2>2 DEF FeedInv, LogInv
<1>2. WireInv'
  BY <1>t, <1>u DEF FeedInv, WireInv, Continues
<1>3. PageInv'
  <2>1. Len(batch) \in Nat
    BY <1>t
  <2> QED
    BY <1>t, <1>u, <2>1 DEF FeedInv, PageInv, Continues
<1> QED
  BY <1>u, <1>1, <1>2, <1>3, FeedUnchanged DEF FeedInv

\* An event that publish() offers is in the buffer, or its token is left.
LEMMA FeedPublish == TypeOK /\ FeedInv /\ Publish => FeedInv'
<1> SUFFICES ASSUME TypeOK, FeedInv, Publish PROVE FeedInv'
  OBVIOUS
<1>t. /\ stored \in Nat /\ published \in Nat /\ sent \in Nat /\ live \in Seq(Nat)
      /\ batch \in Seq(Nat) /\ Len(live) \in Nat /\ Len(batch) \in Nat
  BY DEF TypeOK, LogType, PumpType
<1>u. /\ UNCHANGED <<stored, endAt, phase, sent, batch, full, wire, client, last, start, received>>
      /\ published' = published + 1 /\ published < stored
  BY DEF Publish, clientVars
<1>o. Offer(published + 1)
  BY DEF Publish
<1>1. LogInv'
  BY <1>t, <1>u DEF FeedInv, LogInv, ReceivedInOrder, DoneOnlyAtEnd
<1>2. WireInv'
  BY <1>u DEF FeedInv, WireInv, Continues
<1>3. PageInv'
  BY <1>u, FeedUnchanged DEF FeedInv
<1>a. LET s == Append(live, published + 1)
      IN  /\ s \in Seq(Nat) /\ Len(s) = Len(live) + 1
          /\ \A i \in 1..Len(live) : s[i] = live[i]
          /\ s[Len(live) + 1] = published + 1
  BY <1>t, AppendTo
<1>4. CASE live' = Append(live, published + 1) /\ UNCHANGED stale
  <2>1. CoverInv'
    <3> SUFFICES ASSUME phase \in {"checking", "batch", "live"}, ~stale, ~full,
                        NEW e \in (sent + 1)..(published + 1)
                 PROVE  e <= sent + Len(batch) \/ \E i \in 1..Len(live') : live'[i] = e
      BY <1>u, <1>4 DEF CoverInv
    <3>1. CASE e = published + 1
      BY <1>t, <1>a, <1>4, <3>1
    <3>2. CASE e # published + 1
      <4>1. e \in (sent + 1)..published
        BY <1>t, <3>2
      <4>2. e <= sent + Len(batch) \/ \E i \in 1..Len(live) : live[i] = e
        BY <4>1 DEF FeedInv, CoverInv
      <4> QED
        BY <1>t, <1>a, <1>4, <4>2
    <3> QED
      BY <3>1, <3>2
  <2>2. BufferInv'
    <3> SUFFICES ASSUME NEW i \in 1..Len(live') PROVE live'[i] <= published + 1
      BY <1>u DEF BufferInv
    <3>1. CASE i = Len(live) + 1
      BY <1>t, <1>a, <1>4, <3>1
    <3>2. CASE i # Len(live) + 1
      <4>1. i \in 1..Len(live) /\ live'[i] = live[i] /\ live[i] \in Nat
        BY <1>t, <1>a, <1>4, <3>2
      <4> QED
        BY <1>t, <4>1 DEF FeedInv, BufferInv
    <3> QED
      BY <3>1, <3>2
  <2> QED
    BY <1>1, <1>2, <1>3, <2>1, <2>2 DEF FeedInv
<1>5. CASE UNCHANGED live /\ (stale' \/ ~Subscribed)
  <2>1. CoverInv'
    BY <1>u, <1>5 DEF CoverInv, Subscribed
  <2>2. BufferInv'
    <3>1. \A i \in 1..Len(live) : live[i] \in Nat
      BY <1>t
    <3> QED
      BY <1>t, <1>u, <1>5, <3>1 DEF FeedInv, BufferInv
  <2> QED
    BY <1>1, <1>2, <1>3, <2>1, <2>2 DEF FeedInv
<1> QED
  BY <1>4, <1>5, <1>o DEF Offer

\* A subscription that is over, or is reading the log, relies on no page and on
\* no buffer.
LEMMA FeedIdle ==
    ASSUME phase' \in {"none", "registered", "reading", "over", "failed"},
           phase' \in {"registered", "reading"} => batch' = <<>>
    PROVE  PageInv' /\ CoverInv'
<1> QED
  BY DEF PageInv, CoverInv

\* A page follows what was sent, and a page that is not full ends the log.
LEMMA FeedRead ==
    ASSUME TypeOK, FeedInv, ReadPage,
           phase \in {"registered", "reading"}, phase' \in {"checking", "batch"},
           phase' = "checking" => History(sent) = <<>> /\ sent > 0,
           UNCHANGED <<logVars, sent, live, wire, clientVars>>
    PROVE  FeedInv'
<1>t. /\ stored \in Nat /\ published \in Nat /\ sent \in Nat /\ EventPage \in Nat
      /\ published <= stored /\ sent \in 0..stored
  BY StreamBounds DEF TypeOK, LogType, PumpType, FeedInv, LogInv, WireInv
<1>u. UNCHANGED <<stored, endAt, published, sent, live, wire, client, last, start, received>>
  BY DEF logVars, clientVars
<1>h. /\ batch' = History(sent) /\ Continues(sent, History(sent))
      /\ Len(History(sent)) \in Nat /\ sent + Len(History(sent)) <= stored
      /\ Len(History(sent)) # EventPage => sent + Len(History(sent)) = stored
      /\ full' = (Len(History(sent)) = EventPage)
  BY <1>t, HistoryPage DEF ReadPage
<1>1. WireInv'
  BY <1>u DEF FeedInv, WireInv, Continues
<1>2. PageInv'
  BY <1>t, <1>u, <1>h DEF PageInv, Continues
<1>3. CoverInv'
  <2>1. ~full' => sent + Len(batch') = stored
    BY <1>h
  <2>2. ~full' => \A e \in (sent + 1)..published : e <= sent + Len(batch')
    BY <1>t, <2>1
  <2> QED
    BY <1>u, <2>2 DEF CoverInv
<1> QED
  BY <1>u, <1>1, <1>2, <1>3, FeedUnchanged DEF FeedInv

LEMMA FeedReadFails ==
    ASSUME FeedInv, ReadFails, phase # "none",
           UNCHANGED <<logVars, sent, live, wire, clientVars>>
    PROVE  FeedInv'
<1>u. /\ UNCHANGED <<stored, endAt, published, sent, live, wire, client, last, start, received>>
      /\ phase' = "failed"
  BY DEF logVars, clientVars, ReadFails
<1>1. WireInv'
  BY <1>u DEF FeedInv, WireInv, Continues
<1> QED
  BY <1>u, <1>1, FeedIdle, FeedUnchanged DEF FeedInv

LEMMA FeedSubscribeRead == TypeOK /\ FeedInv /\ SubscribeRead => FeedInv'
<1> SUFFICES ASSUME TypeOK, FeedInv, SubscribeRead PROVE FeedInv'
  OBVIOUS
<1>1. CASE ReadPage /\ phase' = IF History(sent) = <<>> /\ sent > 0 THEN "checking" ELSE "batch"
  BY <1>1, FeedRead DEF SubscribeRead
<1>2. CASE ReadFails
  BY <1>2, FeedReadFails DEF SubscribeRead
<1> QED
  BY <1>1, <1>2 DEF SubscribeRead

LEMMA FeedPumpRead == TypeOK /\ FeedInv /\ PumpRead => FeedInv'
<1> SUFFICES ASSUME TypeOK, FeedInv, PumpRead PROVE FeedInv'
  OBVIOUS
<1>1. CASE ReadPage /\ phase' = "batch"
  BY <1>1, FeedRead DEF PumpRead
<1>2. CASE ReadFails
  BY <1>2, FeedReadFails DEF PumpRead
<1> QED
  BY <1>1, <1>2 DEF PumpRead

LEMMA FeedEndsAt == TypeOK /\ FeedInv /\ SubscribeEndsAt => FeedInv'
<1> SUFFICES ASSUME TypeOK, FeedInv, SubscribeEndsAt PROVE FeedInv'
  OBVIOUS
<1>t. sent \in Nat /\ stored \in Nat /\ sent > 0 /\ sent <= stored /\ phase = "checking"
      /\ batch = <<>>
  BY DEF TypeOK, PumpType, LogType, FeedInv, WireInv, PageInv, SubscribeEndsAt
<1>u. UNCHANGED <<stored, endAt, published, sent, live, stale, wire, client, last, start,
                  received>>
  BY DEF SubscribeEndsAt, logVars, clientVars
<1>1. CASE ReadFails
  BY <1>1, FeedReadFails DEF SubscribeEndsAt
<1>2. CASE phase' = (IF EndsAt(sent) THEN "over" ELSE "batch") /\ UNCHANGED <<batch, full, readErrors>>
  <2>1. WireInv'
    BY <1>t, <1>u, <1>2 DEF FeedInv, WireInv, Continues, EndsAt
  <2>2. PageInv'
    BY <1>t, <1>u, <1>2 DEF PageInv, Continues
  <2>3. CoverInv'
    BY <1>t, <1>u, <1>2 DEF FeedInv, CoverInv
  <2> QED
    BY <1>u, <2>1, <2>2, <2>3, FeedUnchanged DEF FeedInv
<1> QED
  BY <1>1, <1>2 DEF SubscribeEndsAt

\* Sending the next event leads the stream on.
LEMMA FeedSend ==
    ASSUME TypeOK, FeedInv, phase \in {"batch", "live"}, NEW then \in {"batch", "live"},
           sent + 1 <= stored, Send(sent + 1, then),
           UNCHANGED <<logVars, clientVars>>
    PROVE  WireInv' /\ LogInv' /\ sent' = sent + 1 /\ phase' \in {"over", then}
<1>t. /\ stored \in Nat /\ endAt \in Nat /\ sent \in Nat /\ last \in Nat /\ wire \in Seq(Nat)
      /\ Len(wire) \in Nat
  BY DEF TypeOK, LogType, PumpType, ClientType
<1>u. /\ UNCHANGED <<stored, endAt, published, client, last, start, received>>
      /\ wire' = Append(wire, sent + 1) /\ sent' = sent + 1
      /\ phase' = IF sent + 1 = endAt THEN "over" ELSE then
  BY DEF logVars, clientVars, Send
<1>1. Continues(last, wire) /\ sent = last + Len(wire) /\ client = "open"
  BY DEF FeedInv, WireInv
<1>2. Continues(last, wire') /\ Len(wire') = Len(wire) + 1
  BY <1>t, <1>u, <1>1, ContinuesAppend
<1>3. WireInv'
  BY <1>t, <1>u, <1>1, <1>2 DEF WireInv, Continues
<1> QED
  BY <1>u, <1>3, FeedUnchanged DEF FeedInv

LEMMA FeedPumpBatch == TypeOK /\ FeedInv /\ PumpBatch => FeedInv'
<1> SUFFICES ASSUME TypeOK, FeedInv, PumpBatch PROVE FeedInv'
  OBVIOUS
<1>t. /\ stored \in Nat /\ sent \in Nat /\ batch \in Seq(Nat) /\ Len(batch) \in Nat
      /\ batch # <<>> /\ phase = "batch" /\ Continues(sent, batch)
      /\ sent + Len(batch) <= stored /\ published \in Nat
  BY DEF TypeOK, LogType, PumpType, PumpBatch, FeedInv, PageInv
<1>1. Head(batch) = sent + 1 /\ Continues(sent + 1, Tail(batch))
  BY <1>t, ContinuesTail
<1>2. Len(Tail(batch)) = Len(batch) - 1 /\ sent + 1 <= stored
  BY <1>t, TailOf
<1>3. /\ Send(sent + 1, "batch") /\ batch' = Tail(batch)
      /\ UNCHANGED <<logVars, full, live, stale, clientVars>>
  BY <1>t, <1>1 DEF PumpBatch
<1>4. WireInv' /\ LogInv' /\ sent' = sent + 1 /\ phase' \in {"over", "batch"}
  BY <1>t, <1>2, <1>3, FeedSend
<1>5. PageInv'
  BY <1>t, <1>1, <1>2, <1>3, <1>4 DEF PageInv, Continues, logVars
<1>6. CoverInv'
  <2> SUFFICES ASSUME ~stale, ~full, NEW e \in (sent + 2)..published
               PROVE  e <= sent + 1 + Len(Tail(batch)) \/ \E i \in 1..Len(live) : live[i] = e
    BY <1>t, <1>3, <1>4 DEF CoverInv, logVars
  <2>1. e \in (sent + 1)..published
    BY <1>t
  <2> QED
    BY <1>t, <1>2, <2>1 DEF FeedInv, CoverInv
<1> QED
  BY <1>3, <1>4, <1>5, <1>6, FeedUnchanged DEF FeedInv, logVars

LEMMA FeedPumpBatchDone == TypeOK /\ FeedInv /\ PumpBatchDone => FeedInv'
<1> SUFFICES ASSUME TypeOK, FeedInv, PumpBatchDone PROVE FeedInv'
  OBVIOUS
<1>u. /\ UNCHANGED <<stored, endAt, published, sent, batch, full, live, stale, wire, client,
                     last, start, received>>
      /\ phase = "batch" /\ batch = <<>> /\ phase' = IF full THEN "reading" ELSE "live"
  BY DEF PumpBatchDone, PumpJoins, logVars, clientVars
<1>1. WireInv'
  BY <1>u DEF FeedInv, WireInv, Continues
<1>2. PageInv'
  BY <1>u DEF PageInv
<1>3. CoverInv'
  BY <1>u DEF FeedInv, CoverInv
<1> QED
  BY <1>u, <1>1, <1>2, <1>3, FeedUnchanged DEF FeedInv

\* The buffer without its first event covers what comes after the event that
\* the pump has sent.
LEMMA FeedPumpLive == TypeOK /\ FeedInv /\ PumpLive => FeedInv'
<1> SUFFICES ASSUME TypeOK, FeedInv, PumpLive PROVE FeedInv'
  OBVIOUS
<1> DEFINE n == Head(live)
<1>t. /\ stored \in Nat /\ sent \in Nat /\ live \in Seq(Nat) /\ live # <<>>
      /\ published \in Nat /\ published <= stored
      /\ phase = "live" /\ batch = <<>> /\ ~full
  BY DEF TypeOK, LogType, PumpType, PumpLive, FeedInv, PageInv, LogInv
<1>l. /\ Len(live) \in Nat \ {0} /\ n = live[1] /\ n \in Nat
      /\ live' = Tail(live) /\ Len(live') = Len(live) - 1
      /\ \A i \in 1..Len(live') : live'[i] = live[i + 1]
  BY <1>t, TailOf DEF PumpLive
<1>u. UNCHANGED <<stored, endAt, published, batch, full, stale, client, last, start, received>>
  BY DEF PumpLive, logVars, clientVars
<1>b. BufferInv' /\ n <= published
  BY <1>l, <1>u DEF FeedInv, BufferInv
<1>c. ~stale => \A e \in (sent + 1)..published :
                    e # n => \E i \in 1..Len(live') : live'[i] = e
  <2> SUFFICES ASSUME ~stale, NEW e \in (sent + 1)..published, e # n
               PROVE  \E i \in 1..Len(live') : live'[i] = e
    OBVIOUS
  <2>1. PICK i \in 1..Len(live) : live[i] = e
    <3>1. Len(batch) = 0
      BY <1>t
    <3> QED
      BY <1>t, <3>1 DEF FeedInv, CoverInv
  <2>2. i # 1
    BY <1>l, <2>1
  <2>3. i - 1 \in 1..Len(live') /\ live'[i - 1] = e
    BY <1>l, <2>1, <2>2
  <2> QED
    BY <2>3
<1>1. CASE n <= sent /\ UNCHANGED <<phase, sent, wire>>
  <2>1. CoverInv'
    <3>1. ~stale => \A e \in (sent + 1)..published : \E i \in 1..Len(live') : live'[i] = e
      <4>1. \A e \in (sent + 1)..published : e # n
        BY <1>t, <1>l, <1>1
      <4> QED
        BY <1>c, <4>1
    <3> QED
      BY <1>u, <1>1, <3>1 DEF CoverInv
  <2>2. WireInv' /\ PageInv'
    BY <1>u, <1>1 DEF FeedInv, WireInv, PageInv, Continues
  <2> QED
    BY <1>b, <1>u, <2>1, <2>2, FeedUnchanged DEF FeedInv
<1>2. CASE phase' = "reading" /\ UNCHANGED <<sent, wire>>
  <2>1. WireInv'
    BY <1>t, <1>u, <1>2 DEF FeedInv, WireInv, Continues
  <2>2. PageInv' /\ CoverInv'
    BY <1>t, <1>u, <1>2, FeedIdle
  <2> QED
    BY <1>b, <1>u, <2>1, <2>2, FeedUnchanged DEF FeedInv
<1>3. CASE n > sent /\ ~Gap(n) /\ Send(n, "live")
  <2>1. n = sent + 1 /\ sent + 1 <= stored
    BY <1>t, <1>l, <1>b, <1>3 DEF Gap
  <2>2. UNCHANGED <<logVars, clientVars>>
    BY DEF PumpLive
  <2>3. WireInv' /\ LogInv' /\ sent' = sent + 1 /\ phase' \in {"over", "live"}
    <3>1. Send(sent + 1, "live")
      BY <1>3, <2>1
    <3> QED
      BY <1>t, <2>1, <2>2, <3>1, FeedSend
  <2>4. PageInv'
    BY <1>t, <1>u, <2>3 DEF PageInv
  <2>5. CoverInv'
    BY <1>t, <1>l, <1>c, <1>u, <2>1, <2>3 DEF CoverInv
  <2> QED
    BY <1>b, <2>3, <2>4, <2>5 DEF FeedInv
<1> QED
  BY <1>1, <1>2, <1>3 DEF PumpLive

LEMMA FeedPumpStale == TypeOK /\ FeedInv /\ PumpStale => FeedInv'
<1> SUFFICES ASSUME TypeOK, FeedInv, PumpStale PROVE FeedInv'
  OBVIOUS
<1>u. /\ UNCHANGED <<stored, endAt, published, sent, batch, full, live, wire, client, last,
                     start, received>>
      /\ phase = "live" /\ phase' = "reading"
  BY DEF PumpStale, logVars, clientVars
<1>1. WireInv'
  BY <1>u DEF FeedInv, WireInv, Continues
<1>2. batch' = <<>>
  BY <1>u DEF FeedInv, PageInv
<1> QED
  BY <1>u, <1>1, <1>2, FeedIdle, FeedUnchanged DEF FeedInv

\* A new subscription starts with nothing on its stream.
LEMMA FeedRegister ==
    ASSUME TypeOK, NEW n \in 0..stored, Register(n), LogInv',
           client' = "open", last' = n, UNCHANGED stored
    PROVE  FeedInv'
<1>t. n \in Nat /\ stored \in Nat
  BY DEF TypeOK, LogType
<1>1. WireInv'
  BY <1>t DEF Register, WireInv, Continues
<1>2. PageInv' /\ CoverInv' /\ BufferInv'
  BY FeedIdle DEF Register, BufferInv
<1> QED
  BY <1>1, <1>2 DEF FeedInv

\* Without a stream only the log and the client are left.
LEMMA FeedHangup ==
    ASSUME Hangup, LogInv', client' # "open"
    PROVE  FeedInv'
<1>1. WireInv'
  BY DEF Hangup, WireInv
<1>2. PageInv' /\ CoverInv' /\ BufferInv'
  BY FeedIdle DEF Hangup, BufferInv
<1> QED
  BY <1>1, <1>2 DEF FeedInv

LEMMA FeedClientSubscribe == TypeOK /\ FeedInv /\ ClientSubscribe => FeedInv'
<1> SUFFICES ASSUME TypeOK, FeedInv, ClientSubscribe PROVE FeedInv'
  OBVIOUS
<1>1. PICK n \in 0..stored : start' = n /\ last' = n /\ Register(n)
  BY DEF ClientSubscribe
<1>2. n \in Nat /\ stored \in Nat /\ n <= stored
  BY DEF TypeOK, LogType
<1>3. UNCHANGED <<stored, endAt, published, received>> /\ client' = "open"
  BY DEF ClientSubscribe, logVars
<1>4. LogInv'
  <2>1. received' = <<>>
    BY <1>3 DEF ClientSubscribe, FeedInv, LogInv
  <2> QED
    BY <1>1, <1>2, <1>3, <2>1 DEF FeedInv, LogInv, ReceivedInOrder, DoneOnlyAtEnd
<1> QED
  BY <1>1, <1>3, <1>4, FeedRegister

LEMMA FeedClientResume == TypeOK /\ FeedInv /\ ClientResume => FeedInv'
<1> SUFFICES ASSUME TypeOK, FeedInv, ClientResume PROVE FeedInv'
  OBVIOUS
<1>1. last \in 0..stored
  BY DEF TypeOK, LogType, ClientType, FeedInv, LogInv, ReceivedInOrder
<1>2. /\ Register(last) /\ client' = "open"
      /\ UNCHANGED <<stored, endAt, published, last, start, received>>
  BY DEF ClientResume, Resume, logVars
<1>3. LogInv'
  BY <1>2 DEF FeedInv, LogInv, ReceivedInOrder, DoneOnlyAtEnd
<1> QED
  BY <1>1, <1>2, <1>3, FeedRegister

\* The first event on the stream is the next one for the client.
LEMMA NextOnWire ==
    ASSUME TypeOK, FeedInv, ClientReceive
    PROVE  /\ Head(wire) = last + 1 /\ last + 1 <= stored
           /\ last' = last + 1 /\ received' = Append(received, last + 1)
           /\ Continues(last + 1, Tail(wire)) /\ Len(Tail(wire)) = Len(wire) - 1
<1>t. /\ wire \in Seq(Nat) /\ wire # <<>> /\ Continues(last, wire) /\ last \in Nat
      /\ sent = last + Len(wire) /\ sent <= stored /\ stored \in Nat
  BY DEF TypeOK, LogType, PumpType, ClientType, FeedInv, WireInv, ClientReceive
<1>1. Head(wire) = last + 1 /\ Continues(last + 1, Tail(wire))
  BY <1>t, ContinuesTail
<1>2. Len(wire) \in Nat \ {0} /\ Len(Tail(wire)) = Len(wire) - 1
  BY <1>t, TailOf
<1> QED
  BY <1>t, <1>1, <1>2 DEF ClientReceive, Deliver

LEMMA FeedClientReceive == TypeOK /\ FeedInv /\ ClientReceive => FeedInv'
<1> SUFFICES ASSUME TypeOK, FeedInv, ClientReceive PROVE FeedInv'
  OBVIOUS
<1>t. /\ stored \in Nat /\ endAt \in Nat /\ last \in Nat /\ start \in Nat /\ sent \in Nat
      /\ received \in Seq(Nat) /\ Len(received) \in Nat
      /\ wire \in Seq(Nat) /\ Len(wire) \in Nat /\ client = "open"
  BY DEF TypeOK, LogType, PumpType, ClientType, ClientReceive
<1>n. /\ last' = last + 1 /\ received' = Append(received, last + 1) /\ last + 1 <= stored
      /\ Continues(last + 1, Tail(wire)) /\ Len(Tail(wire)) = Len(wire) - 1
  BY NextOnWire
<1>u. UNCHANGED <<stored, endAt, published, start>>
  BY DEF ClientReceive, logVars
<1>1. ReceivedInOrder'
  <2>1. Continues(start, received) /\ last = start + Len(received)
    BY DEF FeedInv, LogInv, ReceivedInOrder, Continues
  <2>2. Continues(start, received') /\ Len(received') = Len(received) + 1
    BY <1>t, <1>n, <2>1, ContinuesAppend
  <2> QED
    BY <1>t, <1>n, <1>u, <2>1, <2>2 DEF ReceivedInOrder, Continues
<1>2. CASE last' = endAt
  <2>1. client' = "done" /\ Hangup
    BY <1>t, <1>n, <1>2 DEF ClientReceive
  <2>2. LogInv'
    BY <1>t, <1>n, <1>u, <1>1, <1>2, <2>1 DEF FeedInv, LogInv, DoneOnlyAtEnd
  <2> QED
    BY <2>1, <2>2, FeedHangup
<1>3. CASE last' # endAt
  <2>1. wire' = Tail(wire) /\ UNCHANGED <<client, subVars>>
    BY <1>3 DEF ClientReceive
  <2>2. LogInv'
    BY <1>t, <1>u, <1>1, <2>1 DEF FeedInv, LogInv, DoneOnlyAtEnd
  <2>3. WireInv'
    <3>1. Continues(last', wire') /\ UNCHANGED <<phase, sent, client>>
      BY <1>n, <2>1 DEF subVars
    <3>2. sent = last + Len(wire) => sent = last' + Len(wire')
      <4>1. Len(wire') = Len(wire) - 1
        BY <1>n, <2>1
      <4> QED
        BY <1>t, <1>n, <4>1
    <3> QED
      BY <1>u, <3>1, <3>2 DEF FeedInv, WireInv, Continues
  <2> QED
    BY <1>u, <2>1, <2>2, <2>3, FeedUnchanged DEF FeedInv, subVars
<1> QED
  BY <1>2, <1>3

LEMMA FeedStreamEnd == TypeOK /\ FeedInv /\ ClientStreamEnd => FeedInv'
<1> SUFFICES ASSUME TypeOK, FeedInv, ClientStreamEnd PROVE FeedInv'
  OBVIOUS
<1>u. UNCHANGED <<stored, endAt, published, last, start, received>> /\ Hangup
  BY DEF ClientStreamEnd, logVars
<1>1. client' \in {"done", "lost"} /\ (client' = "done" => phase = "over")
  BY DEF ClientStreamEnd
<1>2. phase = "over" => endAt # 0 /\ last = endAt
  <2>1. wire = <<>> /\ last \in Nat /\ phase # "none"
    BY DEF ClientStreamEnd, TypeOK, ClientType
  <2>2. sent = last
    BY <2>1 DEF FeedInv, WireInv
  <2> QED
    BY <2>2 DEF FeedInv, WireInv
<1>3. LogInv'
  BY <1>u, <1>1, <1>2 DEF FeedInv, LogInv, ReceivedInOrder, DoneOnlyAtEnd
<1> QED
  BY <1>u, <1>1, <1>3, FeedHangup

LEMMA FeedFault == TypeOK /\ FeedInv /\ (Drop \/ Restart) => FeedInv'
<1> SUFFICES ASSUME TypeOK, FeedInv, Drop \/ Restart PROVE FeedInv'
  OBVIOUS
<1>1. /\ Hangup /\ client' # "open" /\ client' \in {client, "lost"}
      /\ UNCHANGED <<stored, endAt, last, start, received>>
      /\ published' \in {published, stored}
  BY DEF Drop, Restart, logVars
<1>2. LogInv'
  BY <1>1 DEF FeedInv, LogInv, ReceivedInOrder, DoneOnlyAtEnd, TypeOK, LogType
<1> QED
  BY <1>1, <1>2, FeedHangup

LEMMA FeedStep == TypeOK /\ FeedInv /\ [Next]_vars => FeedInv'
<1> SUFFICES ASSUME TypeOK, FeedInv, [Next]_vars PROVE FeedInv'
  OBVIOUS
<1>1. CASE Record \/ RecordUnchecked \/ Finish
  <2>1. /\ stored' \in Nat /\ stored < stored'
        /\ UNCHANGED endAt \/ (endAt = 0 /\ endAt' = stored')
        /\ UNCHANGED <<published, subVars, wire, clientVars>>
    BY <1>1 DEF Record, RecordUnchecked, Finish, TypeOK, LogType
  <2> QED
    BY <2>1, FeedRecord
<1>2. CASE Publish
  BY <1>2, FeedPublish
<1>3. CASE SubscribeRead \/ SubscribeEndsAt \/ PumpRead
  BY <1>3, FeedSubscribeRead, FeedEndsAt, FeedPumpRead
<1>4. CASE PumpBatch \/ PumpBatchDone \/ PumpLive \/ PumpStale
  BY <1>4, FeedPumpBatch, FeedPumpBatchDone, FeedPumpLive, FeedPumpStale
<1>5. CASE ClientSubscribe \/ ClientResume \/ ClientReceive \/ ClientStreamEnd
  BY <1>5, FeedClientSubscribe, FeedClientResume, FeedClientReceive, FeedStreamEnd
<1>6. CASE Drop \/ Restart
  BY <1>6, FeedFault
<1>7. CASE UNCHANGED vars
  <2>1. UNCHANGED <<stored, endAt, published, phase, sent, batch, full, live, stale, wire,
                    client, last, start, received>>
    BY <1>7 DEF vars, logVars, subVars, clientVars
  <2>2. WireInv'
    BY <2>1 DEF FeedInv, WireInv, Continues
  <2> QED
    BY <2>1, <2>2, FeedUnchanged DEF FeedInv
<1> QED
  BY <1>1, <1>2, <1>3, <1>4, <1>5, <1>6, <1>7 DEF Next, LogNext, PumpNext, ClientNext, FaultNext

\* The variables keep their types, and the stream, the page and the buffer hold
\* consecutive events that leave nothing out.
THEOREM FeedInvariant == Spec => [](TypeOK /\ FeedInv)
<1> QED
  BY TypeInit, TypeStep, FeedInit, FeedStep, PTL DEF Spec

\* A subscriber gets each event once, in seq order and with no gap, for every
\* size of the buffer and the page and every number of drops and restarts.
THEOREM ReceivesInOrder == Spec => []ReceivedInOrder
<1>1. FeedInv => ReceivedInOrder
  BY DEF FeedInv, LogInv
<1> QED
  BY <1>1, FeedInvariant, PTL

\* A subscription ends only after SessionEnded.
THEOREM EndsOnlyAtEnd == Spec => []DoneOnlyAtEnd
<1>1. FeedInv => DoneOnlyAtEnd
  BY DEF FeedInv, LogInv
<1> QED
  BY <1>1, FeedInvariant, PTL

\* A pump that waits for live events has missed none: publish() may find the
\* buffer full, but then it leaves the token that wakes the pump.
THEOREM NothingMissed == Spec => []WaitingMissedNothing
<1>1. TypeOK /\ FeedInv => WaitingMissedNothing
  <2> SUFFICES ASSUME TypeOK, FeedInv, phase = "live", live = <<>>, ~stale, sent < published
               PROVE  FALSE
    BY DEF WaitingMissedNothing, TypeOK, LogType, PumpType
  <2>1. batch = <<>> /\ ~full /\ sent \in Nat /\ published \in Nat
    BY DEF FeedInv, PageInv, TypeOK, LogType, PumpType
  <2>2. published \in (sent + 1)..published /\ Len(batch) = 0 /\ Len(live) = 0
    BY <2>1
  <2> QED
    BY <2>1, <2>2 DEF FeedInv, CoverInv
<1> QED
  BY <1>1, FeedInvariant, PTL

-----------------------------------------------------------------------------
(* The subscription implements the abstract feed.                          *)

LEMMA FeedRefines ==
    TypeOK /\ FeedInv /\ [Next]_vars => [Feed!FeedNext]_(Feed!feedVars)
<1> SUFFICES ASSUME TypeOK, FeedInv, [Next]_vars
             PROVE  Feed!FeedNext \/ UNCHANGED Feed!feedVars
  OBVIOUS
<1>k. ASSUME UNCHANGED <<stored, endAt, start, received>>,
             client' = client \/ {client, client'} \subseteq {"open", "lost"}
      PROVE  UNCHANGED Feed!feedVars
  BY <1>k DEF Feed!feedVars
<1>1. CASE Record \/ RecordUnchecked
  BY <1>1 DEF Record, RecordUnchecked, clientVars, Feed!Grow, Feed!FeedNext
<1>2. CASE Finish
  BY <1>2 DEF Finish, clientVars, Feed!End, Feed!FeedNext
<1>3. CASE Publish
  BY <1>3, <1>k DEF Publish, clientVars
<1>4. CASE PumpNext
  BY <1>4, <1>k DEF PumpNext, SubscribeRead, SubscribeEndsAt, PumpRead, PumpBatch, PumpBatchDone,
                    PumpLive, PumpStale, logVars, clientVars
<1>5. CASE ClientSubscribe
  BY <1>5 DEF ClientSubscribe, logVars, Feed!Join, Feed!FeedNext
<1>6. CASE ClientResume
  BY <1>6, <1>k DEF ClientResume, logVars
<1>7. CASE ClientReceive
  <2>1. /\ last' = last + 1 /\ received' = Append(received, last + 1) /\ last + 1 <= stored
    BY <1>7, NextOnWire
  <2>2. /\ last = start + Len(received) /\ last \in Nat /\ stored \in Nat /\ last + 1 # last
    BY DEF FeedInv, LogInv, ReceivedInOrder, TypeOK, ClientType, LogType
  <2>3. start + Len(received) < stored /\ received' = Append(received, start + Len(received) + 1)
    BY <2>1, <2>2
  <2>4. /\ client = "open" /\ client' = IF last + 1 = endAt THEN "done" ELSE "open"
        /\ UNCHANGED <<stored, endAt, start>>
    BY <1>7, <2>1, <2>2 DEF ClientReceive, logVars
  <2> QED
    BY <2>2, <2>3, <2>4 DEF Feed!Deliver, Feed!FeedNext
<1>8. CASE ClientStreamEnd
  <2>1. UNCHANGED <<stored, endAt, start, received>> /\ client = "open"
    BY <1>8 DEF ClientStreamEnd, logVars
  <2>2. CASE phase = "over"
    <3>1. client' = "done"
      BY <1>8, <2>2 DEF ClientStreamEnd
    <3>2. endAt # 0 /\ last = endAt
      BY <1>8, <3>1, FeedStreamEnd DEF FeedInv, LogInv, DoneOnlyAtEnd, ClientStreamEnd, logVars
    <3>3. last = start + Len(received)
      BY DEF FeedInv, LogInv, ReceivedInOrder
    <3> QED
      BY <2>1, <3>1, <3>2, <3>3 DEF Feed!Leave, Feed!FeedNext
  <2>3. CASE phase # "over"
    BY <1>8, <2>1, <2>3, <1>k DEF ClientStreamEnd
  <2> QED
    BY <2>2, <2>3
<1>9. CASE Drop \/ Restart
  BY <1>9, <1>k DEF Drop, Restart, logVars
<1>10. CASE UNCHANGED vars
  BY <1>10, <1>k DEF vars, logVars, clientVars
<1> QED
  BY <1>1, <1>2, <1>3, <1>4, <1>5, <1>6, <1>7, <1>8, <1>9, <1>10
     DEF Next, LogNext, ClientNext, FaultNext

\* Pages, buffers, lost streams and repeated ones together are one ordered feed.
THEOREM RefinesFeed == Spec => ImplementsFeed
<1>1. Init => Feed!FeedInit
  BY DEF Init, Feed!FeedInit
<1> QED
  BY <1>1, FeedRefines, FeedInvariant, PTL DEF Spec, ImplementsFeed, Feed!FeedSpec
=============================================================================
