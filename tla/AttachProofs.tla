---------------------------- MODULE AttachProofs ----------------------------
(***************************************************************************)
(* Theorems about Attach, for any number of streams and faults: the grace  *)
(* timer is right about the stream however the ends and starts of streams  *)
(* interleave, and one stream serves the run.  The liveness properties     *)
(* stay with TLC.                                                          *)
(***************************************************************************)
EXTENDS Attach, TLAPS

-----------------------------------------------------------------------------
(* The records that the actions write.                                     *)

LEMMA NoHandlerFacts ==
    /\ NoHandler \in HandlerType /\ NoHandler.at = "gone" /\ NoHandler.notify = "no"
    /\ NoHandler.silent = FALSE
<1>1. <<>> \in Seq({"spawn", "shutdown"})
  OBVIOUS
<1> QED BY <1>1 DEF NoHandler, HandlerType, HandlerAt

LEMMA RunFacts ==
    /\ NewRun \in RunType /\ NewRun.expected = TRUE /\ NewRun.live = None
    /\ NewRun.attached = FALSE
    /\ NoRun \in RunType /\ NoRun.expected = FALSE /\ NoRun.live = None
BY DEF NewRun, NoRun, RunType

LEMMA NewClientType ==
    NewClient \in ClientType
BY DEF NewClient, ClientType

LEMMA FaultCounted ==
    ASSUME PodType, Fails \/ Works
    PROVE  faults' \in 0..MaxFaults
<1>1. faults \in 0..MaxFaults /\ MaxFaults \in Nat
  BY AttachAssumption DEF PodType
<1> QED BY <1>1 DEF Fails, Works

\* What the invariant says of one handler and of the run.
LEMMA HandlerFacts ==
    ASSUME AttachInv, NEW a \in Slots
    PROVE  /\ ServerType /\ SessionType /\ StreamType /\ PodType
           /\ handlers \in [Slots -> HandlerType] /\ handlers[a] \in HandlerType
           /\ run \in RunType
           /\ NotifyAt(a) /\ LiveAt(a) /\ ReleaseAt(a) /\ RunOver
           /\ a # None
BY AttachAssumption DEF AttachInv, TypeOK, ServerType

\* A stream ends with an answer.
LEMMA AnswerTypes ==
    ASSUME StreamType, NEW a \in Slots,
           NEW code \in AnswerCodes,
           Answer(a, code)
    PROVE  StreamType'
<1> DEFINE Codes == ManagerFrames \cup AnswerCodes
<1>0. down[a] \in Seq(Codes) /\ code \in Codes
  BY DEF StreamType
<1> HIDE DEF Codes
<1>1. Append(down[a], code) \in Seq(Codes)
  BY <1>0
<1>2. <<>> \in Seq(SidecarFrames)
  OBVIOUS
<1>3. down' \in [Slots -> Seq(Codes)] /\ up' \in [Slots -> Seq(SidecarFrames)] /\ conn' = conn
  BY <1>1, <1>2 DEF StreamType, Answer, Codes
<1> QED BY <1>3 DEF StreamType, Codes

\* A frame for the client is put on its stream, if that is up.
LEMMA DownTypes ==
    ASSUME StreamType, NEW a \in Slots, NEW frame \in ManagerFrames,
           down' = [down EXCEPT ![a] = IF conn[a] = "up" THEN Append(@, frame) ELSE @],
           UNCHANGED <<conn, up>>
    PROVE  StreamType'
<1> DEFINE Codes == ManagerFrames \cup AnswerCodes
<1>0. down[a] \in Seq(Codes) /\ frame \in Codes
  BY DEF StreamType
<1> HIDE DEF Codes
<1>1. Append(down[a], frame) \in Seq(Codes)
  BY <1>0
<1>2. down' \in [Slots -> Seq(Codes)]
  BY <1>1 DEF StreamType, Codes
<1> QED BY <1>2 DEF StreamType, Codes

-----------------------------------------------------------------------------
(* The kinds of steps.                                                     *)

\* The pod moves, and the streams: nobody in the harness knows.
LEMMA PodMoves ==
    ASSUME AttachInv, UNCHANGED <<serverVars, sessionVars>>, StreamType', PodType'
    PROVE  AttachInv'
<1>1. /\ UNCHANGED <<handlers, run, notifyMu, holding>>
      /\ UNCHANGED <<launch, spawned, grace, firing, stop>>
  BY DEF serverVars, sessionVars
<1>2. ServerType' /\ SessionType'
  BY <1>1 DEF AttachInv, TypeOK, ServerType, SessionType
<1>3. AttachedIsNotTimed' /\ LostIsTimed' /\ OneStreamServes'
  BY <1>1 DEF AttachInv, AttachedIsNotTimed, LostIsTimed, OneStreamServes, At
<1>4. (\A a \in Slots : NotifyAt(a) /\ LiveAt(a) /\ ReleaseAt(a))' /\ RunOver'
  BY <1>1 DEF AttachInv, NotifyAt, LiveAt, ReleaseAt, RunOver, At
<1> QED BY <1>2, <1>3, <1>4 DEF AttachInv, TypeOK

\* The session moves: a stop is never taken back, and the timer runs on or fires.
LEMMA SessionMoves ==
    ASSUME AttachInv, UNCHANGED <<handlers, run, notifyMu, streamVars, podVars, faults>>,
           holding' \in BOOLEAN, SessionType', RunOver',
           stop # "no" => stop' # "no",
           \/ grace' = grace /\ (firing => firing' \/ stop' # "no" \/ ~run.expected)
           \/ grace' = "off" /\ firing' = TRUE
    PROVE  AttachInv'
<1>1. ServerType' /\ StreamType' /\ PodType'
  BY DEF AttachInv, TypeOK, ServerType, StreamType, PodType, streamVars, podVars
<1>2. AttachedIsNotTimed' /\ LostIsTimed' /\ OneStreamServes'
  BY DEF AttachInv, AttachedIsNotTimed, LostIsTimed, OneStreamServes, At
<1>3. (\A a \in Slots : NotifyAt(a) /\ LiveAt(a) /\ ReleaseAt(a))'
  BY DEF AttachInv, NotifyAt, LiveAt, ReleaseAt, At
<1> QED BY <1>1, <1>2, <1>3 DEF AttachInv, TypeOK

\* A handler moves, and the run stays as it is.
LEMMA HandlerMoves ==
    ASSUME AttachInv, NEW a \in Slots, NEW h \in HandlerType,
           handlers' = [handlers EXCEPT ![a] = h],
           UNCHANGED <<run, notifyMu, holding, grace, firing>>,
           SessionType', StreamType', PodType', RunOver',
           stop # "no" => stop' # "no",
           h.notify # "no" \/ h.silent => h.at \in {"serve", "error"},
           h.notify = "waits" => stop' # "no" \/ (run.live = a /\ ~h.silent),
           h.notify = "runs" => notifyMu = a,
           h.at = "ack" => run.live = a \/ ~run.expected,
           h.at \in {"ack", "serve"} /\ ~h.closed => run.live = a,
           run.live = a => /\ h.at \in {"ack", "serve", "error", "leave"}
                           /\ h.notify \in {"runs", "done"} /\ h.at = "serve" => grace = "off"
                           /\ h.notify \in {"runs", "done"} =>
                                handlers[a].notify \in {"runs", "done"},
           h.at # "lost", ~At(a, "lost")
    PROVE  AttachInv'
<1>1. ServerType
  BY DEF AttachInv, TypeOK
<1>2. /\ handlers'[a] = h /\ \A b \in Slots : b # a => handlers'[b] = handlers[b]
      /\ handlers' \in [Slots -> HandlerType]
  BY <1>1 DEF ServerType
<1>3. ServerType'
  BY <1>1, <1>2 DEF ServerType
<1>4. AttachedIsNotTimed'
  BY <1>2 DEF AttachInv, AttachedIsNotTimed, At
<1>5. LostIsTimed'
  BY <1>2 DEF AttachInv, LostIsTimed, At
<1>6. OneStreamServes'
  BY <1>2 DEF AttachInv, OneStreamServes
<1>7. ASSUME NEW b \in Slots PROVE NotifyAt(b)' /\ LiveAt(b)' /\ ReleaseAt(b)'
  <2>0. NotifyAt(b) /\ LiveAt(b) /\ ReleaseAt(b) /\ LiveAt(a)
    BY DEF AttachInv
  <2>1. NotifyAt(b)'
    BY <1>2, <2>0 DEF NotifyAt
  <2>2. LiveAt(b)'
    BY <1>2, <2>0 DEF LiveAt, At
  <2>3. ReleaseAt(b)'
    <3>1. h.notify \in {"no", "waits", "runs", "done"}
      BY DEF HandlerType
    <3> QED BY <1>2, <2>0, <3>1 DEF ReleaseAt, At
  <2> QED BY <2>1, <2>2, <2>3
<1> QED BY <1>3, <1>4, <1>5, <1>6, <1>7 DEF AttachInv, TypeOK


-----------------------------------------------------------------------------
(* The handlers.                                                           *)

\* A handler that returns before its stream has the run.
LEMMA Answered ==
    ASSUME AttachInv, NEW a \in Slots,
           NEW code \in AnswerCodes,
           Answer(a, code), UNCHANGED <<run, notifyMu, holding, sessionVars, podVars, faults>>,
           handlers[a].at \in {"unknown", "hello", "ended"}
    PROVE  AttachInv'
<1>1. /\ SessionType /\ StreamType /\ PodType /\ LiveAt(a) /\ RunOver
      /\ handlers \in [Slots -> HandlerType]
  BY HandlerFacts
<1>2. StreamType'
  BY <1>1, AnswerTypes
<1>3. SessionType' /\ PodType' /\ UNCHANGED <<launch, stop, grace, firing>>
  BY <1>1 DEF SessionType, PodType, sessionVars, podVars
<1>4. handlers' = [handlers EXCEPT ![a] = NoHandler]
  BY DEF Answer
<1>5. RunOver'
  BY <1>1, <1>3, <1>4, NoHandlerFacts DEF RunOver
<1>6. run.live # a /\ ~At(a, "lost")
  BY <1>1 DEF LiveAt, At
<1> QED BY <1>2, <1>3, <1>4, <1>5, <1>6, NoHandlerFacts, HandlerMoves

\* serveAttach returns; the handler is yet to release the run.
LEMMA Leaves ==
    ASSUME AttachInv, NEW a \in Slots, Leave(a), handlers[a].at \in {"ack", "serve", "error"},
           UNCHANGED <<run, notifyMu, holding, sessionVars, podVars, faults>>, StreamType'
    PROVE  AttachInv'
<1>1. /\ SessionType /\ PodType /\ LiveAt(a) /\ RunOver /\ handlers \in [Slots -> HandlerType]
  BY HandlerFacts
<1>2. PICK h \in HandlerType : h = [NoHandler EXCEPT !.at = "leave"]
  BY NoHandlerFacts DEF HandlerType, HandlerAt
<1>3. h.at = "leave" /\ h.notify = "no" /\ h.silent = FALSE
  BY <1>2, NoHandlerFacts DEF NoHandler
<1>4. SessionType' /\ PodType' /\ UNCHANGED <<launch, stop, grace, firing>>
  BY <1>1 DEF SessionType, PodType, sessionVars, podVars
<1>5. handlers' = [handlers EXCEPT ![a] = h]
  BY <1>2 DEF Leave
<1>6. RunOver'
  BY <1>1, <1>3, <1>4, <1>5 DEF RunOver
<1>7. ~At(a, "lost")
  BY DEF At
<1> QED BY <1>3, <1>4, <1>5, <1>6, <1>7, HandlerMoves

LEMMA LookupStep ==
    ASSUME AttachInv, NEW a \in Slots, Lookup(a)
    PROVE  AttachInv'
<1>1. /\ SessionType /\ StreamType /\ PodType /\ LiveAt(a) /\ RunOver /\ NotifyAt(a)
      /\ handlers \in [Slots -> HandlerType] /\ handlers[a] \in HandlerType /\ At(a, "lookup")
  BY HandlerFacts DEF Lookup
<1>2. PICK h \in HandlerType :
        h = [handlers[a] EXCEPT !.at = IF run.expected THEN "hello" ELSE "unknown"]
  BY <1>1 DEF HandlerType, HandlerAt
<1>3. /\ h.at = (IF run.expected THEN "hello" ELSE "unknown") /\ h.notify = handlers[a].notify
      /\ h.silent = handlers[a].silent
  BY <1>1, <1>2 DEF HandlerType
<1>4. /\ StreamType' /\ SessionType' /\ PodType'
      /\ UNCHANGED <<launch, stop, grace, firing, run, notifyMu, holding>>
  BY <1>1 DEF SessionType, StreamType, PodType, sessionVars, podVars, streamVars, Lookup
<1>5. handlers' = [handlers EXCEPT ![a] = h]
  BY <1>1, <1>2 DEF Lookup
<1>6. RunOver'
  BY <1>1, <1>3, <1>4, <1>5 DEF RunOver
<1>7. ~At(a, "lost") /\ run.live # a /\ h.notify = "no" /\ ~h.silent
  BY <1>1, <1>3 DEF At, LiveAt, NotifyAt, HandlerType
<1> QED BY <1>3, <1>4, <1>5, <1>6, <1>7, HandlerMoves

LEMMA LookupUnknownStep ==
    ASSUME AttachInv, NEW a \in Slots, LookupUnknown(a)
    PROVE  AttachInv'
<1>1. PICK code \in {"Unavailable", "NotFound"} : Answer(a, code)
  BY DEF LookupUnknown
<1> QED BY <1>1, Answered DEF LookupUnknown, At, AnswerCodes

LEMMA HelloLostStep ==
    ASSUME AttachInv, NEW a \in Slots, HelloLost(a)
    PROVE  AttachInv'
<1>1. PICK code \in {"eof"} : Answer(a, code)
  BY DEF HelloLost
<1> QED BY <1>1, Answered DEF HelloLost, At, AnswerCodes

LEMMA EndedStep ==
    ASSUME AttachInv, NEW a \in Slots, Ended(a)
    PROVE  AttachInv'
<1>1. PICK code \in {"eof"} : Answer(a, code)
  BY DEF Ended
<1> QED BY <1>1, Answered DEF Ended, At, AnswerCodes

LEMMA ErrorHandledStep ==
    ASSUME AttachInv, NEW a \in Slots, ErrorHandled(a)
    PROVE  AttachInv'
<1>1. StreamType'
  BY HandlerFacts DEF StreamType, streamVars, ErrorHandled
<1> QED BY <1>1, Leaves DEF ErrorHandled, At

LEMMA ServeEndsStep ==
    ASSUME AttachInv, NEW a \in Slots, ServeEnds(a)
    PROVE  AttachInv'
<1>1. StreamType'
  BY HandlerFacts DEF StreamType, streamVars, ServeEnds
<1> QED BY <1>1, Leaves DEF ServeEnds, At

LEMMA SendDirectiveStep ==
    ASSUME AttachInv, NEW a \in Slots, SendDirective(a)
    PROVE  AttachInv'
<1>1. /\ SessionType /\ StreamType /\ PodType /\ LiveAt(a) /\ RunOver /\ NotifyAt(a)
      /\ handlers \in [Slots -> HandlerType] /\ handlers[a] \in HandlerType /\ At(a, "serve")
      /\ handlers[a].notify = "done" /\ handlers[a].directives # <<>> /\ OneStreamServes
  BY HandlerFacts DEF SendDirective, AttachInv
<1>2. /\ Tail(handlers[a].directives) \in Seq({"spawn", "shutdown"})
      /\ Head(handlers[a].directives) \in {"spawn", "shutdown"}
  BY <1>1 DEF HandlerType
<1>3. PICK h \in HandlerType : h = [handlers[a] EXCEPT !.directives = Tail(@)]
  BY <1>1, <1>2 DEF HandlerType
<1>4. /\ h.at = handlers[a].at /\ h.notify = handlers[a].notify
      /\ h.silent = handlers[a].silent /\ h.closed = handlers[a].closed
  BY <1>1, <1>3 DEF HandlerType
<1>5. PICK frame \in ManagerFrames : frame = Head(handlers[a].directives)
  BY <1>2 DEF ManagerFrames
<1>6. StreamType'
  BY <1>1, <1>5, DownTypes DEF SendDirective
<1>7. /\ SessionType' /\ PodType'
      /\ UNCHANGED <<launch, stop, grace, firing, run, notifyMu, holding>>
  BY <1>1 DEF SessionType, PodType, sessionVars, podVars, SendDirective
<1>8. handlers' = [handlers EXCEPT ![a] = h]
  BY <1>1, <1>3 DEF SendDirective
<1>9. RunOver'
  BY <1>1, <1>4, <1>7, <1>8 DEF RunOver
<1> QED BY <1>1, <1>4, <1>6, <1>7, <1>8, <1>9, HandlerMoves
        DEF At, LiveAt, NotifyAt, OneStreamServes

LEMMA SilentStep ==
    ASSUME AttachInv, NEW a \in Slots, Silent(a)
    PROVE  AttachInv'
<1>1. /\ SessionType /\ StreamType /\ PodType /\ LiveAt(a) /\ RunOver /\ NotifyAt(a)
      /\ handlers \in [Slots -> HandlerType] /\ handlers[a] \in HandlerType /\ At(a, "serve")
      /\ OneStreamServes
  BY HandlerFacts DEF Silent, AttachInv
<1>2. PICK h \in HandlerType : h = [handlers[a] EXCEPT !.silent = TRUE]
  BY <1>1 DEF HandlerType
<1>3. /\ h.at = handlers[a].at /\ h.notify = handlers[a].notify
      /\ h.silent /\ h.closed = handlers[a].closed
  BY <1>1, <1>2 DEF HandlerType
<1>4. /\ SessionType' /\ PodType' /\ StreamType'
      /\ UNCHANGED <<launch, stop, grace, firing, run, notifyMu, holding>>
      /\ handlers[a].notify = "waits" => stop # "no"
  BY <1>1 DEF SessionType, PodType, StreamType, sessionVars, podVars, streamVars, Silent
<1>5. handlers' = [handlers EXCEPT ![a] = h]
  BY <1>1, <1>2 DEF Silent
<1>6. RunOver'
  BY <1>1, <1>3, <1>4, <1>5 DEF RunOver
<1> QED BY <1>1, <1>3, <1>4, <1>5, <1>6, HandlerMoves
        DEF At, LiveAt, NotifyAt, OneStreamServes

\* The stream has the run; the one that it evicts has been silent.
LEMMA ClaimStep ==
    ASSUME AttachInv, NEW a \in Slots, Claim(a)
    PROVE  AttachInv'
<1>0. UNCHANGED <<notifyMu, holding, sessionVars, podVars, faults>> /\ At(a, "hello")
  BY DEF Claim
<1>1. CASE UNCHANGED run /\ \E code \in {"NotFound", "AlreadyExists"} : Answer(a, code)
  <2>1. PICK code \in AnswerCodes : Answer(a, code)
    BY <1>1 DEF AnswerCodes
  <2> QED BY <1>0, <1>1, <2>1, Answered DEF At
<1>2. CASE /\ run.expected /\ (run.live # None => handlers[run.live].silent)
           /\ handlers' = [b \in Slots |->
                 IF b = a THEN [handlers[a] EXCEPT !.at = "ack"]
                 ELSE IF b = run.live THEN [handlers[b] EXCEPT !.closed = TRUE]
                 ELSE handlers[b]]
           /\ run' = [run EXCEPT !.live = a]
           /\ UNCHANGED streamVars
  <2>1. /\ SessionType /\ StreamType /\ PodType /\ LiveAt(a) /\ RunOver /\ NotifyAt(a)
        /\ ServerType /\ handlers \in [Slots -> HandlerType] /\ handlers[a] \in HandlerType
        /\ run \in RunType /\ OneStreamServes /\ a # None
    BY HandlerFacts DEF AttachInv
  <2>2. PICK h \in HandlerType : h = [handlers[a] EXCEPT !.at = "ack"]
    BY <2>1 DEF HandlerType, HandlerAt
  <2>3. h.at = "ack" /\ h.notify = "no" /\ h.silent = FALSE
    BY <1>0, <2>1, <2>2 DEF HandlerType, NotifyAt, At
  <2>4. PICK r \in RunType : r = [run EXCEPT !.live = a]
    BY <2>1 DEF RunType
  <2>5. /\ run' = r /\ r.live = a /\ r.expected /\ r.attached = run.attached
    BY <1>2, <2>1, <2>4 DEF RunType
  <2>6. ASSUME NEW b \in Slots, b # a
        PROVE  /\ handlers'[b] \in HandlerType /\ handlers'[b].at = handlers[b].at
               /\ handlers'[b].notify = handlers[b].notify
               /\ handlers'[b].silent = handlers[b].silent
               /\ b = run.live => handlers'[b].closed
               /\ handlers[b].closed => handlers'[b].closed
    <3>1. handlers[b] \in HandlerType
      BY <2>1
    <3>2. CASE b = run.live
      <4>1. PICK g \in HandlerType : g = [handlers[b] EXCEPT !.closed = TRUE]
        BY <3>1 DEF HandlerType
      <4>2. /\ g.at = handlers[b].at /\ g.notify = handlers[b].notify
            /\ g.silent = handlers[b].silent /\ g.closed
        BY <3>1, <4>1 DEF HandlerType
      <4> QED BY <1>2, <2>6, <3>2, <4>1, <4>2
    <3>3. CASE b # run.live
      BY <1>2, <2>6, <3>1, <3>3
    <3> QED BY <3>2, <3>3
  <2>7. handlers'[a] = h
    BY <1>2, <2>2
  <2>8. ServerType'
    <3>1. handlers' \in [Slots -> HandlerType]
      <4>1. \A b \in Slots : handlers'[b] \in HandlerType
        BY <2>6, <2>7
      <4>2. handlers' = [b \in Slots |-> handlers'[b]]
        BY <1>2
      <4> QED BY <4>1, <4>2
    <3> QED BY <1>0, <2>1, <2>5, <3>1 DEF ServerType
  <2>9. /\ SessionType' /\ StreamType' /\ PodType'
        /\ UNCHANGED <<launch, stop, grace, firing, notifyMu>>
    BY <1>0, <1>2, <2>1
       DEF SessionType, StreamType, PodType, sessionVars, podVars, streamVars
  <2>10. AttachedIsNotTimed' /\ LostIsTimed'
    BY <2>1, <2>3, <2>5, <2>7 DEF AttachedIsNotTimed, LostIsTimed, At
  <2>11. OneStreamServes'
    BY <2>1, <2>5, <2>6, <2>7 DEF OneStreamServes
  <2>12. ASSUME NEW b \in Slots PROVE NotifyAt(b)' /\ LiveAt(b)' /\ ReleaseAt(b)'
    <3>1. NotifyAt(b) /\ LiveAt(b) /\ ReleaseAt(b)
      BY HandlerFacts
    <3>2. CASE b = a
      BY <2>3, <2>5, <2>7, <3>2 DEF NotifyAt, LiveAt, ReleaseAt, At
    <3>3. CASE b # a
      <4>1. NotifyAt(b)'
        <5>1. b = run.live => handlers[b].silent
          BY <1>2, HandlerFacts
        <5>2. PICK g : g = handlers'[b]
          OBVIOUS
        <5>3. /\ g.at = handlers[b].at /\ g.notify = handlers[b].notify
              /\ g.silent = handlers[b].silent
          BY <2>6, <3>3, <5>2
        <5> QED BY <1>2, <2>5, <2>9, <3>1, <3>3, <5>1, <5>2, <5>3 DEF NotifyAt
      <4>2. ReleaseAt(b)'
        BY <2>3, <2>5, <2>6, <2>7, <2>9, <3>1, <3>3 DEF ReleaseAt, At
      <4> QED BY <2>5, <3>3, <4>1, <4>2 DEF LiveAt
    <3> QED BY <3>2, <3>3
  <2>13. RunOver'
    BY <1>2, <2>1, <2>5, <2>9 DEF RunOver
  <2> QED BY <2>8, <2>9, <2>10, <2>11, <2>12, <2>13 DEF AttachInv, TypeOK
<1> QED BY <1>1, <1>2 DEF Claim

LEMMA AckSentStep ==
    ASSUME AttachInv, NEW a \in Slots, AckSent(a)
    PROVE  AttachInv'
<1>0. /\ At(a, "ack") /\ UNCHANGED <<notifyMu, holding, sessionVars, podVars, faults>>
      /\ UNCHANGED <<conn, up>>
  BY DEF AckSent
<1>1. /\ SessionType /\ StreamType /\ PodType /\ LiveAt(a) /\ RunOver /\ NotifyAt(a)
      /\ ServerType /\ handlers \in [Slots -> HandlerType] /\ handlers[a] \in HandlerType
      /\ run \in RunType /\ OneStreamServes /\ a # None
  BY HandlerFacts DEF AttachInv
<1>2. StreamType'
  <2>1. PICK frame \in ManagerFrames : frame = "ack"
    BY DEF ManagerFrames
  <2> QED BY <1>0, <1>1, <2>1, DownTypes DEF AckSent
<1>3. CASE Leave(a) /\ UNCHANGED run
  BY <1>0, <1>2, <1>3, Leaves DEF At
<1>4. CASE /\ handlers' = [handlers EXCEPT ![a].at = "serve", ![a].notify = "waits"]
           /\ run' = [run EXCEPT !.attached = TRUE]
  <2>1. PICK h \in HandlerType : h = [handlers[a] EXCEPT !.at = "serve", !.notify = "waits"]
    BY <1>1 DEF HandlerType, HandlerAt
  <2>2. /\ h.at = "serve" /\ h.notify = "waits" /\ h.silent = handlers[a].silent
        /\ h.closed = handlers[a].closed
    BY <1>1, <2>1 DEF HandlerType
  <2>3. /\ handlers' = [handlers EXCEPT ![a] = h] /\ handlers'[a] = h
        /\ \A b \in Slots : b # a => handlers'[b] = handlers[b]
    BY <1>1, <1>4, <2>1
  <2>4. PICK r \in RunType : r = [run EXCEPT !.attached = TRUE]
    BY <1>1 DEF RunType
  <2>5. run' = r /\ r.live = run.live /\ r.expected = run.expected
    BY <1>1, <1>4, <2>4 DEF RunType
  <2>6. ~h.silent /\ (run.live = a \/ (~run.expected /\ stop # "no"))
    BY <1>0, <1>1, <2>2 DEF NotifyAt, At, RunOver, HandlerType
  <2>7. ServerType' /\ SessionType' /\ PodType' /\ UNCHANGED <<launch, stop, grace, firing>>
    BY <1>0, <1>1, <2>3, <2>5 DEF ServerType, SessionType, PodType, sessionVars, podVars
  <2>8. AttachedIsNotTimed'
    BY <2>2, <2>3, <2>5, <2>7 DEF AttachInv, AttachedIsNotTimed, At
  <2>9. LostIsTimed'
    BY <1>1, <2>5, <2>6 DEF LostIsTimed
  <2>10. OneStreamServes'
    BY <1>0, <1>1, <2>2, <2>3, <2>5 DEF OneStreamServes, At
  <2>11. ASSUME NEW b \in Slots PROVE NotifyAt(b)' /\ LiveAt(b)' /\ ReleaseAt(b)'
    <3>1. NotifyAt(b) /\ LiveAt(b) /\ ReleaseAt(b)
      BY HandlerFacts
    <3>2. NotifyAt(b)'
      BY <1>0, <2>2, <2>3, <2>5, <2>6, <2>7, <3>1 DEF NotifyAt
    <3>3. LiveAt(b)'
      BY <2>2, <2>3, <2>5, <2>7, <3>1 DEF LiveAt, At
    <3>4. ReleaseAt(b)'
      BY <1>0, <2>2, <2>3, <2>5, <3>1 DEF ReleaseAt, At
    <3> QED BY <3>2, <3>3, <3>4
  <2>12. RunOver'
    BY <1>0, <1>1, <2>3, <2>5, <2>7 DEF RunOver, At
  <2> QED BY <1>2, <2>7, <2>8, <2>9, <2>10, <2>11, <2>12 DEF AttachInv, TypeOK
<1> QED BY <1>3, <1>4 DEF AckSent

\* The session learns of the stream under the lock; an evicted stream can be told
\* about only when the session is being stopped.
LEMMA NotifyStep ==
    ASSUME AttachInv, NEW a \in Slots, Notify(a)
    PROVE  AttachInv'
<1>0. /\ handlers[a].notify = "waits" /\ notifyMu = None /\ notifyMu' = a /\ grace' = "off"
      /\ UNCHANGED <<run, holding, launch, spawned, firing, streamVars, podVars, faults>>
  BY DEF Notify
<1>1. /\ SessionType /\ StreamType /\ PodType /\ LiveAt(a) /\ RunOver /\ NotifyAt(a)
      /\ ServerType /\ handlers \in [Slots -> HandlerType] /\ handlers[a] \in HandlerType
      /\ run \in RunType /\ OneStreamServes /\ LostIsTimed /\ a # None
  BY HandlerFacts DEF AttachInv
<1>2. PICK lost \in BOOLEAN :
        /\ handlers' = [handlers EXCEPT ![a].notify = "runs", ![a].running = FALSE,
                                        ![a].fired = lost]
        /\ stop' \in {stop, "asked"} /\ (stop # "no" => stop' = stop)
  BY <1>1 DEF Notify, Fire, SessionType, HandlerType
<1>3. PICK h \in HandlerType :
        h = [handlers[a] EXCEPT !.notify = "runs", !.running = FALSE, !.fired = lost]
  BY <1>1 DEF HandlerType
<1>4. /\ h.at = handlers[a].at /\ h.notify = "runs" /\ h.silent = handlers[a].silent
      /\ h.closed = handlers[a].closed
  BY <1>1, <1>3 DEF HandlerType
<1>5. /\ handlers' = [handlers EXCEPT ![a] = h] /\ handlers'[a] = h
      /\ \A b \in Slots : b # a => handlers'[b] = handlers[b]
  BY <1>1, <1>2, <1>3
<1>6. ServerType' /\ SessionType' /\ StreamType' /\ PodType'
  BY <1>0, <1>1, <1>2, <1>5
     DEF ServerType, SessionType, StreamType, PodType, podVars, streamVars
<1>7. AttachedIsNotTimed'
  BY <1>0 DEF AttachedIsNotTimed
<1>8. \A b \in Slots : ~At(b, "lost") /\ handlers[b].notify # "runs"
  BY <1>0, AttachAssumption DEF AttachInv, ReleaseAt, NotifyAt
<1>9. LostIsTimed'
  BY <1>0, <1>1, <1>2 DEF LostIsTimed, NotifyAt
<1>10. OneStreamServes'
  BY <1>0, <1>1, <1>4, <1>5 DEF OneStreamServes
<1>11. ASSUME NEW b \in Slots PROVE NotifyAt(b)' /\ LiveAt(b)' /\ ReleaseAt(b)'
  <2>1. NotifyAt(b) /\ LiveAt(b) /\ ReleaseAt(b)
    BY HandlerFacts
  <2>2. NotifyAt(b)'
    BY <1>0, <1>2, <1>4, <1>5, <1>8, <2>1 DEF NotifyAt
  <2>3. LiveAt(b)'
    BY <1>0, <1>4, <1>5, <2>1 DEF LiveAt, At
  <2>4. ReleaseAt(b)'
    BY <1>4, <1>5, <1>8 DEF ReleaseAt, At
  <2> QED BY <2>2, <2>3, <2>4
<1>12. RunOver'
  BY <1>0, <1>1, <1>2, <1>4, <1>5 DEF RunOver, NotifyAt
<1> QED BY <1>6, <1>7, <1>9, <1>10, <1>11, <1>12 DEF AttachInv, TypeOK

LEMMA NotifiedStep ==
    ASSUME AttachInv, NEW a \in Slots, Notified(a)
    PROVE  AttachInv'
<1>0. /\ handlers[a].notify = "runs" /\ notifyMu' = None
      /\ handlers' = [handlers EXCEPT ![a].notify = "done", ![a].fired = FALSE]
      /\ UNCHANGED <<run, holding, sessionVars, streamVars, podVars, faults>>
  BY DEF Notified
<1>1. /\ SessionType /\ StreamType /\ PodType /\ LiveAt(a) /\ RunOver /\ NotifyAt(a)
      /\ ServerType /\ handlers \in [Slots -> HandlerType] /\ handlers[a] \in HandlerType
      /\ OneStreamServes /\ LostIsTimed /\ AttachedIsNotTimed
  BY HandlerFacts DEF AttachInv
<1>2. PICK h \in HandlerType : h = [handlers[a] EXCEPT !.notify = "done", !.fired = FALSE]
  BY <1>1 DEF HandlerType
<1>3. /\ h.at = handlers[a].at /\ h.notify = "done" /\ h.silent = handlers[a].silent
      /\ h.closed = handlers[a].closed
  BY <1>1, <1>2 DEF HandlerType
<1>4. /\ handlers' = [handlers EXCEPT ![a] = h] /\ handlers'[a] = h
      /\ \A b \in Slots : b # a => handlers'[b] = handlers[b]
  BY <1>0, <1>1, <1>2
<1>5. /\ ServerType' /\ SessionType' /\ StreamType' /\ PodType'
      /\ UNCHANGED <<launch, stop, grace, firing>>
  BY <1>0, <1>1, <1>4
     DEF ServerType, SessionType, StreamType, PodType, sessionVars, podVars, streamVars
<1>6. \A b \in Slots : ~At(b, "lost") /\ (b # a => handlers[b].notify # "runs")
  BY <1>0, <1>1 DEF AttachInv, ReleaseAt, NotifyAt, LiveAt, At
<1>7. AttachedIsNotTimed'
  BY <1>0, <1>1, <1>3, <1>4, <1>5 DEF AttachedIsNotTimed, LiveAt, At
<1>8. LostIsTimed'
  BY <1>0, <1>1, <1>5, <1>6 DEF LostIsTimed
<1>9. OneStreamServes'
  BY <1>0, <1>1, <1>3, <1>4 DEF OneStreamServes
<1>10. ASSUME NEW b \in Slots PROVE NotifyAt(b)' /\ LiveAt(b)' /\ ReleaseAt(b)'
  <2>1. NotifyAt(b) /\ LiveAt(b) /\ ReleaseAt(b)
    BY HandlerFacts
  <2>2. NotifyAt(b)'
    BY <1>0, <1>3, <1>4, <1>5, <1>6, <2>1 DEF NotifyAt
  <2>3. LiveAt(b)'
    BY <1>0, <1>3, <1>4, <1>5, <2>1 DEF LiveAt, At
  <2>4. ReleaseAt(b)'
    BY <1>3, <1>4, <1>6 DEF ReleaseAt, At
  <2> QED BY <2>2, <2>3, <2>4
<1>11. RunOver'
  BY <1>0, <1>1, <1>3, <1>4, <1>5 DEF RunOver
<1> QED BY <1>5, <1>7, <1>8, <1>9, <1>10, <1>11 DEF AttachInv, TypeOK

LEMMA HandleSidecarFrameStep ==
    ASSUME AttachInv, NEW a \in Slots, HandleSidecarFrame(a)
    PROVE  AttachInv'
<1>0. /\ At(a, "serve") /\ handlers[a].notify = "done" /\ up[a] # <<>>
      /\ up' = [up EXCEPT ![a] = Tail(@)]
      /\ UNCHANGED <<notifyMu, holding, launch, spawned, grace, firing, conn, down>>
      /\ UNCHANGED <<podVars, faults>>
  BY DEF HandleSidecarFrame
<1>1. /\ SessionType /\ StreamType /\ PodType /\ LiveAt(a) /\ RunOver /\ NotifyAt(a)
      /\ ServerType /\ handlers \in [Slots -> HandlerType] /\ handlers[a] \in HandlerType
      /\ run \in RunType /\ OneStreamServes
  BY HandlerFacts DEF AttachInv
<1>2. StreamType' /\ PodType'
  <2>1. Tail(up[a]) \in Seq(SidecarFrames)
    BY <1>0, <1>1 DEF StreamType
  <2> QED BY <1>0, <1>1, <2>1 DEF StreamType, PodType, podVars
<1>3. CASE Head(up[a]) = "error"
  <2>1. /\ UNCHANGED run /\ handlers' = [handlers EXCEPT ![a].at = "error"]
        /\ stop' \in {stop, "asked"} /\ (stop # "no" => stop' = stop)
    BY <1>1, <1>3 DEF HandleSidecarFrame, Fire, SessionType
  <2>2. PICK h \in HandlerType : h = [handlers[a] EXCEPT !.at = "error"]
    BY <1>1 DEF HandlerType, HandlerAt
  <2>3. /\ h.at = "error" /\ h.notify = "done"
    BY <1>0, <1>1, <2>2 DEF HandlerType
  <2>4. handlers' = [handlers EXCEPT ![a] = h]
    BY <1>1, <2>1, <2>2
  <2>5. SessionType'
    BY <1>0, <1>1, <2>1 DEF SessionType
  <2>6. RunOver'
    BY <1>0, <1>1, <2>1, <2>3, <2>4 DEF RunOver, At
  <2> QED BY <1>0, <1>1, <1>2, <2>1, <2>3, <2>4, <2>5, <2>6, HandlerMoves DEF At
<1>4. CASE Head(up[a]) # "error"
  <2>1. /\ run' = [run EXCEPT !.ready = TRUE] /\ UNCHANGED <<handlers, stop>>
    BY <1>4 DEF HandleSidecarFrame, Fire
  <2>2. PICK r \in RunType : r = [run EXCEPT !.ready = TRUE]
    BY <1>1 DEF RunType
  <2>3. /\ run' = r /\ r.live = run.live /\ r.expected = run.expected
        /\ r.attached = run.attached
    BY <1>1, <2>1, <2>2 DEF RunType
  <2>4. ServerType' /\ SessionType'
    BY <1>0, <1>1, <2>1, <2>3 DEF ServerType, SessionType
  <2>5. AttachedIsNotTimed' /\ LostIsTimed' /\ OneStreamServes'
    BY <1>0, <2>1, <2>3 DEF AttachInv, AttachedIsNotTimed, LostIsTimed, OneStreamServes, At
  <2>6. (\A b \in Slots : NotifyAt(b) /\ LiveAt(b) /\ ReleaseAt(b))'
    BY <1>0, <2>1, <2>3 DEF AttachInv, NotifyAt, LiveAt, ReleaseAt, At
  <2>7. RunOver'
    BY <1>0, <1>1, <2>1, <2>3 DEF RunOver
  <2> QED BY <1>2, <2>4, <2>5, <2>6, <2>7 DEF AttachInv, TypeOK
<1> QED BY <1>3, <1>4

\* The stream gives the run back under the lock.
LEMMA ReleaseStep ==
    ASSUME AttachInv, NEW a \in Slots, Release(a)
    PROVE  AttachInv'
<1>0. /\ At(a, "leave") /\ notifyMu = None
      /\ UNCHANGED <<holding, sessionVars, streamVars, podVars, faults>>
  BY DEF Release
<1>1. /\ SessionType /\ StreamType /\ PodType /\ LiveAt(a) /\ RunOver /\ NotifyAt(a)
      /\ ServerType /\ handlers \in [Slots -> HandlerType] /\ handlers[a] \in HandlerType
      /\ run \in RunType /\ OneStreamServes /\ a # None
  BY HandlerFacts DEF AttachInv
<1>2. /\ SessionType' /\ StreamType' /\ PodType'
      /\ UNCHANGED <<launch, stop, grace, firing, holding>>
  BY <1>0, <1>1
     DEF SessionType, StreamType, PodType, sessionVars, podVars, streamVars
<1>3. \A b \in Slots : ~At(b, "lost") /\ handlers[b].notify # "runs"
  BY <1>0, AttachAssumption DEF AttachInv, ReleaseAt, NotifyAt
<1>4. handlers[a].notify = "no" /\ ~handlers[a].silent
  BY <1>0, <1>1 DEF NotifyAt, At, HandlerType
<1>5. CASE run.live = a
  <2>1. /\ handlers' = [handlers EXCEPT ![a].at = "lost"] /\ run' = [run EXCEPT !.live = None]
        /\ notifyMu' = a
    BY <1>5 DEF Release
  <2>2. PICK h \in HandlerType : h = [handlers[a] EXCEPT !.at = "lost"]
    BY <1>1 DEF HandlerType, HandlerAt
  <2>3. h.at = "lost" /\ h.notify = "no" /\ ~h.silent
    BY <1>1, <1>4, <2>2 DEF HandlerType
  <2>4. /\ handlers' = [handlers EXCEPT ![a] = h] /\ handlers'[a] = h
        /\ \A b \in Slots : b # a => handlers'[b] = handlers[b]
    BY <1>1, <2>1, <2>2
  <2>5. PICK r \in RunType : r = [run EXCEPT !.live = None]
    BY <1>1 DEF RunType
  <2>6. /\ run' = r /\ r.live = None /\ r.expected = run.expected
        /\ r.attached = run.attached
    BY <1>1, <2>1, <2>5 DEF RunType
  <2>7. ServerType'
    BY <1>1, <1>2, <2>1, <2>4, <2>6 DEF ServerType
  <2>8. \A b \in Slots : r.live # b
    BY <2>6, AttachAssumption
  <2>9. AttachedIsNotTimed' /\ LostIsTimed'
    BY <2>3, <2>4, <2>6, <2>8 DEF AttachedIsNotTimed, LostIsTimed, At
  <2>10. OneStreamServes'
    BY <1>1, <1>5, <2>3, <2>4, <2>6 DEF OneStreamServes
  <2>11. ASSUME NEW b \in Slots PROVE NotifyAt(b)' /\ LiveAt(b)' /\ ReleaseAt(b)'
    <3>1. NotifyAt(b) /\ LiveAt(b) /\ ReleaseAt(b)
      BY HandlerFacts
    <3>2. NotifyAt(b)'
      BY <1>2, <1>3, <1>5, <2>3, <2>4, <2>6, <3>1 DEF NotifyAt
    <3> QED BY <1>3, <2>1, <2>4, <2>6, <2>8, <3>2 DEF LiveAt, ReleaseAt, At
  <2>12. RunOver'
    BY <1>0, <1>1, <1>2, <2>4, <2>6 DEF RunOver, At
  <2> QED BY <1>2, <2>7, <2>9, <2>10, <2>11, <2>12 DEF AttachInv, TypeOK
<1>6. CASE run.live # a
  <2>1. handlers' = [handlers EXCEPT ![a].at = "ended"] /\ UNCHANGED <<run, notifyMu>>
    BY <1>6 DEF Release
  <2>2. PICK h \in HandlerType : h = [handlers[a] EXCEPT !.at = "ended"]
    BY <1>1 DEF HandlerType, HandlerAt
  <2>3. h.at = "ended" /\ h.notify = "no" /\ ~h.silent
    BY <1>1, <1>4, <2>2 DEF HandlerType
  <2>4. handlers' = [handlers EXCEPT ![a] = h]
    BY <1>1, <2>1, <2>2
  <2>5. RunOver'
    BY <1>0, <1>1, <1>2, <2>1, <2>3, <2>4 DEF RunOver, At
  <2> QED BY <1>0, <1>2, <1>6, <2>1, <2>3, <2>4, <2>5, HandlerMoves DEF At
<1> QED BY <1>5, <1>6

\* OnLost starts the timer before the session can be told of another stream.
LEMMA LostStep ==
    ASSUME AttachInv, NEW a \in Slots, Lost(a)
    PROVE  AttachInv'
<1>0. /\ At(a, "lost") /\ handlers' = [handlers EXCEPT ![a].at = "ended"]
      /\ notifyMu' = (IF notifyMu = a THEN None ELSE notifyMu)
      /\ grace' = IF run.expected THEN "armed" ELSE grace
      /\ UNCHANGED <<run, holding, launch, spawned, firing, stop, streamVars, podVars, faults>>
  BY DEF Lost, OnLost
<1>1. /\ SessionType /\ StreamType /\ PodType /\ LiveAt(a) /\ RunOver /\ NotifyAt(a)
      /\ ServerType /\ handlers \in [Slots -> HandlerType] /\ handlers[a] \in HandlerType
      /\ run \in RunType /\ OneStreamServes /\ a # None /\ ReleaseAt(a)
  BY HandlerFacts DEF AttachInv
<1>2. PICK h \in HandlerType : h = [handlers[a] EXCEPT !.at = "ended"]
  BY <1>1 DEF HandlerType, HandlerAt
<1>3. h.at = "ended" /\ h.notify = "no" /\ ~h.silent
  BY <1>0, <1>1, <1>2 DEF HandlerType, NotifyAt, At
<1>4. /\ handlers' = [handlers EXCEPT ![a] = h] /\ handlers'[a] = h
      /\ \A b \in Slots : b # a => handlers'[b] = handlers[b]
  BY <1>0, <1>1, <1>2
<1>5. ServerType' /\ SessionType' /\ StreamType' /\ PodType'
  BY <1>0, <1>1, <1>4
     DEF ServerType, SessionType, StreamType, PodType, podVars, streamVars
<1>6. notifyMu = a /\ \A b \in Slots : run.live = b => handlers[b].notify \in {"no", "waits"}
  BY <1>0, <1>1 DEF ReleaseAt
<1>7. AttachedIsNotTimed'
  BY <1>0, <1>3, <1>4, <1>6 DEF AttachedIsNotTimed, At
<1>8. LostIsTimed'
  BY <1>0 DEF LostIsTimed
<1>9. OneStreamServes'
  BY <1>0, <1>1, <1>3, <1>4 DEF OneStreamServes
<1>10. ASSUME NEW b \in Slots PROVE NotifyAt(b)' /\ LiveAt(b)' /\ ReleaseAt(b)'
  <2>1. NotifyAt(b) /\ LiveAt(b) /\ ReleaseAt(b)
    BY HandlerFacts
  <2>2. NotifyAt(b)'
    BY <1>0, <1>3, <1>4, <1>6, <2>1 DEF NotifyAt
  <2>3. LiveAt(b)'
    BY <1>0, <1>3, <1>4, <1>6, <2>1 DEF LiveAt, At
  <2>4. ReleaseAt(b)'
    BY <1>3, <1>4, <1>6, <2>1 DEF ReleaseAt, At
  <2> QED BY <2>2, <2>3, <2>4
<1>11. RunOver'
  BY <1>0, <1>1, <1>4 DEF RunOver, At
<1> QED BY <1>5, <1>7, <1>8, <1>9, <1>10, <1>11 DEF AttachInv, TypeOK

-----------------------------------------------------------------------------
(* The session.                                                            *)

\* The run is forgotten, and its stream is closed.
LEMMA ForgetMoves ==
    ASSUME AttachInv, Forget, stop' = "done", launch' \in {"live", "failed"},
           UNCHANGED <<notifyMu, holding, spawned, firing, streamVars, podVars, faults>>
    PROVE  AttachInv'
<1>1. /\ SessionType /\ StreamType /\ PodType /\ ServerType
      /\ handlers \in [Slots -> HandlerType] /\ run \in RunType
  BY DEF AttachInv, TypeOK, ServerType
<1>2. run' = NoRun /\ grace' = "off"
  BY DEF Forget
<1>3. ASSUME NEW b \in Slots
      PROVE  /\ handlers'[b] \in HandlerType /\ handlers'[b].at = handlers[b].at
             /\ handlers'[b].notify = handlers[b].notify
             /\ handlers'[b].silent = handlers[b].silent
             /\ b = run.live => handlers'[b].closed
             /\ handlers[b].closed => handlers'[b].closed
  <2>1. handlers[b] \in HandlerType
    BY <1>1
  <2>2. CASE b = run.live
    <3>1. PICK g \in HandlerType : g = [handlers[b] EXCEPT !.closed = TRUE]
      BY <2>1 DEF HandlerType
    <3>2. /\ g.at = handlers[b].at /\ g.notify = handlers[b].notify
          /\ g.silent = handlers[b].silent /\ g.closed
      BY <2>1, <3>1 DEF HandlerType
    <3> QED BY <2>2, <3>1, <3>2 DEF Forget
  <2>3. CASE b # run.live
    BY <2>1, <2>3 DEF Forget
  <2> QED BY <2>2, <2>3
<1>4. ServerType'
  <2>1. \A b \in Slots : handlers'[b] \in HandlerType
    BY <1>3
  <2>2. handlers' = [b \in Slots |-> handlers'[b]]
    BY DEF Forget
  <2>3. handlers' \in [Slots -> HandlerType]
    BY <2>1, <2>2
  <2> QED BY <1>1, <1>2, <2>3, RunFacts DEF ServerType
<1>5. SessionType' /\ StreamType' /\ PodType'
  BY <1>1, <1>2 DEF SessionType, StreamType, PodType, podVars, streamVars
<1>6. ~run'.expected /\ \A b \in Slots : run'.live # b
  BY <1>2, RunFacts, AttachAssumption
<1>7. AttachedIsNotTimed' /\ LostIsTimed'
  BY <1>6 DEF AttachedIsNotTimed, LostIsTimed
<1>8. OneStreamServes'
  BY <1>3 DEF AttachInv, OneStreamServes
<1>9. ASSUME NEW b \in Slots PROVE NotifyAt(b)' /\ LiveAt(b)' /\ ReleaseAt(b)'
  <2>1. NotifyAt(b) /\ ReleaseAt(b)
    BY DEF AttachInv
  <2>2. PICK g : g = handlers'[b]
    OBVIOUS
  <2>3. /\ g.at = handlers[b].at /\ g.notify = handlers[b].notify
        /\ g.silent = handlers[b].silent
    BY <1>3, <2>2
  <2>4. NotifyAt(b)'
    BY <1>6, <2>1, <2>2, <2>3 DEF NotifyAt
  <2> QED BY <1>6, <2>1, <2>2, <2>3, <2>4 DEF LiveAt, ReleaseAt, At
<1>10. RunOver'
  BY DEF RunOver
<1> QED BY <1>4, <1>5, <1>7, <1>8, <1>9, <1>10 DEF AttachInv, TypeOK

\* A directive is queued for the stream that the run has.
LEMMA DispatchMoves ==
    ASSUME AttachInv, NEW directive \in {"spawn", "shutdown"}, Dispatch(directive),
           run.live # None, SessionType', RunOver', stop # "no" => stop' # "no",
           UNCHANGED <<run, notifyMu, holding, grace, firing, streamVars, podVars, faults>>
    PROVE  AttachInv'
<1>1. PICK a \in Slots : a = run.live
  BY DEF AttachInv, TypeOK, ServerType, RunType
<1>2. /\ LiveAt(a) /\ NotifyAt(a) /\ StreamType /\ PodType /\ OneStreamServes
      /\ handlers \in [Slots -> HandlerType] /\ handlers[a] \in HandlerType
  BY HandlerFacts DEF AttachInv
<1>3. Append(handlers[a].directives, directive) \in Seq({"spawn", "shutdown"})
  BY <1>2 DEF HandlerType
<1>4. PICK h \in HandlerType : h = [handlers[a] EXCEPT !.directives = Append(@, directive)]
  BY <1>2, <1>3 DEF HandlerType
<1>5. /\ h.at = handlers[a].at /\ h.notify = handlers[a].notify
      /\ h.silent = handlers[a].silent /\ h.closed = handlers[a].closed
  BY <1>2, <1>4 DEF HandlerType
<1>6. handlers' = [handlers EXCEPT ![a] = h]
  BY <1>1, <1>2, <1>4 DEF Dispatch
<1>7. StreamType' /\ PodType'
  BY <1>2 DEF StreamType, PodType, streamVars, podVars
<1> QED BY <1>1, <1>2, <1>5, <1>6, <1>7, HandlerMoves
        DEF At, LiveAt, NotifyAt, OneStreamServes

LEMMA GraceStep ==
    ASSUME AttachInv, GraceFires \/ TunnelLost
    PROVE  AttachInv'
<1>1. SessionType /\ RunOver /\ ServerType
  BY DEF AttachInv, TypeOK
<1>2. UNCHANGED <<handlers, run, notifyMu, holding, launch, streamVars, podVars, faults>>
  BY DEF GraceFires, TunnelLost, serverVars
<1>3. CASE GraceFires
  <2>1. grace' = "off" /\ firing' = TRUE /\ UNCHANGED stop
    BY <1>3 DEF GraceFires
  <2>2. SessionType' /\ RunOver' /\ holding' \in BOOLEAN
    BY <1>1, <1>2, <1>3, <2>1 DEF SessionType, RunOver, GraceFires, ServerType
  <2> QED BY <1>2, <2>1, <2>2, SessionMoves
<1>4. CASE TunnelLost
  <2>1. /\ UNCHANGED grace /\ firing' = FALSE /\ (stop # "no" => stop' = stop)
        /\ stop' \in {stop, "asked"} /\ (stop' # "no" \/ ~run.expected)
    BY <1>1, <1>4 DEF TunnelLost, Fire, SessionType
  <2>2. SessionType' /\ RunOver' /\ holding' \in BOOLEAN
    BY <1>1, <1>2, <1>4, <2>1 DEF SessionType, RunOver, TunnelLost, ServerType
  <2> QED BY <1>2, <2>1, <2>2, SessionMoves
<1> QED BY <1>3, <1>4

LEMMA LaunchStep ==
    ASSUME AttachInv, awaitAttach \/ AwaitReady \/ MarkSpawned \/ SessionReady \/ StopAsked
    PROVE  AttachInv'
<1>1. SessionType /\ RunOver /\ ServerType
  BY DEF AttachInv, TypeOK
<1>2. /\ UNCHANGED <<handlers, run, notifyMu, holding, grace, firing>>
      /\ UNCHANGED <<streamVars, podVars, faults>> /\ stop' \in {stop, "asked"}
      /\ stop # "no" => stop' = stop
  BY DEF awaitAttach, AwaitReady, MarkSpawned, SessionReady, StopAsked, serverVars
<1>3. SessionType' /\ holding' \in BOOLEAN
  BY <1>1, <1>2 DEF SessionType, ServerType, awaitAttach, AwaitReady, MarkSpawned, SessionReady,
                    StopAsked
<1>4. RunOver'
  BY <1>1, <1>2 DEF RunOver, awaitAttach, AwaitReady, MarkSpawned, SessionReady, StopAsked
<1> QED BY <1>2, <1>3, <1>4, SessionMoves

LEMMA SpawnAgentStep ==
    ASSUME AttachInv, SpawnAgent
    PROVE  AttachInv'
<1>1. SessionType /\ RunOver /\ ServerType
  BY DEF AttachInv, TypeOK
<1>2. PICK d \in {"spawn", "shutdown"} : Dispatch(d)
  BY DEF SpawnAgent
<1>3. /\ launch = "spawn" /\ launch' = "mark" /\ run.live # None
      /\ UNCHANGED <<run, notifyMu, holding, spawned, grace, firing, stop, streamVars, podVars,
                     faults>>
  BY DEF SpawnAgent
<1>4. SessionType' /\ RunOver'
  BY <1>1, <1>3 DEF SessionType, RunOver
<1> QED BY <1>2, <1>3, <1>4, DispatchMoves

LEMMA UnactivatedStep ==
    ASSUME AttachInv, ActivateFails \/ pollRun
    PROVE  AttachInv'
<1>0. Unactivated /\ UNCHANGED <<notifyMu, holding, spawned, firing, streamVars, podVars, faults>>
  BY DEF ActivateFails, pollRun, Unactivated
<1>1. SessionType /\ RunOver /\ ServerType
  BY DEF AttachInv, TypeOK
<1>2. CASE launch' = "failed" /\ stop' = "done" /\ Forget
  BY <1>0, <1>2, ForgetMoves
<1>3. CASE /\ launch = "session" /\ launch' = "failed" /\ stop' = "asked"
           /\ UNCHANGED <<run, handlers, grace>>
  <2>1. SessionType' /\ RunOver' /\ holding' \in BOOLEAN
    BY <1>0, <1>1, <1>3 DEF SessionType, RunOver, ServerType
  <2> QED BY <1>0, <1>3, <2>1, SessionMoves
<1> QED BY <1>0, <1>2, <1>3 DEF Unactivated

LEMMA CloseStep ==
    ASSUME AttachInv, CloseShutdown \/ CloseForget
    PROVE  AttachInv'
<1>1. SessionType /\ RunOver /\ ServerType
  BY DEF AttachInv, TypeOK
<1>2. CASE CloseShutdown
  <2>1. /\ stop = "asked" /\ launch \in {"live", "failed"} /\ stop' = "forget"
        /\ UNCHANGED <<run, notifyMu, holding, launch, spawned, grace, firing, streamVars,
                       podVars, faults>>
    BY <1>2 DEF CloseShutdown
  <2>2. SessionType' /\ holding' \in BOOLEAN
    BY <1>1, <2>1 DEF SessionType, ServerType
  <2>3. CASE run.live = None
    <3>1. UNCHANGED handlers
      BY <1>2, <2>3 DEF CloseShutdown
    <3>2. RunOver'
      BY <1>1, <2>1, <3>1 DEF RunOver
    <3> QED BY <2>1, <2>2, <3>1, <3>2, SessionMoves
  <2>4. CASE run.live # None
    <3>1. PICK d \in {"spawn", "shutdown"} : Dispatch(d)
      BY <1>2, <2>4 DEF CloseShutdown
    <3>2. RunOver'
      BY <1>1, <2>1 DEF RunOver
    <3> QED BY <2>1, <2>2, <2>4, <3>1, <3>2, DispatchMoves
  <2> QED BY <2>3, <2>4
<1>3. CASE CloseForget
  <2>1. launch' \in {"live", "failed"}
    BY <1>1, <1>3 DEF CloseForget, RunOver
  <2> QED BY <1>3, <2>1, ForgetMoves DEF CloseForget
<1> QED BY <1>2, <1>3

\* A new process has no stream.
LEMMA RestartStep ==
    ASSUME AttachInv, HarnessRestart
    PROVE  AttachInv'
<1>1. SessionType /\ PodType /\ StreamType
  BY DEF AttachInv, TypeOK
<1>2. /\ run' = NoRun /\ notifyMu' = None /\ holding' = TRUE
      /\ handlers' = [a \in Slots |-> NoHandler] /\ UNCHANGED podVars
  BY DEF HarnessRestart
<1>3. ServerType'
  BY <1>2, NoHandlerFacts, RunFacts DEF ServerType
<1>4. SessionType'
  BY <1>1 DEF HarnessRestart, SessionType
<1>5. StreamType'
  <2>1. <<>> \in Seq(SidecarFrames) /\ <<>> \in Seq(ManagerFrames \cup AnswerCodes)
    OBVIOUS
  <2> QED BY <2>1 DEF HarnessRestart, StreamType
<1>6. PodType'
  <2>1. faults' \in 0..MaxFaults
    BY <1>1, FaultCounted DEF HarnessRestart
  <2> QED BY <1>1, <1>2, <2>1 DEF PodType, podVars
<1>7. /\ \A a \in Slots : handlers'[a] = NoHandler /\ run'.live # a
      /\ ~run'.expected
  BY <1>2, RunFacts, AttachAssumption
<1>8. AttachedIsNotTimed' /\ LostIsTimed' /\ OneStreamServes'
  BY <1>7, NoHandlerFacts DEF AttachedIsNotTimed, LostIsTimed, OneStreamServes
<1>9. (\A a \in Slots : NotifyAt(a) /\ LiveAt(a) /\ ReleaseAt(a))'
  BY <1>7, NoHandlerFacts DEF NotifyAt, LiveAt, ReleaseAt, At
<1>10. RunOver'
  <2>1. \/ launch' = "adopt" /\ stop' = "no"
        \/ launch' \in {"live", "failed"} /\ stop' = "done"
    BY DEF HarnessRestart
  <2> QED BY <1>7, <2>1, NoHandlerFacts DEF RunOver
<1> QED BY <1>3, <1>4, <1>5, <1>6, <1>8, <1>9, <1>10 DEF AttachInv, TypeOK

LEMMA AdoptStep ==
    ASSUME AttachInv, Adopt
    PROVE  AttachInv'
<1>1. SessionType /\ RunOver /\ ServerType /\ StreamType /\ PodType
  BY DEF AttachInv, TypeOK
<1>2. /\ launch = "adopt"
      /\ UNCHANGED <<handlers, notifyMu, holding, firing, streamVars, podVars, faults>>
  BY DEF Adopt
<1>3. /\ ~run.expected /\ stop \notin {"forget", "done"}
      /\ \A a \in Slots : handlers[a].at \in {"gone", "lookup", "unknown"}
  BY <1>1, <1>2 DEF RunOver
<1>4. CASE /\ run' = NewRun /\ spawned' = TRUE /\ grace' = "armed"
           /\ launch' = "live" /\ UNCHANGED stop
  <2>1. ServerType' /\ SessionType' /\ StreamType' /\ PodType'
    BY <1>1, <1>2, <1>4, RunFacts
       DEF ServerType, SessionType, StreamType, PodType, podVars, streamVars
  <2>2. run'.expected /\ \A a \in Slots : run'.live # a
    BY <1>4, RunFacts, AttachAssumption
  <2>3. AttachedIsNotTimed' /\ LostIsTimed' /\ OneStreamServes'
    BY <1>2, <1>3, <1>4, <2>2 DEF AttachedIsNotTimed, LostIsTimed, OneStreamServes
  <2>4. ASSUME NEW a \in Slots PROVE NotifyAt(a)' /\ LiveAt(a)' /\ ReleaseAt(a)'
    <3>1. NotifyAt(a)
      BY HandlerFacts
    <3> QED BY <1>2, <1>3, <2>2, <3>1 DEF NotifyAt, LiveAt, ReleaseAt, At
  <2>5. RunOver'
    BY <1>3, <1>4, <2>2 DEF RunOver
  <2> QED BY <2>1, <2>3, <2>4, <2>5 DEF AttachInv, TypeOK
<1>5. CASE launch' = "failed" /\ stop' = "done" /\ UNCHANGED <<run, spawned, grace>>
  <2>1. SessionType' /\ RunOver' /\ holding' \in BOOLEAN
    BY <1>1, <1>2, <1>5 DEF SessionType, RunOver, ServerType
  <2> QED BY <1>2, <1>5, <2>1, SessionMoves
<1> QED BY <1>4, <1>5 DEF Adopt

LEMMA EndStartupHoldStep ==
    ASSUME AttachInv, EndStartupHold
    PROVE  AttachInv'
<1>1. SessionType /\ RunOver
  BY DEF AttachInv, TypeOK
<1>2. /\ UNCHANGED <<handlers, run, notifyMu, launch, spawned, grace, firing, stop>>
      /\ UNCHANGED <<streamVars, podVars, faults>> /\ holding' \in BOOLEAN
  BY DEF EndStartupHold, sessionVars
<1>3. SessionType' /\ RunOver'
  BY <1>1, <1>2 DEF SessionType, RunOver
<1> QED BY <1>2, <1>3, SessionMoves

-----------------------------------------------------------------------------
(* The sidecar.                                                            *)

ConnType == conn \in [Slots -> {"up", "cut"}]
UpType   == up \in [Slots -> Seq(SidecarFrames)]
DownType == down \in [Slots -> Seq(ManagerFrames \cup AnswerCodes)]
AgentType == client \in ClientType /\ runner \in {"none", "running", "stopped"}

LEMMA HangTypes ==
    ASSUME StreamType, Hang
    PROVE  ConnType' /\ DownType'
<1>1. <<>> \in Seq(ManagerFrames \cup AnswerCodes)
  OBVIOUS
<1> QED BY <1>1 DEF Hang, StreamType, ConnType, DownType

LEMMA GiveUpTypes ==
    ASSUME StreamType, PodType, GiveUp
    PROVE  ConnType' /\ DownType' /\ AgentType'
<1>1. client.spawn \in {"no", "runs", "failed"}
  BY DEF PodType, ClientType
<1>2. [NewClient EXCEPT !.at = "over", !.spawn = client.spawn] \in ClientType
  BY <1>1 DEF NewClient, ClientType
<1> QED BY <1>2, HangTypes DEF GiveUp, AgentType, PodType

\* A frame of the sidecar is put on its stream.
LEMMA UpTypes ==
    ASSUME StreamType, NEW a \in Slots, NEW frame \in SidecarFrames,
           up' \in {up, [up EXCEPT ![a] = Append(@, frame)]}
    PROVE  UpType'
<1>1. Append(up[a], frame) \in Seq(SidecarFrames)
  BY DEF StreamType
<1> QED BY <1>1 DEF StreamType, UpType

LEMMA ReadTypes ==
    ASSUME StreamType, NEW a \in Slots, NEW frame, Gets(a, frame), Reads(a)
    PROVE  DownType'
<1>1. Tail(down[a]) \in Seq(ManagerFrames \cup AnswerCodes)
  BY DEF StreamType, Gets
<1> QED BY <1>1 DEF StreamType, DownType, Reads

\* A step of the pod that keeps the types.
LEMMA PodKeeps ==
    ASSUME AttachInv, UNCHANGED <<serverVars, sessionVars>>, ConnType', UpType', DownType',
           AgentType', orphan' \in BOOLEAN, Fails \/ Works
    PROVE  AttachInv'
<1>1. faults' \in 0..MaxFaults
  BY FaultCounted DEF AttachInv, TypeOK
<1>2. StreamType' /\ PodType'
  BY <1>1 DEF StreamType, PodType, ConnType, UpType, DownType, AgentType
<1> QED BY <1>2, PodMoves

LEMMA PodTyped ==
    ASSUME AttachInv
    PROVE  /\ StreamType /\ PodType /\ ConnType /\ UpType /\ DownType /\ AgentType
           /\ orphan \in BOOLEAN /\ client \in ClientType
BY DEF AttachInv, TypeOK, StreamType, PodType, ConnType, UpType, DownType, AgentType

LEMMA CutStep ==
    ASSUME AttachInv, NEW a \in Slots, Cut(a)
    PROVE  AttachInv'
<1>1. ConnType' /\ UpType' /\ DownType'
  <2>1. <<>> \in Seq(SidecarFrames) /\ <<>> \in Seq(ManagerFrames \cup AnswerCodes)
    OBVIOUS
  <2> QED BY <2>1, PodTyped DEF Cut, ConnType, UpType, DownType
<1>2. AgentType' /\ orphan' \in BOOLEAN
  BY PodTyped DEF Cut, AgentType, podVars
<1> QED BY <1>1, <1>2, PodKeeps DEF Cut

LEMMA ErrorStep ==
    ASSUME AttachInv, NEW a \in Slots, Fail(a) \/ Terminal(a)
    PROVE  AttachInv'
<1>0. EndWithError(a) /\ (Fails \/ Works)
  BY DEF Fail, Terminal
<1>1. PICK frame \in SidecarFrames : frame = "error"
  BY DEF SidecarFrames
<1>2. up' \in {up, [up EXCEPT ![a] = Append(@, frame)]}
  BY <1>0, <1>1, PodTyped DEF EndWithError, UpType
<1>3. UpType'
  BY <1>2, PodTyped, UpTypes
<1>4. ConnType' /\ DownType' /\ AgentType'
  BY <1>0, PodTyped, GiveUpTypes DEF EndWithError
<1> QED BY <1>0, <1>3, <1>4, PodTyped, PodKeeps DEF EndWithError

LEMMA ConfigureStep ==
    ASSUME AttachInv, NEW a \in Slots, Configure(a)
    PROVE  AttachInv'
<1>0. UNCHANGED <<serverVars, sessionVars, orphan>>
  BY DEF Configure
<1>1. CASE /\ Works /\ Reads(a) /\ up' = [up EXCEPT ![a] = Append(@, "ready")]
           /\ client' = [client EXCEPT !.at = "serve", !.proxy = TRUE]
           /\ UNCHANGED <<runner, conn>>
  <2>1. PICK frame \in SidecarFrames : frame = "ready"
    BY DEF SidecarFrames
  <2>2. UpType'
    BY <1>1, <2>1, PodTyped, UpTypes
  <2>3. DownType'
    BY <1>1, PodTyped, ReadTypes DEF Configure
  <2>4. AgentType' /\ ConnType'
    <3>1. [client EXCEPT !.at = "serve", !.proxy = TRUE] \in ClientType
      BY PodTyped DEF ClientType
    <3> QED BY <1>1, <3>1, PodTyped DEF AgentType, ConnType
  <2> QED BY <1>0, <1>1, <2>2, <2>3, <2>4, PodTyped, PodKeeps
<1>2. CASE Fails /\ up' = [up EXCEPT ![a] = Append(@, "error")] /\ GiveUp
  <2>1. PICK frame \in SidecarFrames : frame = "error"
    BY DEF SidecarFrames
  <2>2. UpType'
    BY <1>2, <2>1, PodTyped, UpTypes
  <2>3. ConnType' /\ DownType' /\ AgentType'
    BY <1>2, PodTyped, GiveUpTypes
  <2> QED BY <1>0, <1>2, <2>2, <2>3, PodTyped, PodKeeps
<1> QED BY <1>1, <1>2 DEF Configure

LEMMA RefusedStep ==
    ASSUME AttachInv, NEW a \in Slots, Refused(a) \/ Shutdown(a)
    PROVE  AttachInv'
<1>0. UNCHANGED <<serverVars, sessionVars, up, orphan, faults>>
  BY DEF Refused, Shutdown
<1>1. CASE GiveUp
  <2>1. ConnType' /\ DownType' /\ AgentType'
    BY <1>1, PodTyped, GiveUpTypes
  <2> QED BY <1>0, <2>1, PodTyped, PodKeeps DEF UpType, Works
<1>2. CASE /\ client' = [client EXCEPT !.at = "redial", !.slot = None] /\ Hang
           /\ UNCHANGED runner
  <2>1. ConnType' /\ DownType'
    BY <1>2, PodTyped, HangTypes
  <2>2. [client EXCEPT !.at = "redial", !.slot = None] \in ClientType
    BY PodTyped DEF ClientType
  <2> QED BY <1>0, <1>2, <2>1, <2>2, PodTyped, PodKeeps DEF UpType, Works, AgentType
<1> QED BY <1>1, <1>2 DEF Refused, Shutdown

\* The client moves, and the streams stay.
LEMMA ClientStays ==
    ASSUME AttachInv, UNCHANGED <<serverVars, sessionVars, conn, up>>, DownType', AgentType',
           orphan' \in BOOLEAN, Fails \/ Works
    PROVE  AttachInv'
BY PodTyped, PodKeeps DEF ConnType, UpType

LEMMA DropsStep ==
    ASSUME AttachInv, NEW a \in Slots, Drops(a) \/ startSpawn(a) \/ joinRunningAgent
    PROVE  AttachInv'
<1>0. /\ UNCHANGED <<serverVars, sessionVars, conn, up, runner, orphan, faults>>
  BY DEF Drops, startSpawn, joinRunningAgent, streamVars
<1>1. DownType'
  BY PodTyped, ReadTypes DEF Drops, startSpawn, joinRunningAgent, streamVars, DownType
<1>2. client' \in ClientType
  <2>1. CASE Drops(a)
    BY <2>1, PodTyped DEF Drops, ClientType
  <2>2. CASE startSpawn(a)
    <3>1. PICK sp \in {"no", "runs", "failed"} : client' = [client EXCEPT !.spawn = sp]
      BY <2>2, PodTyped DEF startSpawn, ClientType
    <3> QED BY <3>1, PodTyped DEF ClientType
  <2>3. CASE joinRunningAgent
    BY <2>3, PodTyped DEF joinRunningAgent, ClientType
  <2> QED BY <2>1, <2>2, <2>3
<1> QED BY <1>0, <1>1, <1>2, PodTyped, ClientStays DEF AgentType, Works

LEMMA SpawnReturnsStep ==
    ASSUME AttachInv, SpawnReturns \/ RunnerLost
    PROVE  AttachInv'
<1>0. /\ UNCHANGED <<serverVars, sessionVars, conn, up, down>> /\ (Fails \/ Works)
      /\ orphan' \in BOOLEAN /\ runner' \in {"none", "running", "stopped"}
  BY PodTyped DEF SpawnReturns, RunnerLost, streamVars, AgentType
<1>1. client' \in ClientType
  <2>1. CASE client' = [client EXCEPT !.spawn = "no"]
    BY <2>1, PodTyped DEF ClientType
  <2>2. CASE client' = [client EXCEPT !.spawn = "no", !.agent = TRUE]
    BY <2>2, PodTyped DEF ClientType
  <2>3. CASE client' = [client EXCEPT !.spawn = "failed"]
    BY <2>3, PodTyped DEF ClientType
  <2>4. CASE client' = [client EXCEPT !.lost = TRUE]
    BY <2>4, PodTyped DEF ClientType
  <2> QED BY <2>1, <2>2, <2>3, <2>4 DEF SpawnReturns, RunnerLost
<1> QED BY <1>0, <1>1, PodTyped, ClientStays DEF AgentType, DownType

LEMMA DiesStep ==
    ASSUME AttachInv, Dies
    PROVE  AttachInv'
<1>1. ConnType' /\ DownType' /\ AgentType'
  BY PodTyped, GiveUpTypes DEF Dies
<1> QED BY <1>1, PodTyped, PodKeeps DEF Dies, UpType

LEMMA SidecarRestartStep ==
    ASSUME AttachInv, SidecarRestart
    PROVE  AttachInv'
<1>1. ConnType' /\ DownType'
  BY PodTyped, HangTypes DEF SidecarRestart
<1>2. AgentType'
  BY PodTyped, NewClientType DEF SidecarRestart, AgentType
<1> QED BY <1>1, <1>2, PodTyped, PodKeeps DEF SidecarRestart, UpType

\* A new stream, of a handler that was not in use.
LEMMA DialStep ==
    ASSUME AttachInv, NEW a \in Slots, Dial(a)
    PROVE  AttachInv'
<1>0. /\ At(a, "gone") /\ conn' = [conn EXCEPT ![a] = "up"]
      /\ client' = [client EXCEPT !.at = "hello", !.slot = a]
      /\ UNCHANGED <<run, notifyMu, holding, sessionVars, up, down, runner, orphan, faults>>
  BY DEF Dial
<1>1. /\ SessionType /\ LiveAt(a) /\ RunOver /\ handlers \in [Slots -> HandlerType]
  BY HandlerFacts
<1>2. PICK b \in BOOLEAN :
        handlers' = [handlers EXCEPT ![a] = [NoHandler EXCEPT !.at = "lookup", !.running = b]]
  <2>1. (client.agent \/ client.spawn # "no") \in BOOLEAN
    BY PodTyped DEF ClientType
  <2> QED BY <2>1 DEF Dial
<1>3. PICK h \in HandlerType : h = [NoHandler EXCEPT !.at = "lookup", !.running = b]
  BY NoHandlerFacts DEF HandlerType, HandlerAt
<1>4. h.at = "lookup" /\ h.notify = "no" /\ h.silent = FALSE
  BY <1>3 DEF NoHandler
<1>5. StreamType' /\ PodType'
  <2>1. [client EXCEPT !.at = "hello", !.slot = a] \in ClientType
    BY PodTyped DEF ClientType
  <2> QED BY <1>0, <2>1, PodTyped DEF StreamType, PodType
<1>6. SessionType' /\ UNCHANGED <<launch, stop, grace, firing>>
  BY <1>0, <1>1 DEF SessionType, sessionVars
<1>7. handlers' = [handlers EXCEPT ![a] = h]
  BY <1>2, <1>3
<1>8. RunOver'
  BY <1>0, <1>1, <1>4, <1>6, <1>7 DEF RunOver
<1>9. run.live # a /\ ~At(a, "lost")
  BY <1>0, <1>1 DEF LiveAt, At
<1> QED BY <1>0, <1>4, <1>5, <1>6, <1>7, <1>8, <1>9, HandlerMoves

-----------------------------------------------------------------------------
(* The start, every step, and what follows.                                *)

LEMMA AttachInit ==
    ASSUME Init
    PROVE  AttachInv
<1>1. \A a \in Slots : handlers[a] = NoHandler /\ run.live # a
  BY RunFacts, AttachAssumption DEF Init
<1>2. TypeOK
  <2>1. <<>> \in Seq(SidecarFrames) /\ <<>> \in Seq(ManagerFrames \cup AnswerCodes)
    OBVIOUS
  <2>2. 0 \in 0..MaxFaults
    BY AttachAssumption
  <2>3. ServerType /\ SessionType
    BY NoHandlerFacts, RunFacts DEF Init, ServerType, SessionType
  <2>4. StreamType /\ PodType
    BY <2>1, <2>2, NewClientType DEF Init, StreamType, PodType
  <2> QED BY <2>3, <2>4 DEF TypeOK
<1>3. AttachedIsNotTimed /\ LostIsTimed /\ OneStreamServes
  BY <1>1, NoHandlerFacts, RunFacts DEF Init, AttachedIsNotTimed, LostIsTimed, OneStreamServes
<1>4. \A a \in Slots : NotifyAt(a) /\ LiveAt(a) /\ ReleaseAt(a)
  BY <1>1, NoHandlerFacts DEF NotifyAt, LiveAt, ReleaseAt, At
<1>5. RunOver
  BY RunFacts DEF Init, RunOver
<1> QED BY <1>2, <1>3, <1>4, <1>5 DEF AttachInv

LEMMA AttachStep ==
    ASSUME AttachInv, [Next]_vars
    PROVE  AttachInv'
<1>1. CASE UNCHANGED vars
  <2>1. UNCHANGED <<serverVars, sessionVars>> /\ StreamType' /\ PodType'
    BY <1>1, PodTyped DEF vars, streamVars, podVars, StreamType, PodType
  <2> QED BY <2>1, PodMoves
<1>2. ASSUME NEW a \in Slots, Handler(a) PROVE AttachInv'
  BY <1>2, LookupStep, LookupUnknownStep, HelloLostStep, ClaimStep, AckSentStep, NotifyStep,
     NotifiedStep, HandleSidecarFrameStep, ErrorHandledStep, SendDirectiveStep, ServeEndsStep,
     ReleaseStep, LostStep, EndedStep DEF Handler
<1>3. CASE SessionStep \/ StopAsked \/ HarnessRestart
  BY <1>3, GraceStep, LaunchStep, SpawnAgentStep, UnactivatedStep, CloseStep, AdoptStep,
     EndStartupHoldStep, RestartStep DEF SessionStep
<1>4. CASE joinRunningAgent
  <2>1. PICK a \in Slots : TRUE
    BY AttachAssumption
  <2> QED BY <1>4, DropsStep
<1>5. ASSUME NEW a \in Slots, \/ Dial(a) \/ Configure(a) \/ Refused(a) \/ Drops(a)
                              \/ startSpawn(a) \/ Shutdown(a) \/ Terminal(a)
                              \/ Silent(a) \/ Cut(a) \/ Fail(a)
      PROVE  AttachInv'
  BY <1>5, DialStep, ConfigureStep, RefusedStep, DropsStep, ErrorStep, SilentStep, CutStep
<1>6. CASE SpawnReturns \/ RunnerLost \/ Dies \/ SidecarRestart
  BY <1>6, SpawnReturnsStep, DiesStep, SidecarRestartStep
<1> QED BY <1>1, <1>2, <1>3, <1>4, <1>5, <1>6 DEF Next, ClientStep

\* However the ends and the starts of streams, restarts and stops interleave,
\* the session knows the stream that the run has before it reads from it, the
\* grace timer is right about it, and one stream serves (claim, notifyAttached,
\* release).
THEOREM AttachInvariant == Spec => []AttachInv
BY AttachInit, AttachStep, PTL DEF Spec

\* A sandbox whose stream the session knows about is not timed out (OnAttached,
\* startGrace).
THEOREM AttachedNotTimed == Spec => []AttachedIsNotTimed
<1>1. AttachInv => AttachedIsNotTimed
  BY DEF AttachInv
<1> QED BY <1>1, AttachInvariant, PTL

\* A sandbox that lost its stream is timed, or its session is being stopped: it
\* cannot be forgotten (OnLost).
THEOREM LostTimed == Spec => []LostIsTimed
<1>1. AttachInv => LostIsTimed
  BY DEF AttachInv
<1> QED BY <1>1, AttachInvariant, PTL

\* A stream that is not closed is the one that the run has (Server.claim).
THEOREM OneServes == Spec => []OneStreamServes
<1>1. AttachInv => OneStreamServes
  BY DEF AttachInv
<1> QED BY <1>1, AttachInvariant, PTL

=============================================================================
