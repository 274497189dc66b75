--------------------------- MODULE AgentLinkProofs ---------------------------
(***************************************************************************)
(* Proofs about AgentLink, for every value of its bounds: the types, the   *)
(* inductive invariant LinkInv with the safety properties that follow from *)
(* it, the implementation of PodLog, and two invariants about turns: that  *)
(* each runs once and in order, and that a working agent is never idle to  *)
(* the platform.                                                           *)
(***************************************************************************)
EXTENDS AgentLink, FiniteSetTheorems, TLAPS

\* What release() sends is a sequence of turns.
LEMMA AscendingType ==
    ASSUME NEW S \in SUBSET Turns, NEW q \in Ascending(S)
    PROVE  q \in Seq(Turns)
<1>1. IsFiniteSet(Turns)
  BY FS_Interval, BoundsAssumption DEF Turns
<1>2. Cardinality(S) \in Nat
  BY <1>1, FS_Subset, FS_CardinalityType
<1>3. q \in [1..Cardinality(S) -> S]
  BY DEF Ascending
<1> QED
  BY <1>2, <1>3

\* The frames the model builds have the frame types.
LEMMA FrameTypes ==
    ASSUME TypeOK
    PROVE  /\ \A n, g \in Nat : StateFrame(n, g) \in UpFrame
           /\ \A g \in Nat, n \in 1..Len(emitted) : EventFrame(n, g) \in UpFrame
           /\ \A n \in Nat : {Open(n), Ack(n), Prompt(n)} \subseteq DownFrame
<1>1. \A n, g \in Nat : StateFrame(n, g) \in UpFrame
  <2> SUFFICES ASSUME NEW n \in Nat, NEW g \in Nat
               PROVE  StateFrame(n, g) \in UpFrame
    OBVIOUS
  <2>1. {queue[i] : i \in DOMAIN queue} \cup ({running} \ {0}) \in SUBSET Nat
    BY DEF TypeOK, AgentType
  <2>2. Ready \in Event
    BY DEF Ready, Event
  <2> QED
    BY <2>1, <2>2 DEF StateFrame, UpFrame, TypeOK, AgentType
<1>2. \A g \in Nat, n \in 1..Len(emitted) : EventFrame(n, g) \in UpFrame
  BY DEF EventFrame, UpFrame, TypeOK, RunnerType
<1>3. \A n \in Nat : {Open(n), Ack(n), Prompt(n)} \subseteq DownFrame
  BY DEF Open, Ack, Prompt, DownFrame
<1> QED
  BY <1>1, <1>2, <1>3

LEMMA TypeInit == Init => TypeOK
<1> SUFFICES ASSUME Init PROVE TypeOK
  OBVIOUS
<1>1. Ready \in Event
  BY DEF Ready, Event
<1>2. <<Ready>> \in Seq(Event) /\ <<>> \in Seq(Nat) /\ <<>> \in Seq(UpFrame)
      /\ <<>> \in Seq(DownFrame) /\ <<>> \in Seq(Turns)
  BY <1>1
<1>3. held \in SUBSET Turns
  BY DEF Init
<1>4. turnSeq \in 0..MaxTurn
  <2>1. CASE held = {}
    <3>1. Cardinality({}) = 0
      BY FS_EmptySet
    <3>2. turnSeq = 0
      BY <2>1, <3>1 DEF Init
    <3> QED
      BY <3>2, BoundsAssumption
  <2>2. CASE held # {}
    <3>1. held = {1} /\ 1 \in Turns
      BY <2>2 DEF Init
    <3>2. Cardinality({1}) = 1
      BY FS_Singleton
    <3>3. turnSeq = 1
      BY <3>1, <3>2 DEF Init
    <3> QED
      BY <3>1, <3>3, BoundsAssumption DEF Turns
  <2> QED
    BY <2>1, <2>2
<1>5. NoReconcile \in [st : {"idle", "begun", "listed"}, last : Nat, out : SUBSET Nat,
                       cmds : SUBSET Turns]
  BY DEF NoReconcile
<1>6. turns \in SUBSET Nat
  BY <1>3, BoundsAssumption DEF Init, Turns
<1> QED
  BY <1>2, <1>3, <1>4, <1>5, <1>6 DEF Init, TypeOK, AgentType, RunnerType, SidecarType, WireType, ServerType, BindingType, StoreType, FaultType

\* release() keeps the types of the held and the queued prompts.
LEMMA ReleaseType ==
    ASSUME TypeOK, NEW h \in SUBSET Turns, NEW g, NEW s, Release(h, g, s)
    PROVE  held' \in SUBSET Turns /\ commands' \in Seq(Turns)
<1>1. CASE g \/ s
  BY <1>1 DEF Release, TypeOK, BindingType, ServerType
<1>2. CASE ~(g \/ s)
  <2>1. held' = {}
    BY <1>2 DEF Release
  <2>2. PICK q \in Ascending(h) : commands' = commands \o q
    BY <1>2 DEF Release
  <2>3. q \in Seq(Turns)
    BY AscendingType
  <2> QED
    BY <2>1, <2>2, <2>3 DEF TypeOK, ServerType
<1> QED
  BY <1>1, <1>2

\* What the runner does with a frame keeps the types of its turn queue.
LEMMA ReceiveType ==
    ASSUME AgentType, NEW f, f.n \in Nat, RunnerReceive(f)
    PROVE  lastTurn' \in Nat /\ queue' \in Seq(Nat)
<1>1. lastTurn \in Nat /\ queue \in Seq(Nat)
  BY DEF AgentType
<1>2. \/ UNCHANGED <<lastTurn, queue>>
      \/ lastTurn' = f.n /\ queue' = Append(queue, f.n)
  BY DEF RunnerReceive, RunnerPrompt
<1> QED
  BY <1>1, <1>2

LEMMA TypeStep == TypeOK /\ [Next]_vars => TypeOK'
<1> SUFFICES ASSUME TypeOK, [Next]_vars PROVE TypeOK'
  OBVIOUS
<1> USE DEF TypeOK
<1>u. /\ UNCHANGED agentVars => AgentType'
      /\ UNCHANGED runnerVars => RunnerType'
      /\ UNCHANGED sidecarVars => SidecarType'
      /\ UNCHANGED wireVars => WireType'
      /\ UNCHANGED serverVars => ServerType'
      /\ UNCHANGED bindingVars => BindingType'
      /\ UNCHANGED storeVars => StoreType'
      /\ UNCHANGED faultVars => FaultType'
  <2>1. UNCHANGED agentVars => AgentType'
    BY DEF AgentType, agentVars
  <2>2. UNCHANGED runnerVars => RunnerType'
    BY DEF RunnerType, runnerVars
  <2>3. UNCHANGED sidecarVars => SidecarType'
    BY DEF SidecarType, sidecarVars
  <2>4. UNCHANGED wireVars => WireType'
    BY DEF WireType, wireVars
  <2>5. UNCHANGED serverVars => ServerType'
    BY DEF ServerType, serverVars
  <2>6. UNCHANGED bindingVars => BindingType'
    BY DEF BindingType, bindingVars
  <2>7. UNCHANGED storeVars => StoreType'
    BY DEF StoreType, storeVars
  <2>8. UNCHANGED faultVars => FaultType'
    BY DEF FaultType, faultVars
  <2> QED
    BY <2>1, <2>2, <2>3, <2>4, <2>5, <2>6, <2>7, <2>8
<1>e. <<>> \in Seq(UpFrame) /\ <<>> \in Seq(DownFrame)
  OBVIOUS
<1>1. CASE AgentTakeTurn
  <2>1. AgentType'
    BY <1>1, BoundsAssumption DEF AgentTakeTurn, AgentType
  <2> QED
    BY <1>u, <1>1, <2>1 DEF AgentTakeTurn
<1>2. CASE AgentEmit
  <2>1. AgentType'
    BY <1>2 DEF AgentEmit, AgentType
  <2>2. RunnerType'
    BY <1>2 DEF AgentEmit, RunnerType, Message, Event, AgentType
  <2> QED
    BY <1>u, <1>2, <2>1, <2>2 DEF AgentEmit
<1>3. CASE AgentFinishTurn
  <2>1. AgentType'
    BY <1>3 DEF AgentFinishTurn, AgentType
  <2>2. RunnerType'
    BY <1>3 DEF AgentFinishTurn, RunnerType, Finished, Event, AgentType
  <2> QED
    BY <1>u, <1>3, <2>1, <2>2 DEF AgentFinishTurn
<1>4. CASE AgentClearTurn
  <2>1. AgentType'
    BY <1>4 DEF AgentClearTurn, AgentType
  <2> QED
    BY <1>u, <1>4, <2>1 DEF AgentClearTurn
<1>5. CASE AgentExit
  <2>1. AgentType'
    BY <1>5 DEF AgentExit, AgentType
  <2> QED
    BY <1>u, <1>5, <2>1 DEF AgentExit
<1>6. CASE AgentFinish
  <2>1. AgentType'
    BY <1>6 DEF AgentFinish, AgentType
  <2> QED
    BY <1>u, <1>6, <2>1 DEF AgentFinish
<1>6a. CASE AgentEndQueued
  <2>1. Head(ending) \in Nat /\ Tail(ending) \in Seq(Nat)
    BY <1>6a DEF AgentEndQueued, AgentType
  <2>2. AgentType'
    BY <1>6a, <2>1 DEF AgentEndQueued, AgentType
  <2>3. RunnerType'
    BY <1>6a, <2>1 DEF AgentEndQueued, RunnerType, Finished, Event
  <2> QED
    BY <1>u, <1>6a, <2>2, <2>3 DEF AgentEndQueued
<1>6b. CASE AgentReportExit
  <2>1. AgentType'
    BY <1>6b DEF AgentReportExit, AgentType
  <2>2. RunnerType'
    BY <1>6b DEF AgentReportExit, RunnerType, Exited, Event
  <2> QED
    BY <1>u, <1>6b, <2>1, <2>2 DEF AgentReportExit
<1>7. CASE FeedStart
  <2>1. RunnerType'
    BY <1>7 DEF FeedStart, RunnerType
  <2>2. SidecarType'
    BY <1>7, FrameTypes DEF FeedStart, SidecarType, RunnerType
  <2> QED
    BY <1>u, <1>7, <2>1, <2>2 DEF FeedStart
<1>8. CASE FeedEvent
  <2>1. (Replayable(cursor) /\ cursor < Len(emitted)) => EventFrame(cursor + 1, replays) \in UpFrame
    BY FrameTypes DEF RunnerType, SidecarType
  <2>2. RunnerType'
    BY <1>8 DEF FeedEvent, RunnerType
  <2>3. SidecarType'
    BY <1>8, <2>1 DEF FeedEvent, SidecarType
  <2>4. FaultType'
    BY <1>8 DEF FeedEvent, FaultType
  <2> QED
    BY <1>u, <1>8, <2>2, <2>3, <2>4 DEF FeedEvent
<1>9. CASE OpenIO
  <2>1. Open(delivered) \in DownFrame
    BY DEF Open, DownFrame, ServerType
  <2>2. WireType'
    BY <1>9, <2>1 DEF OpenIO, WireType
  <2>3. ServerType'
    BY <1>9 DEF OpenIO, ServerType
  <2> QED
    BY <1>u, <1>9, <2>2, <2>3 DEF OpenIO
<1>10. CASE SidecarOpen
  <2>h. Head(ioDown) \in DownFrame /\ Tail(ioDown) \in Seq(DownFrame)
    BY <1>10 DEF SidecarOpen, WireType
  <2>n. Head(ioDown).n \in Nat
    BY <2>h DEF DownFrame
  <2>1. RunnerType'
    BY <1>10, <2>n DEF SidecarOpen, RunnerType
  <2>2. SidecarType'
    BY <1>10 DEF SidecarOpen, SidecarType
  <2>3. WireType'
    <3>1. ioUp' = ioUp
      BY <1>10 DEF SidecarOpen
    <3>2. ioDown' \in Seq(DownFrame)
      BY <1>10, <2>h, <1>e DEF SidecarOpen
    <3>3. io' \in {"replaying", "down"}
      BY <1>10 DEF SidecarOpen
    <3> QED
      BY <3>1, <3>2, <3>3 DEF WireType
  <2>4. FaultType'
    BY <1>10 DEF SidecarOpen, FaultType
  <2> QED
    BY <1>u, <1>10, <2>1, <2>2, <2>3, <2>4 DEF SidecarOpen
<1>11. CASE SidecarForward
  <2>1. SidecarType'
    BY <1>11 DEF SidecarForward, SidecarType
  <2>h. Head(frames) \in UpFrame
    BY <1>11 DEF SidecarForward, SidecarType
  <2>2. WireType'
    <3>1. Append(ioUp, Head(frames)) \in Seq(UpFrame)
      BY <2>h DEF WireType
    <3>2. ioUp' \in Seq(UpFrame)
      BY <1>11, <3>1 DEF SidecarForward, WireType
    <3>3. io' \in {io, "live"} /\ ioDown' = ioDown
      BY <1>11 DEF SidecarForward
    <3> QED
      BY <3>2, <3>3 DEF WireType
  <2> QED
    BY <1>u, <1>11, <2>1, <2>2 DEF SidecarForward
<1>12. CASE Relay
  <2>1. Head(ioDown) \in DownFrame
    BY <1>12 DEF Relay, WireType
  <2>2. Head(ioDown).n \in Nat
    BY <2>1 DEF DownFrame
  <2>3. AgentType'
    <3>1. lastTurn' \in Nat /\ queue' \in Seq(Nat)
      BY <1>12, <2>2, ReceiveType DEF Relay
    <3> QED
      BY <1>12, <3>1 DEF Relay, AgentType
  <2>4. RunnerType'
    BY <1>12, <2>1, <2>2 DEF Relay, RunnerType, RunnerReceive, RunnerAck
  <2>5. WireType'
    BY <1>12 DEF Relay, WireType
  <2> QED
    BY <1>u, <1>12, <2>3, <2>4, <2>5 DEF Relay
<1>13. CASE StrayRelay
  <2>1. Head(strays) \in DownFrame
    BY <1>13 DEF StrayRelay, SidecarType
  <2>2. Head(strays).n \in Nat
    BY <2>1 DEF DownFrame
  <2>3. AgentType'
    <3>1. lastTurn' \in Nat /\ queue' \in Seq(Nat)
      BY <1>13, <2>2, ReceiveType DEF StrayRelay
    <3> QED
      BY <1>13, <3>1 DEF StrayRelay, AgentType
  <2>4. RunnerType'
    BY <1>13, <2>1, <2>2 DEF StrayRelay, RunnerType, RunnerReceive, RunnerAck
  <2>5. SidecarType'
    BY <1>13 DEF StrayRelay, SidecarType
  <2> QED
    BY <1>u, <1>13, <2>3, <2>4, <2>5 DEF StrayRelay
<1>14. CASE SendCommand
  <2>1. Head(commands) \in Turns
    BY <1>14 DEF SendCommand, ServerType
  <2>2. Prompt(Head(commands)) \in DownFrame
    BY <2>1, BoundsAssumption DEF Prompt, DownFrame, Turns
  <2>3. WireType'
    BY <1>14, <2>1, <2>2 DEF SendCommand, WireType
  <2>4. ServerType'
    BY <1>14 DEF SendCommand, ServerType
  <2> QED
    BY <1>u, <1>14, <2>3, <2>4 DEF SendCommand
<1>15. CASE SendAck
  <2>1. Ack(acked) \in DownFrame
    BY DEF Ack, DownFrame, ServerType
  <2>2. WireType'
    BY <1>15, <2>1 DEF SendAck, WireType
  <2>3. ServerType'
    BY <1>15 DEF SendAck, ServerType
  <2> QED
    BY <1>u, <1>15, <2>2, <2>3 DEF SendAck
<1>16. CASE ServerReceive
  <2>1. Head(ioUp) \in UpFrame
    BY <1>16 DEF ServerReceive, WireType
  <2>2. Head(ioUp).seq \in Nat
    BY <2>1 DEF UpFrame
  <2>3. WireType'
    <3>1. Tail(ioUp) \in Seq(UpFrame)
      BY <1>16 DEF ServerReceive, WireType
    <3>2. ioUp' \in Seq(UpFrame)
      BY <1>16, <3>1, <1>e DEF ServerReceive
    <3>3. ioDown' \in Seq(DownFrame)
      BY <1>16, <1>e DEF ServerReceive, WireType
    <3>4. io' \in {io, "down"}
      BY <1>16 DEF ServerReceive
    <3> QED
      BY <3>2, <3>3, <3>4 DEF WireType
  <2>4. ServerType'
    <3>1. Append(inbox, Head(ioUp)) \in Seq(UpFrame)
      BY <2>1 DEF ServerType
    <3>2. inbox' \in Seq(UpFrame) /\ delivered' \in Nat
      BY <1>16, <2>2, <3>1 DEF ServerReceive, SetDelivered, ServerType
    <3> QED
      BY <1>16, <3>2 DEF ServerReceive, ServerType
  <2>5. FaultType'
    BY <1>16 DEF ServerReceive, FaultType
  <2> QED
    BY <1>u, <1>16, <2>3, <2>4, <2>5 DEF ServerReceive
<1>17. CASE StartTurn
  <2>1. turnSeq' \in Turns /\ turnSeq' \in Nat /\ turnSeq' \in 0..MaxTurn
    BY <1>17, BoundsAssumption DEF StartTurn, NextTurnSeq, StoreType, Turns
  <2>2. held \cup {turnSeq'} \in SUBSET Turns
    BY <2>1 DEF BindingType
  <2>3. held' \in SUBSET Turns /\ commands' \in Seq(Turns)
    BY <1>17, <2>2, ReleaseType DEF StartTurn, BindingType, ServerType
  <2>4. ServerType'
    BY <1>17, <2>1, <2>2, <2>3 DEF StartTurn, ServerType
  <2>5. BindingType'
    BY <1>17, <2>1, <2>2, <2>3 DEF StartTurn, BindingType
  <2>6. StoreType'
    BY <1>17, <2>1, <2>2, <2>3 DEF StartTurn, StoreType
  <2> QED
    BY <1>u, <1>17, <2>4, <2>5, <2>6 DEF StartTurn
<1>18. CASE Ungate
  <2>1. held' \in SUBSET Turns /\ commands' \in Seq(Turns)
    BY <1>18, ReleaseType DEF Ungate, BindingType
  <2>2. ServerType'
    BY <1>18, <2>1 DEF Ungate, ServerType
  <2>3. BindingType'
    BY <1>18, <2>1 DEF Ungate, BindingType
  <2> QED
    BY <1>u, <1>18, <2>2, <2>3 DEF Ungate
<1>19. CASE Consume
  <2>1. Head(inbox) \in UpFrame
    BY <1>19 DEF Consume, ServerType
  <2>2. Head(inbox).ev \in Event /\ Head(inbox).seq \in Nat
    BY <2>1 DEF UpFrame
  <2>3. ServerType'
    BY <1>19, <2>1, <2>2 DEF Consume, ServerType
  <2>4. BindingType'
    BY <1>19, <2>1, <2>2 DEF Consume, BindingType
  <2>5. StoreType'
    <3>1. ends' \in [Turns -> Nat]
      BY <1>19 DEF Consume, EndTurns, StoreType
    <3>2. cmds' \in SUBSET Turns
      BY <1>19 DEF Consume, StoreType
    <3>3. recorded' \in Seq(Event) /\ podSeq' \in Nat
      BY <1>19, <2>2 DEF Consume, StoreType
    <3> QED
      BY <1>19, <3>1, <3>2, <3>3 DEF Consume, StoreType
  <2> QED
    BY <1>u, <1>19, <2>3, <2>4, <2>5 DEF Consume
<1>20. CASE ReconcileBegin
  <2>1. Head(inbox) \in UpFrame
    BY <1>20 DEF ReconcileBegin, ServerType
  <2>2. Head(inbox).last \in Nat /\ Head(inbox).out \in SUBSET Nat
    BY <2>1 DEF UpFrame
  <2>3. ServerType'
    BY <1>20 DEF ReconcileBegin, ServerType
  <2>4. BindingType'
    BY <1>20, <2>1, <2>2 DEF ReconcileBegin, BindingType
  <2> QED
    BY <1>u, <1>20, <2>3, <2>4 DEF ReconcileBegin
<1>21. CASE ReconcileList
  <2>1. BindingType'
    BY <1>21 DEF ReconcileList, BindingType, StoreType
  <2> QED
    BY <1>u, <1>21, <2>1 DEF ReconcileList
<1>22. CASE ReconcileFinish
  <2>1. Resend \in SUBSET Turns
    BY DEF Resend, BindingType
  <2>2. held \cup Resend \in SUBSET Turns
    BY <2>1 DEF BindingType
  <2>3. held' \in SUBSET Turns /\ commands' \in Seq(Turns)
    BY <1>22, <2>2, ReleaseType DEF ReconcileFinish
  <2>4. turns' \in SUBSET Nat
    <3>1. Turns \subseteq Nat
      BY BoundsAssumption DEF Turns
    <3>2. recon.out \in SUBSET Nat
      BY DEF BindingType
    <3>3. turns' = recon.out \cup Resend \cup held
      BY <1>22 DEF ReconcileFinish
    <3> QED
      BY <2>1, <3>1, <3>2, <3>3 DEF BindingType
  <2>5. ServerType'
    BY <1>22, <2>1, <2>2, <2>3, <2>4 DEF ReconcileFinish, ServerType
  <2>6. BindingType'
    BY <1>22, <2>1, <2>2, <2>3, <2>4 DEF ReconcileFinish, BindingType, NoReconcile
  <2>7. StoreType'
    BY <1>22 DEF ReconcileFinish, StoreType
  <2> QED
    BY <1>u, <1>22, <2>5, <2>6, <2>7 DEF ReconcileFinish
<1>23. CASE Stop
  <2>1. ends' \in [Turns -> Nat]
    BY <1>23 DEF Stop, EndTurns, StoreType
  <2>2. WireType'
    BY <1>23 DEF Stop, WireType
  <2>3. BindingType'
    BY <1>23 DEF Stop, BindingType, NoReconcile
  <2>4. StoreType'
    BY <1>23, <2>1 DEF Stop, StoreType
  <2> QED
    BY <1>u, <1>23, <2>2, <2>3, <2>4 DEF Stop
<1>24. CASE Break
  <2>1. strays' \in Seq(DownFrame)
    BY <1>24 DEF Break, RelaySurvives, InRelay, SidecarType, WireType
  <2>2. SidecarType'
    BY <1>24, <2>1 DEF Break, SidecarType
  <2>3. WireType'
    BY <1>24 DEF Break, WireType, Disconnect
  <2>4. FaultType'
    BY <1>24 DEF Break, FaultType
  <2> QED
    BY <1>u, <1>24, <2>2, <2>3, <2>4 DEF Break
<1>25. CASE SidecarRestart
  <2>1. strays \o InRelay \in Seq(DownFrame)
    BY DEF InRelay, SidecarType, WireType
  <2>2. strays' \in Seq(DownFrame)
    BY <1>25, <2>1 DEF SidecarRestart
  <2>3. RunnerType'
    BY <1>25 DEF SidecarRestart, RunnerType
  <2>4. SidecarType'
    BY <1>25, <2>1, <2>2 DEF SidecarRestart, SidecarType
  <2>5. WireType'
    BY <1>25 DEF SidecarRestart, WireType, Disconnect
  <2>6. FaultType'
    BY <1>25 DEF SidecarRestart, FaultType
  <2> QED
    BY <1>u, <1>25, <2>3, <2>4, <2>5, <2>6 DEF SidecarRestart
<1>26. CASE HarnessRestart
  <2>1. strays' \in Seq(DownFrame)
    BY <1>26 DEF HarnessRestart, RelaySurvives, InRelay, SidecarType, WireType
  <2>2. cmds \in SUBSET Nat
    BY BoundsAssumption DEF StoreType, Turns
  <2>3. SidecarType'
    BY <1>26, <2>1, <2>2 DEF HarnessRestart, SidecarType
  <2>4. WireType'
    BY <1>26 DEF HarnessRestart, WireType, Disconnect
  <2>5. ServerType'
    BY <1>26 DEF HarnessRestart, Expect, ServerType, StoreType
  <2>6. BindingType'
    BY <1>26, <2>1, <2>2 DEF HarnessRestart, Adopt, BindingType, NoReconcile
  <2>7. FaultType'
    BY <1>26 DEF HarnessRestart, FaultType
  <2> QED
    BY <1>u, <1>26, <2>3, <2>4, <2>5, <2>6, <2>7 DEF HarnessRestart
<1>27. CASE UNCHANGED vars
  BY <1>u, <1>27 DEF vars
<1> QED
  BY <1>1, <1>2, <1>3, <1>4, <1>5, <1>6, <1>6a, <1>6b, <1>7, <1>8, <1>9, <1>10, <1>11, <1>12,
     <1>13, <1>14, <1>15, <1>16, <1>17, <1>18, <1>19, <1>20, <1>21, <1>22, <1>23, <1>24, <1>25,
     <1>26, <1>27 DEF Next, AgentNext, PodNext, LinkNext, ApiNext, FaultNext

\* Every variable keeps its type, for every value of the bounds.
THEOREM TypeCorrect == Spec => []TypeOK
<1> QED
  BY TypeInit, TypeStep, PTL DEF Spec

-----------------------------------------------------------------------------
(* The queues as paths: what adding a frame at the end and taking one from *)
(* the front do.                                                           *)

LEMMA PathAppend ==
    ASSUME NEW s \in Seq(UpFrame), NEW f \in UpFrame, NEW a \in Nat, NEW b \in Nat,
           Path(a, s, b), Follows(b, f)
    PROVE  Path(a, Append(s, f), f.seq)
<1> DEFINE t == Append(s, f)
<1>1. t \in Seq(UpFrame) /\ Len(t) = Len(s) + 1 /\ t[Len(t)] = f
      /\ \A i \in 1..Len(s) : t[i] = s[i]
  OBVIOUS
<1>2. t # <<>>
  BY <1>1
<1>3. Follows(a, t[1])
  <2>1. CASE s = <<>>
    BY <1>1, <2>1 DEF Path
  <2>2. CASE s # <<>>
    <3>1. 1 \in 1..Len(s)
      BY <2>2
    <3> QED
      BY <1>1, <2>2, <3>1 DEF Path
  <2> QED
    BY <2>1, <2>2
<1>4. \A i \in 1..(Len(t) - 1) : Follows(t[i].seq, t[i + 1])
  <2> SUFFICES ASSUME NEW i \in 1..Len(s) PROVE Follows(t[i].seq, t[i + 1])
    BY <1>1
  <2>1. CASE i < Len(s)
    <3>1. t[i] = s[i] /\ t[i + 1] = s[i + 1] /\ i \in 1..(Len(s) - 1)
      BY <1>1, <2>1
    <3> QED
      BY <3>1 DEF Path
  <2>2. CASE i = Len(s)
    <3>1. s # <<>> /\ t[i] = s[Len(s)] /\ t[i + 1] = f
      BY <1>1, <2>2
    <3> QED
      BY <3>1 DEF Path
  <2> QED
    BY <2>1, <2>2
<1> QED
  BY <1>1, <1>2, <1>3, <1>4 DEF Path

\* Taking the first frame off a non-empty queue.
LEMMA TailOf ==
    ASSUME NEW S, NEW s \in Seq(S), s # <<>>
    PROVE  /\ Head(s) = s[1] /\ Head(s) \in S
           /\ Tail(s) \in Seq(S) /\ Len(Tail(s)) = Len(s) - 1
           /\ \A i \in 1..Len(Tail(s)) : Tail(s)[i] = s[i + 1]
           /\ Tail(s) = <<>> => Len(s) = 1
           /\ Tail(s) # <<>> => Len(s) > 1 /\ Tail(s)[Len(Tail(s))] = s[Len(s)]
<1>1. Head(s) = s[1] /\ Head(s) \in S /\ Tail(s) \in Seq(S) /\ Len(Tail(s)) = Len(s) - 1
  OBVIOUS
<1>2. \A i \in 1..Len(Tail(s)) : Tail(s)[i] = s[i + 1]
  OBVIOUS
<1>3. Tail(s) = <<>> => Len(s) = 1
  BY <1>1
<1>4. Tail(s) # <<>> => Len(s) > 1 /\ Tail(s)[Len(Tail(s))] = s[Len(s)]
  <2> SUFFICES ASSUME Tail(s) # <<>>
               PROVE  Len(s) > 1 /\ Tail(s)[Len(Tail(s))] = s[Len(s)]
    OBVIOUS
  <2>1. Len(Tail(s)) # 0
    BY <1>1
  <2>2. Len(s) \in Nat /\ Len(Tail(s)) \in 1..Len(Tail(s))
    BY <1>1, <2>1
  <2>3. Tail(s)[Len(Tail(s))] = s[Len(Tail(s)) + 1]
    BY <1>2, <2>2
  <2> QED
    BY <1>1, <2>1, <2>2, <2>3
<1> QED
  BY <1>1, <1>2, <1>3, <1>4

LEMMA PathTail ==
    ASSUME NEW s \in Seq(UpFrame), NEW a \in Nat, NEW b \in Nat,
           Path(a, s, b), s # <<>>
    PROVE  Follows(a, Head(s)) /\ Path(Head(s).seq, Tail(s), b)
<1> DEFINE t == Tail(s)
<1>1. Follows(a, Head(s))
  BY TailOf DEF Path
<1>2. t = <<>> => Head(s).seq = b
  BY TailOf DEF Path
<1>3. t # <<>> => Follows(Head(s).seq, t[1]) /\ t[Len(t)].seq = b
  <2> SUFFICES ASSUME t # <<>> PROVE Follows(Head(s).seq, t[1]) /\ t[Len(t)].seq = b
    OBVIOUS
  <2>1. Len(s) > 1 /\ t[Len(t)] = s[Len(s)] /\ t[1] = s[1 + 1] /\ Head(s) = s[1]
    BY TailOf
  <2>2. 1 \in 1..(Len(s) - 1)
    BY <2>1
  <2> QED
    BY <2>1, <2>2 DEF Path
<1>4. \A i \in 1..(Len(t) - 1) : Follows(t[i].seq, t[i + 1])
  <2> SUFFICES ASSUME NEW i \in 1..(Len(t) - 1) PROVE Follows(t[i].seq, t[i + 1])
    OBVIOUS
  <2>1. t[i] = s[i + 1] /\ t[i + 1] = s[(i + 1) + 1] /\ i + 1 \in 1..(Len(s) - 1)
    BY TailOf
  <2> QED
    BY <2>1 DEF Path
<1> QED
  BY <1>1, <1>2, <1>3, <1>4 DEF Path

LEMMA GenuineAppend ==
    ASSUME NEW s \in Seq(UpFrame), NEW f \in UpFrame, NEW log, Genuine(s, log),
           f.type = "event" => f.seq \in 1..Len(log) /\ f.ev = log[f.seq]
    PROVE  Genuine(Append(s, f), log)
  BY DEF Genuine

LEMMA GenuineTail ==
    ASSUME NEW s \in Seq(UpFrame), NEW log, Genuine(s, log), s # <<>>
    PROVE  Genuine(Tail(s), log)
  BY TailOf DEF Genuine

LEMMA GenuineGrows ==
    ASSUME NEW s \in Seq(UpFrame), NEW log \in Seq(Event), NEW longer \in Seq(Event),
           Genuine(s, log), Len(log) <= Len(longer),
           \A i \in 1..Len(log) : longer[i] = log[i]
    PROVE  Genuine(s, longer)
  BY DEF Genuine

LEMMA ConsecutiveAppend ==
    ASSUME NEW s \in Seq(UpFrame), NEW f \in UpFrame, Consecutive(s),
           (f.type = "event" /\ s # <<>>) => f.seq = s[Len(s)].seq + 1
    PROVE  Consecutive(Append(s, f))
<1> DEFINE t == Append(s, f)
<1>1. t \in Seq(UpFrame) /\ Len(t) = Len(s) + 1 /\ t[Len(t)] = f
      /\ \A i \in 1..Len(s) : t[i] = s[i]
  OBVIOUS
<1> SUFFICES ASSUME NEW i \in 1..Len(s), t[i + 1].type = "event"
             PROVE  t[i + 1].seq = t[i].seq + 1
  BY <1>1 DEF Consecutive
<1>2. CASE i < Len(s)
  <2>1. t[i] = s[i] /\ t[i + 1] = s[i + 1] /\ i \in 1..(Len(s) - 1)
    BY <1>1, <1>2
  <2> QED
    BY <2>1 DEF Consecutive
<1>3. CASE i = Len(s)
  BY <1>1, <1>3
<1> QED
  BY <1>2, <1>3

LEMMA NotAheadAppend ==
    ASSUME NEW s \in Seq(UpFrame), NEW f \in UpFrame, NEW n \in Nat, NEW m \in Nat,
           f.seq = m,
           f.type = "state" \/ (NotAhead(s, n) /\ n <= m)
    PROVE  NotAhead(Append(s, f), m)
<1> DEFINE t == Append(s, f)
<1>1. t \in Seq(UpFrame) /\ Len(t) = Len(s) + 1 /\ t[Len(t)] = f
      /\ \A i \in 1..Len(s) : t[i] = s[i]
  OBVIOUS
<1>2. Len(s) \in Nat /\ \A i \in 1..Len(s) : s[i].seq \in Nat
  <2>1. \A g \in UpFrame : g.seq \in Nat
    BY DEF UpFrame
  <2> QED
    BY <2>1
<1> SUFFICES ASSUME NEW i \in 1..Len(t), \A j \in (i + 1)..Len(t) : t[j].type = "event"
             PROVE  t[i].seq <= m
  BY DEF NotAhead
<1>3. CASE i = Len(t)
  BY <1>1, <1>3
<1>4. CASE i # Len(t)
  <2>1. i \in 1..Len(s) /\ Len(t) \in (i + 1)..Len(t) /\ t[i] = s[i]
    BY <1>1, <1>2, <1>4
  <2>2. f.type = "event"
    BY <1>1, <2>1
  <2>3. \A j \in (i + 1)..Len(s) : j \in (i + 1)..Len(t) /\ j \in 1..Len(s)
    BY <1>1, <1>2, <2>1
  <2>4. \A j \in (i + 1)..Len(s) : s[j].type = "event"
    BY <1>1, <2>3
  <2>5. NotAhead(s, n) /\ n <= m
    BY <2>2
  <2>6. s[i].seq <= n
    BY <2>1, <2>4, <2>5 DEF NotAhead
  <2> QED
    BY <1>2, <2>1, <2>5, <2>6
<1> QED
  BY <1>3, <1>4

LEMMA NotAheadTail ==
    ASSUME NEW s \in Seq(UpFrame), NEW n \in Nat, NotAhead(s, n), s # <<>>
    PROVE  NotAhead(Tail(s), n)
<1>1. Len(s) \in Nat /\ Len(Tail(s)) = Len(s) - 1
      /\ \A i \in 1..Len(Tail(s)) : Tail(s)[i] = s[i + 1]
  BY TailOf
<1> SUFFICES ASSUME NEW i \in 1..Len(Tail(s)),
                    \A j \in (i + 1)..Len(Tail(s)) : Tail(s)[j].type = "event"
             PROVE  Tail(s)[i].seq <= n
  BY DEF NotAhead
<1>2. i + 1 \in 1..Len(s) /\ Tail(s)[i] = s[i + 1]
  BY <1>1
<1>3. ASSUME NEW j \in ((i + 1) + 1)..Len(s) PROVE s[j].type = "event"
  <2>1. j - 1 \in (i + 1)..Len(Tail(s)) /\ j - 1 \in 1..Len(Tail(s)) /\ (j - 1) + 1 = j
    BY <1>1
  <2> QED
    BY <1>1, <2>1
<1> QED
  BY <1>2, <1>3 DEF NotAhead

LEMMA ConsecutiveTail ==
    ASSUME NEW s \in Seq(UpFrame), Consecutive(s), s # <<>>
    PROVE  Consecutive(Tail(s))
  BY TailOf DEF Consecutive

LEMMA AnswersAppend ==
    ASSUME NEW s \in Seq(UpFrame), NEW f \in UpFrame, NEW a \in Nat, NEW b \in Nat,
           Answers(a, s, b), f.gen = IF f.type = "state" THEN b + 1 ELSE b
    PROVE  Answers(a, Append(s, f), f.gen)
<1> DEFINE t == Append(s, f)
<1>1. t \in Seq(UpFrame) /\ Len(t) = Len(s) + 1 /\ t[Len(t)] = f /\ t # <<>>
      /\ \A i \in 1..Len(s) : t[i] = s[i]
  OBVIOUS
<1>2. \A i \in 1..Len(s) : s[i] \in UpFrame /\ s[i].gen \in Nat
  <2>1. \A g \in UpFrame : g.gen \in Nat
    BY DEF UpFrame
  <2> QED
    BY <2>1
<1>3. t[1].gen = IF t[1].type = "state" THEN a + 1 ELSE a
  <2>1. CASE s = <<>>
    BY <1>1, <2>1 DEF Answers
  <2>2. CASE s # <<>>
    <3>1. t[1] = s[1]
      BY <1>1, <2>2
    <3> QED
      BY <2>2, <3>1 DEF Answers
  <2> QED
    BY <2>1, <2>2
<1>4. \A i \in 1..(Len(t) - 1) :
         t[i + 1].gen = IF t[i + 1].type = "state" THEN t[i].gen + 1 ELSE t[i].gen
  <2> SUFFICES ASSUME NEW i \in 1..Len(s)
               PROVE  t[i + 1].gen = IF t[i + 1].type = "state" THEN t[i].gen + 1 ELSE t[i].gen
    BY <1>1
  <2>1. CASE i < Len(s)
    <3>1. t[i] = s[i] /\ t[i + 1] = s[i + 1] /\ i \in 1..(Len(s) - 1)
      BY <1>1, <2>1
    <3> QED
      BY <3>1 DEF Answers
  <2>2. CASE i = Len(s)
    <3>1. s # <<>> /\ t[i] = s[Len(s)] /\ t[i + 1] = f
      BY <1>1, <2>2
    <3> QED
      BY <3>1 DEF Answers
  <2> QED
    BY <2>1, <2>2
<1>5. b <= f.gen /\ f.gen \in Nat
  BY DEF UpFrame
<1>6. \A i \in 1..Len(t) : t[i].gen <= f.gen
  <2> SUFFICES ASSUME NEW i \in 1..Len(t) PROVE t[i].gen <= f.gen
    OBVIOUS
  <2>1. CASE i \in 1..Len(s)
    BY <1>1, <1>2, <1>5, <2>1 DEF Answers
  <2>2. CASE i = Len(t)
    BY <1>1, <1>5, <2>2
  <2> QED
    BY <1>1, <2>1, <2>2
<1>7. \A i, j \in 1..Len(t) : (i < j /\ t[j].type = "state") => t[i].gen < t[j].gen
  <2> SUFFICES ASSUME NEW i \in 1..Len(t), NEW j \in 1..Len(t), i < j, t[j].type = "state"
               PROVE  t[i].gen < t[j].gen
    OBVIOUS
  <2>1. i \in 1..Len(s) /\ t[i] = s[i] /\ s[i].gen \in Nat
    BY <1>1, <1>2
  <2>2. CASE j \in 1..Len(s)
    BY <1>1, <2>1, <2>2 DEF Answers
  <2>3. CASE j = Len(t)
    BY <1>1, <2>1, <2>3 DEF Answers
  <2> QED
    BY <1>1, <2>2, <2>3
<1> QED
  BY <1>1, <1>3, <1>4, <1>6, <1>7 DEF Answers

LEMMA AnswersTail ==
    ASSUME NEW s \in Seq(UpFrame), NEW a \in Nat, NEW b \in Nat, Answers(a, s, b), s # <<>>
    PROVE  /\ Head(s).gen = IF Head(s).type = "state" THEN a + 1 ELSE a
           /\ Head(s).gen <= b
           /\ Answers(Head(s).gen, Tail(s), b)
<1> DEFINE t == Tail(s)
<1>1. Head(s) = s[1] /\ Len(s) > 0
  BY TailOf
<1>2. t = <<>> => Head(s).gen = b
  BY TailOf DEF Answers
<1>3. t # <<>> =>
         /\ t[1].gen = IF t[1].type = "state" THEN Head(s).gen + 1 ELSE Head(s).gen
         /\ t[Len(t)].gen = b
  <2> SUFFICES ASSUME t # <<>>
               PROVE  /\ t[1].gen = IF t[1].type = "state" THEN Head(s).gen + 1 ELSE Head(s).gen
                      /\ t[Len(t)].gen = b
    OBVIOUS
  <2>1. Len(s) > 1 /\ t[Len(t)] = s[Len(s)] /\ t[1] = s[1 + 1] /\ Head(s) = s[1]
    BY TailOf
  <2>2. 1 \in 1..(Len(s) - 1)
    BY <2>1
  <2> QED
    BY <2>1, <2>2 DEF Answers
<1>4. \A i \in 1..(Len(t) - 1) :
         t[i + 1].gen = IF t[i + 1].type = "state" THEN t[i].gen + 1 ELSE t[i].gen
  <2> SUFFICES ASSUME NEW i \in 1..(Len(t) - 1)
               PROVE  t[i + 1].gen = IF t[i + 1].type = "state" THEN t[i].gen + 1 ELSE t[i].gen
    OBVIOUS
  <2>1. t[i] = s[i + 1] /\ t[i + 1] = s[(i + 1) + 1] /\ i + 1 \in 1..(Len(s) - 1)
    BY TailOf
  <2> QED
    BY <2>1 DEF Answers
<1>5. \A i \in 1..Len(t) : t[i].gen <= b
  BY TailOf DEF Answers
<1>6. \A i, j \in 1..Len(t) : (i < j /\ t[j].type = "state") => t[i].gen < t[j].gen
  <2> SUFFICES ASSUME NEW i \in 1..Len(t), NEW j \in 1..Len(t), i < j, t[j].type = "state"
               PROVE  t[i].gen < t[j].gen
    OBVIOUS
  <2>1. t[i] = s[i + 1] /\ t[j] = s[j + 1] /\ i + 1 \in 1..Len(s) /\ j + 1 \in 1..Len(s)
    BY TailOf
  <2> QED
    BY <2>1 DEF Answers
<1> QED
  BY <1>1, <1>2, <1>3, <1>4, <1>5, <1>6 DEF Answers

-----------------------------------------------------------------------------
(* LinkInv is inductive.                                                   *)

LEMMA LinkInit == Init => LinkInv
<1> SUFFICES ASSUME Init PROVE LinkInv
  OBVIOUS
<1> USE DEF Init
<1>1. CountersInv
  BY DEF CountersInv, RecordedOnceInOrder
<1>2. ReplaysInv
  BY DEF ReplaysInv, Answers, StartsSent
<1>3. FeedInv
  BY DEF FeedInv, Consecutive, NotAhead
<1>4. StreamInv
  BY DEF StreamInv, Path, EndOfUp
<1>5. AcksInv
  BY DEF AcksInv
<1>6. QueuesInv
  BY DEF QueuesInv, Path, Genuine
<1> QED
  BY <1>1, <1>2, <1>3, <1>4, <1>5, <1>6 DEF LinkInv

\* The variables each part of LinkInv is about.
countersVars == <<failed, rAcked, acked, podSeq, delivered, emitted, recorded>>
replaysVars  == <<feed, frames, replays, replayStarts>>
feedVars     == <<feed, delivered, cursor, emitted, frames>>
streamVars   == <<io, ioUp, ioDown, delivered, replays, replayStarts, feed, cursor, frames>>
acksVars     == <<ioDown, strays, podSeq>>
queuesVars   == <<podSeq, inbox, delivered, emitted, ioUp, frames>>

LEMMA LinkUnchanged ==
    /\ CountersInv /\ UNCHANGED countersVars => CountersInv'
    /\ ReplaysInv /\ UNCHANGED replaysVars => ReplaysInv'
    /\ FeedInv /\ UNCHANGED feedVars => FeedInv'
    /\ StreamInv /\ UNCHANGED streamVars => StreamInv'
    /\ AcksInv /\ UNCHANGED acksVars => AcksInv'
    /\ QueuesInv /\ UNCHANGED queuesVars => QueuesInv'
<1>1. CountersInv /\ UNCHANGED countersVars => CountersInv'
  BY DEF CountersInv, RecordedOnceInOrder, countersVars
<1>2. ReplaysInv /\ UNCHANGED replaysVars => ReplaysInv'
  BY DEF ReplaysInv, StartsSent, Answers, replaysVars
<1>3. FeedInv /\ UNCHANGED feedVars => FeedInv'
  BY DEF FeedInv, Consecutive, NotAhead, feedVars
<1>4. StreamInv /\ UNCHANGED streamVars => StreamInv'
  BY DEF StreamInv, EndOfUp, Path, Follows, Open, streamVars
<1>5. AcksInv /\ UNCHANGED acksVars => AcksInv'
  BY DEF AcksInv, acksVars
<1>6. QueuesInv /\ UNCHANGED queuesVars => QueuesInv'
  BY DEF QueuesInv, Path, Follows, Genuine, queuesVars
<1> QED
  BY <1>1, <1>2, <1>3, <1>4, <1>5, <1>6

\* An event the agent appends disturbs nothing that is under way.
LEMMA LinkEmit ==
    ASSUME TypeOK, TypeOK', LinkInv, Len(emitted) <= Len(emitted'),
           \A i \in 1..Len(emitted) : emitted'[i] = emitted[i],
           UNCHANGED <<rAcked, feed, cursor, sidecarVars, wireVars, serverVars,
                       storeVars, faultVars>>
    PROVE  LinkInv'
<1>s. /\ emitted \in Seq(Event) /\ emitted' \in Seq(Event) /\ recorded \in Seq(Event)
      /\ inbox \in Seq(UpFrame) /\ ioUp \in Seq(UpFrame) /\ frames \in Seq(UpFrame)
  BY DEF TypeOK, RunnerType, ServerType, WireType, SidecarType, StoreType
<1>t. /\ Len(emitted) \in Nat /\ Len(emitted') \in Nat /\ podSeq \in Nat
      /\ delivered \in Nat /\ cursor \in Nat
  BY <1>s DEF TypeOK, RunnerType, ServerType, StoreType
<1>u. UNCHANGED <<rAcked, feed, cursor, frames, replays, replayStarts, strays, io, ioUp,
                  ioDown, delivered, acked, inbox, podSeq, recorded, failed>>
  BY DEF sidecarVars, wireVars, serverVars, storeVars, faultVars
<1>1. CountersInv'
  <2>1. \A i \in 1..Len(recorded) : i \in 1..Len(emitted) /\ recorded[i] = emitted[i]
    BY <1>s, <1>t DEF LinkInv, CountersInv, RecordedOnceInOrder
  <2>2. \A i \in 1..Len(recorded') : recorded'[i] = emitted'[i]
    BY <1>u, <2>1
  <2> QED
    BY <1>t, <1>u, <2>2 DEF LinkInv, CountersInv, RecordedOnceInOrder
<1>2. ReplaysInv' /\ StreamInv' /\ AcksInv'
  BY <1>u, LinkUnchanged DEF LinkInv, replaysVars, streamVars, acksVars
<1>3. FeedInv'
  <2>1. Consecutive(frames)' /\ (feed = "on" => NotAhead(frames, cursor)')
    BY <1>u DEF LinkInv, FeedInv, Consecutive, NotAhead
  <2> QED
    BY <1>t, <1>u, <2>1 DEF LinkInv, FeedInv
<1>4. QueuesInv'
  <2>1. Path(podSeq, inbox, delivered)' /\ (\A i \in 1..Len(inbox) : inbox[i].seq <= delivered)'
    BY <1>u DEF LinkInv, QueuesInv, Path, Follows
  <2>2. Genuine(inbox, emitted') /\ Genuine(ioUp, emitted') /\ Genuine(frames, emitted')
    BY <1>s, GenuineGrows DEF LinkInv, QueuesInv
  <2>3. Genuine(inbox, emitted)' /\ Genuine(ioUp, emitted)' /\ Genuine(frames, emitted)'
    BY <1>u, <2>2 DEF Genuine
  <2> QED
    BY <2>1, <2>3 DEF QueuesInv
<1> QED
  BY <1>1, <1>2, <1>3, <1>4 DEF LinkInv

\* The types of what LinkInv is about.
LEMMA LinkTypes ==
    ASSUME TypeOK
    PROVE  /\ emitted \in Seq(Event) /\ recorded \in Seq(Event)
           /\ inbox \in Seq(UpFrame) /\ ioUp \in Seq(UpFrame) /\ frames \in Seq(UpFrame)
           /\ ioDown \in Seq(DownFrame) /\ strays \in Seq(DownFrame)
           /\ rAcked \in Nat /\ acked \in Nat /\ podSeq \in Nat /\ delivered \in Nat
           /\ cursor \in Nat /\ replays \in Nat /\ replayStarts \in Nat
           /\ feed \in {"off", "starting", "on"}
           /\ io \in {"down", "opening", "replaying", "live"}
  BY DEF TypeOK, RunnerType, ServerType, WireType, SidecarType, StoreType

\* A frame's numbers and kinds.
LEMMA UpFrameFields ==
    \A f \in UpFrame : /\ f.seq \in Nat /\ f.gen \in Nat /\ f.ev \in Event
                       /\ f.type \in {"state", "event"}
  BY DEF UpFrame

\* Adding a frame at the end of a queue.
LEMMA AppendTo ==
    ASSUME NEW S, NEW s \in Seq(S), NEW e \in S
    PROVE  /\ Append(s, e) \in Seq(S) /\ Len(Append(s, e)) = Len(s) + 1
           /\ Append(s, e) # <<>>
           /\ Append(s, e)[Len(s) + 1] = e
           /\ \A i \in 1..Len(s) : Append(s, e)[i] = s[i]
           /\ \A i \in 1..Len(Append(s, e)) : i \in 1..Len(s) \/ i = Len(s) + 1
  OBVIOUS

LEMMA EndOfUpType == TypeOK => EndOfUp \in Nat
<1> SUFFICES ASSUME TypeOK PROVE EndOfUp \in Nat
  OBVIOUS
<1>1. CASE ioUp = <<>>
  BY <1>1, LinkTypes DEF EndOfUp
<1>2. CASE ioUp # <<>>
  <2>1. ioUp \in Seq(UpFrame)
    BY LinkTypes
  <2>2. ioUp[Len(ioUp)] \in UpFrame
    BY <1>2, <2>1
  <2> QED
    BY <1>2, <2>2, UpFrameFields DEF EndOfUp
<1> QED
  BY <1>1, <1>2

LEMMA LinkFeedStart == TypeOK /\ LinkInv /\ FeedStart => LinkInv'
<1> SUFFICES ASSUME TypeOK, LinkInv, FeedStart PROVE LinkInv'
  OBVIOUS
<1> DEFINE f == StateFrame(cursor, replays)
<1>t. frames \in Seq(UpFrame) /\ cursor \in Nat /\ replays \in Nat /\ replayStarts \in Nat
  BY LinkTypes
<1>f. f \in UpFrame
  BY <1>t, FrameTypes
<1>g. f.type = "state" /\ f.seq = cursor /\ f.gen = replays
  BY DEF StateFrame
<1> HIDE DEF f
<1>u. /\ feed = "starting" /\ feed' = "on" /\ frames' = Append(frames, f)
      /\ UNCHANGED <<emitted, rAcked, cursor, replays, replayStarts, strays, io, ioUp, ioDown,
                     delivered, acked, inbox, podSeq, recorded, failed>>
  BY DEF FeedStart, f, wireVars, serverVars, storeVars, faultVars
<1>a. /\ frames'[Len(frames')] = f /\ frames' # <<>>
      /\ \A i \in 1..Len(frames') : i \in 1..Len(frames) \/ frames'[i] = f
      /\ \A i \in 1..Len(frames) : frames'[i] = frames[i]
  BY <1>t, <1>f, <1>u, AppendTo
<1>b. replays - 1 \in Nat /\ Answers(replayStarts, frames, replays - 1)
  BY <1>t, <1>u DEF LinkInv, ReplaysInv, StartsSent
<1>1. ReplaysInv'
  <2>1. Answers(replayStarts, frames', replays)
    BY <1>b, <1>t, <1>f, <1>g, <1>u, AnswersAppend
  <2>2. Answers(replayStarts, frames, StartsSent)'
    BY <1>u, <2>1 DEF StartsSent, Answers
  <2> QED
    BY <1>u, <2>2 DEF ReplaysInv
<1>2. FeedInv'
  <2>1. Consecutive(frames')
    BY <1>t, <1>f, <1>g, <1>u, ConsecutiveAppend DEF LinkInv, FeedInv
  <2>2. Consecutive(frames)'
    BY <2>1 DEF Consecutive
  <2>3. NotAhead(frames', cursor)
    BY <1>t, <1>f, <1>g, <1>u, NotAheadAppend
  <2>4. NotAhead(frames, cursor)'
    BY <1>u, <2>3 DEF NotAhead
  <2> QED
    BY <1>u, <1>a, <1>g, <2>2, <2>4 DEF LinkInv, FeedInv
<1>3. StreamInv'
  <2>1. io # "live"
    BY <1>u DEF LinkInv, StreamInv
  <2>2. io = "replaying" => /\ replayStarts < replays /\ cursor = delivered
                            /\ \A i \in 1..Len(frames') :
                                  (frames'[i].type = "state" /\ frames'[i].gen = replays)
                                      => frames'[i].seq = delivered
    BY <1>u, <1>a, <1>g DEF LinkInv, StreamInv
  <2> QED
    BY <1>u, <2>1, <2>2 DEF LinkInv, StreamInv, Open
<1>4. QueuesInv'
  <2>1. Genuine(frames', emitted)
    BY <1>t, <1>f, <1>g, <1>u, GenuineAppend DEF LinkInv, QueuesInv
  <2>2. Genuine(frames, emitted)'
    BY <1>u, <2>1 DEF Genuine
  <2> QED
    BY <1>u, <2>2 DEF LinkInv, QueuesInv, Path, Follows, Genuine
<1>5. CountersInv' /\ AcksInv'
  BY <1>u, LinkUnchanged DEF LinkInv, countersVars, acksVars
<1> QED
  BY <1>1, <1>2, <1>3, <1>4, <1>5 DEF LinkInv

LEMMA LinkFeedEvent == TypeOK /\ LinkInv /\ FeedEvent => LinkInv'
<1> SUFFICES ASSUME TypeOK, LinkInv, FeedEvent PROVE LinkInv'
  OBVIOUS
<1> DEFINE f == EventFrame(cursor + 1, replays)
<1>t. frames \in Seq(UpFrame) /\ cursor \in Nat /\ replays \in Nat /\ replayStarts \in Nat
      /\ emitted \in Seq(Event) /\ delivered \in Nat /\ rAcked \in Nat /\ podSeq \in Nat
      /\ ioUp \in Seq(UpFrame)
  BY LinkTypes
<1>l. Len(emitted) \in Nat
  BY <1>t
<1>r. feed = "on" /\ Replayable(cursor)
  BY <1>t, <1>l DEF FeedEvent, LinkInv, FeedInv, CountersInv, Replayable
<1>c. cursor + 1 \in 1..Len(emitted)
  BY <1>t, <1>l, <1>r DEF FeedEvent
<1>f. f \in UpFrame
  BY <1>t, <1>c, FrameTypes
<1>g. f.type = "event" /\ f.seq = cursor + 1 /\ f.gen = replays /\ f.ev = emitted[cursor + 1]
  BY DEF EventFrame
<1> HIDE DEF f
<1>u. /\ feed = "on" /\ frames' = Append(frames, f) /\ cursor' = cursor + 1
      /\ UNCHANGED <<feed, emitted, rAcked, replays, replayStarts, strays, io, ioUp, ioDown,
                     delivered, acked, inbox, podSeq, recorded, failed>>
  BY <1>r DEF FeedEvent, f, wireVars, serverVars, storeVars
<1>a. /\ frames'[Len(frames')] = f /\ frames' # <<>>
      /\ \A i \in 1..Len(frames') : i \in 1..Len(frames) \/ frames'[i] = f
      /\ \A i \in 1..Len(frames) : frames'[i] = frames[i]
  BY <1>t, <1>f, <1>u, AppendTo
<1>1. ReplaysInv'
  <2>1. Answers(replayStarts, frames, replays)
    BY <1>u DEF LinkInv, ReplaysInv, StartsSent
  <2>2. Answers(replayStarts, frames', replays)
    BY <2>1, <1>t, <1>f, <1>g, <1>u, AnswersAppend
  <2>3. Answers(replayStarts, frames, StartsSent)'
    BY <1>u, <2>2 DEF StartsSent, Answers
  <2> QED
    BY <1>u, <2>3 DEF ReplaysInv
<1>2. FeedInv'
  <2>1. Consecutive(frames')
    BY <1>t, <1>f, <1>g, <1>u, ConsecutiveAppend DEF LinkInv, FeedInv
  <2>2. Consecutive(frames)'
    BY <2>1 DEF Consecutive
  <2>3. delivered <= cursor + 1 /\ cursor + 1 <= Len(emitted)
    BY <1>t, <1>l, <1>c, <1>u DEF LinkInv, FeedInv
  <2>4. NotAhead(frames', cursor + 1)
    <3>1. NotAhead(frames, cursor) /\ cursor <= cursor + 1 /\ cursor + 1 \in Nat
      BY <1>t, <1>u DEF LinkInv, FeedInv
    <3> QED
      BY <1>t, <1>f, <1>g, <1>u, <3>1, NotAheadAppend
  <2>5. NotAhead(frames, cursor)'
    BY <1>u, <2>4 DEF NotAhead
  <2> QED
    BY <1>u, <1>a, <1>g, <2>2, <2>3, <2>5 DEF FeedInv
<1>3. StreamInv'
  <2>1. io = "replaying" => /\ replayStarts < replays
                            /\ \A i \in 1..Len(frames') :
                                  (frames'[i].type = "state" /\ frames'[i].gen = replays)
                                      => frames'[i].seq = delivered
    BY <1>u, <1>a, <1>g DEF LinkInv, StreamInv
  <2>2. ASSUME io = "live"
        PROVE  /\ replayStarts = replays
               /\ \A i \in 1..Len(frames') : frames'[i].type = "event"
               /\ Path(delivered, ioUp, EndOfUp)
               /\ \A i \in 1..Len(ioUp) : ioUp[i].seq <= EndOfUp
               /\ Path(EndOfUp, frames', cursor + 1) /\ EndOfUp <= cursor + 1
    <3>1. EndOfUp \in Nat
      BY EndOfUpType
    <3>2. Path(EndOfUp, frames, cursor) /\ Path(delivered, ioUp, EndOfUp)
          /\ EndOfUp <= cursor /\ \A i \in 1..Len(ioUp) : ioUp[i].seq <= EndOfUp
      BY <2>2 DEF LinkInv, StreamInv
    <3>5. EndOfUp <= cursor + 1
      BY <1>t, <3>1, <3>2
    <3>3. Follows(cursor, f)
      BY <1>g DEF Follows
    <3>4. Path(EndOfUp, frames', f.seq)
      BY <1>t, <1>f, <1>u, <3>1, <3>2, <3>3, PathAppend
    <3> QED
      BY <1>a, <1>g, <1>u, <2>2, <3>2, <3>4, <3>5 DEF LinkInv, StreamInv
  <2>3. EndOfUp' = EndOfUp
    BY <1>u DEF EndOfUp
  <2>4. io = "live" => /\ Path(delivered, ioUp, EndOfUp)' /\ Path(EndOfUp, frames, cursor)'
                       /\ (EndOfUp <= cursor)'
                       /\ (\A i \in 1..Len(ioUp) : ioUp[i].seq <= EndOfUp)'
    BY <1>u, <2>2, <2>3 DEF Path, Follows
  <2> QED
    BY <1>u, <2>1, <2>2, <2>4 DEF LinkInv, StreamInv, Open
<1>4. QueuesInv'
  <2>1. Genuine(frames', emitted)
    BY <1>t, <1>c, <1>f, <1>g, <1>u, GenuineAppend DEF LinkInv, QueuesInv
  <2>2. Genuine(frames, emitted)'
    BY <1>u, <2>1 DEF Genuine
  <2> QED
    BY <1>u, <2>2 DEF LinkInv, QueuesInv, Path, Follows, Genuine
<1>5. CountersInv' /\ AcksInv'
  BY <1>u, LinkUnchanged DEF LinkInv, countersVars, acksVars
<1> QED
  BY <1>1, <1>2, <1>3, <1>4, <1>5 DEF LinkInv

LEMMA LinkOpenIO == TypeOK /\ LinkInv /\ OpenIO => LinkInv'
<1> SUFFICES ASSUME TypeOK, LinkInv, OpenIO PROVE LinkInv'
  OBVIOUS
<1>u. /\ io = "down" /\ io' = "opening" /\ ioDown' = <<Open(delivered)>>
      /\ UNCHANGED <<feed, cursor, frames, emitted, rAcked, replays, replayStarts, strays, ioUp,
                     delivered, acked, inbox, podSeq, recorded, failed>>
  BY DEF OpenIO, runnerVars, sidecarVars, storeVars, faultVars
<1>1. StreamInv'
  BY <1>u DEF LinkInv, StreamInv, Open
<1>2. AcksInv'
  BY <1>u DEF LinkInv, AcksInv, Open
<1>3. CountersInv' /\ ReplaysInv' /\ FeedInv' /\ QueuesInv'
  BY <1>u, LinkUnchanged DEF LinkInv, countersVars, replaysVars, feedVars, queuesVars
<1> QED
  BY <1>1, <1>2, <1>3 DEF LinkInv

\* The runner has every event after the one the server names in Open.
LEMMA LinkSidecarOpen == TypeOK /\ LinkInv /\ SidecarOpen => LinkInv'
<1> SUFFICES ASSUME TypeOK, LinkInv, SidecarOpen PROVE LinkInv'
  OBVIOUS
<1>t. frames \in Seq(UpFrame) /\ replays \in Nat /\ replayStarts \in Nat
      /\ emitted \in Seq(Event) /\ delivered \in Nat /\ rAcked \in Nat /\ podSeq \in Nat
      /\ ioDown \in Seq(DownFrame)
  BY LinkTypes
<1>l. Len(emitted) \in Nat
  BY <1>t
<1>h. Head(ioDown).n = delivered
  BY <1>t DEF SidecarOpen, LinkInv, StreamInv, Open
<1>r. Replayable(delivered)
  BY <1>t, <1>l DEF LinkInv, CountersInv, Replayable
<1>u. /\ io = "opening" /\ io' = "replaying" /\ feed # "starting" /\ feed' = "starting"
      /\ ioDown # <<>> /\ ioDown' = Tail(ioDown) /\ cursor' = delivered
      /\ replays' = replays + 1
      /\ UNCHANGED <<frames, emitted, rAcked, replayStarts, strays, ioUp,
                     delivered, acked, inbox, podSeq, recorded, failed>>
  BY <1>h, <1>r DEF SidecarOpen, serverVars, storeVars
<1>b. Answers(replayStarts, frames, replays)
  BY <1>u DEF LinkInv, ReplaysInv, StartsSent
<1>1. ReplaysInv'
  <2>1. StartsSent' = replays
    BY <1>t, <1>u DEF StartsSent
  <2>2. Answers(replayStarts, frames, StartsSent)'
    BY <1>b, <1>u, <2>1 DEF Answers
  <2> QED
    BY <1>t, <1>u, <2>2 DEF ReplaysInv
<1>2. FeedInv'
  <2>1. Consecutive(frames)'
    BY <1>u DEF LinkInv, FeedInv, Consecutive
  <2> QED
    BY <1>t, <1>u, <2>1 DEF LinkInv, FeedInv, CountersInv
<1>3. StreamInv'
  <2>1. \A i \in 1..Len(frames) : frames[i].gen \in Nat /\ frames[i].gen <= replays
    BY <1>b, <1>t, UpFrameFields DEF Answers
  <2>2. \A i \in 1..Len(frames) : frames[i].gen # replays + 1
    BY <1>t, <2>1
  <2>3. replayStarts <= replays
    <3>1. CASE frames = <<>>
      BY <1>b, <1>t, <3>1 DEF Answers
    <3>2. CASE frames # <<>>
      <4>1. Head(frames).gen <= replays
            /\ Head(frames).gen = IF Head(frames).type = "state" THEN replayStarts + 1
                                                                 ELSE replayStarts
        BY <1>b, <1>t, <3>2, AnswersTail
      <4> QED
        BY <1>t, <4>1
    <3> QED
      BY <3>1, <3>2
  <2>4. replayStarts < replays + 1
    BY <1>t, <2>3
  <2> QED
    BY <1>u, <2>2, <2>4 DEF LinkInv, StreamInv
<1>4. AcksInv'
  <2>1. \A i \in 1..Len(Tail(ioDown)) : i + 1 \in 1..Len(ioDown) /\ Tail(ioDown)[i] = ioDown[i + 1]
    BY <1>t, <1>u, TailOf
  <2> QED
    BY <1>u, <2>1 DEF LinkInv, AcksInv
<1>5. CountersInv' /\ QueuesInv'
  BY <1>u, LinkUnchanged DEF LinkInv, countersVars, queuesVars
<1> QED
  BY <1>1, <1>2, <1>3, <1>4, <1>5 DEF LinkInv

LEMMA LinkSidecarForward == TypeOK /\ LinkInv /\ SidecarForward => LinkInv'
<1> SUFFICES ASSUME TypeOK, LinkInv, SidecarForward PROVE LinkInv'
  OBVIOUS
<1> DEFINE f == Head(frames)
<1>t. frames \in Seq(UpFrame) /\ replays \in Nat /\ replayStarts \in Nat /\ ioUp \in Seq(UpFrame)
      /\ emitted \in Seq(Event) /\ delivered \in Nat /\ cursor \in Nat
      /\ feed \in {"off", "starting", "on"}
  BY LinkTypes
<1>e. frames # <<>> /\ io \in {"replaying", "live"}
  BY DEF SidecarForward
<1>f. f \in UpFrame /\ f = frames[1] /\ f.seq \in Nat /\ f.gen \in Nat
      /\ f.type \in {"state", "event"}
  BY <1>t, <1>e, TailOf, UpFrameFields
<1>a. /\ \A i \in 1..Len(Tail(frames)) :
            i + 1 \in 1..Len(frames) /\ Tail(frames)[i] = frames[i + 1]
      /\ Tail(frames) # <<>> => Tail(frames)[Len(Tail(frames))] = frames[Len(frames)]
      /\ Tail(frames) = <<>> => Len(frames) = 1
  BY <1>t, <1>e, TailOf
<1>u. /\ frames' = Tail(frames)
      /\ UNCHANGED <<feed, cursor, emitted, rAcked, replays, strays, ioDown,
                     delivered, acked, inbox, podSeq, recorded, failed>>
  BY DEF SidecarForward, runnerVars, serverVars, storeVars, faultVars
<1>s. StartsSent \in Nat /\ StartsSent <= replays /\ StartsSent' = StartsSent
      /\ (StartsSent = replays => feed # "starting")
  BY <1>t, <1>u DEF StartsSent, LinkInv, ReplaysInv
<1>b. /\ f.gen = IF f.type = "state" THEN replayStarts + 1 ELSE replayStarts
      /\ f.gen <= StartsSent
      /\ Answers(f.gen, Tail(frames), StartsSent)
  BY <1>t, <1>e, <1>s, AnswersTail DEF LinkInv, ReplaysInv
<1>w. replayStarts' = f.gen
  BY <1>b, <1>f DEF SidecarForward
<1>1. ReplaysInv'
  <2>1. Answers(replayStarts, frames, StartsSent)'
    BY <1>b, <1>u, <1>s, <1>w DEF Answers
  <2>2. feed # "off"
    BY <1>e DEF LinkInv, ReplaysInv
  <2> QED
    BY <1>u, <2>1, <2>2 DEF LinkInv, ReplaysInv
<1>2. FeedInv'
  <2>1. Consecutive(frames')
    BY <1>t, <1>e, <1>u, ConsecutiveTail DEF LinkInv, FeedInv
  <2>2. Consecutive(frames)'
    BY <2>1 DEF Consecutive
  <2>3. feed = "on" => NotAhead(frames', cursor)
    BY <1>t, <1>e, <1>u, NotAheadTail DEF LinkInv, FeedInv
  <2>4. feed = "on" => NotAhead(frames, cursor)'
    BY <1>u, <2>3 DEF NotAhead
  <2> QED
    BY <1>u, <1>a, <1>e, <2>2, <2>4 DEF LinkInv, FeedInv
<1>3. StreamInv' /\ Genuine(ioUp', emitted)
  <2>g. Genuine(ioUp, emitted)
        /\ (f.type = "event" => f.seq \in 1..Len(emitted) /\ f.ev = emitted[f.seq])
    <3>1. 1 \in 1..Len(frames)
      BY <1>t, <1>e
    <3> QED
      BY <1>f, <3>1 DEF LinkInv, QueuesInv, Genuine
  <2>1. CASE io = "replaying" /\ f.type = "event"
    <3>1. UNCHANGED <<io, ioUp, replayStarts>>
      BY <2>1 DEF SidecarForward
    <3>2. \A i \in 1..Len(frames') :
             (frames'[i].type = "state" /\ frames'[i].gen = replays) => frames'[i].seq = delivered
      BY <1>a, <1>u, <2>1 DEF LinkInv, StreamInv
    <3>3. StreamInv'
      BY <1>u, <2>1, <3>1, <3>2 DEF LinkInv, StreamInv
    <3> QED
      BY <2>g, <3>1, <3>3
  <2>2. CASE io = "replaying" /\ f.type = "state" /\ f.gen < replays
    <3>1. UNCHANGED <<io, ioUp>>
      BY <1>w, <2>2 DEF SidecarForward, Stale
    <3>2. \A i \in 1..Len(frames') :
             (frames'[i].type = "state" /\ frames'[i].gen = replays) => frames'[i].seq = delivered
      BY <1>a, <1>u, <2>2 DEF LinkInv, StreamInv
    <3>3. StreamInv'
      BY <1>u, <1>w, <2>2, <3>1, <3>2 DEF LinkInv, StreamInv
    <3> QED
      BY <2>g, <3>1, <3>3
  <2>3. CASE io = "replaying" /\ f.type = "state" /\ f.gen = replays
    <3>1. io' = "live" /\ ioUp' = Append(ioUp, f) /\ ioUp = <<>>
      BY <1>t, <1>w, <2>3 DEF SidecarForward, Stale, LinkInv, StreamInv
    <3>2. ioUp' = <<f>> /\ EndOfUp' = f.seq
      BY <3>1 DEF EndOfUp
    <3>3. f.seq = delivered
      <4>1. 1 \in 1..Len(frames)
        BY <1>t, <1>e
      <4> QED
        BY <1>f, <2>3, <4>1 DEF LinkInv, StreamInv
    <3>4. feed = "on" /\ StartsSent = replays
      BY <1>t, <1>s, <1>b, <2>3, <1>e DEF LinkInv, ReplaysInv
    <3>5. \A i \in 1..Len(frames') : frames'[i].type = "event"
      <4> SUFFICES ASSUME NEW i \in 1..Len(frames') PROVE frames'[i].type = "event"
        OBVIOUS
      <4>1. i + 1 \in 1..Len(frames) /\ 1 \in 1..Len(frames) /\ 1 < i + 1
            /\ frames'[i] = frames[i + 1]
        BY <1>a, <1>t, <1>e, <1>u
      <4>2. frames[i + 1] \in UpFrame
        BY <1>t, <4>1
      <4>3. frames[i + 1].gen \in Nat /\ frames[i + 1].type \in {"state", "event"}
        BY <4>2, UpFrameFields
      <4>4. frames[i + 1].gen <= replays
        BY <3>4, <4>1 DEF LinkInv, ReplaysInv, Answers
      <4>5. frames[i + 1].type = "state" => frames[1].gen < frames[i + 1].gen
        BY <4>1 DEF LinkInv, ReplaysInv, Answers
      <4> QED
        BY <1>f, <1>t, <2>3, <4>1, <4>3, <4>4, <4>5
    <3>6. Path(delivered, ioUp, EndOfUp)'
      BY <1>u, <2>3, <3>2, <3>3 DEF Path, Follows
    <3>7. Path(f.seq, frames', cursor)
      <4>1. frames' = <<>> => f.seq = cursor
        BY <1>a, <1>e, <1>f, <1>u, <3>4 DEF LinkInv, FeedInv
      <4>2. frames' # <<>> => Follows(f.seq, frames'[1]) /\ frames'[Len(frames')].seq = cursor
        <5> SUFFICES ASSUME frames' # <<>>
                     PROVE  Follows(f.seq, frames'[1]) /\ frames'[Len(frames')].seq = cursor
          OBVIOUS
        <5>1. 1 \in 1..Len(frames') /\ 1 \in 1..(Len(frames) - 1)
          BY <1>t, <1>u, TailOf
        <5>2. frames'[1] = frames[1 + 1] /\ frames'[1].type = "event"
          BY <1>a, <1>u, <3>5, <5>1
        <5>3. frames'[1].seq = f.seq + 1
          BY <1>f, <5>1, <5>2 DEF LinkInv, FeedInv, Consecutive
        <5>4. frames'[Len(frames')].seq = cursor
          BY <1>a, <1>e, <1>u, <3>4 DEF LinkInv, FeedInv
        <5> QED
          BY <5>2, <5>3, <5>4 DEF Follows
      <4>3. \A i \in 1..(Len(frames') - 1) : Follows(frames'[i].seq, frames'[i + 1])
        <5>1. Consecutive(frames')
          BY <1>2 DEF FeedInv, Consecutive
        <5>2. \A i \in 1..(Len(frames') - 1) : i + 1 \in 1..Len(frames')
          BY <1>t, <1>u, TailOf
        <5> QED
          BY <3>5, <5>1, <5>2 DEF Follows, Consecutive
      <4> QED
        BY <4>1, <4>2, <4>3 DEF Path
    <3>8. Path(EndOfUp, frames, cursor)'
      BY <1>u, <3>2, <3>7 DEF Path, Follows
    <3>11. EndOfUp' <= cursor'
      <4>1. 1 \in 1..Len(frames) /\ \A j \in (1 + 1)..Len(frames) :
                                        j - 1 \in 1..Len(frames') /\ frames[j] = frames'[j - 1]
        BY <1>t, <1>e, <1>u, TailOf
      <4>2. \A j \in (1 + 1)..Len(frames) : frames[j].type = "event"
        BY <3>5, <4>1
      <4> QED
        BY <1>f, <1>u, <3>2, <3>4, <4>1, <4>2 DEF LinkInv, FeedInv, NotAhead
    <3>12. (\A i \in 1..Len(ioUp) : ioUp[i].seq <= EndOfUp)'
      BY <1>f, <3>2
    <3>9. StreamInv'
      BY <1>u, <1>w, <2>3, <3>1, <3>4, <3>5, <3>6, <3>8, <3>11, <3>12 DEF StreamInv
    <3>10. Genuine(ioUp', emitted)
      BY <1>t, <1>f, <2>g, <3>1, GenuineAppend
    <3> QED
      BY <3>9, <3>10
  <2>4. CASE io = "live"
    <3>1. f.type = "event" /\ Path(EndOfUp, frames, cursor) /\ Path(delivered, ioUp, EndOfUp)
          /\ replayStarts = replays /\ feed = "on"
      <4>1. 1 \in 1..Len(frames)
        BY <1>t, <1>e
      <4> QED
        BY <1>f, <2>4, <4>1 DEF LinkInv, StreamInv
    <3>2. io' = "live" /\ ioUp' = Append(ioUp, f) /\ replayStarts' = replayStarts
      BY <2>4, <3>1 DEF SidecarForward
    <3>3. EndOfUp \in Nat
      BY EndOfUpType
    <3>4. Follows(EndOfUp, f) /\ Path(f.seq, Tail(frames), cursor)
      BY <1>t, <1>e, <3>1, <3>3, PathTail
    <3>5. Path(delivered, ioUp', f.seq)
      BY <1>t, <1>f, <3>1, <3>2, <3>3, <3>4, PathAppend
    <3>6. EndOfUp' = f.seq
      <4>1. ioUp' # <<>> /\ ioUp'[Len(ioUp')] = f
        BY <1>t, <1>f, <3>2, AppendTo
      <4> QED
        BY <4>1 DEF EndOfUp
    <3>7. Path(delivered, ioUp, EndOfUp)' /\ Path(EndOfUp, frames, cursor)'
      BY <1>u, <3>4, <3>5, <3>6 DEF Path, Follows
    <3>8. \A i \in 1..Len(frames') : frames'[i].type = "event"
      BY <1>a, <1>u, <2>4 DEF LinkInv, StreamInv
    <3>11. EndOfUp' <= cursor'
      <4>1. 1 \in 1..Len(frames) /\ \A j \in (1 + 1)..Len(frames) : j \in 1..Len(frames)
        BY <1>t, <1>e
      <4>2. \A j \in (1 + 1)..Len(frames) : frames[j].type = "event"
        BY <2>4, <4>1 DEF LinkInv, StreamInv
      <4> QED
        BY <1>f, <1>u, <3>1, <3>6, <4>1, <4>2 DEF LinkInv, FeedInv, NotAhead
    <3>12. (\A i \in 1..Len(ioUp) : ioUp[i].seq <= EndOfUp)'
      <4>1. EndOfUp <= f.seq
        BY <1>f, <3>3, <3>4 DEF Follows
      <4>2. \A i \in 1..Len(ioUp) : ioUp[i].seq \in Nat /\ ioUp[i].seq <= EndOfUp
        BY <1>t, <2>4, UpFrameFields DEF LinkInv, StreamInv
      <4>3. \A i \in 1..Len(ioUp') : (i \in 1..Len(ioUp) /\ ioUp'[i] = ioUp[i]) \/ ioUp'[i] = f
        BY <1>t, <1>f, <3>2, AppendTo
      <4>4. \A i \in 1..Len(ioUp') : ioUp'[i].seq <= f.seq
        BY <1>f, <3>3, <4>1, <4>2, <4>3
      <4> QED
        BY <3>6, <4>4
    <3>9. StreamInv'
      BY <1>u, <3>1, <3>2, <3>7, <3>8, <3>11, <3>12 DEF StreamInv
    <3>10. Genuine(ioUp', emitted)
      BY <1>t, <1>f, <2>g, <3>2, GenuineAppend
    <3> QED
      BY <3>9, <3>10
  <2> QED
    BY <1>e, <1>f, <1>b, <1>s, <1>t, <2>1, <2>2, <2>3, <2>4
<1>4. QueuesInv'
  <2>1. Genuine(frames', emitted)
    BY <1>t, <1>e, <1>u, GenuineTail DEF LinkInv, QueuesInv
  <2>2. Genuine(frames, emitted)' /\ Genuine(ioUp, emitted)'
    BY <1>u, <1>3, <2>1 DEF Genuine
  <2> QED
    BY <1>u, <2>2 DEF LinkInv, QueuesInv, Path, Follows, Genuine
<1>5. CountersInv' /\ AcksInv'
  BY <1>u, LinkUnchanged DEF LinkInv, countersVars, acksVars
<1> QED
  BY <1>1, <1>2, <1>3, <1>4, <1>5 DEF LinkInv

\* An ack that reaches the runner, on whatever stream, is not ahead of the store.
LEMMA LinkRunnerReceive ==
    ASSUME TypeOK, LinkInv, NEW f \in DownFrame, RunnerReceive(f),
           f.type = "ack" => f.n <= podSeq,
           UNCHANGED <<failed, acked, podSeq, delivered, emitted, recorded>>
    PROVE  CountersInv'
<1>1. rAcked' <= podSeq
  <2>1. rAcked \in Nat /\ f.n \in Nat /\ podSeq \in Nat
    BY LinkTypes DEF DownFrame
  <2> QED
    BY <2>1 DEF RunnerReceive, RunnerAck, LinkInv, CountersInv
<1> QED
  BY <1>1 DEF LinkInv, CountersInv, RecordedOnceInOrder

LEMMA LinkRelay == TypeOK /\ LinkInv /\ Relay => LinkInv'
<1> SUFFICES ASSUME TypeOK, LinkInv, Relay PROVE LinkInv'
  OBVIOUS
<1>t. ioDown \in Seq(DownFrame) /\ ioDown # <<>>
  BY LinkTypes DEF Relay
<1>u. /\ io \in {"replaying", "live"} /\ ioDown' = Tail(ioDown) /\ RunnerReceive(Head(ioDown))
      /\ UNCHANGED <<feed, cursor, emitted, frames, replays, replayStarts, strays, io, ioUp,
                     delivered, acked, inbox, podSeq, recorded, failed>>
  BY DEF Relay, sidecarVars, serverVars, storeVars, faultVars
<1>a. /\ Head(ioDown) \in DownFrame /\ Head(ioDown) = ioDown[1] /\ 1 \in 1..Len(ioDown)
      /\ \A i \in 1..Len(Tail(ioDown)) :
            i + 1 \in 1..Len(ioDown) /\ Tail(ioDown)[i] = ioDown[i + 1]
  BY <1>t, TailOf
<1>1. CountersInv'
  <2>1. Head(ioDown).type = "ack" => Head(ioDown).n <= podSeq
    BY <1>a DEF LinkInv, AcksInv
  <2> QED
    BY <1>a, <1>u, <2>1, LinkRunnerReceive
<1>2. AcksInv'
  BY <1>a, <1>u DEF LinkInv, AcksInv
<1>3. StreamInv'
  BY <1>u DEF LinkInv, StreamInv, EndOfUp, Path, Follows
<1>4. ReplaysInv' /\ FeedInv' /\ QueuesInv'
  BY <1>u, LinkUnchanged DEF LinkInv, replaysVars, feedVars, queuesVars
<1> QED
  BY <1>1, <1>2, <1>3, <1>4 DEF LinkInv

LEMMA LinkStrayRelay == TypeOK /\ LinkInv /\ StrayRelay => LinkInv'
<1> SUFFICES ASSUME TypeOK, LinkInv, StrayRelay PROVE LinkInv'
  OBVIOUS
<1>t. strays \in Seq(DownFrame) /\ strays # <<>>
  BY LinkTypes DEF StrayRelay
<1>u. /\ strays' = Tail(strays) /\ RunnerReceive(Head(strays))
      /\ UNCHANGED <<feed, cursor, emitted, frames, replays, replayStarts, io, ioUp, ioDown,
                     delivered, acked, inbox, podSeq, recorded, failed>>
  BY DEF StrayRelay, wireVars, serverVars, storeVars, faultVars
<1>a. /\ Head(strays) \in DownFrame /\ Head(strays) = strays[1] /\ 1 \in 1..Len(strays)
      /\ \A i \in 1..Len(Tail(strays)) :
            i + 1 \in 1..Len(strays) /\ Tail(strays)[i] = strays[i + 1]
  BY <1>t, TailOf
<1>1. CountersInv'
  <2>1. Head(strays).type = "ack" => Head(strays).n <= podSeq
    BY <1>a DEF LinkInv, AcksInv
  <2> QED
    BY <1>a, <1>u, <2>1, LinkRunnerReceive
<1>2. AcksInv'
  BY <1>a, <1>u DEF LinkInv, AcksInv
<1>3. ReplaysInv' /\ FeedInv' /\ StreamInv' /\ QueuesInv'
  BY <1>u, LinkUnchanged DEF LinkInv, replaysVars, feedVars, streamVars, queuesVars
<1> QED
  BY <1>1, <1>2, <1>3 DEF LinkInv

\* The server puts a prompt, or an ack of what is recorded, behind Open.
LEMMA LinkSend ==
    ASSUME TypeOK, LinkInv, NEW f \in DownFrame, ioDown' = Append(ioDown, f),
           f.type = "ack" => f.n <= podSeq,
           UNCHANGED <<feed, cursor, emitted, rAcked, frames, replays, replayStarts, strays, io,
                       ioUp, delivered, acked, inbox, podSeq, recorded, failed>>
    PROVE  LinkInv'
<1>t. ioDown \in Seq(DownFrame)
  BY LinkTypes
<1>a. /\ ioDown' # <<>> /\ ioDown'[Len(ioDown) + 1] = f
      /\ \A i \in 1..Len(ioDown) : ioDown'[i] = ioDown[i]
      /\ \A i \in 1..Len(ioDown') : i \in 1..Len(ioDown) \/ i = Len(ioDown) + 1
  BY <1>t, AppendTo
<1>1. AcksInv'
  BY <1>a DEF LinkInv, AcksInv
<1>2. StreamInv'
  <2>1. io = "opening" => ioDown'[1] = Open(delivered)
    <3> SUFFICES ASSUME io = "opening" PROVE ioDown'[1] = Open(delivered)
      OBVIOUS
    <3>1. ioDown # <<>> /\ ioDown[1] = Open(delivered)
      BY DEF LinkInv, StreamInv
    <3>2. 1 \in 1..Len(ioDown)
      BY <1>t, <3>1
    <3> QED
      BY <1>a, <3>1, <3>2
  <2> QED
    BY <1>a, <2>1 DEF LinkInv, StreamInv, EndOfUp, Path, Follows, Open
<1>3. CountersInv' /\ ReplaysInv' /\ FeedInv' /\ QueuesInv'
  BY LinkUnchanged DEF LinkInv, countersVars, replaysVars, feedVars, queuesVars
<1> QED
  BY <1>1, <1>2, <1>3 DEF LinkInv

\* The next event the server receives is the one after the last it delivered.
LEMMA LinkServerReceive == TypeOK /\ LinkInv /\ ServerReceive => LinkInv'
<1> SUFFICES ASSUME TypeOK, LinkInv, ServerReceive PROVE LinkInv'
  OBVIOUS
<1> DEFINE f == Head(ioUp)
<1>t. ioUp \in Seq(UpFrame) /\ inbox \in Seq(UpFrame) /\ frames \in Seq(UpFrame)
      /\ emitted \in Seq(Event) /\ delivered \in Nat /\ podSeq \in Nat /\ cursor \in Nat
  BY LinkTypes
<1>l. Len(emitted) \in Nat
  BY <1>t
<1>e. ioUp # <<>> /\ io = "live"
  BY DEF ServerReceive, LinkInv, StreamInv
<1>f. f \in UpFrame /\ f = ioUp[1] /\ 1 \in 1..Len(ioUp) /\ f.seq \in Nat
      /\ f.type \in {"state", "event"}
  BY <1>t, <1>e, TailOf, UpFrameFields
<1>p. /\ Path(delivered, ioUp, EndOfUp) /\ Path(EndOfUp, frames, cursor)
      /\ replayStarts = replays /\ feed = "on" /\ EndOfUp \in Nat
      /\ \A i \in 1..Len(frames) : frames[i].type = "event"
      /\ \A i \in 1..Len(ioUp) : ioUp[i].seq <= EndOfUp
      /\ EndOfUp <= cursor
  BY <1>e, EndOfUpType DEF LinkInv, StreamInv
<1>q. Follows(delivered, f) /\ Path(f.seq, Tail(ioUp), EndOfUp)
  BY <1>t, <1>e, <1>p, PathTail
<1>g. f.type = "event" => f.seq \in 1..Len(emitted) /\ f.ev = emitted[f.seq]
  BY <1>f DEF LinkInv, QueuesInv, Genuine
<1>n. f.type = "event" => f.seq = delivered + 1
  BY <1>q DEF Follows
<1>u. /\ inbox' = Append(inbox, f) /\ ioUp' = Tail(ioUp) /\ delivered' = f.seq
      /\ UNCHANGED <<feed, cursor, emitted, rAcked, frames, replays, replayStarts, strays, io,
                     ioDown, acked, podSeq, recorded, failed>>
  <2>1. CASE f.type = "state"
    <3>1. f.seq = delivered
      BY <1>q, <2>1 DEF Follows
    <3> QED
      BY <2>1, <3>1 DEF ServerReceive, runnerVars, sidecarVars, storeVars
  <2>2. CASE f.type = "event"
    <3>1. /\ f.seq = delivered + 1 /\ ~(f.seq <= delivered) /\ ~(f.seq > delivered + 1)
          /\ f.seq > delivered
      BY <1>t, <1>n, <2>2
    <3> QED
      BY <2>2, <3>1 DEF ServerReceive, SetDelivered, runnerVars, sidecarVars, storeVars
  <2> QED
    BY <1>f, <2>1, <2>2
<1>d. delivered <= f.seq /\ f.seq <= Len(emitted)
  <2>1. delivered <= f.seq
    BY <1>q, <1>t DEF Follows
  <2>2. f.type = "state" => f.seq = delivered
    BY <1>q DEF Follows
  <2> QED
    BY <1>f, <1>g, <1>l, <1>t, <2>1, <2>2 DEF LinkInv, CountersInv
<1>z. EndOfUp' = EndOfUp
  <2>1. CASE Tail(ioUp) = <<>>
    BY <1>u, <1>q, <2>1 DEF Path, EndOfUp
  <2>2. CASE Tail(ioUp) # <<>>
    <3>1. Tail(ioUp)[Len(Tail(ioUp))] = ioUp[Len(ioUp)]
      BY <1>t, <1>e, <2>2, TailOf
    <3> QED
      BY <1>u, <1>e, <2>2, <3>1 DEF EndOfUp
  <2> QED
    BY <2>1, <2>2
<1>1. CountersInv'
  BY <1>t, <1>l, <1>u, <1>d, <1>f DEF LinkInv, CountersInv, RecordedOnceInOrder
<1>2. FeedInv'
  <2>1. f.seq <= cursor
    <3>1. f.seq <= EndOfUp /\ EndOfUp <= cursor
      BY <1>f, <1>p
    <3> QED
      BY <1>f, <1>t, <1>p, <3>1
  <2>2. Consecutive(frames)' /\ (feed = "on" => NotAhead(frames, cursor)')
    BY <1>u DEF LinkInv, FeedInv, Consecutive, NotAhead
  <2> QED
    BY <1>u, <2>1, <2>2 DEF LinkInv, FeedInv
<1>3. StreamInv'
  <2>1. Path(delivered, ioUp, EndOfUp)' /\ Path(EndOfUp, frames, cursor)'
    BY <1>u, <1>p, <1>q, <1>z DEF Path, Follows
  <2>2. (\A i \in 1..Len(ioUp) : ioUp[i].seq <= EndOfUp)'
    <3>1. \A i \in 1..Len(Tail(ioUp)) :
             i + 1 \in 1..Len(ioUp) /\ Tail(ioUp)[i] = ioUp[i + 1]
      BY <1>t, <1>e, TailOf
    <3> QED
      BY <1>p, <1>u, <1>z, <3>1
  <2> QED
    BY <1>u, <1>e, <1>p, <1>z, <2>1, <2>2 DEF StreamInv
<1>4. QueuesInv'
  <2>1. Path(podSeq, inbox', f.seq)
    BY <1>t, <1>f, <1>q, <1>u, PathAppend DEF LinkInv, QueuesInv
  <2>2. Genuine(inbox', emitted) /\ Genuine(ioUp', emitted)
    BY <1>t, <1>e, <1>f, <1>g, <1>u, GenuineAppend, GenuineTail DEF LinkInv, QueuesInv
  <2>3. Path(podSeq, inbox, delivered)'
    BY <1>u, <2>1 DEF Path, Follows
  <2>4. Genuine(inbox, emitted)' /\ Genuine(ioUp, emitted)' /\ Genuine(frames, emitted)'
    BY <1>u, <2>2 DEF LinkInv, QueuesInv, Genuine
  <2>5. (\A i \in 1..Len(inbox) : inbox[i].seq <= delivered)'
    <3>1. \A i \in 1..Len(inbox) : inbox[i].seq \in Nat /\ inbox[i].seq <= delivered
      BY <1>t, UpFrameFields DEF LinkInv, QueuesInv
    <3>2. \A i \in 1..Len(inbox') :
             (i \in 1..Len(inbox) /\ inbox'[i] = inbox[i]) \/ inbox'[i] = f
      BY <1>t, <1>f, <1>u, AppendTo
    <3>3. \A i \in 1..Len(inbox') : inbox'[i].seq <= f.seq
      BY <1>t, <1>f, <1>d, <3>1, <3>2
    <3> QED
      BY <1>u, <3>3
  <2> QED
    BY <2>3, <2>4, <2>5 DEF QueuesInv
<1>5. ReplaysInv' /\ AcksInv'
  BY <1>u, LinkUnchanged DEF LinkInv, replaysVars, acksVars
<1> QED
  BY <1>1, <1>2, <1>3, <1>4, <1>5 DEF LinkInv

\* The event at the head of the inbox is the one after pod_seq.
LEMMA LinkConsume == TypeOK /\ LinkInv /\ Consume => LinkInv'
<1> SUFFICES ASSUME TypeOK, LinkInv, Consume PROVE LinkInv'
  OBVIOUS
<1> DEFINE f == Head(inbox)
<1>t. inbox \in Seq(UpFrame) /\ emitted \in Seq(Event) /\ recorded \in Seq(Event)
      /\ delivered \in Nat /\ podSeq \in Nat /\ rAcked \in Nat
      /\ ioDown \in Seq(DownFrame) /\ strays \in Seq(DownFrame)
  BY LinkTypes
<1>l. Len(emitted) \in Nat
  BY <1>t
<1>e. inbox # <<>> /\ f.type = "event"
  BY DEF Consume
<1>f. f \in UpFrame /\ f = inbox[1] /\ 1 \in 1..Len(inbox) /\ f.seq \in Nat /\ f.ev \in Event
  BY <1>t, <1>e, TailOf, UpFrameFields
<1>q. Path(f.seq, Tail(inbox), delivered) /\ f.seq = podSeq + 1
  BY <1>t, <1>e, PathTail DEF LinkInv, QueuesInv, Follows
<1>g. f.seq \in 1..Len(emitted) /\ f.ev = emitted[f.seq]
  BY <1>e, <1>f DEF LinkInv, QueuesInv, Genuine
<1>u. /\ inbox' = Tail(inbox) /\ recorded' = Append(recorded, f.ev)
      /\ podSeq' = f.seq /\ acked' = f.seq
      /\ UNCHANGED <<feed, cursor, emitted, rAcked, frames, replays, replayStarts, strays, io,
                     ioUp, ioDown, delivered, failed>>
  BY DEF Consume, runnerVars, sidecarVars, wireVars, faultVars
<1>d. f.seq <= delivered
  BY <1>e, <1>f DEF LinkInv, QueuesInv
<1>1. CountersInv'
  <2>1. /\ Len(recorded) = podSeq /\ podSeq \in Nat /\ Len(recorded') = podSeq + 1
        /\ recorded'[podSeq + 1] = f.ev
        /\ \A i \in 1..podSeq : recorded'[i] = recorded[i]
    BY <1>t, <1>f, <1>u, AppendTo DEF LinkInv, CountersInv, RecordedOnceInOrder
  <2>2. \A i \in 1..Len(recorded') : i \in 1..podSeq \/ i = podSeq + 1
    BY <2>1
  <2>3. \A i \in 1..podSeq : recorded[i] = emitted[i]
    BY <2>1 DEF LinkInv, CountersInv, RecordedOnceInOrder
  <2>4. \A i \in 1..Len(recorded') : recorded'[i] = emitted[i]
    BY <1>g, <1>q, <2>1, <2>2, <2>3
  <2>5. RecordedOnceInOrder'
    BY <1>g, <1>l, <1>q, <1>u, <2>1, <2>4 DEF RecordedOnceInOrder
  <2> QED
    BY <1>t, <1>q, <1>u, <1>d, <2>5 DEF LinkInv, CountersInv
<1>2. AcksInv'
  <2>1. \A n \in Nat : n <= podSeq => n <= podSeq'
    BY <1>t, <1>q, <1>u
  <2>2. \A d \in DownFrame : d.n \in Nat
    BY DEF DownFrame
  <2>3. (\A i \in 1..Len(ioDown) : ioDown[i] \in DownFrame)
        /\ (\A i \in 1..Len(strays) : strays[i] \in DownFrame)
    BY <1>t
  <2>4. \A i \in 1..Len(ioDown) : ioDown[i].type = "ack" => ioDown[i].n <= podSeq'
    BY <2>1, <2>2, <2>3 DEF LinkInv, AcksInv
  <2>5. \A i \in 1..Len(strays) : strays[i].type = "ack" => strays[i].n <= podSeq'
    BY <2>1, <2>2, <2>3 DEF LinkInv, AcksInv
  <2> QED
    BY <1>u, <2>4, <2>5 DEF AcksInv
<1>3. QueuesInv'
  <2>1. Genuine(Tail(inbox), emitted)
    BY <1>t, <1>e, GenuineTail DEF LinkInv, QueuesInv
  <2>2. Genuine(inbox, emitted)' /\ Genuine(ioUp, emitted)' /\ Genuine(frames, emitted)'
    BY <1>u, <2>1 DEF LinkInv, QueuesInv, Genuine
  <2>3. Path(podSeq, inbox, delivered)'
    BY <1>q, <1>u DEF Path, Follows
  <2>4. (\A i \in 1..Len(inbox) : inbox[i].seq <= delivered)'
    <3>1. \A i \in 1..Len(Tail(inbox)) :
             i + 1 \in 1..Len(inbox) /\ Tail(inbox)[i] = inbox[i + 1]
      BY <1>t, <1>e, TailOf
    <3> QED
      BY <1>u, <3>1 DEF LinkInv, QueuesInv
  <2> QED
    BY <2>2, <2>3, <2>4 DEF QueuesInv
<1>4. ReplaysInv' /\ FeedInv' /\ StreamInv'
  BY <1>u, LinkUnchanged DEF LinkInv, replaysVars, feedVars, streamVars
<1> QED
  BY <1>1, <1>2, <1>3, <1>4 DEF LinkInv

LEMMA LinkReconcileBegin == TypeOK /\ LinkInv /\ ReconcileBegin => LinkInv'
<1> SUFFICES ASSUME TypeOK, LinkInv, ReconcileBegin PROVE LinkInv'
  OBVIOUS
<1>t. inbox \in Seq(UpFrame) /\ delivered \in Nat /\ podSeq \in Nat
  BY LinkTypes
<1>u. /\ inbox # <<>> /\ Head(inbox).type = "state" /\ inbox' = Tail(inbox)
      /\ UNCHANGED <<feed, cursor, emitted, rAcked, frames, replays, replayStarts, strays, io,
                     ioUp, ioDown, delivered, acked, podSeq, recorded, failed>>
  BY DEF ReconcileBegin, runnerVars, sidecarVars, wireVars, storeVars, faultVars
<1>1. QueuesInv'
  <2>1. Path(podSeq, Tail(inbox), delivered)
    <3>1. Follows(podSeq, Head(inbox)) /\ Path(Head(inbox).seq, Tail(inbox), delivered)
      BY <1>t, <1>u, PathTail DEF LinkInv, QueuesInv
    <3>2. Head(inbox).seq = podSeq
      BY <1>u, <3>1 DEF Follows
    <3> QED
      BY <3>1, <3>2
  <2>2. Genuine(Tail(inbox), emitted)
    BY <1>t, <1>u, GenuineTail DEF LinkInv, QueuesInv
  <2>3. Path(podSeq, inbox, delivered)'
    BY <1>u, <2>1 DEF Path, Follows
  <2>4. Genuine(inbox, emitted)' /\ Genuine(ioUp, emitted)' /\ Genuine(frames, emitted)'
    BY <1>u, <2>2 DEF LinkInv, QueuesInv, Genuine
  <2>5. (\A i \in 1..Len(inbox) : inbox[i].seq <= delivered)'
    <3>1. \A i \in 1..Len(Tail(inbox)) :
             i + 1 \in 1..Len(inbox) /\ Tail(inbox)[i] = inbox[i + 1]
      BY <1>t, <1>u, TailOf
    <3> QED
      BY <1>u, <3>1 DEF LinkInv, QueuesInv
  <2> QED
    BY <2>3, <2>4, <2>5 DEF QueuesInv
<1>2. CountersInv' /\ ReplaysInv' /\ FeedInv' /\ StreamInv' /\ AcksInv'
  BY <1>u, LinkUnchanged DEF LinkInv, countersVars, replaysVars, feedVars, streamVars, acksVars
<1> QED
  BY <1>1, <1>2 DEF LinkInv

LEMMA LinkStop == TypeOK /\ LinkInv /\ Stop => LinkInv'
<1> SUFFICES ASSUME TypeOK, LinkInv, Stop PROVE LinkInv'
  OBVIOUS
<1>u. /\ io' = "down" /\ ioUp' = <<>> /\ ioDown' = <<>>
      /\ UNCHANGED <<feed, cursor, emitted, rAcked, frames, replays, replayStarts, strays,
                     inbox, delivered, acked, podSeq, recorded, failed>>
  BY DEF Stop, runnerVars, sidecarVars, serverVars, faultVars
<1>1. StreamInv' /\ AcksInv'
  BY <1>u DEF LinkInv, StreamInv, AcksInv
<1>2. QueuesInv'
  BY <1>u DEF LinkInv, QueuesInv, Path, Follows, Genuine
<1>3. CountersInv' /\ ReplaysInv' /\ FeedInv'
  BY <1>u, LinkUnchanged DEF LinkInv, countersVars, replaysVars, feedVars
<1> QED
  BY <1>1, <1>2, <1>3 DEF LinkInv


\* The acks that outlive a stream are some of those that were on it.
LEMMA AcksConcat ==
    ASSUME NEW s \in Seq(DownFrame), NEW d \in Seq(DownFrame), NEW p,
           \A i \in 1..Len(s) : s[i].type = "ack" => s[i].n <= p,
           \A i \in 1..Len(d) : d[i].type = "ack" => d[i].n <= p
    PROVE  /\ s \o d \in Seq(DownFrame)
           /\ \A i \in 1..Len(s \o d) : (s \o d)[i].type = "ack" => (s \o d)[i].n <= p
<1>1. /\ Len(s \o d) = Len(s) + Len(d) /\ s \o d \in Seq(DownFrame)
      /\ \A i \in 1..Len(s) : (s \o d)[i] = s[i]
      /\ \A i \in 1..Len(d) : (s \o d)[Len(s) + i] = d[i]
      /\ Len(s) \in Nat /\ Len(d) \in Nat
  OBVIOUS
<1>2. ASSUME NEW i \in 1..Len(s \o d)
      PROVE  (s \o d)[i].type = "ack" => (s \o d)[i].n <= p
  <2>1. CASE i \in 1..Len(s)
    BY <1>1, <2>1
  <2>2. CASE i \notin 1..Len(s)
    <3>1. i - Len(s) \in 1..Len(d) /\ Len(s) + (i - Len(s)) = i
      BY <1>1, <2>2
    <3>2. (s \o d)[i] = d[i - Len(s)]
      BY <1>1, <3>1
    <3> QED
      BY <3>1, <3>2
  <2> QED
    BY <2>1, <2>2
<1> QED
  BY <1>1, <1>2

LEMMA AcksPrefix ==
    ASSUME NEW s \in Seq(DownFrame), NEW p, NEW n \in 0..Len(s),
           \A i \in 1..Len(s) : s[i].type = "ack" => s[i].n <= p
    PROVE  /\ SubSeq(s, 1, n) \in Seq(DownFrame)
           /\ \A i \in 1..Len(SubSeq(s, 1, n)) :
                 SubSeq(s, 1, n)[i].type = "ack" => SubSeq(s, 1, n)[i].n <= p
<1>1. /\ Len(SubSeq(s, 1, n)) = n /\ \A i \in 1..n : i \in 1..Len(s)
      /\ \A i \in 1..n : SubSeq(s, 1, n)[i] = s[i]
      /\ SubSeq(s, 1, n) \in Seq(DownFrame)
  OBVIOUS
<1> QED
  BY <1>1

LEMMA InRelayAcks ==
    ASSUME TypeOK, LinkInv
    PROVE  /\ InRelay \in Seq(DownFrame)
           /\ \A i \in 1..Len(InRelay) : InRelay[i].type = "ack" => InRelay[i].n <= podSeq
<1>1. CASE InRelay = ioDown
  BY <1>1, LinkTypes DEF LinkInv, AcksInv
<1>2. CASE InRelay = <<>>
  BY <1>2
<1> QED
  BY <1>1, <1>2 DEF InRelay

LEMMA RelaySurvivesAcks ==
    ASSUME TypeOK, LinkInv, RelaySurvives
    PROVE  \A i \in 1..Len(strays') : strays'[i].type = "ack" => strays'[i].n <= podSeq
<1>1. PICK n \in 0..1 : n <= Len(InRelay) /\ strays' = strays \o SubSeq(InRelay, 1, n)
  BY DEF RelaySurvives
<1>2. n \in 0..Len(InRelay)
  BY <1>1, InRelayAcks
<1>3. /\ SubSeq(InRelay, 1, n) \in Seq(DownFrame)
      /\ \A i \in 1..Len(SubSeq(InRelay, 1, n)) :
            SubSeq(InRelay, 1, n)[i].type = "ack" => SubSeq(InRelay, 1, n)[i].n <= podSeq
  BY <1>2, InRelayAcks, AcksPrefix
<1>4. /\ strays \in Seq(DownFrame)
      /\ \A i \in 1..Len(strays) : strays[i].type = "ack" => strays[i].n <= podSeq
  BY LinkTypes DEF LinkInv, AcksInv
<1> QED
  BY <1>1, <1>3, <1>4, AcksConcat

LEMMA LinkBreak == TypeOK /\ LinkInv /\ Break => LinkInv'
<1> SUFFICES ASSUME TypeOK, LinkInv, Break PROVE LinkInv'
  OBVIOUS
<1>u. /\ io' = "down" /\ ioUp' = <<>> /\ ioDown' = <<>> /\ RelaySurvives
      /\ UNCHANGED <<feed, cursor, emitted, rAcked, frames, replays, replayStarts,
                     inbox, delivered, acked, podSeq, recorded, failed>>
  BY DEF Break, Disconnect, runnerVars, serverVars, storeVars
<1>1. StreamInv'
  BY <1>u DEF LinkInv, StreamInv
<1>2. AcksInv'
  BY <1>u, RelaySurvivesAcks DEF AcksInv
<1>3. QueuesInv'
  BY <1>u DEF LinkInv, QueuesInv, Path, Follows, Genuine
<1>4. CountersInv' /\ ReplaysInv' /\ FeedInv'
  BY <1>u, LinkUnchanged DEF LinkInv, countersVars, replaysVars, feedVars
<1> QED
  BY <1>1, <1>2, <1>3, <1>4 DEF LinkInv

LEMMA LinkSidecarRestart == TypeOK /\ LinkInv /\ SidecarRestart => LinkInv'
<1> SUFFICES ASSUME TypeOK, LinkInv, SidecarRestart PROVE LinkInv'
  OBVIOUS
<1>u. /\ io' = "down" /\ ioUp' = <<>> /\ ioDown' = <<>> /\ frames' = <<>>
      /\ replays' = 0 /\ replayStarts' = 0 /\ feed' = "off"
      /\ UNCHANGED <<cursor, emitted, rAcked, inbox, delivered, acked, podSeq, recorded, failed>>
  BY DEF SidecarRestart, Disconnect, serverVars, storeVars
<1>1. AcksInv'
  <2>1. PICK n \in 0..Len(strays \o InRelay) : strays' = SubSeq(strays \o InRelay, 1, n)
    BY DEF SidecarRestart
  <2>2. /\ strays \in Seq(DownFrame)
        /\ \A i \in 1..Len(strays) : strays[i].type = "ack" => strays[i].n <= podSeq
    BY LinkTypes DEF LinkInv, AcksInv
  <2>3. /\ strays \o InRelay \in Seq(DownFrame)
        /\ \A i \in 1..Len(strays \o InRelay) :
              (strays \o InRelay)[i].type = "ack" => (strays \o InRelay)[i].n <= podSeq
    BY <2>2, InRelayAcks, AcksConcat
  <2>4. \A i \in 1..Len(strays') : strays'[i].type = "ack" => strays'[i].n <= podSeq
    BY <2>1, <2>3, AcksPrefix
  <2> QED
    BY <1>u, <2>4 DEF AcksInv
<1>2. ReplaysInv' /\ FeedInv' /\ StreamInv'
  BY <1>u DEF ReplaysInv, FeedInv, StreamInv, Answers, StartsSent, Consecutive
<1>3. QueuesInv'
  BY <1>u DEF LinkInv, QueuesInv, Path, Follows, Genuine
<1>4. CountersInv'
  BY <1>u, LinkUnchanged DEF LinkInv, countersVars
<1> QED
  BY <1>1, <1>2, <1>3, <1>4 DEF LinkInv

\* A platform that restarts takes up the stream at pod_seq, which is not ahead
\* of the outbox nor behind what the runner dropped.
LEMMA LinkHarnessRestart == TypeOK /\ LinkInv /\ HarnessRestart => LinkInv'
<1> SUFFICES ASSUME TypeOK, LinkInv, HarnessRestart PROVE LinkInv'
  OBVIOUS
<1>t. podSeq \in Nat /\ delivered \in Nat /\ cursor \in Nat /\ emitted \in Seq(Event)
  BY LinkTypes
<1>l. Len(emitted) \in Nat
  BY <1>t
<1>u. /\ io' = "down" /\ ioUp' = <<>> /\ ioDown' = <<>> /\ inbox' = <<>> /\ RelaySurvives
      /\ delivered' = podSeq /\ acked' = podSeq
      /\ UNCHANGED <<feed, cursor, emitted, rAcked, frames, replays, replayStarts,
                     podSeq, recorded, failed>>
  BY DEF HarnessRestart, Expect, Disconnect, runnerVars, storeVars
<1>1. StreamInv'
  BY <1>u DEF StreamInv
<1>2. AcksInv'
  BY <1>u, RelaySurvivesAcks DEF AcksInv
<1>3. QueuesInv'
  BY <1>u DEF LinkInv, QueuesInv, Path, Genuine
<1>4. CountersInv'
  BY <1>t, <1>l, <1>u DEF LinkInv, CountersInv, RecordedOnceInOrder
<1>5. ReplaysInv'
  BY <1>u, LinkUnchanged DEF LinkInv, replaysVars
<1>6. FeedInv'
  <2>1. feed # "off" => podSeq <= cursor
    BY <1>t DEF LinkInv, FeedInv, CountersInv
  <2>2. Consecutive(frames)' /\ (feed = "on" => NotAhead(frames, cursor)')
    BY <1>u DEF LinkInv, FeedInv, Consecutive, NotAhead
  <2> QED
    BY <1>u, <2>1, <2>2 DEF LinkInv, FeedInv
<1> QED
  BY <1>1, <1>2, <1>3, <1>4, <1>5, <1>6 DEF LinkInv

\* No step breaks the invariant.
LEMMA LinkStep == TypeOK /\ TypeOK' /\ LinkInv /\ [Next]_vars => LinkInv'
<1> SUFFICES ASSUME TypeOK, TypeOK', LinkInv, [Next]_vars PROVE LinkInv'
  OBVIOUS
<1>t. /\ emitted \in Seq(Event) /\ running \in Nat
  BY DEF TypeOK, RunnerType, AgentType
<1>k. ASSUME UNCHANGED <<failed, rAcked, acked, podSeq, delivered, emitted, recorded, feed,
                         frames, replays, replayStarts, cursor, io, ioUp, ioDown, strays, inbox>>
      PROVE  LinkInv'
  BY <1>k, LinkUnchanged DEF LinkInv, countersVars, replaysVars, feedVars, streamVars,
                             acksVars, queuesVars
<1>1. CASE AgentTakeTurn
  BY <1>1, <1>k DEF AgentTakeTurn, runnerVars, sidecarVars, wireVars, serverVars, storeVars,
                    faultVars
<1>2. CASE AgentEmit
  <2>1. Message(running) \in Event
    BY <1>t DEF Message, Event
  <2>2. Len(emitted) <= Len(emitted') /\ \A i \in 1..Len(emitted) : emitted'[i] = emitted[i]
    BY <1>2, <1>t, <2>1 DEF AgentEmit
  <2> QED
    BY <1>2, <2>2, LinkEmit DEF AgentEmit
<1>3. CASE AgentFinishTurn
  <2>1. Finished(running) \in Event
    BY <1>t DEF Finished, Event
  <2>2. Len(emitted) <= Len(emitted') /\ \A i \in 1..Len(emitted) : emitted'[i] = emitted[i]
    BY <1>3, <1>t, <2>1 DEF AgentFinishTurn
  <2> QED
    BY <1>3, <2>2, LinkEmit DEF AgentFinishTurn
<1>4. CASE AgentClearTurn
  BY <1>4, <1>k DEF AgentClearTurn, runnerVars, sidecarVars, wireVars, serverVars, storeVars,
                    faultVars
<1>5. CASE AgentExit
  BY <1>5, <1>k DEF AgentExit, runnerVars, sidecarVars, wireVars, serverVars, storeVars,
                    faultVars
<1>6. CASE AgentFinish
  BY <1>6, <1>k DEF AgentFinish, runnerVars, sidecarVars, wireVars, serverVars, storeVars,
                    faultVars
<1>6a. CASE AgentEndQueued
  <2>1. Finished(Head(ending)) \in Event
    BY <1>6a DEF AgentEndQueued, TypeOK, AgentType, Finished, Event
  <2>2. Len(emitted) <= Len(emitted') /\ \A i \in 1..Len(emitted) : emitted'[i] = emitted[i]
    BY <1>6a, <1>t, <2>1 DEF AgentEndQueued
  <2> QED
    BY <1>6a, <2>2, LinkEmit DEF AgentEndQueued
<1>6b. CASE AgentReportExit
  <2>1. Exited \in Event
    BY DEF Exited, Event
  <2>2. Len(emitted) <= Len(emitted') /\ \A i \in 1..Len(emitted) : emitted'[i] = emitted[i]
    BY <1>6b, <1>t, <2>1 DEF AgentReportExit
  <2> QED
    BY <1>6b, <2>2, LinkEmit DEF AgentReportExit
<1>7. CASE FeedStart \/ FeedEvent
  BY <1>7, LinkFeedStart, LinkFeedEvent
<1>8. CASE OpenIO \/ SidecarOpen \/ SidecarForward
  BY <1>8, LinkOpenIO, LinkSidecarOpen, LinkSidecarForward
<1>9. CASE Relay \/ StrayRelay
  BY <1>9, LinkRelay, LinkStrayRelay
<1>10. CASE SendCommand
  <2>1. Prompt(Head(commands)) \in DownFrame /\ Prompt(Head(commands)).type # "ack"
    <3>1. Head(commands) \in Nat
      BY <1>10, BoundsAssumption DEF SendCommand, TypeOK, ServerType, Turns
    <3> QED
      BY <3>1 DEF Prompt, DownFrame
  <2> QED
    BY <1>10, <2>1, LinkSend DEF SendCommand, runnerVars, sidecarVars, storeVars, faultVars
<1>11. CASE SendAck
  <2>1. Ack(acked) \in DownFrame /\ Ack(acked).n = acked /\ acked <= podSeq
    BY LinkTypes DEF Ack, DownFrame, LinkInv, CountersInv
  <2> QED
    BY <1>11, <2>1, LinkSend DEF SendAck, runnerVars, sidecarVars, storeVars, faultVars
<1>12. CASE ServerReceive
  BY <1>12, LinkServerReceive
<1>13. CASE StartTurn
  BY <1>13, <1>k DEF StartTurn, runnerVars, sidecarVars, wireVars, faultVars
<1>14. CASE Ungate
  BY <1>14, <1>k DEF Ungate, runnerVars, sidecarVars, wireVars, storeVars, faultVars
<1>15. CASE Consume \/ ReconcileBegin \/ Stop
  BY <1>15, LinkConsume, LinkReconcileBegin, LinkStop
<1>16. CASE ReconcileList
  BY <1>16, <1>k DEF ReconcileList, runnerVars, sidecarVars, wireVars, serverVars, storeVars,
                     faultVars
<1>17. CASE ReconcileFinish
  BY <1>17, <1>k DEF ReconcileFinish, runnerVars, sidecarVars, wireVars, faultVars
<1>18. CASE Break \/ SidecarRestart \/ HarnessRestart
  BY <1>18, LinkBreak, LinkSidecarRestart, LinkHarnessRestart
<1>19. CASE UNCHANGED vars
  BY <1>19, <1>k DEF vars, runnerVars, sidecarVars, wireVars, serverVars, storeVars, faultVars
<1> QED
  BY <1>1, <1>2, <1>3, <1>4, <1>5, <1>6, <1>6a, <1>6b, <1>7, <1>8, <1>9, <1>10, <1>11, <1>12,
     <1>13, <1>14, <1>15, <1>16, <1>17, <1>18, <1>19
     DEF Next, AgentNext, PodNext, LinkNext, ApiNext, FaultNext

\* The queues from the outbox to the store always hold consecutive events.
THEOREM LinkInvariant == Spec => []LinkInv
<1> QED
  BY LinkInit, LinkStep, TypeCorrect, PTL DEF Spec

\* Drops and restarts never make the link fail: serveIO never sees a gap and
\* the runner is never asked for an event it dropped.
THEOREM NeverFails == Spec => []LinkNeverFails
<1>1. LinkInv => LinkNeverFails
  BY DEF LinkInv, CountersInv, LinkNeverFails
<1> QED
  BY <1>1, LinkInvariant, PTL

\* The store holds each of the first pod_seq events once, in order.
THEOREM RecordsOnce == Spec => []RecordedOnceInOrder
<1>1. LinkInv => RecordedOnceInOrder
  BY DEF LinkInv, CountersInv
<1> QED
  BY <1>1, LinkInvariant, PTL

\* The outbox drops only what the store has recorded.
THEOREM AcksOnlyRecorded == Spec => []AckedOnlyRecorded
<1>1. LinkInv => AckedOnlyRecorded
  BY DEF LinkInv, CountersInv, AckedOnlyRecorded
<1> QED
  BY <1>1, LinkInvariant, PTL

-----------------------------------------------------------------------------
(* The link implements the abstract event log.                             *)

\* An event the agent appends is a Write.
LEMMA WriteStep ==
    ASSUME TypeOK, TypeOK', Linked, Len(emitted) < Len(emitted'),
           \A i \in 1..Len(emitted) : emitted'[i] = emitted[i],
           UNCHANGED <<recorded, rAcked, session>>
    PROVE  Log!Write
<1>1. emitted \in Seq(Event) /\ emitted' \in Seq(Event)
  BY DEF TypeOK, RunnerType
<1>2. Len(emitted) \in Nat /\ Len(emitted') \in Nat
  BY <1>1
<1> QED
  BY <1>1, <1>2 DEF Log!Write, Linked

\* An ack that moves the outbox is a Forget.
LEMMA ForgetStep ==
    ASSUME TypeOK, LinkInv, LinkInv', NEW f \in DownFrame, RunnerReceive(f), Linked,
           UNCHANGED <<emitted, recorded, podSeq, session>>
    PROVE  Log!Forget \/ UNCHANGED Log!logVars
<1>1. rAcked \in Nat /\ podSeq \in Nat /\ f.n \in Nat
  BY LinkTypes DEF DownFrame
<1>2. rAcked' = rAcked \/ (rAcked' \in Nat /\ rAcked' > rAcked)
  BY <1>1 DEF RunnerReceive, RunnerAck
<1>3. rAcked' <= podSeq /\ Len(recorded) = podSeq
  BY DEF LinkInv, CountersInv, RecordedOnceInOrder
<1>4. rAcked' = rAcked \/ rAcked' \in (rAcked + 1)..Len(recorded)
  BY <1>1, <1>2, <1>3
<1> QED
  BY <1>4 DEF Log!Forget, Log!logVars, Linked

LEMMA StoreStep == TypeOK /\ LinkInv /\ Consume => Log!Store
<1> SUFFICES ASSUME TypeOK, LinkInv, Consume PROVE Log!Store
  OBVIOUS
<1> DEFINE f == Head(inbox)
<1>1. inbox \in Seq(UpFrame) /\ inbox # <<>> /\ f.type = "event" /\ podSeq \in Nat
      /\ delivered \in Nat /\ emitted \in Seq(Event)
  BY LinkTypes DEF Consume
<1>2. f.seq = podSeq + 1
  BY <1>1, PathTail DEF LinkInv, QueuesInv, Follows
<1>3. f.seq \in 1..Len(emitted) /\ f.ev = emitted[f.seq]
  <2>1. f = inbox[1] /\ 1 \in 1..Len(inbox)
    BY <1>1, TailOf
  <2> QED
    BY <1>1, <2>1 DEF LinkInv, QueuesInv, Genuine
<1>4. Len(recorded) = podSeq
  BY DEF LinkInv, CountersInv, RecordedOnceInOrder
<1>5. Len(recorded) < Len(emitted) /\ f.ev = emitted[Len(recorded) + 1]
  BY <1>1, <1>2, <1>3, <1>4
<1>6. /\ session = "running" /\ recorded' = Append(recorded, f.ev)
      /\ UNCHANGED <<emitted, rAcked, session>>
  BY DEF Consume, Linked, runnerVars
<1> QED
  BY <1>5, <1>6 DEF Log!Store

LEMMA LogStep ==
    TypeOK /\ TypeOK' /\ LinkInv /\ LinkInv' /\ [Next]_vars
        => [Log!LogNext]_(Log!logVars)
<1> SUFFICES ASSUME TypeOK, TypeOK', LinkInv, LinkInv', [Next]_vars
             PROVE  Log!LogNext \/ UNCHANGED Log!logVars
  OBVIOUS
<1>t. /\ emitted \in Seq(Event) /\ emitted' \in Seq(Event) /\ running \in Nat
      /\ queue \in Seq(Nat)
  BY DEF TypeOK, RunnerType, AgentType
<1>k. ASSUME UNCHANGED <<emitted, recorded, rAcked, session>> PROVE UNCHANGED Log!logVars
  BY <1>k DEF Log!logVars
<1>1. CASE AgentEmit
  <2>1. Message(running) \in Event
    BY <1>t DEF Message, Event
  <2>2. Len(emitted) < Len(emitted') /\ \A i \in 1..Len(emitted) : emitted'[i] = emitted[i]
    BY <1>1, <1>t, <2>1 DEF AgentEmit
  <2> QED
    BY <1>1, <2>2, WriteStep DEF AgentEmit, storeVars, Log!LogNext
<1>2. CASE AgentFinishTurn
  <2>1. Finished(running) \in Event
    BY <1>t DEF Finished, Event
  <2>2. Len(emitted) < Len(emitted') /\ \A i \in 1..Len(emitted) : emitted'[i] = emitted[i]
    BY <1>2, <1>t, <2>1 DEF AgentFinishTurn
  <2> QED
    BY <1>2, <2>2, WriteStep DEF AgentFinishTurn, storeVars, Log!LogNext
<1>3. CASE AgentEndQueued
  <2>1. Finished(Head(ending)) \in Event
    BY <1>3 DEF AgentEndQueued, TypeOK, AgentType, Finished, Event
  <2>2. Len(emitted) < Len(emitted') /\ \A i \in 1..Len(emitted) : emitted'[i] = emitted[i]
    BY <1>3, <1>t, <2>1 DEF AgentEndQueued
  <2> QED
    BY <1>3, <2>2, WriteStep DEF AgentEndQueued, storeVars, Log!LogNext
<1>3a. CASE AgentReportExit
  <2>1. Exited \in Event
    BY DEF Exited, Event
  <2>2. Len(emitted) < Len(emitted') /\ \A i \in 1..Len(emitted) : emitted'[i] = emitted[i]
    BY <1>3a, <1>t, <2>1 DEF AgentReportExit
  <2> QED
    BY <1>3a, <2>2, WriteStep DEF AgentReportExit, storeVars, Log!LogNext
<1>4. CASE AgentTakeTurn \/ AgentClearTurn \/ AgentExit \/ AgentFinish
  BY <1>4, <1>k DEF AgentTakeTurn, AgentClearTurn, AgentExit, AgentFinish, runnerVars, storeVars
<1>5. CASE FeedStart \/ FeedEvent
  BY <1>5, <1>k DEF FeedStart, FeedEvent, storeVars
<1>6. CASE OpenIO \/ SidecarOpen \/ SidecarForward
  BY <1>6, <1>k DEF OpenIO, SidecarOpen, SidecarForward, runnerVars, storeVars
<1>7. CASE Relay
  <2>1. Head(ioDown) \in DownFrame
    BY <1>7, LinkTypes, TailOf DEF Relay
  <2> QED
    BY <1>7, <2>1, ForgetStep DEF Relay, storeVars, Log!LogNext
<1>8. CASE StrayRelay
  <2>1. Head(strays) \in DownFrame
    BY <1>8, LinkTypes, TailOf DEF StrayRelay
  <2> QED
    BY <1>8, <2>1, ForgetStep DEF StrayRelay, storeVars, Log!LogNext
<1>9. CASE SendCommand \/ SendAck \/ ServerReceive
  BY <1>9, <1>k DEF SendCommand, SendAck, ServerReceive, runnerVars, storeVars
<1>10. CASE StartTurn \/ Ungate
  BY <1>10, <1>k DEF StartTurn, Ungate, runnerVars, storeVars
<1>11. CASE Consume
  BY <1>11, StoreStep DEF Log!LogNext
<1>12. CASE ReconcileBegin \/ ReconcileList \/ ReconcileFinish
  BY <1>12, <1>k DEF ReconcileBegin, ReconcileList, ReconcileFinish, runnerVars, storeVars
<1>13. CASE Stop
  BY <1>13 DEF Stop, Linked, runnerVars, Log!Close, Log!LogNext
<1>14. CASE Break \/ SidecarRestart \/ HarnessRestart
  BY <1>14, <1>k DEF Break, SidecarRestart, HarnessRestart, runnerVars, storeVars
<1>15. CASE UNCHANGED vars
  BY <1>15, <1>k DEF vars, runnerVars, storeVars
<1> QED
  BY <1>1, <1>2, <1>3, <1>3a, <1>4, <1>5, <1>6, <1>7, <1>8, <1>9, <1>10, <1>11, <1>12, <1>13,
     <1>14, <1>15
     DEF Next, AgentNext, PodNext, LinkNext, ApiNext, FaultNext

\* The link implements PodLog: the store holds a growing prefix of what the
\* agent wrote, and the outbox forgets only what the store holds.
THEOREM RefinesPodLog == Spec => ImplementsPodLog
<1>1. Init => Log!LogInit
  <2> SUFFICES ASSUME Init PROVE Log!LogInit
    OBVIOUS
  <2>1. Ready \in Event
    BY DEF Ready, Event
  <2>2. emitted \in Seq(Event) /\ Len(emitted) = 1 /\ recorded = emitted
    BY <2>1 DEF Init
  <2> QED
    BY <2>2 DEF Init, Log!LogInit
<1> QED
  BY <1>1, LogStep, TypeCorrect, LinkInvariant, PTL DEF Spec, ImplementsPodLog, Log!LogSpec
-----------------------------------------------------------------------------
(* The turns: the agent runs each one once and in order, and a turn on     *)
(* which it works is outstanding in the binding.                           *)

\* The turns that the agent has, running, queued and to be ended by finish(),
\* ascend above the ones that it has finished, up to lastTurnSeq.
DoneInv ==
    \A i \in DOMAIN emitted : emitted[i].kind = "finished" =>
        /\ emitted[i].turn <= lastTurn
        /\ running # 0 => emitted[i].turn <= running
        /\ \A j \in DOMAIN queue : emitted[i].turn < queue[j]
        /\ \A j \in DOMAIN ending : emitted[i].turn < ending[j]

QueueInv ==
    /\ running <= lastTurn
    /\ \A i \in DOMAIN queue : running < queue[i] /\ queue[i] <= lastTurn
    /\ \A i, j \in DOMAIN queue : i < j => queue[i] < queue[j]
    /\ \A i \in DOMAIN ending : ending[i] <= lastTurn
    /\ \A i, j \in DOMAIN ending : i < j => ending[i] < ending[j]
    /\ proc \in {"finished", "reported"} => queue = <<>> /\ running = 0
    /\ proc # "finished" => ending = <<>>

OrderInv == TurnsRunOnceInOrder /\ DoneInv /\ QueueInv

Elems(s) == {s[i] : i \in DOMAIN s}

\* A turn that the agent has not finished.
AtAgent(t) == (t = running \/ t \in Elems(queue)) /\ ~FinishedTurn(t)

\* It is saved in the store, and outstanding in the binding.
Saved(t) == t \in cmds /\ t \in turns

\* A prompt on its way that the runner would take is saved.
OnWay(t)   == t > lastTurn => Saved(t)
Prompts(s) == \A f \in Elems(s) : f.type = "prompt" => f.n \in Turns /\ OnWay(f.n)

\* A snapshot names each turn that the agent had when it was taken and still has.
SnapOk(last, out) == last <= lastTurn /\ \A t \in Turns : AtAgent(t) /\ t <= last => t \in out
Snaps(s) == \A f \in Elems(s) : f.type = "state" => SnapOk(f.last, f.out)

AgentSaved == \A t \in Turns : AtAgent(t) => Saved(t)
WaySaved ==
    /\ Prompts(ioDown) /\ Prompts(strays)
    /\ \A t \in Elems(commands) : OnWay(t)
    /\ \A t \in held : OnWay(t)
SnapsOk == Snaps(frames) /\ Snaps(ioUp) /\ Snaps(inbox)

\* A reconciliation knows every saved prompt but the held ones.
ReconOk ==
    /\ recon.st # "idle" => SnapOk(recon.last, recon.out) /\ syncing
    /\ recon.st = "listed" => recon.cmds \subseteq cmds /\ cmds \subseteq recon.cmds \cup held

BusyInv == Linked => AgentSaved /\ WaySaved /\ SnapsOk /\ ReconOk

-----------------------------------------------------------------------------
(* The order of the turns.                                                 *)

LEMMA AgentTypes ==
    ASSUME TypeOK
    PROVE  /\ lastTurn \in Nat /\ queue \in Seq(Nat) /\ running \in Nat /\ ending \in Seq(Nat)
           /\ emitted \in Seq(Event) /\ DOMAIN emitted = 1..Len(emitted)
           /\ DOMAIN queue = 1..Len(queue) /\ DOMAIN ending = 1..Len(ending)
           /\ \A i \in DOMAIN emitted : emitted[i] \in Event /\ emitted[i].turn \in Nat
           /\ \A i \in DOMAIN queue : queue[i] \in Nat
           /\ \A i \in DOMAIN ending : ending[i] \in Nat
<1>1. /\ lastTurn \in Nat /\ queue \in Seq(Nat) /\ running \in Nat /\ ending \in Seq(Nat)
      /\ emitted \in Seq(Event)
  BY DEF TypeOK, AgentType, RunnerType
<1>2. /\ DOMAIN emitted = 1..Len(emitted)
      /\ DOMAIN queue = 1..Len(queue) /\ DOMAIN ending = 1..Len(ending)
  BY <1>1
<1>3. \A i \in DOMAIN emitted : emitted[i] \in Event
  BY <1>1, <1>2
<1>4. \A e \in Event : e.turn \in Nat
  BY DEF Event
<1>5. /\ \A i \in DOMAIN queue : queue[i] \in Nat
      /\ \A i \in DOMAIN ending : ending[i] \in Nat
  BY <1>1, <1>2
<1> QED BY <1>1, <1>2, <1>3, <1>4, <1>5

LEMMA OrderKept ==
    ASSUME OrderInv, UNCHANGED <<emitted, lastTurn, queue, running, ending, proc>>
    PROVE  OrderInv'
BY DEF OrderInv, TurnsRunOnceInOrder, DoneInv, QueueInv

\* An event that is not the end of a turn.
LEMMA OrderOther ==
    ASSUME TypeOK, OrderInv, NEW e \in Event, e.kind # "finished",
           emitted' = Append(emitted, e), UNCHANGED <<lastTurn, queue, running, ending>>,
           QueueInv'
    PROVE  OrderInv'
<1>1. /\ emitted \in Seq(Event) /\ DOMAIN emitted = 1..Len(emitted)
  BY AgentTypes
<1>2. DOMAIN emitted' = 1..(Len(emitted) + 1) /\ Len(emitted) \in Nat
  BY <1>1
<1>3. \A i \in DOMAIN emitted' :
        emitted'[i].kind = "finished" => i \in DOMAIN emitted /\ emitted'[i] = emitted[i]
  BY <1>1, <1>2, AppendTo
<1>4. TurnsRunOnceInOrder'
  BY <1>3 DEF OrderInv, TurnsRunOnceInOrder
<1>5. DoneInv'
  BY <1>3 DEF OrderInv, DoneInv
<1> QED BY <1>4, <1>5 DEF OrderInv

\* The end of a turn that comes after all that have ended.
LEMMA OrderFinished ==
    ASSUME TypeOK, OrderInv, NEW t \in Nat, emitted' = Append(emitted, Finished(t)),
           \A i \in DOMAIN emitted : emitted[i].kind = "finished" => emitted[i].turn < t
    PROVE  /\ TurnsRunOnceInOrder'
           /\ \A i \in DOMAIN emitted' : emitted'[i].kind = "finished" =>
                \/ i \in DOMAIN emitted /\ emitted'[i] = emitted[i]
                \/ emitted'[i].turn = t
<1>1. /\ emitted \in Seq(Event) /\ DOMAIN emitted = 1..Len(emitted) /\ Len(emitted) \in Nat
  BY AgentTypes
<1>2. PICK e \in Event : e = Finished(t) /\ e.turn = t /\ e.kind = "finished"
  BY DEF Finished, Event
<1>3. DOMAIN emitted' = 1..(Len(emitted) + 1)
  BY <1>1, <1>2
<1>4. /\ emitted'[Len(emitted) + 1] = e
      /\ \A i \in 1..Len(emitted) : emitted'[i] = emitted[i]
  BY <1>1, <1>2, AppendTo
<1>5. ASSUME NEW i \in DOMAIN emitted', NEW j \in DOMAIN emitted', i < j,
             emitted'[i].kind = "finished", emitted'[j].kind = "finished"
      PROVE  emitted'[i].turn < emitted'[j].turn
  <2>1. i \in 1..Len(emitted)
    BY <1>1, <1>3, <1>5
  <2>2. CASE j \in 1..Len(emitted)
    BY <1>1, <1>4, <1>5, <2>1, <2>2 DEF OrderInv, TurnsRunOnceInOrder
  <2>3. CASE j = Len(emitted) + 1
    BY <1>1, <1>2, <1>4, <1>5, <2>1, <2>3
  <2> QED BY <1>1, <1>3, <2>2, <2>3
<1>6. TurnsRunOnceInOrder'
  BY <1>5 DEF TurnsRunOnceInOrder
<1> QED BY <1>1, <1>2, <1>3, <1>4, <1>6

LEMMA OrderAgent ==
    ASSUME TypeOK, OrderInv, AgentNext
    PROVE  OrderInv'
<1>t. /\ lastTurn \in Nat /\ queue \in Seq(Nat) /\ running \in Nat /\ ending \in Seq(Nat)
      /\ emitted \in Seq(Event) /\ DOMAIN emitted = 1..Len(emitted)
      /\ DOMAIN queue = 1..Len(queue) /\ DOMAIN ending = 1..Len(ending)
      /\ \A i \in DOMAIN emitted : emitted[i] \in Event /\ emitted[i].turn \in Nat
      /\ \A i \in DOMAIN queue : queue[i] \in Nat
      /\ \A i \in DOMAIN ending : ending[i] \in Nat
      /\ DoneInv /\ QueueInv
  BY AgentTypes DEF OrderInv
<1>1. CASE AgentTakeTurn
  <2>1. /\ queue # <<>> /\ running' = Head(queue) /\ queue' = Tail(queue) /\ running = 0
        /\ proc = "alive" /\ UNCHANGED <<emitted, lastTurn, ending, proc>>
    BY <1>1 DEF AgentTakeTurn, runnerVars
  <2>2. /\ Head(queue) = queue[1] /\ DOMAIN queue' = 1..(Len(queue) - 1) /\ 1 \in DOMAIN queue
        /\ \A i \in DOMAIN queue' : queue'[i] = queue[i + 1] /\ i + 1 \in DOMAIN queue
    <3>1. Len(queue) \in Nat /\ Len(queue) # 0
      BY <1>t, <2>1
    <3>2. Tail(queue) \in Seq(Nat) /\ Len(Tail(queue)) = Len(queue) - 1
      BY <1>t, <2>1, TailOf
    <3>3. Head(queue) = queue[1] /\ \A i \in 1..Len(Tail(queue)) : Tail(queue)[i] = queue[i + 1]
      BY <1>t, <2>1, TailOf
    <3> QED BY <1>t, <2>1, <3>1, <3>2, <3>3
  <2>3. QueueInv'
    BY <1>t, <2>1, <2>2 DEF QueueInv
  <2>4. DoneInv'
    BY <1>t, <2>1, <2>2 DEF DoneInv
  <2>5. TurnsRunOnceInOrder'
    BY <2>1 DEF OrderInv, TurnsRunOnceInOrder
  <2> QED BY <2>3, <2>4, <2>5 DEF OrderInv
<1>2. CASE AgentEmit
  <2>1. /\ emitted' = Append(emitted, Message(running))
        /\ UNCHANGED <<lastTurn, queue, running, ending, proc>>
    BY <1>2 DEF AgentEmit
  <2>2. PICK e \in Event : e = Message(running) /\ e.kind # "finished"
    <3>1. Message(running) \in Event
      BY <1>t DEF Message, Event
    <3>2. Message(running).kind = "message"
      BY DEF Message
    <3> QED BY <3>1, <3>2
  <2>3. QueueInv'
    BY <1>t, <2>1 DEF QueueInv
  <2> QED BY <2>1, <2>2, <2>3, OrderOther
<1>3. CASE AgentFinishTurn
  <2>1. /\ emitted' = Append(emitted, Finished(running)) /\ running # 0 /\ ~FinishedTurn(running)
        /\ UNCHANGED <<lastTurn, queue, running, ending, proc>>
    BY <1>3 DEF AgentFinishTurn
  <2>2. ASSUME NEW i \in DOMAIN emitted, emitted[i].kind = "finished"
        PROVE  emitted[i].turn < running
    <3>1. emitted[i].turn <= running
      BY <1>t, <2>1, <2>2 DEF DoneInv
    <3>2. emitted[i].turn # running
      <4>1. emitted[i] = [kind |-> emitted[i].kind, turn |-> emitted[i].turn]
        BY <1>t DEF Event
      <4> QED BY <2>1, <2>2, <4>1 DEF FinishedTurn, Finished
    <3> QED BY <1>t, <3>1, <3>2
  <2>3. /\ TurnsRunOnceInOrder'
        /\ \A i \in DOMAIN emitted' : emitted'[i].kind = "finished" =>
             \/ i \in DOMAIN emitted /\ emitted'[i] = emitted[i]
             \/ emitted'[i].turn = running
    BY <1>t, <2>1, <2>2, OrderFinished
  <2>4. QueueInv'
    BY <1>t, <2>1 DEF QueueInv
  <2>5. proc # "finished"
    BY <1>t, <2>1 DEF QueueInv
  <2>6. DoneInv'
    <3>1. ASSUME NEW i \in DOMAIN emitted', emitted'[i].kind = "finished"
          PROVE  /\ emitted'[i].turn <= lastTurn /\ emitted'[i].turn <= running
                 /\ \A j \in DOMAIN queue : emitted'[i].turn < queue[j]
                 /\ \A j \in DOMAIN ending : emitted'[i].turn < ending[j]
      <4>1. CASE i \in DOMAIN emitted /\ emitted'[i] = emitted[i]
        BY <1>t, <2>1, <3>1, <4>1 DEF DoneInv
      <4>2. CASE emitted'[i].turn = running
        BY <1>t, <2>5, <4>2 DEF QueueInv
      <4> QED BY <2>3, <3>1, <4>1, <4>2
    <3> QED BY <2>1, <3>1 DEF DoneInv
  <2> QED BY <2>3, <2>4, <2>6 DEF OrderInv
<1>4. CASE AgentClearTurn
  <2>1. running' = 0 /\ UNCHANGED <<emitted, lastTurn, queue, ending, proc>> /\ running # 0
    BY <1>4 DEF AgentClearTurn, runnerVars
  <2>2. QueueInv'
    BY <1>t, <2>1 DEF QueueInv
  <2>3. DoneInv' /\ TurnsRunOnceInOrder'
    BY <2>1 DEF OrderInv, DoneInv, TurnsRunOnceInOrder
  <2> QED BY <2>2, <2>3 DEF OrderInv
<1>5. CASE AgentExit
  <2>1. /\ proc = "alive" /\ proc' = "exited"
        /\ UNCHANGED <<emitted, lastTurn, queue, running, ending>>
    BY <1>5 DEF AgentExit, runnerVars
  <2> QED BY <2>1 DEF OrderInv, DoneInv, TurnsRunOnceInOrder, QueueInv
<1>6. CASE AgentFinish
  <2>1. /\ proc = "exited" /\ running = 0 /\ proc' = "finished" /\ queue' = <<>>
        /\ ending' = queue /\ UNCHANGED <<emitted, lastTurn, running>>
    BY <1>6 DEF AgentFinish, runnerVars
  <2>2. QueueInv'
    BY <1>t, <2>1 DEF QueueInv
  <2>3. DoneInv' /\ TurnsRunOnceInOrder'
    BY <2>1 DEF OrderInv, DoneInv, TurnsRunOnceInOrder
  <2> QED BY <2>2, <2>3 DEF OrderInv
<1>7. CASE AgentEndQueued
  <2>1. /\ proc = "finished" /\ ending # <<>> /\ ending' = Tail(ending)
        /\ emitted' = Append(emitted, Finished(Head(ending)))
        /\ UNCHANGED <<lastTurn, queue, running, proc>>
    BY <1>7 DEF AgentEndQueued
  <2>2. /\ Head(ending) = ending[1] /\ DOMAIN ending' = 1..(Len(ending) - 1)
        /\ 1 \in DOMAIN ending
        /\ \A i \in DOMAIN ending' : ending'[i] = ending[i + 1] /\ i + 1 \in DOMAIN ending
    <3>1. Len(ending) \in Nat /\ Len(ending) # 0
      BY <1>t, <2>1
    <3>2. Tail(ending) \in Seq(Nat) /\ Len(Tail(ending)) = Len(ending) - 1
      BY <1>t, <2>1, TailOf
    <3>3. /\ Head(ending) = ending[1]
          /\ \A i \in 1..Len(Tail(ending)) : Tail(ending)[i] = ending[i + 1]
      BY <1>t, <2>1, TailOf
    <3> QED BY <1>t, <2>1, <3>1, <3>2, <3>3
  <2>3. PICK t \in Nat : t = ending[1]
    BY <1>t, <2>2
  <2>4. \A i \in DOMAIN emitted : emitted[i].kind = "finished" => emitted[i].turn < t
    BY <1>t, <2>2, <2>3 DEF DoneInv
  <2>5. /\ TurnsRunOnceInOrder'
        /\ \A i \in DOMAIN emitted' : emitted'[i].kind = "finished" =>
             \/ i \in DOMAIN emitted /\ emitted'[i] = emitted[i]
             \/ emitted'[i].turn = t
    BY <2>1, <2>2, <2>3, <2>4, OrderFinished
  <2>6. QueueInv' /\ queue = <<>> /\ running = 0 /\ DOMAIN queue = {}
    BY <1>t, <2>1, <2>2 DEF QueueInv
  <2>7. /\ \A j \in DOMAIN ending' : t < ending'[j]
        /\ t <= lastTurn
    <3>1. t <= lastTurn
      BY <1>t, <2>2, <2>3 DEF QueueInv
    <3>2. ASSUME NEW j \in DOMAIN ending'
          PROVE  t < ending'[j]
      <4>1. j + 1 \in DOMAIN ending /\ ending'[j] = ending[j + 1] /\ 1 < j + 1
        BY <1>t, <2>2
      <4>2. \A k \in DOMAIN ending : 1 < k => ending[1] < ending[k]
        BY <1>t, <2>2 DEF QueueInv
      <4> QED BY <2>3, <4>1, <4>2
    <3> QED BY <3>1, <3>2
  <2>8. DoneInv'
    <3>1. ASSUME NEW i \in DOMAIN emitted', emitted'[i].kind = "finished"
          PROVE  /\ emitted'[i].turn <= lastTurn
                 /\ \A j \in DOMAIN ending' : emitted'[i].turn < ending'[j]
      <4>1. CASE i \in DOMAIN emitted /\ emitted'[i] = emitted[i]
        BY <1>t, <2>2, <3>1, <4>1 DEF DoneInv
      <4>2. CASE emitted'[i].turn = t
        BY <2>7, <4>2
      <4> QED BY <2>5, <3>1, <4>1, <4>2
    <3> QED BY <2>1, <2>6, <3>1 DEF DoneInv
  <2> QED BY <2>5, <2>6, <2>8 DEF OrderInv
<1>8. CASE AgentReportExit
  <2>1. /\ emitted' = Append(emitted, Exited) /\ proc = "finished" /\ proc' = "reported"
        /\ ending = <<>> /\ UNCHANGED <<lastTurn, queue, running, ending>>
    BY <1>8 DEF AgentReportExit
  <2>2. PICK e \in Event : e = Exited /\ e.kind # "finished"
    <3>1. Exited \in Event
      BY DEF Exited, Event
    <3>2. Exited.kind = "exited"
      BY DEF Exited
    <3> QED BY <3>1, <3>2
  <2>3. QueueInv'
    BY <1>t, <2>1 DEF QueueInv
  <2> QED BY <2>1, <2>2, <2>3, OrderOther
<1> QED BY <1>1, <1>2, <1>3, <1>4, <1>5, <1>6, <1>7, <1>8 DEF AgentNext

\* The runner takes a prompt only if it is new.
LEMMA OrderReceive ==
    ASSUME TypeOK, OrderInv, NEW f \in DownFrame, RunnerReceive(f),
           UNCHANGED <<emitted, running, ending, proc>>
    PROVE  OrderInv'
<1>t. /\ lastTurn \in Nat /\ queue \in Seq(Nat) /\ running \in Nat /\ ending \in Seq(Nat)
      /\ DOMAIN queue = 1..Len(queue) /\ DOMAIN ending = 1..Len(ending)
      /\ \A i \in DOMAIN emitted : emitted[i].turn \in Nat
      /\ \A i \in DOMAIN queue : queue[i] \in Nat
      /\ \A i \in DOMAIN ending : ending[i] \in Nat
      /\ DoneInv /\ QueueInv /\ f.n \in Nat
  BY AgentTypes DEF OrderInv, DownFrame
<1>1. CASE UNCHANGED <<lastTurn, queue>>
  BY <1>1, OrderKept
<1>2. CASE /\ proc \notin {"finished", "reported"} /\ ~(f.n <= lastTurn) /\ lastTurn' = f.n
           /\ queue' = Append(queue, f.n)
  <2>1. f.n > lastTurn
    BY <1>t, <1>2
  <2>2. /\ DOMAIN queue' = 1..(Len(queue) + 1) /\ queue'[Len(queue) + 1] = f.n
        /\ \A i \in DOMAIN queue : queue'[i] = queue[i]
        /\ Len(queue) \in Nat
    <3>1. Append(queue, f.n) \in Seq(Nat) /\ Len(Append(queue, f.n)) = Len(queue) + 1
      BY <1>t, AppendTo
    <3> QED BY <1>t, <1>2, <3>1, AppendTo
  <2>3. QueueInv'
    <3>1. ASSUME NEW i \in DOMAIN queue'
          PROVE  running < queue'[i] /\ queue'[i] <= f.n
      <4>1. CASE i \in DOMAIN queue
        BY <1>t, <2>1, <2>2, <4>1 DEF QueueInv
      <4>2. CASE i = Len(queue) + 1
        BY <1>t, <2>1, <2>2, <4>2 DEF QueueInv
      <4> QED BY <1>t, <2>2, <4>1, <4>2
    <3>2. ASSUME NEW i \in DOMAIN queue', NEW j \in DOMAIN queue', i < j
          PROVE  queue'[i] < queue'[j]
      <4>1. i \in DOMAIN queue
        BY <1>t, <2>2, <3>2
      <4>2. CASE j \in DOMAIN queue
        BY <1>t, <2>2, <3>2, <4>1, <4>2 DEF QueueInv
      <4>3. CASE j = Len(queue) + 1
        BY <1>t, <2>1, <2>2, <4>1, <4>3 DEF QueueInv
      <4> QED BY <1>t, <2>2, <4>2, <4>3
    <3>3. running <= lastTurn' /\ \A i \in DOMAIN ending : ending[i] <= lastTurn'
      BY <1>t, <1>2, <2>1 DEF QueueInv
    <3> QED BY <1>t, <1>2, <3>1, <3>2, <3>3 DEF QueueInv
  <2>4. DoneInv'
    BY <1>t, <1>2, <2>1, <2>2 DEF DoneInv
  <2>5. TurnsRunOnceInOrder'
    BY DEF OrderInv, TurnsRunOnceInOrder
  <2> QED BY <2>3, <2>4, <2>5 DEF OrderInv
<1> QED BY <1>1, <1>2 DEF RunnerReceive, RunnerPrompt

LEMMA OrderStep ==
    ASSUME TypeOK, OrderInv, [Next]_vars
    PROVE  OrderInv'
<1>1. CASE AgentNext
  BY <1>1, OrderAgent
<1>2. CASE Relay
  <2>1. Head(ioDown) \in DownFrame
    BY <1>2, LinkTypes, TailOf DEF Relay
  <2> QED BY <1>2, <2>1, OrderReceive DEF Relay
<1>3. CASE StrayRelay
  <2>1. Head(strays) \in DownFrame
    BY <1>3, LinkTypes, TailOf DEF StrayRelay
  <2> QED BY <1>3, <2>1, OrderReceive DEF StrayRelay
<1>4. CASE FeedStart \/ FeedEvent \/ OpenIO \/ SidecarOpen \/ SidecarForward
  BY <1>4, OrderKept
     DEF FeedStart, FeedEvent, OpenIO, SidecarOpen, SidecarForward, agentVars, runnerVars
<1>5. CASE LinkNext
  BY <1>5, OrderKept DEF LinkNext, SendCommand, SendAck, ServerReceive, agentVars, runnerVars
<1>6. CASE ApiNext
  BY <1>6, OrderKept
     DEF ApiNext, StartTurn, Ungate, Consume, ReconcileBegin, ReconcileList, ReconcileFinish,
         Stop, agentVars, runnerVars
<1>7. CASE FaultNext
  BY <1>7, OrderKept
     DEF FaultNext, Break, SidecarRestart, HarnessRestart, agentVars, runnerVars
<1>8. CASE UNCHANGED vars
  BY <1>8, OrderKept DEF vars, agentVars, runnerVars
<1> QED BY <1>1, <1>2, <1>3, <1>4, <1>5, <1>6, <1>7, <1>8 DEF Next, PodNext

LEMMA OrderInit ==
    ASSUME Init
    PROVE  OrderInv
<1>1. /\ DOMAIN emitted = {1} /\ emitted[1].kind = "ready" /\ DOMAIN queue = {}
      /\ DOMAIN ending = {} /\ queue = <<>> /\ ending = <<>> /\ running = 0 /\ lastTurn = 0
  BY DEF Init, Ready
<1> QED BY <1>1 DEF OrderInv, TurnsRunOnceInOrder, DoneInv, QueueInv

LEMMA OrderAlways == Spec => []OrderInv
BY OrderInit, OrderStep, TypeCorrect, PTL DEF Spec

\* However often prompts are resent, duplicated or overtaken, the agent runs
\* each turn once, and in the order of turn_seq (session.prompt, nextTurn,
\* finish).
THEOREM RunsOnceInOrder == Spec => []TurnsRunOnceInOrder
<1>1. OrderInv => TurnsRunOnceInOrder
  BY DEF OrderInv
<1> QED BY <1>1, OrderAlways, PTL

-----------------------------------------------------------------------------
(* What the queues hold.                                                   *)

LEMMA ElemsNone == Elems(<<>>) = {}
BY DEF Elems

LEMMA ElemsTail ==
    ASSUME NEW S, NEW s \in Seq(S), s # <<>>
    PROVE  Head(s) \in Elems(s) /\ Elems(Tail(s)) \subseteq Elems(s)
<1>1. Head(s) = s[1] /\ DOMAIN s = 1..Len(s) /\ Len(s) \in Nat /\ 1 \in DOMAIN s
  BY TailOf
<1>2. /\ DOMAIN Tail(s) = 1..(Len(s) - 1)
      /\ \A i \in DOMAIN Tail(s) : Tail(s)[i] = s[i + 1] /\ i + 1 \in DOMAIN s
  <2>1. Tail(s) \in Seq(S) /\ Len(Tail(s)) = Len(s) - 1
    BY TailOf
  <2>2. \A i \in 1..Len(Tail(s)) : Tail(s)[i] = s[i + 1]
    BY TailOf
  <2> QED BY <1>1, <2>1, <2>2
<1> QED BY <1>1, <1>2 DEF Elems

LEMMA ElemsAppend ==
    ASSUME NEW S, NEW s \in Seq(S), NEW e \in S
    PROVE  Elems(Append(s, e)) \subseteq Elems(s) \cup {e}
<1>1. /\ DOMAIN s = 1..Len(s) /\ Len(s) \in Nat
      /\ DOMAIN Append(s, e) = 1..(Len(s) + 1)
  BY AppendTo
<1>2. \A i \in DOMAIN Append(s, e) : i \in DOMAIN s \/ i = Len(s) + 1
  BY <1>1
<1>3. Append(s, e)[Len(s) + 1] = e /\ \A i \in DOMAIN s : Append(s, e)[i] = s[i]
  BY <1>1, AppendTo
<1> QED BY <1>2, <1>3 DEF Elems

LEMMA ElemsConcat ==
    ASSUME NEW S, NEW s \in Seq(S), NEW q \in Seq(S)
    PROVE  s \o q \in Seq(S) /\ Elems(s \o q) \subseteq Elems(s) \cup Elems(q)
<1>1. /\ Len(s \o q) = Len(s) + Len(q) /\ s \o q \in Seq(S)
      /\ \A i \in 1..Len(s) : (s \o q)[i] = s[i]
      /\ \A i \in 1..Len(q) : (s \o q)[Len(s) + i] = q[i]
      /\ Len(s) \in Nat /\ Len(q) \in Nat
      /\ DOMAIN s = 1..Len(s) /\ DOMAIN q = 1..Len(q)
  OBVIOUS
<1>2. DOMAIN (s \o q) = 1..(Len(s) + Len(q))
  BY <1>1
<1>3. ASSUME NEW i \in DOMAIN (s \o q)
      PROVE  (s \o q)[i] \in Elems(s) \cup Elems(q)
  <2>1. CASE i \in 1..Len(s)
    BY <1>1, <2>1 DEF Elems
  <2>2. CASE i \notin 1..Len(s)
    <3>1. i - Len(s) \in 1..Len(q) /\ Len(s) + (i - Len(s)) = i
      BY <1>1, <1>2, <2>2
    <3>2. (s \o q)[i] = q[i - Len(s)]
      BY <1>1, <3>1
    <3> QED BY <1>1, <3>1, <3>2 DEF Elems
  <2> QED BY <2>1, <2>2
<1>4. \A x \in Elems(s \o q) : x \in Elems(s) \cup Elems(q)
  <2> TAKE x \in Elems(s \o q)
  <2>1. PICK i \in DOMAIN (s \o q) : x = (s \o q)[i]
    BY DEF Elems
  <2> QED BY <1>3, <2>1
<1> QED BY <1>1, <1>4

LEMMA ElemsPrefix ==
    ASSUME NEW S, NEW s \in Seq(S), NEW n \in 0..Len(s)
    PROVE  SubSeq(s, 1, n) \in Seq(S) /\ Elems(SubSeq(s, 1, n)) \subseteq Elems(s)
<1>1. /\ Len(SubSeq(s, 1, n)) = n /\ \A i \in 1..n : i \in 1..Len(s)
      /\ \A i \in 1..n : SubSeq(s, 1, n)[i] = s[i]
      /\ SubSeq(s, 1, n) \in Seq(S) /\ DOMAIN s = 1..Len(s)
  OBVIOUS
<1>2. DOMAIN SubSeq(s, 1, n) = 1..n
  BY <1>1
<1> QED BY <1>1, <1>2 DEF Elems

\* release() sends the prompts of h or holds them.
LEMMA ReleaseElems ==
    ASSUME TypeOK, NEW h \in SUBSET Turns, NEW g, NEW s, Release(h, g, s)
    PROVE  /\ held' \subseteq h
           /\ Elems(commands') \subseteq Elems(commands) \cup h
           /\ g \/ s => held' = h
<1>1. CASE g \/ s
  BY <1>1 DEF Release
<1>2. CASE ~(g \/ s)
  <2>1. held' = {}
    BY <1>2 DEF Release
  <2>2. PICK q \in Ascending(h) : commands' = commands \o q
    BY <1>2 DEF Release
  <2>3. q \in Seq(Turns) /\ commands \in Seq(Turns)
    BY AscendingType DEF TypeOK, ServerType
  <2>4. Elems(q) \subseteq h
    BY DEF Elems, Ascending
  <2>5. Elems(commands') \subseteq Elems(commands) \cup Elems(q)
    BY <2>2, <2>3, ElemsConcat
  <2> QED BY <1>2, <2>1, <2>4, <2>5
<1> QED BY <1>1, <1>2

-----------------------------------------------------------------------------
(* A turn that the agent has is outstanding.                               *)

LEMMA PromptsSub ==
    ASSUME NEW s, NEW r, Elems(r) \subseteq Elems(s), Prompts(s)
    PROVE  Prompts(r)
BY DEF Prompts

LEMMA SnapsSub ==
    ASSUME NEW s, NEW r, Elems(r) \subseteq Elems(s), Snaps(s)
    PROVE  Snaps(r)
BY DEF Snaps

\* A step that moves frames and prompts, and changes neither the agent nor what
\* is saved.
LEMMA BusyMove ==
    ASSUME BusyInv, Linked, UNCHANGED <<lastTurn, queue, running, emitted, cmds, turns>>,
           Prompts(ioDown'), Prompts(strays'),
           \A t \in Elems(commands') : OnWay(t), \A t \in held' : OnWay(t),
           Snaps(frames'), Snaps(ioUp'), Snaps(inbox'), ReconOk'
    PROVE  BusyInv'
<1>1. /\ \A t \in Turns : AtAgent(t)' <=> AtAgent(t)
      /\ \A t : Saved(t)' <=> Saved(t)
  BY DEF AtAgent, FinishedTurn, Elems, Saved
<1>2. \A t : OnWay(t) => OnWay(t)'
  BY <1>1 DEF OnWay
<1>3. \A l, o : SnapOk(l, o) => SnapOk(l, o)'
  BY <1>1 DEF SnapOk
<1>4. AgentSaved'
  BY <1>1 DEF BusyInv, AgentSaved
<1>5. WaySaved'
  BY <1>2 DEF WaySaved, Prompts
<1>6. SnapsOk'
  BY <1>3 DEF SnapsOk, Snaps
<1> QED BY <1>4, <1>5, <1>6 DEF BusyInv

\* A step that leaves the turns and the reconciliation alone too.
LEMMA BusyMoved ==
    ASSUME BusyInv, Linked, UNCHANGED <<lastTurn, queue, running, emitted, cmds, turns>>,
           UNCHANGED <<held, recon, syncing>>, Elems(commands') \subseteq Elems(commands),
           Prompts(ioDown'), Prompts(strays'), Snaps(frames'), Snaps(ioUp'), Snaps(inbox')
    PROVE  BusyInv'
<1>1. ReconOk /\ WaySaved
  BY DEF BusyInv
<1>2. \A t \in Turns : AtAgent(t)' <=> AtAgent(t)
  BY DEF AtAgent, FinishedTurn, Elems
<1>3. ReconOk'
  BY <1>1, <1>2 DEF ReconOk, SnapOk
<1>4. /\ \A t \in Elems(commands') : OnWay(t)
      /\ \A t \in held' : OnWay(t)
  BY <1>1 DEF WaySaved
<1> QED BY <1>3, <1>4, BusyMove

\* What the agent does on its own takes no turn on: it gives some up.
LEMMA BusyAgent ==
    ASSUME TypeOK, BusyInv, Linked, AgentNext
    PROVE  BusyInv'
<1>t. queue \in Seq(Nat) /\ emitted \in Seq(Event) /\ running \in Nat /\ ending \in Seq(Nat)
  BY AgentTypes
<1>u. UNCHANGED <<lastTurn, sidecarVars, wireVars, serverVars, bindingVars, storeVars, faultVars>>
  BY DEF AgentNext, AgentTakeTurn, AgentEmit, AgentFinishTurn, AgentClearTurn, AgentExit,
         AgentFinish, AgentEndQueued, AgentReportExit
<1>1. \A t \in Turns : FinishedTurn(t) => FinishedTurn(t)'
  <2>1. ASSUME NEW e \in Event, emitted' = Append(emitted, e)
        PROVE  \A i \in DOMAIN emitted : i \in DOMAIN emitted' /\ emitted'[i] = emitted[i]
    <3>1. DOMAIN emitted = 1..Len(emitted) /\ Len(emitted) \in Nat
      BY <1>t
    <3>2. DOMAIN emitted' = 1..(Len(emitted) + 1)
      BY <1>t, <2>1, AppendTo
    <3>3. \A i \in 1..Len(emitted) : emitted'[i] = emitted[i]
      BY <1>t, <2>1, AppendTo
    <3> QED BY <3>1, <3>2, <3>3
  <2>2. UNCHANGED emitted \/ \E e \in Event : emitted' = Append(emitted, e)
    <3>1. /\ \A t \in Nat : Message(t) \in Event /\ Finished(t) \in Event
          /\ Exited \in Event
      BY DEF Message, Finished, Exited, Event
    <3>2. CASE AgentTakeTurn \/ AgentClearTurn \/ AgentExit \/ AgentFinish
      BY <3>2 DEF AgentTakeTurn, AgentClearTurn, AgentExit, AgentFinish, runnerVars
    <3>3. CASE AgentEmit \/ AgentFinishTurn \/ AgentReportExit
      BY <1>t, <3>1, <3>3 DEF AgentEmit, AgentFinishTurn, AgentReportExit
    <3>4. CASE AgentEndQueued
      <4>1. Head(ending) \in Nat
        BY <1>t, <3>4, TailOf DEF AgentEndQueued
      <4> QED BY <3>1, <3>4, <4>1 DEF AgentEndQueued
    <3> QED BY <3>2, <3>3, <3>4 DEF AgentNext
  <2>3. \A i \in DOMAIN emitted : i \in DOMAIN emitted' /\ emitted'[i] = emitted[i]
    BY <2>1, <2>2
  <2> QED BY <2>3 DEF FinishedTurn
<1>2. \A t \in Turns : t = running' \/ t \in Elems(queue') => t = running \/ t \in Elems(queue)
  <2>0. 0 \notin Turns
    BY BoundsAssumption DEF Turns
  <2>1. CASE AgentTakeTurn
    <3>1. queue # <<>> /\ running' = Head(queue) /\ queue' = Tail(queue)
      BY <2>1 DEF AgentTakeTurn
    <3>2. Head(queue) \in Elems(queue) /\ Elems(Tail(queue)) \subseteq Elems(queue)
      BY <1>t, <3>1, ElemsTail
    <3> QED BY <3>1, <3>2
  <2>2. CASE AgentClearTurn
    BY <2>0, <2>2 DEF AgentClearTurn
  <2>3. CASE AgentFinish
    BY <2>3, ElemsNone DEF AgentFinish
  <2>4. CASE AgentEmit \/ AgentFinishTurn \/ AgentExit \/ AgentEndQueued \/ AgentReportExit
    BY <2>4 DEF AgentEmit, AgentFinishTurn, AgentExit, AgentEndQueued, AgentReportExit
  <2> QED BY <2>1, <2>2, <2>3, <2>4 DEF AgentNext
<1>3. \A t \in Turns : AtAgent(t)' => AtAgent(t)
  BY <1>1, <1>2 DEF AtAgent
<1>4. \A l, o : SnapOk(l, o) => SnapOk(l, o)'
  BY <1>u, <1>3 DEF SnapOk
<1>5. \A t : (Saved(t) => Saved(t)') /\ (OnWay(t) => OnWay(t)')
  BY <1>u DEF Saved, OnWay, bindingVars, storeVars
<1>6. AgentSaved'
  BY <1>3, <1>5 DEF BusyInv, AgentSaved
<1>7. WaySaved'
  BY <1>u, <1>5 DEF BusyInv, WaySaved, Prompts, sidecarVars, wireVars, serverVars, bindingVars
<1>8. SnapsOk'
  BY <1>u, <1>4 DEF BusyInv, SnapsOk, Snaps, sidecarVars, wireVars, serverVars
<1>9. ReconOk'
  BY <1>u, <1>4 DEF BusyInv, ReconOk, bindingVars, storeVars
<1> QED BY <1>6, <1>7, <1>8, <1>9 DEF BusyInv

\* A prompt that the runner takes is saved, and is newer than every snapshot.
LEMMA BusyReceive ==
    ASSUME TypeOK, OrderInv, BusyInv, Linked, NEW f \in DownFrame, RunnerReceive(f),
           f.type = "prompt" => f.n \in Turns /\ OnWay(f.n),
           Elems(ioDown') \subseteq Elems(ioDown), Elems(strays') \subseteq Elems(strays),
           UNCHANGED <<running, emitted, frames, ioUp, inbox, commands, bindingVars, cmds>>
    PROVE  BusyInv'
<1>t. queue \in Seq(Nat) /\ lastTurn \in Nat /\ f.n \in Nat
  BY AgentTypes DEF DownFrame
<1>1. CASE UNCHANGED <<lastTurn, queue>>
  <2>1. Prompts(ioDown') /\ Prompts(strays')
    BY PromptsSub DEF BusyInv, WaySaved
  <2>2. Snaps(frames') /\ Snaps(ioUp') /\ Snaps(inbox')
    BY DEF BusyInv, SnapsOk
  <2> QED BY <1>1, <2>1, <2>2, BusyMoved DEF bindingVars
<1>2. CASE /\ f.type = "prompt" /\ ~(f.n <= lastTurn) /\ lastTurn' = f.n
           /\ queue' = Append(queue, f.n)
  <2>1. lastTurn < lastTurn' /\ f.n > lastTurn
    BY <1>t, <1>2
  <2>2. Elems(queue') \subseteq Elems(queue) \cup {f.n}
    BY <1>t, <1>2, ElemsAppend
  <2>3. \A t \in Turns : AtAgent(t)' => AtAgent(t) \/ t = f.n
    BY <2>2 DEF AtAgent, FinishedTurn
  <2>4. Saved(f.n)
    BY <1>2, <2>1 DEF OnWay
  <2>5. \A t : Saved(t) => Saved(t)'
    BY DEF Saved, bindingVars
  <2>6. AgentSaved'
    BY <2>3, <2>4, <2>5 DEF BusyInv, AgentSaved
  <2>7. \A t \in Turns : OnWay(t) => OnWay(t)'
    <3> SUFFICES ASSUME NEW t \in Turns, OnWay(t), t > lastTurn' PROVE Saved(t)'
      BY DEF OnWay
    <3>1. t > lastTurn
      BY <1>t, <1>2, <2>1, BoundsAssumption DEF Turns
    <3> QED BY <2>5, <3>1 DEF OnWay
  <2>8. \A l \in Nat : \A o : SnapOk(l, o) => SnapOk(l, o)'
    <3> SUFFICES ASSUME NEW l \in Nat, NEW o, SnapOk(l, o) PROVE SnapOk(l, o)'
      OBVIOUS
    <3>1. l <= lastTurn'
      BY <1>t, <1>2, <2>1 DEF SnapOk
    <3>2. ASSUME NEW t \in Turns, AtAgent(t)', t <= l PROVE t \in o
      <4>1. t # f.n
        BY <1>t, <2>1, <3>2 DEF SnapOk
      <4> QED BY <2>3, <3>2, <4>1 DEF SnapOk
    <3> QED BY <3>1, <3>2 DEF SnapOk
  <2>9. WaySaved'
    <3>1. commands \in Seq(Turns) /\ held \in SUBSET Turns
      BY DEF TypeOK, ServerType, BindingType
    <3>2. Elems(commands) \subseteq Turns
      BY <3>1 DEF Elems
    <3>3. Prompts(ioDown)' /\ Prompts(strays)'
      BY <2>7 DEF BusyInv, WaySaved, Prompts
    <3>4. /\ (\A t \in Elems(commands) : OnWay(t))'
          /\ (\A t \in held : OnWay(t))'
      BY <2>7, <3>1, <3>2 DEF BusyInv, WaySaved, bindingVars
    <3> QED BY <3>3, <3>4 DEF WaySaved
  <2>10. SnapsOk'
    <3>1. frames \in Seq(UpFrame) /\ ioUp \in Seq(UpFrame) /\ inbox \in Seq(UpFrame)
      BY LinkTypes
    <3>2. \A s \in Seq(UpFrame) : \A g \in Elems(s) : g.last \in Nat
      <4>1. \A s \in Seq(UpFrame) : Elems(s) \subseteq UpFrame
        BY DEF Elems
      <4>2. \A g \in UpFrame : g.last \in Nat
        BY DEF UpFrame
      <4> QED BY <4>1, <4>2
    <3>3. \A s \in Seq(UpFrame) : Snaps(s) => Snaps(s)'
      BY <2>8, <3>2 DEF Snaps
    <3> QED BY <3>1, <3>3 DEF BusyInv, SnapsOk, Snaps
  <2>11. ReconOk'
    <3>1. recon.last \in Nat
      BY DEF TypeOK, BindingType
    <3> QED BY <2>8, <3>1 DEF BusyInv, ReconOk, bindingVars
  <2> QED BY <2>6, <2>9, <2>10, <2>11 DEF BusyInv
<1> QED BY <1>1, <1>2 DEF RunnerReceive, RunnerPrompt

\* Frames and prompts on their way between the runner and the platform.
LEMMA BusyLink ==
    ASSUME TypeOK, OrderInv, BusyInv, Linked, PodNext \/ LinkNext
    PROVE  BusyInv'
<1>t. /\ frames \in Seq(UpFrame) /\ ioUp \in Seq(UpFrame) /\ inbox \in Seq(UpFrame)
      /\ ioDown \in Seq(DownFrame) /\ strays \in Seq(DownFrame) /\ commands \in Seq(Turns)
      /\ cursor \in Nat /\ replays \in Nat /\ acked \in Nat /\ delivered \in Nat
      /\ emitted \in Seq(Event)
  BY LinkTypes DEF TypeOK, ServerType
<1>s. Snaps(frames) /\ Snaps(ioUp) /\ Snaps(inbox) /\ Prompts(ioDown) /\ Prompts(strays)
  BY DEF BusyInv, SnapsOk, WaySaved
<1>n. Snaps(<<>>) /\ Prompts(<<>>)
  BY ElemsNone DEF Snaps, Prompts
<1>a. ASSUME NEW s \in Seq(UpFrame), NEW f \in UpFrame, Snaps(s),
             f.type = "state" => SnapOk(f.last, f.out)
      PROVE  Snaps(Append(s, f))
  <2>1. Elems(Append(s, f)) \subseteq Elems(s) \cup {f}
    BY <1>a, ElemsAppend
  <2> QED BY <1>a, <2>1 DEF Snaps
<1>b. ASSUME NEW s \in Seq(DownFrame), NEW f \in DownFrame, Prompts(s),
             f.type = "prompt" => f.n \in Turns /\ OnWay(f.n)
      PROVE  Prompts(Append(s, f))
  <2>1. Elems(Append(s, f)) \subseteq Elems(s) \cup {f}
    BY <1>b, ElemsAppend
  <2> QED BY <1>b, <2>1 DEF Prompts
<1>c. ASSUME NEW s \in Seq(UpFrame), s # <<>>, Snaps(s)
      PROVE  /\ Snaps(Tail(s)) /\ Head(s) \in UpFrame
             /\ Head(s).type = "state" => SnapOk(Head(s).last, Head(s).out)
  <2>1. Head(s) \in Elems(s) /\ Elems(Tail(s)) \subseteq Elems(s) /\ Head(s) \in UpFrame
    BY <1>c, ElemsTail, TailOf
  <2> QED BY <1>c, <2>1 DEF Snaps
<1>d. ASSUME NEW s \in Seq(DownFrame), s # <<>>, Prompts(s)
      PROVE  /\ Prompts(Tail(s)) /\ Head(s) \in DownFrame /\ Elems(Tail(s)) \subseteq Elems(s)
             /\ Head(s).type = "prompt" => Head(s).n \in Turns /\ OnWay(Head(s).n)
  <2>1. Head(s) \in Elems(s) /\ Elems(Tail(s)) \subseteq Elems(s) /\ Head(s) \in DownFrame
    BY <1>d, ElemsTail, TailOf
  <2> QED BY <1>d, <2>1 DEF Prompts
<1> USE DEF agentVars, runnerVars, sidecarVars, wireVars, serverVars, bindingVars, storeVars
<1>1. CASE FeedStart
  <2>1. PICK f \in UpFrame : f = StateFrame(cursor, replays)
    BY <1>t, FrameTypes
  <2>2. f.last = lastTurn /\ f.out = Elems(queue) \cup ({running} \ {0})
    BY <2>1 DEF StateFrame, Elems
  <2>3. SnapOk(f.last, f.out)
    <3>1. 0 \notin Turns /\ lastTurn <= lastTurn
      BY AgentTypes, BoundsAssumption DEF Turns
    <3> QED BY <2>2, <3>1 DEF SnapOk, AtAgent
  <2>4. Snaps(Append(frames, f))
    BY <1>t, <1>s, <1>a, <2>3
  <2>5. /\ frames' = Append(frames, f)
        /\ UNCHANGED <<lastTurn, queue, running, emitted, cmds, turns, held, recon, syncing,
                       commands, ioDown, strays, ioUp, inbox>>
    BY <1>1, <2>1 DEF FeedStart
  <2> QED BY <1>s, <2>4, <2>5, BusyMoved
<1>2. CASE FeedEvent
  <2>1. /\ UNCHANGED <<lastTurn, queue, running, emitted, cmds, turns, held, recon, syncing,
                       commands, ioDown, strays, ioUp, inbox>>
        /\ \/ UNCHANGED frames
           \/ /\ frames' = Append(frames, EventFrame(cursor + 1, replays))
              /\ cursor < Len(emitted)
    BY <1>2 DEF FeedEvent
  <2>2. CASE UNCHANGED frames
    BY <1>s, <2>1, <2>2, BusyMoved
  <2>3. CASE /\ frames' = Append(frames, EventFrame(cursor + 1, replays))
             /\ cursor < Len(emitted)
    <3>1. cursor + 1 \in 1..Len(emitted)
      BY <1>t, <2>3
    <3>2. PICK f \in UpFrame : f = EventFrame(cursor + 1, replays)
      BY <1>t, <3>1, FrameTypes
    <3>3. f.type = "event"
      BY <3>2 DEF EventFrame
    <3>4. Snaps(Append(frames, f))
      BY <1>t, <1>s, <1>a, <3>3
    <3> QED BY <1>s, <2>1, <2>3, <3>2, <3>4, BusyMoved
  <2> QED BY <2>1, <2>2, <2>3
<1>3. CASE OpenIO
  <2>1. /\ ioDown' = <<Open(delivered)>>
        /\ UNCHANGED <<lastTurn, queue, running, emitted, cmds, turns, held, recon, syncing,
                       commands, frames, strays, ioUp, inbox>>
    BY <1>3 DEF OpenIO
  <2>2. Elems(<<Open(delivered)>>) = {Open(delivered)} /\ Open(delivered).type = "open"
    BY DEF Elems, Open
  <2>3. Prompts(ioDown')
    BY <2>1, <2>2 DEF Prompts
  <2> QED BY <1>s, <2>1, <2>3, BusyMoved
<1>4. CASE SidecarOpen
  <2>1. /\ ioDown # <<>> /\ ioDown' \in {Tail(ioDown), <<>>}
        /\ UNCHANGED <<lastTurn, queue, running, emitted, cmds, turns, held, recon, syncing,
                       commands, frames, strays, ioUp, inbox>>
    BY <1>4 DEF SidecarOpen
  <2>2. Prompts(ioDown')
    BY <1>t, <1>s, <1>n, <1>d, <2>1
  <2> QED BY <1>s, <2>1, <2>2, BusyMoved
<1>5. CASE SidecarForward
  <2>1. /\ frames # <<>> /\ frames' = Tail(frames)
        /\ ioUp' \in {ioUp, Append(ioUp, Head(frames))}
        /\ UNCHANGED <<lastTurn, queue, running, emitted, cmds, turns, held, recon, syncing,
                       commands, ioDown, strays, inbox>>
    BY <1>5 DEF SidecarForward
  <2>2. /\ Snaps(Tail(frames)) /\ Head(frames) \in UpFrame
        /\ Head(frames).type = "state" => SnapOk(Head(frames).last, Head(frames).out)
    BY <1>t, <1>s, <1>c, <2>1
  <2>3. Snaps(Append(ioUp, Head(frames)))
    BY <1>t, <1>s, <1>a, <2>2
  <2> QED BY <1>s, <2>1, <2>2, <2>3, BusyMoved
<1>6. CASE Relay
  <2>1. /\ ioDown # <<>> /\ ioDown' = Tail(ioDown) /\ RunnerReceive(Head(ioDown))
        /\ UNCHANGED <<running, emitted, frames, ioUp, inbox, commands, bindingVars, cmds,
                       strays>>
    BY <1>6 DEF Relay
  <2>2. PICK f \in DownFrame : f = Head(ioDown)
    BY <1>t, <1>s, <1>d, <2>1
  <2>3. /\ Elems(Tail(ioDown)) \subseteq Elems(ioDown)
        /\ f.type = "prompt" => f.n \in Turns /\ OnWay(f.n)
    BY <1>t, <1>s, <1>d, <2>1, <2>2
  <2> QED BY <2>1, <2>2, <2>3, BusyReceive
<1>7. CASE StrayRelay
  <2>1. /\ strays # <<>> /\ strays' = Tail(strays) /\ RunnerReceive(Head(strays))
        /\ UNCHANGED <<running, emitted, frames, ioUp, inbox, commands, bindingVars, cmds,
                       ioDown>>
    BY <1>7 DEF StrayRelay
  <2>2. PICK f \in DownFrame : f = Head(strays)
    BY <1>t, <1>s, <1>d, <2>1
  <2>3. /\ Elems(Tail(strays)) \subseteq Elems(strays)
        /\ f.type = "prompt" => f.n \in Turns /\ OnWay(f.n)
    BY <1>t, <1>s, <1>d, <2>1, <2>2
  <2> QED BY <2>1, <2>2, <2>3, BusyReceive
<1>8. CASE SendCommand
  <2>1. /\ commands # <<>> /\ ioDown' = Append(ioDown, Prompt(Head(commands)))
        /\ commands' = Tail(commands)
        /\ UNCHANGED <<lastTurn, queue, running, emitted, cmds, turns, held, recon, syncing,
                       frames, strays, ioUp, inbox>>
    BY <1>8 DEF SendCommand
  <2>2. Head(commands) \in Elems(commands) /\ Elems(Tail(commands)) \subseteq Elems(commands)
    BY <1>t, <2>1, ElemsTail
  <2>3. PICK t \in Turns : t = Head(commands)
    BY <1>t, <2>1, TailOf
  <2>4. OnWay(t)
    BY <2>2, <2>3 DEF BusyInv, WaySaved
  <2>5. t \in Nat
    BY BoundsAssumption DEF Turns
  <2>6. PICK f \in DownFrame : f = Prompt(t) /\ f.n = t
    <3>1. Prompt(t) \in DownFrame
      BY <2>5 DEF Prompt, DownFrame
    <3>2. Prompt(t).n = t
      BY DEF Prompt
    <3> QED BY <3>1, <3>2
  <2>7. Prompts(Append(ioDown, f))
    BY <1>t, <1>s, <1>b, <2>4, <2>6
  <2> QED BY <1>s, <2>1, <2>2, <2>3, <2>6, <2>7, BusyMoved
<1>9. CASE SendAck
  <2>1. /\ ioDown' = Append(ioDown, Ack(acked))
        /\ UNCHANGED <<lastTurn, queue, running, emitted, cmds, turns, held, recon, syncing,
                       commands, frames, strays, ioUp, inbox>>
    BY <1>9 DEF SendAck
  <2>2. PICK f \in DownFrame : f = Ack(acked) /\ f.type = "ack"
    <3>1. Ack(acked) \in DownFrame
      BY <1>t DEF Ack, DownFrame
    <3>2. Ack(acked).type = "ack"
      BY DEF Ack
    <3> QED BY <3>1, <3>2
  <2>3. Prompts(Append(ioDown, f))
    BY <1>t, <1>s, <1>b, <2>2
  <2> QED BY <1>s, <2>1, <2>2, <2>3, BusyMoved
<1>10. CASE ServerReceive
  <2>1. /\ ioUp # <<>> /\ ioUp' \in {Tail(ioUp), <<>>} /\ ioDown' \in {ioDown, <<>>}
        /\ inbox' \in {inbox, Append(inbox, Head(ioUp))}
        /\ UNCHANGED <<lastTurn, queue, running, emitted, cmds, turns, held, recon, syncing,
                       commands, frames, strays>>
    BY <1>10 DEF ServerReceive
  <2>2. /\ Snaps(Tail(ioUp)) /\ Head(ioUp) \in UpFrame
        /\ Head(ioUp).type = "state" => SnapOk(Head(ioUp).last, Head(ioUp).out)
    BY <1>t, <1>s, <1>c, <2>1
  <2>3. Snaps(Append(inbox, Head(ioUp)))
    BY <1>t, <1>s, <1>a, <2>2
  <2>4. Snaps(ioUp') /\ Snaps(inbox') /\ Prompts(ioDown')
    BY <1>s, <1>n, <2>1, <2>2, <2>3
  <2> QED BY <1>s, <2>1, <2>4, BusyMoved
<1> QED BY <1>1, <1>2, <1>3, <1>4, <1>5, <1>6, <1>7, <1>8, <1>9, <1>10 DEF PodNext, LinkNext

\* New prompts, and the consumer.
LEMMA BusyApi ==
    ASSUME TypeOK, LinkInv, OrderInv, BusyInv, Linked,
           StartTurn \/ Ungate \/ Consume \/ ReconcileBegin \/ ReconcileList
    PROVE  BusyInv'
<1>t. /\ inbox \in Seq(UpFrame) /\ held \in SUBSET Turns /\ cmds \in SUBSET Turns
      /\ turnSeq \in 0..MaxTurn /\ lastTurn \in Nat /\ emitted \in Seq(Event)
      /\ recon \in [st : {"idle", "begun", "listed"}, last : Nat, out : SUBSET Nat,
                    cmds : SUBSET Turns]
      /\ syncing \in BOOLEAN
  BY LinkTypes, AgentTypes DEF TypeOK, BindingType, StoreType
<1>s. /\ AgentSaved /\ WaySaved /\ SnapsOk /\ ReconOk
      /\ Snaps(frames) /\ Snaps(ioUp) /\ Snaps(inbox) /\ Prompts(ioDown) /\ Prompts(strays)
  BY DEF BusyInv, SnapsOk, WaySaved
<1> USE DEF agentVars, runnerVars, sidecarVars, wireVars, serverVars, bindingVars, storeVars
<1>1. CASE StartTurn
  <2>u. /\ turnSeq' = turnSeq + 1 /\ turnSeq < MaxTurn
        /\ UNCHANGED <<lastTurn, queue, running, emitted, ioDown, strays, frames, ioUp, inbox,
                       recon, syncing, gated>>
    BY <1>1 DEF StartTurn, NextTurnSeq
  <2>1. CASE UNCHANGED <<cmds, turns, accepted, held, commands>>
    BY <1>s, <2>u, <2>1, BusyMoved
  <2>2. CASE /\ cmds' = cmds \cup {turnSeq'} /\ turns' = turns \cup {turnSeq'}
             /\ Release(held \cup {turnSeq'}, gated, syncing)
    <3>1. PICK n \in Turns : n = turnSeq'
      BY <1>t, <2>u, BoundsAssumption DEF Turns
    <3>2. /\ held' \subseteq held \cup {n}
          /\ Elems(commands') \subseteq Elems(commands) \cup (held \cup {n})
          /\ gated \/ syncing => held' = held \cup {n}
      <4>1. held \cup {n} \in SUBSET Turns
        BY <1>t
      <4>2. Release(held \cup {n}, gated, syncing)
        BY <2>2, <3>1
      <4> QED BY <4>1, <4>2, ReleaseElems
    <3>3. \A t : AtAgent(t)' <=> AtAgent(t)
      BY <2>u DEF AtAgent, FinishedTurn, Elems
    <3>4. (\A t : Saved(t) => Saved(t)') /\ Saved(n)'
      BY <2>2, <3>1 DEF Saved
    <3>5. (\A t : OnWay(t) => OnWay(t)') /\ OnWay(n)'
      BY <2>u, <3>4 DEF OnWay
    <3>6. \A l, o : SnapOk(l, o) => SnapOk(l, o)'
      BY <2>u, <3>3 DEF SnapOk
    <3>7. AgentSaved'
      BY <1>s, <3>3, <3>4 DEF AgentSaved
    <3>8. WaySaved'
      <4>1. Prompts(ioDown)' /\ Prompts(strays)'
        BY <1>s, <2>u, <3>5 DEF Prompts
      <4>2. (\A t \in Elems(commands') : OnWay(t)') /\ (\A t \in held' : OnWay(t)')
        BY <1>s, <3>2, <3>5 DEF WaySaved
      <4> QED BY <4>1, <4>2 DEF WaySaved
    <3>9. SnapsOk'
      BY <1>s, <2>u, <3>6 DEF SnapsOk, Snaps
    <3>10. ReconOk'
      <4>1. recon.st # "idle" => SnapOk(recon.last, recon.out)' /\ syncing'
        BY <1>s, <2>u, <3>6 DEF ReconOk
      <4>2. recon.st = "listed" => recon.cmds \subseteq cmds' /\ cmds' \subseteq recon.cmds \cup held'
        BY <1>s, <2>2, <3>1, <3>2 DEF ReconOk
      <4> QED BY <2>u, <4>1, <4>2 DEF ReconOk
    <3> QED BY <3>7, <3>8, <3>9, <3>10 DEF BusyInv
  <2> QED BY <1>1, <2>1, <2>2 DEF StartTurn
<1>2. CASE Ungate
  <2>u. /\ Release(held, FALSE, syncing)
        /\ UNCHANGED <<lastTurn, queue, running, emitted, cmds, turns, ioDown, strays, frames,
                       ioUp, inbox, recon, syncing>>
    BY <1>2 DEF Ungate
  <2>1. /\ held' \subseteq held /\ Elems(commands') \subseteq Elems(commands) \cup held
        /\ syncing => held' = held
    <3>1. PICK g \in BOOLEAN : g = FALSE
      OBVIOUS
    <3>2. Release(held, g, syncing)
      BY <2>u, <3>1
    <3> QED BY <1>t, <3>2, ReleaseElems
  <2>2. (\A t \in Elems(commands') : OnWay(t)) /\ (\A t \in held' : OnWay(t))
    BY <1>s, <2>1 DEF WaySaved
  <2>3. \A t : AtAgent(t)' <=> AtAgent(t)
    BY <2>u DEF AtAgent, FinishedTurn, Elems
  <2>4. ReconOk'
    <3>1. recon.st # "idle" => SnapOk(recon.last, recon.out)'
      BY <1>s, <2>u, <2>3 DEF ReconOk, SnapOk
    <3> QED BY <1>s, <2>u, <2>1, <3>1 DEF ReconOk
  <2> QED BY <1>s, <2>u, <2>2, <2>4, BusyMove
<1>3. CASE Consume
  <2>0. inbox # <<>> /\ Head(inbox).type = "event" /\ recon.st = "idle" /\ inbox' = Tail(inbox)
    BY <1>3 DEF Consume
  <2>1. PICK f \in UpFrame : f = Head(inbox)
    BY <1>t, <2>0, TailOf
  <2>2. PICK over \in SUBSET Nat : over = IF f.ev.kind = "finished" THEN {f.ev.turn} ELSE {}
    BY UpFrameFields DEF Event
  <2>u. /\ cmds' = cmds \ over /\ turns' = turns \ over
        /\ UNCHANGED <<lastTurn, queue, running, emitted, ioDown, strays, frames, ioUp,
                       recon, syncing, held, commands>>
    BY <1>3, <2>1, <2>2 DEF Consume
  <2>3. f.seq \in DOMAIN emitted /\ f.ev = emitted[f.seq]
    <3>1. f = inbox[1] /\ 1 \in 1..Len(inbox)
      BY <1>t, <2>0, <2>1, TailOf
    <3> QED BY <1>t, <2>0, <2>1, <3>1 DEF LinkInv, QueuesInv, Genuine
  <2>4. \A t \in over : t <= lastTurn /\ FinishedTurn(t)
    <3> TAKE t \in over
    <3>1. f.ev.kind = "finished" /\ t = f.ev.turn
      BY <2>2
    <3>2. t <= lastTurn
      BY <2>3, <3>1 DEF OrderInv, DoneInv
    <3>3. f.ev = [kind |-> f.ev.kind, turn |-> f.ev.turn]
      BY UpFrameFields DEF Event
    <3>4. FinishedTurn(t)
      BY <2>3, <3>1, <3>3 DEF FinishedTurn, Finished
    <3> QED BY <3>2, <3>4
  <2>5. \A t : AtAgent(t)' <=> AtAgent(t)
    BY <2>u DEF AtAgent, FinishedTurn, Elems
  <2>6. \A t : AtAgent(t) => t \notin over
    BY <2>4 DEF AtAgent
  <2>7. AgentSaved'
    BY <1>s, <2>u, <2>5, <2>6 DEF AgentSaved, Saved
  <2>8. \A t : OnWay(t) => OnWay(t)'
    <3> SUFFICES ASSUME NEW t, OnWay(t), t > lastTurn PROVE Saved(t)'
      BY <2>u DEF OnWay
    <3>1. t \notin over
      <4> SUFFICES ASSUME t \in over PROVE FALSE
        OBVIOUS
      <4>1. t \in Nat /\ t <= lastTurn
        BY <2>4
      <4> QED BY <1>t, <4>1
    <3> QED BY <2>u, <3>1 DEF OnWay, Saved
  <2>9. WaySaved'
    BY <1>s, <2>u, <2>8 DEF WaySaved, Prompts
  <2>10. \A l, o : SnapOk(l, o) => SnapOk(l, o)'
    BY <2>u, <2>5 DEF SnapOk
  <2>11. SnapsOk'
    <3>1. Snaps(Tail(inbox))
      BY <1>t, <1>s, <2>0, ElemsTail, SnapsSub
    <3> QED BY <1>s, <2>0, <2>u, <2>10, <3>1 DEF SnapsOk, Snaps
  <2>12. ReconOk'
    BY <2>0, <2>u DEF ReconOk
  <2> QED BY <2>7, <2>9, <2>11, <2>12 DEF BusyInv
<1>4. CASE ReconcileBegin
  <2>u. /\ inbox # <<>> /\ Head(inbox).type = "state" /\ inbox' = Tail(inbox) /\ syncing'
        /\ recon' = [st |-> "begun", last |-> Head(inbox).last, out |-> Head(inbox).out,
                     cmds |-> {}]
        /\ UNCHANGED <<lastTurn, queue, running, emitted, cmds, turns, ioDown, strays, frames,
                       ioUp, held, commands>>
    BY <1>4 DEF ReconcileBegin
  <2>1. Head(inbox) \in Elems(inbox) /\ Elems(Tail(inbox)) \subseteq Elems(inbox)
    BY <1>t, <2>u, ElemsTail
  <2>2. Snaps(inbox') /\ SnapOk(Head(inbox).last, Head(inbox).out)
    BY <1>s, <2>u, <2>1, SnapsSub DEF Snaps
  <2>3. \A t : AtAgent(t)' <=> AtAgent(t)
    BY <2>u DEF AtAgent, FinishedTurn, Elems
  <2>4. recon'.st = "begun" /\ recon'.last = Head(inbox).last /\ recon'.out = Head(inbox).out
    BY <2>u
  <2>5. ReconOk'
    BY <2>u, <2>2, <2>3, <2>4 DEF ReconOk, SnapOk
  <2> QED BY <1>s, <2>u, <2>2, <2>5, BusyMove DEF WaySaved
<1>5. CASE ReconcileList
  <2>u. /\ recon.st = "begun" /\ recon' = [recon EXCEPT !.st = "listed", !.cmds = cmds]
        /\ UNCHANGED <<lastTurn, queue, running, emitted, cmds, turns, ioDown, strays, frames,
                       ioUp, inbox, held, commands, syncing>>
    BY <1>5 DEF ReconcileList
  <2>1. recon'.st = "listed" /\ recon'.last = recon.last /\ recon'.out = recon.out
        /\ recon'.cmds = cmds
    BY <1>t, <2>u
  <2>2. \A t : AtAgent(t)' <=> AtAgent(t)
    BY <2>u DEF AtAgent, FinishedTurn, Elems
  <2>3. ReconOk'
    BY <1>s, <2>u, <2>1, <2>2 DEF ReconOk, SnapOk
  <2> QED BY <1>s, <2>u, <2>3, BusyMove DEF WaySaved
<1> QED BY <1>1, <1>2, <1>3, <1>4, <1>5

\* The reconciliation drops only prompts whose turns the agent has finished,
\* and keeps every other saved prompt outstanding.
LEMMA BusyReconcile ==
    ASSUME TypeOK, OrderInv, BusyInv, Linked, ReconcileFinish
    PROVE  BusyInv'
<1>t. /\ held \in SUBSET Turns /\ cmds \in SUBSET Turns /\ lastTurn \in Nat
      /\ recon.last \in Nat /\ recon.cmds \in SUBSET Turns /\ Turns \subseteq Nat
  <2>1. Turns \subseteq Nat
    BY BoundsAssumption DEF Turns
  <2>2. lastTurn \in Nat /\ cmds \in SUBSET Turns
    BY AgentTypes DEF TypeOK, StoreType
  <2>3. held \in SUBSET Turns /\ recon.last \in Nat /\ recon.cmds \in SUBSET Turns
    BY DEF TypeOK, BindingType
  <2> QED BY <2>1, <2>2, <2>3
<1>s. /\ AgentSaved /\ WaySaved /\ SnapsOk /\ SnapOk(recon.last, recon.out)
      /\ recon.cmds \subseteq cmds /\ cmds \subseteq recon.cmds \cup held
  BY DEF BusyInv, ReconOk, ReconcileFinish
<1>u. /\ turns' = recon.out \cup Resend \cup held
      /\ Release(held \cup Resend, gated, FALSE) /\ recon' = NoReconcile
      /\ UNCHANGED <<lastTurn, queue, running, emitted, ioDown, strays, frames, ioUp, inbox>>
  BY DEF ReconcileFinish, agentVars, runnerVars, sidecarVars, wireVars
<1>1. PICK kept \in SUBSET Dropped : cmds' = cmds \ (Dropped \ kept)
  BY DEF ReconcileFinish
<1>2. /\ held' \subseteq held \cup Resend
      /\ Elems(commands') \subseteq Elems(commands) \cup (held \cup Resend)
  <2>1. PICK h \in SUBSET Turns : h = held \cup Resend
    BY <1>t DEF Resend
  <2>2. PICK b \in BOOLEAN : b = FALSE
    OBVIOUS
  <2>3. Release(h, gated, b)
    BY <1>u, <2>1, <2>2
  <2>4. held' \subseteq h /\ Elems(commands') \subseteq Elems(commands) \cup h
    BY <2>3, ReleaseElems
  <2> QED BY <2>1, <2>4
<1>3. \A t : AtAgent(t)' <=> AtAgent(t)
  BY <1>u DEF AtAgent, FinishedTurn, Elems
<1>4. ASSUME NEW t \in Turns, t \in cmds, t > recon.last
      PROVE  Saved(t)'
  <2>1. t \notin Dropped
    BY <1>t, <1>4 DEF Dropped
  <2>2. t \in held \/ t \in Resend
    BY <1>s, <1>4 DEF Resend
  <2> QED BY <1>u, <1>1, <1>4, <2>1, <2>2 DEF Saved
<1>5. AgentSaved'
  <2>1. ASSUME NEW t \in Turns, AtAgent(t) PROVE Saved(t)'
    <3>1. t \in cmds
      BY <1>s, <2>1 DEF AgentSaved, Saved
    <3>2. CASE t <= recon.last
      <4>1. t \in recon.out
        BY <1>s, <2>1, <3>2 DEF SnapOk
      <4>2. t \notin Dropped
        BY <4>1 DEF Dropped
      <4> QED BY <1>u, <1>1, <3>1, <4>1, <4>2 DEF Saved
    <3>3. CASE t > recon.last
      BY <1>4, <3>1, <3>3
    <3> QED BY <1>t, <3>2, <3>3
  <2> QED BY <1>3, <2>1 DEF AgentSaved
<1>6. \A t \in Turns : OnWay(t) => OnWay(t)'
  <2> SUFFICES ASSUME NEW t \in Turns, OnWay(t), t > lastTurn PROVE Saved(t)'
    BY <1>u DEF OnWay
  <2>1. t > recon.last
    BY <1>t, <1>s DEF SnapOk
  <2> QED BY <1>4, <2>1 DEF OnWay, Saved
<1>7. \A t \in Resend : OnWay(t)'
  <2> TAKE t \in Resend
  <2>1. t \in Turns /\ t \in cmds /\ t > recon.last
    BY <1>t, <1>s DEF Resend
  <2> QED BY <1>4, <2>1 DEF OnWay
<1>8. WaySaved'
  <2>1. Prompts(ioDown)' /\ Prompts(strays)'
    BY <1>s, <1>u, <1>6 DEF WaySaved, Prompts
  <2>2. Elems(commands) \subseteq Turns
    BY DEF TypeOK, ServerType, Elems
  <2>3. \A t \in Elems(commands) \cup held \cup Resend : OnWay(t)'
    BY <1>t, <1>s, <1>6, <1>7, <2>2 DEF WaySaved
  <2>4. (\A t \in Elems(commands') : OnWay(t)') /\ (\A t \in held' : OnWay(t)')
    BY <1>2, <2>3
  <2> QED BY <2>1, <2>4 DEF WaySaved
<1>9. SnapsOk'
  <2>1. \A l, o : SnapOk(l, o) => SnapOk(l, o)'
    BY <1>u, <1>3 DEF SnapOk
  <2> QED BY <1>s, <1>u, <2>1 DEF SnapsOk, Snaps
<1>10. ReconOk'
  <2>1. recon'.st = "idle"
    BY <1>u DEF NoReconcile
  <2> QED BY <2>1 DEF ReconOk
<1> QED BY <1>5, <1>8, <1>9, <1>10 DEF BusyInv

\* What a dead stream's relay still holds was on its way before.
LEMMA BusyFault ==
    ASSUME TypeOK, BusyInv, Linked, FaultNext
    PROVE  BusyInv'
<1>t. strays \in Seq(DownFrame) /\ ioDown \in Seq(DownFrame) /\ InRelay \in Seq(DownFrame)
  BY LinkTypes DEF InRelay
<1>s. /\ AgentSaved /\ WaySaved /\ SnapsOk /\ ReconOk
      /\ Snaps(frames) /\ Snaps(ioUp) /\ Snaps(inbox) /\ Prompts(ioDown) /\ Prompts(strays)
  BY DEF BusyInv, SnapsOk, WaySaved
<1>n. Snaps(<<>>) /\ Prompts(<<>>)
  BY ElemsNone DEF Snaps, Prompts
<1>i. Elems(InRelay) \subseteq Elems(ioDown)
  BY ElemsNone DEF InRelay
<1>1. Elems(strays') \subseteq Elems(strays) \cup Elems(ioDown)
  <2>1. CASE RelaySurvives
    <3>1. PICK n \in 0..1 : n <= Len(InRelay) /\ strays' = strays \o SubSeq(InRelay, 1, n)
      BY <2>1 DEF RelaySurvives
    <3>2. n \in 0..Len(InRelay)
      BY <1>t, <3>1
    <3>3. /\ SubSeq(InRelay, 1, n) \in Seq(DownFrame)
          /\ Elems(SubSeq(InRelay, 1, n)) \subseteq Elems(InRelay)
      BY <1>t, <3>2, ElemsPrefix
    <3>4. Elems(strays') \subseteq Elems(strays) \cup Elems(SubSeq(InRelay, 1, n))
      BY <1>t, <3>1, <3>3, ElemsConcat
    <3> QED BY <1>i, <3>3, <3>4
  <2>2. CASE SidecarRestart
    <3>1. PICK n \in 0..Len(strays \o InRelay) : strays' = SubSeq(strays \o InRelay, 1, n)
      BY <2>2 DEF SidecarRestart
    <3>2. /\ strays \o InRelay \in Seq(DownFrame)
          /\ Elems(strays \o InRelay) \subseteq Elems(strays) \cup Elems(InRelay)
      BY <1>t, ElemsConcat
    <3>3. Elems(strays') \subseteq Elems(strays \o InRelay)
      BY <3>1, <3>2, ElemsPrefix
    <3> QED BY <1>i, <3>2, <3>3
  <2> QED BY <2>1, <2>2 DEF FaultNext, Break, HarnessRestart
<1>2. Prompts(strays')
  BY <1>s, <1>1 DEF Prompts
<1> USE DEF agentVars, runnerVars, sidecarVars, wireVars, serverVars, bindingVars, storeVars
<1>3. CASE Break
  <2>1. /\ ioUp' = <<>> /\ ioDown' = <<>>
        /\ UNCHANGED <<lastTurn, queue, running, emitted, cmds, turns, held, recon, syncing,
                       commands, frames, inbox>>
    BY <1>3 DEF Break, Disconnect
  <2> QED BY <1>s, <1>n, <1>2, <2>1, BusyMoved
<1>4. CASE SidecarRestart
  <2>1. /\ ioUp' = <<>> /\ ioDown' = <<>> /\ frames' = <<>>
        /\ UNCHANGED <<lastTurn, queue, running, emitted, cmds, turns, held, recon, syncing,
                       commands, inbox>>
    BY <1>4 DEF SidecarRestart, Disconnect
  <2> QED BY <1>s, <1>n, <1>2, <2>1, BusyMoved
<1>5. CASE HarnessRestart
  <2>u. /\ ioUp' = <<>> /\ ioDown' = <<>> /\ inbox' = <<>> /\ commands' = <<>>
        /\ held' = {} /\ turns' = cmds /\ recon' = NoReconcile
        /\ UNCHANGED <<lastTurn, queue, running, emitted, cmds, frames>>
    BY <1>5 DEF HarnessRestart, Disconnect, Expect, Adopt
  <2>1. \A t : AtAgent(t)' <=> AtAgent(t)
    BY <2>u DEF AtAgent, FinishedTurn, Elems
  <2>2. \A t : Saved(t) => Saved(t)'
    BY <2>u DEF Saved
  <2>3. AgentSaved'
    BY <1>s, <2>1, <2>2 DEF AgentSaved
  <2>4. \A t : OnWay(t) => OnWay(t)'
    BY <2>u, <2>2 DEF OnWay
  <2>5. WaySaved'
    BY <1>2, <2>u, <2>4, ElemsNone DEF WaySaved, Prompts
  <2>6. SnapsOk'
    <3>1. \A l, o : SnapOk(l, o) => SnapOk(l, o)'
      BY <2>u, <2>1 DEF SnapOk
    <3> QED BY <1>s, <2>u, <3>1, ElemsNone DEF SnapsOk, Snaps
  <2>7. ReconOk'
    <3>1. recon'.st = "idle"
      BY <2>u DEF NoReconcile
    <3> QED BY <3>1 DEF ReconOk
  <2> QED BY <2>3, <2>5, <2>6, <2>7 DEF BusyInv
<1> QED BY <1>3, <1>4, <1>5 DEF FaultNext

LEMMA BusyStep ==
    ASSUME TypeOK, LinkInv, OrderInv, BusyInv, [Next]_vars
    PROVE  BusyInv'
<1>1. CASE Next /\ ~Stop
  <2>1. Linked
    BY <1>1 DEF Next, AgentNext, PodNext, LinkNext, ApiNext, FaultNext, AgentTakeTurn,
         AgentEmit, AgentFinishTurn, AgentClearTurn, AgentExit, AgentFinish, AgentEndQueued,
         AgentReportExit, FeedStart, FeedEvent, OpenIO, SidecarOpen, SidecarForward, Relay,
         StrayRelay, SendCommand, SendAck, ServerReceive, StartTurn, Ungate, Consume,
         ReconcileBegin, ReconcileList, ReconcileFinish, Break, SidecarRestart, HarnessRestart
  <2> QED BY <1>1, <2>1, BusyAgent, BusyLink, BusyApi, BusyReconcile, BusyFault DEF Next, ApiNext
<1>2. CASE Stop
  BY <1>2 DEF Stop, BusyInv, Linked
<1>3. CASE UNCHANGED vars
  <2>1. UNCHANGED <<lastTurn, queue, running, emitted, cmds, turns, held, recon, syncing,
                    commands, frames, ioUp, ioDown, strays, inbox, session>>
    BY <1>3 DEF vars, agentVars, runnerVars, sidecarVars, wireVars, serverVars, bindingVars,
         storeVars
  <2>2. CASE Linked
    <3>1. Snaps(frames) /\ Snaps(ioUp) /\ Snaps(inbox) /\ Prompts(ioDown) /\ Prompts(strays)
      BY <2>2 DEF BusyInv, SnapsOk, WaySaved
    <3> QED BY <2>1, <2>2, <3>1, BusyMoved
  <2>3. CASE ~Linked
    BY <2>1, <2>3 DEF BusyInv, Linked
  <2> QED BY <2>2, <2>3
<1> QED BY <1>1, <1>2, <1>3

LEMMA BusyInit ==
    ASSUME Init
    PROVE  BusyInv
<1>1. /\ queue = <<>> /\ running = 0 /\ ioDown = <<>> /\ strays = <<>> /\ commands = <<>>
      /\ frames = <<>> /\ ioUp = <<>> /\ inbox = <<>> /\ turns = held /\ cmds = held
      /\ recon = NoReconcile
  BY DEF Init
<1>2. 0 \notin Turns
  BY BoundsAssumption DEF Turns
<1>3. AgentSaved
  BY <1>1, <1>2, ElemsNone DEF AgentSaved, AtAgent
<1>4. WaySaved
  BY <1>1, ElemsNone DEF WaySaved, Prompts, OnWay, Saved
<1>5. SnapsOk
  BY <1>1, ElemsNone DEF SnapsOk, Snaps
<1>6. recon.st = "idle"
  BY <1>1 DEF NoReconcile
<1> QED BY <1>3, <1>4, <1>5, <1>6 DEF BusyInv, ReconOk

LEMMA BusyAlways == Spec => []BusyInv
BY BusyInit, BusyStep, OrderAlways, LinkInvariant, TypeCorrect, PTL DEF Spec

\* While the session runs, a turn that the agent has not finished is in the
\* binding's turns, so that the idle sweep never stops a working agent: through
\* reconnects, stray relays, restarts and the reconciliation of any AgentState.
THEOREM BusyAlwaysKnown == Spec => []BusyWhileAgentWorks
<1>1. BusyInv => BusyWhileAgentWorks
  BY DEF BusyInv, AgentSaved, Saved, AtAgent, Elems, BusyWhileAgentWorks
<1> QED BY <1>1, BusyAlways, PTL

=============================================================================
