-------------------------- MODULE SessionLifecycle --------------------------
(***************************************************************************)
(* What the API promises about the life of one session: the states that    *)
(* enum SessionState of harnessapi.proto describes, and the changes between *)
(* them that a client can see.  The two terminal states are one here.      *)
(***************************************************************************)
EXTENDS Naturals

VARIABLES
    state,    \* the session's state; "none" before CreateSession
    ran,      \* the agent has run, so there is a conversation to continue
    endings   \* SessionEnded events

lifecycleVars == <<state, ran, endings>>

Live == {"pending", "launching", "awaiting", "running", "suspended"}

Init == state = "none" /\ ran = FALSE /\ endings = 0

Move(from, to) == state \in from /\ state' = to

Create == Move({"none"}, "pending") /\ UNCHANGED <<ran, endings>>

\* The first launch, or the revive of a session whose agent has run.
Launch ==
    /\ Move({"pending", "suspended"}, "launching")
    /\ state = "suspended" => ran
    /\ UNCHANGED <<ran, endings>>

AwaitApproval == Move({"launching"}, "awaiting") /\ UNCHANGED <<ran, endings>>

Run == Move({"awaiting"}, "running") /\ ran' = TRUE /\ UNCHANGED endings

\* An idle session is suspended, and a revive that failed is suspended again.
\* A session counts as idle from the moment when its agent connected, which is
\* before it is recorded as running.
Suspend ==
    /\ Move({"running", "launching", "awaiting"}, "suspended")
    /\ state = "launching" => ran
    /\ UNCHANGED <<ran, endings>>

End == Move(Live, "ended") /\ endings' = endings + 1 /\ UNCHANGED ran

Next == Create \/ Launch \/ AwaitApproval \/ Run \/ Suspend \/ End

Spec == Init /\ [][Next]_lifecycleVars
=============================================================================
