----------------------------- MODULE OrderedFeed -----------------------------
(***************************************************************************)
(* What a subscription promises, with no stream, buffer or page in it: the *)
(* subscriber names an event it has, gets the session's events after it    *)
(* one by one in seq order, and is done after SessionEnded.                *)
(***************************************************************************)
EXTENDS Naturals, Sequences

VARIABLES
    count,  \* the session's events so far, numbered 1..count
    end,    \* the number of SessionEnded, 0 while the session lives
    from,   \* the event the subscriber starts after
    got,    \* what the subscriber has received
    status  \* "idle" before the subscription, "on", and "done" after it

feedVars == <<count, end, from, got, status>>

FeedInit == count = 0 /\ end = 0 /\ from = 0 /\ got = <<>> /\ status = "idle"

Grow ==
    /\ count' = count + 1
    /\ UNCHANGED <<end, from, got, status>>

\* StateChanged and SessionEnded.
End ==
    /\ end = 0
    /\ count' = count + 2 /\ end' = count + 2
    /\ UNCHANGED <<from, got, status>>

Join ==
    /\ status = "idle"
    /\ from' \in 0..count
    /\ status' = "on"
    /\ UNCHANGED <<count, end, got>>

\* The next event in seq order.  SessionEnded is the last one.
Deliver ==
    /\ status = "on"
    /\ from + Len(got) < count
    /\ got' = Append(got, from + Len(got) + 1)
    /\ status' = IF from + Len(got) + 1 = end THEN "done" ELSE "on"
    /\ UNCHANGED <<count, end, from>>

\* A subscriber that starts after SessionEnded has nothing to get.
Leave ==
    /\ status = "on"
    /\ end # 0 /\ from + Len(got) = end
    /\ status' = "done"
    /\ UNCHANGED <<count, end, from, got>>

FeedNext == Grow \/ End \/ Join \/ Deliver \/ Leave

FeedSpec == FeedInit /\ [][FeedNext]_feedVars

\* Each event arrives, and the subscription is done after SessionEnded.
FairFeedSpec == FeedSpec /\ WF_feedVars(Deliver) /\ WF_feedVars(Leave)
=============================================================================
