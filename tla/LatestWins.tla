----------------------------- MODULE LatestWins -----------------------------
(***************************************************************************)
(* What a screen that is filled by numbered requests promises, however its *)
(* requests are sent, cancelled and answered.  A request belongs to the    *)
(* feed that was in use when it was sent; a feed is left for a newer one   *)
(* and never taken up again.                                               *)
(***************************************************************************)
EXTENDS Naturals

VARIABLES
    feed,       \* the feed in use
    newest,     \* the number of the request sent last, on whichever feed
    shown       \* the answer on the screen, if any, by its request

vars == <<feed, newest, shown>>

Init ==
    /\ feed = 1
    /\ newest = 0
    /\ shown = {}

\* A request is sent, on the feed in use or as the first of a new one.
Ask ==
    /\ newest' = newest + 1
    /\ feed' \in {feed, feed + 1}
    /\ UNCHANGED shown

\* The feed is left without a request.
Leave ==
    /\ feed' = feed + 1
    /\ UNCHANGED <<newest, shown>>

\* An answer is shown: of the feed in use only that of the newest request, of a
\* feed left behind none older than one it has on the screen.
Show ==
    \E n \in 0 .. newest, f \in 0 .. feed :
        /\ f = feed => n = newest
        /\ \A s \in shown : s.feed = f => s.id < n
        /\ shown' = {[id |-> n, feed |-> f]}
        /\ UNCHANGED <<feed, newest>>

Next == Ask \/ Leave \/ Show

Spec == Init /\ [][Next]_vars

-----------------------------------------------------------------------------
\* What the user sees of it: within a feed the screen never goes back to the answer
\* of an earlier request, neither by showing it nor by showing it again.
ForwardOnly ==
    [][\A s \in shown, t \in shown' : s.feed = t.feed => s.id <= t.id]_vars

=============================================================================
