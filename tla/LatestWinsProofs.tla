-------------------------- MODULE LatestWinsProofs --------------------------
(* What follows from LatestWins alone, and so for every screen that        *)
(* implements it.                                                          *)
EXTENDS LatestWins, TLAPS

\* At most one answer is on the screen, of a request that was sent.
OneShown ==
    /\ feed \in Nat /\ newest \in Nat
    /\ shown \subseteq [id : 0 .. newest, feed : 0 .. feed]
    /\ \A s, t \in shown : s = t

\* OneShown holds throughout.
LEMMA OneShownInvariant == Spec => []OneShown
<1>1. Init => OneShown
  BY DEF Init, OneShown
<1>2. OneShown /\ [Next]_vars => OneShown'
  <2> SUFFICES ASSUME OneShown, [Next]_vars PROVE OneShown'
    OBVIOUS
  <2> USE DEF OneShown
  <2>1. ASSUME newest' \in {newest, newest + 1}, feed' \in {feed, feed + 1},
               shown' = shown
        PROVE  OneShown'
    <3>1. 0 .. newest \subseteq 0 .. newest' /\ 0 .. feed \subseteq 0 .. feed'
      BY <2>1
    <3> QED
      BY <2>1, <3>1
  <2>2. CASE Show
    BY <2>2 DEF Show
  <2> QED
    BY <2>1, <2>2 DEF Next, Ask, Leave, vars
<1> QED
  BY <1>1, <1>2, PTL DEF Spec

\* Within a feed the screen only moves forward: no answer displayed replaces a
\* later one of the same connection (displayMarkers, displayAddresses).
THEOREM ScreenMovesForward == Spec => ForwardOnly
<1>1. OneShown /\ [Next]_vars
         => [\A s \in shown, t \in shown' : s.feed = t.feed => s.id <= t.id]_vars
  <2> SUFFICES ASSUME OneShown, Next,
                      NEW s \in shown, NEW t \in shown', s.feed = t.feed
               PROVE  s.id <= t.id
    OBVIOUS
  <2>1. s.id \in Nat
    BY DEF OneShown
  <2>2. CASE shown' = shown
    BY <2>1, <2>2 DEF OneShown
  <2>3. CASE Show
    BY <2>1, <2>3 DEF Show
  <2> QED
    BY <2>2, <2>3 DEF Next, Ask, Leave
<1> QED
  BY <1>1, OneShownInvariant, PTL DEF Spec, ForwardOnly

=============================================================================
