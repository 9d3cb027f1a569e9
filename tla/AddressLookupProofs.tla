------------------------ MODULE AddressLookupProofs ------------------------
(***************************************************************************)
(* Theorems about AddressLookup for every set of postcodes, every number   *)
(* of pages, every loop limit and every number of taps.                    *)
(***************************************************************************)
EXTENDS AddressLookup, FiniteSetTheorems, TLAPS

\* A lookup starts well typed.
LEMMA NewLookupType ==
    ASSUME NEW c \in Call
    PROVE  NewLookup(c) \in Lookup
  BY LookupAssumption DEF NewLookup, Call, Lookup, Options

\* What a lookup is after a page has arrived.
LEMMA PageArrivesPushes ==
    ASSUME TypeOK, NEW l \in lookups, PageArrives(l), l.i < LoopLimit
    PROVE  \E m \in Lookup :
              /\ lookups' = (lookups \ {l}) \cup {m}
              /\ m.tap = l.tap /\ m.attempt = l.attempt /\ m.postcode = l.postcode
              /\ m.options.page = l.i /\ m.options.postcode = l.options.postcode
              /\ m.i = l.i + 1
              /\ m.props = Append(l.props, <<l.options.postcode, l.options.page>>)
              /\ m.reply = (IF l.i + 1 = LoopLimit THEN "200" ELSE "none")
  <1> DEFINE m == [l EXCEPT
         !.options.page = l.i,
         !.props = Append(@, <<l.options.postcode, l.options.page>>),
         !.i = @ + 1,
         !.reply = IF l.i + 1 = LoopLimit THEN "200" ELSE "none"]
  <1>1. l \in Lookup
    BY DEF TypeOK
  <1>2. <<l.options.postcode, l.options.page>> \in Page
    BY <1>1, LookupAssumption DEF Lookup, Options, Page
  <1>3. Append(l.props, <<l.options.postcode, l.options.page>>) \in Seq(Page)
    BY <1>1, <1>2 DEF Lookup
  <1>4. l.i + 1 \in 0 .. LoopLimit
    BY <1>1, LookupAssumption DEF Lookup
  <1>5. m \in Lookup
    BY <1>1, <1>3, <1>4 DEF Lookup, Options
  <1>6. lookups' = (lookups \ {l}) \cup {m}
    BY DEF PageArrives, Continue
  <1>7. /\ m.tap = l.tap /\ m.attempt = l.attempt /\ m.postcode = l.postcode
        /\ m.options.page = l.i /\ m.options.postcode = l.options.postcode
        /\ m.i = l.i + 1
        /\ m.props = Append(l.props, <<l.options.postcode, l.options.page>>)
        /\ m.reply = (IF l.i + 1 = LoopLimit THEN "200" ELSE "none")
    BY <1>1 DEF Lookup, Options
  <1> HIDE DEF m
  <1> QED
    BY <1>5, <1>6, <1>7

\* The loop condition holds while a lookup runs.
LoopsRun == \A l \in lookups : l.reply = "none" => l.i < LoopLimit

\* Every variable keeps its type: no attempt past the second, no round past the
\* limit.
THEOREM TypeCorrect == Spec => [](TypeOK /\ LoopsRun)
<1>1. Init => TypeOK /\ LoopsRun
  BY LookupAssumption DEF Init, TypeOK, LoopsRun
<1>2. TypeOK /\ LoopsRun /\ [Next]_vars => TypeOK' /\ LoopsRun'
  <2> SUFFICES ASSUME TypeOK, LoopsRun, [Next]_vars PROVE TypeOK' /\ LoopsRun'
    OBVIOUS
  <2>1. ASSUME NEW c \in Call, Serve(c)
        PROVE  lookups' \subseteq Lookup /\ LoopsRun'
    <3>1. lookups' = lookups \cup {NewLookup(c)}
      BY <2>1 DEF Serve
    <3>2. NewLookup(c).i = 0 /\ LoopLimit > 0
      BY LookupAssumption DEF NewLookup
    <3> QED
      BY <3>1, <3>2, NewLookupType DEF TypeOK, LoopsRun
  <2>2. ASSUME NEW p \in Postcodes, Tap(p) PROVE TypeOK' /\ LoopsRun'
    <3> DEFINE c == [tap |-> nTaps + 1, attempt |-> 1, postcode |-> p]
    <3>1. c \in Call
      BY <2>2, LookupAssumption DEF Tap, TypeOK, Call, MaxRetries
    <3>2. call' = {c} /\ Serve(c)
      BY <2>2 DEF Tap
    <3> HIDE DEF c
    <3> QED
      BY <2>1, <2>2, <3>1, <3>2, LookupAssumption DEF Tap, TypeOK
  <2>3. ASSUME NEW c \in call, TimesOut(c) PROVE TypeOK' /\ LoopsRun'
    <3>1. c \in Call
      BY DEF TypeOK
    <3>2. CASE c.attempt <= MaxRetries
      <4> DEFINE again == [c EXCEPT !.attempt = @ + 1]
      <4>1. again \in Call
        BY <3>1, <3>2 DEF Call, MaxRetries
      <4>2. call' = {again} /\ Serve(again)
        BY <2>3, <3>2 DEF TimesOut
      <4> HIDE DEF again
      <4> QED
        BY <2>1, <2>3, <4>1, <4>2 DEF TimesOut, TypeOK
    <3>3. CASE ~(c.attempt <= MaxRetries)
      BY <2>3, <3>3 DEF TimesOut, TypeOK, LoopsRun
    <3> QED
      BY <3>2, <3>3
  <2>4. ASSUME NEW c \in call, Unreachable(c) PROVE TypeOK' /\ LoopsRun'
    BY <2>4 DEF Unreachable, TypeOK, LoopsRun
  <2>5. ASSUME NEW l \in lookups, Deliver(l) PROVE TypeOK' /\ LoopsRun'
    <3>1. [tap |-> l.tap, postcode |-> l.postcode, props |-> l.props] \in Addresses
      BY DEF TypeOK, Lookup, Addresses
    <3> QED
      BY <2>5, <3>1 DEF Deliver, TypeOK, LoopsRun
  <2>6. ASSUME NEW l \in lookups, PageArrives(l) PROVE TypeOK' /\ LoopsRun'
    <3>1. l \in Lookup /\ l.i < LoopLimit
      BY <2>6 DEF PageArrives, Running, TypeOK, LoopsRun
    <3>2. PICK m \in Lookup :
             /\ lookups' = (lookups \ {l}) \cup {m}
             /\ m.i = l.i + 1
             /\ m.reply = (IF l.i + 1 = LoopLimit THEN "200" ELSE "none")
      BY <2>6, <3>1, PageArrivesPushes
    <3>3. LoopsRun'
      BY <3>1, <3>2, LookupAssumption DEF LoopsRun, Lookup
    <3> QED
      BY <2>6, <3>2, <3>3 DEF PageArrives, Continue, TypeOK
  <2>7. ASSUME NEW l \in lookups, EmptyPageArrives(l) PROVE TypeOK' /\ LoopsRun'
    <3>1. [l EXCEPT !.options.page = l.i, !.reply = "200"] \in Lookup
      BY DEF TypeOK, Lookup, Options
    <3> QED
      BY <2>7, <3>1 DEF EmptyPageArrives, Continue, TypeOK, LoopsRun, Lookup
  <2>8. ASSUME NEW l \in lookups, PageFails(l) PROVE TypeOK' /\ LoopsRun'
    <3>1. [l EXCEPT !.reply = "500"] \in Lookup
      BY DEF TypeOK, Lookup
    <3> QED
      BY <2>8, <3>1 DEF PageFails, Continue, TypeOK, LoopsRun, Lookup
  <2>9. CASE UNCHANGED vars
    BY <2>9 DEF vars, TypeOK, LoopsRun
  <2> QED
    BY <2>2, <2>3, <2>4, <2>5, <2>6, <2>7, <2>8, <2>9 DEF Next, Client, Server
<1> QED
  BY <1>1, <1>2, PTL DEF Spec

-----------------------------------------------------------------------------
(* What the lookups collect.                                               *)

\* A lookup asks for its own postcode, with a page that trails its counter, and has
\* collected 0, 0, 1, 2, ...; that of the newest tap is for the title on the sheet.
LookupInv(l) ==
    /\ l.options.postcode = l.postcode
    /\ Len(l.props) = l.i
    /\ \A k \in 1 .. Len(l.props) :
         l.props[k] = <<l.postcode, IF k = 1 THEN 0 ELSE k - 2>>
    /\ l.reply = "none" => l.options.page = (IF l.i = 0 THEN 0 ELSE l.i - 1)
    /\ l.tap <= nTaps
    /\ l.tap = nTaps => l.postcode = title

LookupsApart ==
    /\ \A l \in lookups : LookupInv(l)
    /\ \A c \in call : c.tap = nTaps /\ c.postcode = title
    /\ \A c, d \in call : c = d
    /\ \A s \in list : s.tap <= nTaps /\ (call # {} => s.tap < nTaps)

\* Pages collected in that order, two further than each page wanted, are complete.
LEMMA TrailHasEveryPage ==
    ASSUME NEW p \in Postcodes, NEW props \in Seq(Page),
           \A k \in 1 .. Len(props) :
               props[k] = <<p, IF k = 1 THEN 0 ELSE k - 2>>,
           \A n \in 0 .. Pages[p] - 1 : n < LoopLimit - 1 => n + 2 <= Len(props)
    PROVE  HasEveryPage(props, p)
  <1>1. \A k \in 1 .. Len(props) : props[k][1] = p
    OBVIOUS
  <1>2. ASSUME NEW n \in 0 .. Pages[p] - 1, n < LoopLimit - 1
        PROVE  \E k \in 1 .. Len(props) : props[k] = <<p, n>>
    <2>1. n + 2 \in 1 .. Len(props) /\ n \in Nat
      BY <1>2, LookupAssumption
    <2>2. props[n + 2] = <<p, n>>
      BY <2>1
    <2> QED
      BY <2>1, <2>2
  <1> QED
    BY <1>1, <1>2 DEF HasEveryPage

\* A new lookup of the newest tap fits.
LEMMA NewLookupInv ==
    ASSUME NEW c \in Call, c.tap = nTaps', c.postcode = title'
    PROVE  LookupInv(NewLookup(c))' /\ NewLookup(c).reply = "none"
  BY DEF NewLookup, LookupInv, Call

\* A page that arrives keeps the order of the pages, and the last round completes
\* them.
LEMMA PageArrivesKeepsOrder ==
    ASSUME TypeOK, LoopsRun, LookupsApart, NEW l \in lookups, PageArrives(l)
    PROVE  \E m \in Lookup :
              /\ lookups' = (lookups \ {l}) \cup {m}
              /\ LookupInv(m)
              /\ m.reply = "200" => HasEveryPage(m.props, m.postcode)
  <1>1. l \in Lookup /\ LookupInv(l) /\ l.reply = "none" /\ l.i < LoopLimit
    BY DEF PageArrives, Running, TypeOK, LoopsRun, LookupsApart
  <1>2. PICK m \in Lookup :
              /\ lookups' = (lookups \ {l}) \cup {m}
              /\ m.tap = l.tap /\ m.attempt = l.attempt /\ m.postcode = l.postcode
              /\ m.options.page = l.i /\ m.options.postcode = l.options.postcode
              /\ m.i = l.i + 1
              /\ m.props = Append(l.props, <<l.options.postcode, l.options.page>>)
              /\ m.reply = (IF l.i + 1 = LoopLimit THEN "200" ELSE "none")
    BY <1>1, PageArrivesPushes
  <1>3. /\ l.props \in Seq(Page) /\ l.i \in Nat /\ Len(l.props) = l.i
        /\ l.options.page = (IF l.i = 0 THEN 0 ELSE l.i - 1)
        /\ l.options.postcode = l.postcode
    BY <1>1 DEF Lookup, LookupInv
  <1>4. /\ Len(m.props) = l.i + 1
        /\ m.props[l.i + 1] = <<l.postcode, l.options.page>>
        /\ \A k \in 1 .. l.i : m.props[k] = l.props[k]
    BY <1>2, <1>3
  <1>5. \A k \in 1 .. Len(m.props) :
           m.props[k] = <<m.postcode, IF k = 1 THEN 0 ELSE k - 2>>
    <2> SUFFICES ASSUME NEW k \in 1 .. l.i + 1
                 PROVE  m.props[k] = <<l.postcode, IF k = 1 THEN 0 ELSE k - 2>>
      BY <1>2, <1>4
    <2>1. CASE k = l.i + 1
      BY <1>3, <1>4, <2>1
    <2>2. CASE k # l.i + 1
      <3>1. k \in 1 .. l.i
        BY <1>3, <2>2
      <3> QED
        BY <1>1, <1>3, <1>4, <3>1 DEF LookupInv
    <2> QED
      BY <2>1, <2>2
  <1>6. LookupInv(m)
    BY <1>1, <1>2, <1>3, <1>4, <1>5 DEF LookupInv
  <1>7. ASSUME m.reply = "200" PROVE HasEveryPage(m.props, m.postcode)
    <2>1. l.i + 1 = LoopLimit
      BY <1>2, <1>7
    <2>2. \A n \in 0 .. Pages[m.postcode] - 1 :
             n < LoopLimit - 1 => n + 2 <= Len(m.props)
      BY <1>3, <1>4, <2>1, LookupAssumption DEF Lookup
    <2>3. m.postcode \in Postcodes /\ m.props \in Seq(Page)
      BY DEF Lookup
    <2> QED
      BY <1>5, <2>2, <2>3, TrailHasEveryPage
  <1> QED
    BY <1>2, <1>6, <1>7

\* An empty page is beyond all that were collected.
LEMMA EmptyPageCompletes ==
    ASSUME TypeOK, LookupsApart, NEW l \in lookups, EmptyPageArrives(l)
    PROVE  HasEveryPage(l.props, l.postcode)
  <1>1. l \in Lookup /\ LookupInv(l) /\ l.reply = "none"
    BY DEF EmptyPageArrives, Running, TypeOK, LookupsApart
  <1>2. /\ l.props \in Seq(Page) /\ l.i \in Nat /\ Len(l.props) = l.i
        /\ l.postcode \in Postcodes
        /\ l.options.page = (IF l.i = 0 THEN 0 ELSE l.i - 1)
        /\ l.options.postcode = l.postcode
    BY <1>1 DEF Lookup, LookupInv
  <1>3. Pages[l.postcode] \in Nat /\ Pages[l.postcode] <= l.options.page
    BY <1>2, LookupAssumption DEF EmptyPageArrives
  <1>4. \A n \in 0 .. Pages[l.postcode] - 1 :
           n < LoopLimit - 1 => n + 2 <= Len(l.props)
    BY <1>2, <1>3
  <1>5. \A k \in 1 .. Len(l.props) :
           l.props[k] = <<l.postcode, IF k = 1 THEN 0 ELSE k - 2>>
    BY <1>1 DEF LookupInv
  <1> QED
    BY <1>2, <1>4, <1>5, TrailHasEveryPage

\* The two facts, for every lookup and for what is listed, survive every step.
LEMMA ListCompleteStep ==
    ASSUME TypeOK, LoopsRun, LookupsApart, ListComplete, [Next]_vars
    PROVE  LookupsApart' /\ ListComplete'
  <1>1. ASSUME NEW l \in lookups, NEW m, lookups' = (lookups \ {l}) \cup {m},
               UNCHANGED <<title, nTaps, call, list>>,
               LookupInv(m), m.reply = "200" => HasEveryPage(m.props, m.postcode)
        PROVE  LookupsApart' /\ ListComplete'
    BY <1>1 DEF LookupsApart, LookupInv, ListComplete
  <1>2. ASSUME NEW p \in Postcodes, Tap(p) PROVE LookupsApart' /\ ListComplete'
    <2> DEFINE first == [tap |-> nTaps + 1, attempt |-> 1, postcode |-> p]
    <2>1. /\ first \in Call /\ first.tap = nTaps' /\ first.postcode = title'
          /\ nTaps \in Nat
      BY <1>2, LookupAssumption DEF Tap, TypeOK, Call, MaxRetries
    <2>2. /\ call' = {first} /\ lookups' = lookups \cup {NewLookup(first)}
          /\ list' = list
      BY <1>2 DEF Tap, Serve
    <2> HIDE DEF first
    <2> PICK c \in Call : c = first
      BY <2>1
    <2>3. c.tap = nTaps' /\ c.postcode = title' /\ nTaps \in Nat
      BY <2>1
    <2>4. call' = {c} /\ lookups' = lookups \cup {NewLookup(c)} /\ list' = list
      BY <2>2
    <2>5. LookupInv(NewLookup(c))' /\ NewLookup(c).reply = "none"
      BY <2>3, NewLookupInv
    <2>6. nTaps' = nTaps + 1
      BY <1>2 DEF Tap
    <2>7. \A l \in lookups : LookupInv(l)' /\ l.tap \in Nat
      BY <2>3, <2>6 DEF LookupsApart, LookupInv, TypeOK, Lookup
    <2>8. \A s \in list : s.tap <= nTaps /\ s.tap \in Nat
      BY DEF LookupsApart, TypeOK, Addresses
    <2>9. LookupsApart'
      BY <2>3, <2>4, <2>5, <2>6, <2>7, <2>8 DEF LookupsApart
    <2>10. ListComplete'
      BY <2>3, <2>4, <2>5, <2>6, <2>8 DEF ListComplete
    <2> QED
      BY <2>9, <2>10
  <1>3. ASSUME NEW c \in call, TimesOut(c) PROVE LookupsApart' /\ ListComplete'
    <2>1. c \in Call /\ c.tap = nTaps /\ c.postcode = title
      BY DEF TypeOK, LookupsApart
    <2>2. nTaps' = nTaps /\ title' = title /\ list' = list
      BY <1>3 DEF TimesOut
    <2>3. CASE c.attempt <= MaxRetries
      <3> DEFINE again == [c EXCEPT !.attempt = @ + 1]
      <3>1. again \in Call /\ again.tap = nTaps' /\ again.postcode = title'
        BY <2>1, <2>2, <2>3 DEF Call, MaxRetries
      <3>2. call' = {again} /\ lookups' = lookups \cup {NewLookup(again)}
        BY <1>3, <2>3 DEF TimesOut, Serve
      <3> HIDE DEF again
      <3>3. LookupInv(NewLookup(again))' /\ NewLookup(again).reply = "none"
        BY <3>1, NewLookupInv
      <3>4. LookupsApart'
        BY <2>2, <3>1, <3>2, <3>3 DEF LookupsApart, LookupInv
      <3>5. ListComplete'
        BY <2>2, <3>2, <3>3 DEF ListComplete
      <3> QED
        BY <3>4, <3>5
    <2>4. CASE ~(c.attempt <= MaxRetries)
      BY <1>3, <2>4 DEF TimesOut, LookupsApart, LookupInv, ListComplete
    <2> QED
      BY <2>3, <2>4
  <1>4. ASSUME NEW c \in call, Unreachable(c) PROVE LookupsApart' /\ ListComplete'
    BY <1>4 DEF Unreachable, LookupsApart, LookupInv, ListComplete
  <1>5. ASSUME NEW l \in lookups, Deliver(l) PROVE LookupsApart' /\ ListComplete'
    <2> DEFINE s == [tap |-> l.tap, postcode |-> l.postcode, props |-> l.props]
    <2>1. lookups' \subseteq lookups /\ call' \subseteq call
          /\ nTaps' = nTaps /\ title' = title
      BY <1>5 DEF Deliver
    <2>2. list' = list \/ (list' = {s} /\ l.reply = "200" /\ call' = {})
      BY <1>5 DEF Deliver, LookupsApart
    <2>3. /\ s.tap <= nTaps
          /\ s.tap = nTaps => s.postcode = title
          /\ l.reply = "200" => HasEveryPage(s.props, s.postcode)
      BY DEF LookupsApart, LookupInv, ListComplete
    <2> HIDE DEF s
    <2> QED
      BY <2>1, <2>2, <2>3 DEF LookupsApart, LookupInv, ListComplete
  <1>6. ASSUME NEW l \in lookups, PageArrives(l)
        PROVE  LookupsApart' /\ ListComplete'
    BY <1>1, <1>6, PageArrivesKeepsOrder DEF PageArrives, Continue
  <1>7. ASSUME NEW l \in lookups, EmptyPageArrives(l)
        PROVE  LookupsApart' /\ ListComplete'
    <2> DEFINE m == [l EXCEPT !.options.page = l.i, !.reply = "200"]
    <2>1. HasEveryPage(l.props, l.postcode)
      BY <1>7, EmptyPageCompletes
    <2>2. l \in Lookup /\ LookupInv(l)
      BY DEF TypeOK, LookupsApart
    <2>3. /\ m.postcode = l.postcode /\ m.props = l.props /\ m.i = l.i
          /\ m.tap = l.tap /\ m.options.postcode = l.options.postcode
          /\ m.reply = "200"
      BY <2>2 DEF Lookup, Options
    <2>4. lookups' = (lookups \ {l}) \cup {m} /\ UNCHANGED <<title, nTaps, call, list>>
      BY <1>7 DEF EmptyPageArrives, Continue
    <2> HIDE DEF m
    <2>5. LookupInv(m)
      BY <2>2, <2>3 DEF LookupInv
    <2> QED
      BY <1>1, <2>1, <2>3, <2>4, <2>5
  <1>8. ASSUME NEW l \in lookups, PageFails(l)
        PROVE  LookupsApart' /\ ListComplete'
    <2> DEFINE m == [l EXCEPT !.reply = "500"]
    <2>1. l \in Lookup /\ LookupInv(l)
      BY DEF TypeOK, LookupsApart
    <2>2. /\ m.postcode = l.postcode /\ m.props = l.props /\ m.i = l.i
          /\ m.tap = l.tap /\ m.options = l.options /\ m.reply = "500"
      BY <2>1 DEF Lookup
    <2>3. lookups' = (lookups \ {l}) \cup {m} /\ UNCHANGED <<title, nTaps, call, list>>
      BY <1>8 DEF PageFails, Continue
    <2> HIDE DEF m
    <2>4. LookupInv(m)
      BY <2>1, <2>2 DEF LookupInv
    <2> QED
      BY <1>1, <2>2, <2>3, <2>4
  <1>9. CASE UNCHANGED vars
    BY <1>9 DEF vars, LookupsApart, LookupInv, ListComplete
  <1> QED
    BY <1>2, <1>3, <1>4, <1>5, <1>6, <1>7, <1>8, <1>9 DEF Next, Client, Server

\* An answer, and so the list shown, has every page of its postcode that the loop
\* can reach and none of another, and the newest list is that of the title, however
\* lookups overlap and attempts time out (getAllFromPostcode, postcodeJsonParse).
THEOREM ListCompleteInvariant == Spec => [](LookupsApart /\ ListComplete)
<1>1. Init => LookupsApart /\ ListComplete
  BY DEF Init, LookupsApart, ListComplete
<1> QED
  BY <1>1, ListCompleteStep, TypeCorrect, PTL DEF Spec

-----------------------------------------------------------------------------
(* The client half implements LatestWins.                                  *)

\* Steps of the client and of the server keep to what LatestWins allows: neither a
\* second attempt nor a late lookup brings back the answer of an earlier tap.
THEOREM ListImplementsLatestWins == Spec => ListLatestWins
<1>1. Init => List!Init
  BY DEF Init, List!Init, ShownAddresses
<1>2. TypeOK /\ LookupsApart /\ [Next]_vars => [List!Next]_(List!vars)
  <2> SUFFICES ASSUME TypeOK, LookupsApart, [Next]_vars
               PROVE  [List!Next]_(List!vars)
    OBVIOUS
  <2>1. ASSUME list' = list, nTaps' = nTaps PROVE UNCHANGED List!vars
    BY <2>1 DEF List!vars, ShownAddresses
  <2>2. ASSUME NEW p \in Postcodes, Tap(p) PROVE List!Next
    BY <2>2 DEF Tap, List!Next, List!Ask, ShownAddresses
  <2>3. ASSUME NEW c \in call, TimesOut(c) \/ Unreachable(c)
        PROVE  UNCHANGED List!vars
    BY <2>1, <2>3 DEF TimesOut, Unreachable
  <2>4. ASSUME NEW l \in lookups, Deliver(l) PROVE [List!Next]_(List!vars)
    <3>1. CASE l.reply = "200" /\ \E c \in call : Answers(l, c)
      <4>1. l.tap = nTaps /\ nTaps \in Nat
        BY <3>1 DEF Answers, LookupsApart, TypeOK
      <4>2. \A s \in ShownAddresses : s.id < nTaps
        BY <3>1 DEF ShownAddresses, LookupsApart
      <4>3. list' = {[tap |-> l.tap, postcode |-> l.postcode, props |-> l.props]}
            /\ nTaps' = nTaps
        BY <2>4, <3>1 DEF Deliver
      <4>4. ShownAddresses' = {[id |-> nTaps, feed |-> 1]}
        BY <4>1, <4>3 DEF ShownAddresses
      <4> QED
        BY <4>1, <4>2, <4>3, <4>4 DEF List!Next, List!Show
    <3>2. CASE ~(l.reply = "200" /\ \E c \in call : Answers(l, c))
      BY <2>1, <2>4, <3>2 DEF Deliver
    <3> QED
      BY <3>1, <3>2
  <2>5. ASSUME NEW l \in lookups,
               PageArrives(l) \/ EmptyPageArrives(l) \/ PageFails(l)
        PROVE  UNCHANGED List!vars
    BY <2>1, <2>5 DEF PageArrives, EmptyPageArrives, PageFails, Continue
  <2>6. CASE UNCHANGED vars
    BY <2>1, <2>6 DEF vars
  <2> QED
    BY <2>2, <2>3, <2>4, <2>5, <2>6 DEF Next, Client, Server
<1> QED
  BY <1>1, <1>2, TypeCorrect, ListCompleteInvariant, PTL
     DEF Spec, ListLatestWins, List!Spec

-----------------------------------------------------------------------------
(* How many lookups a tap can have.                                        *)

\* An attempt has one lookup, and none of the request that is waited for is of a
\* later attempt than the one waiting.
OneLookupPerAttempt ==
    /\ \A l, m \in lookups : l.tap = m.tap /\ l.attempt = m.attempt => l = m
    /\ \A l \in lookups, c \in call : l.tap = c.tap => l.attempt <= c.attempt

\* Serving an attempt that no lookup has yet leaves one lookup for each.
LEMMA OneLookupPerAttemptStep ==
    ASSUME TypeOK, LoopsRun, LookupsApart, OneLookupPerAttempt, [Next]_vars
    PROVE  OneLookupPerAttempt'
  <1>1. ASSUME NEW l \in lookups, NEW m, lookups' = (lookups \ {l}) \cup {m},
               m.tap = l.tap, m.attempt = l.attempt, call' = call
        PROVE  OneLookupPerAttempt'
    BY <1>1 DEF OneLookupPerAttempt
  <1>2. ASSUME NEW c \in Call, call' = {c}, Serve(c),
               \A l \in lookups : l.tap = c.tap => l.attempt < c.attempt
        PROVE  OneLookupPerAttempt'
    <2>1. NewLookup(c).tap = c.tap /\ NewLookup(c).attempt = c.attempt
      BY DEF NewLookup
    <2>2. \A l \in lookups : l.attempt \in Nat
      BY DEF TypeOK, Lookup, MaxRetries
    <2>3. c.attempt \in Nat
      BY DEF Call, MaxRetries
    <2> QED
      BY <1>2, <2>1, <2>2, <2>3 DEF Serve, OneLookupPerAttempt
  <1>3. ASSUME NEW p \in Postcodes, Tap(p) PROVE OneLookupPerAttempt'
    <2> DEFINE first == [tap |-> nTaps + 1, attempt |-> 1, postcode |-> p]
    <2>1. first \in Call /\ first.tap = nTaps + 1 /\ call' = {first} /\ Serve(first)
      BY <1>3, LookupAssumption DEF Tap, TypeOK, Call, MaxRetries
    <2> HIDE DEF first
    <2> PICK c \in Call : c = first
      BY <2>1
    <2>2. \A l \in lookups : l.tap # c.tap
      BY <2>1 DEF TypeOK, LookupsApart, LookupInv, Lookup
    <2> QED
      BY <1>2, <2>1, <2>2
  <1>4. ASSUME NEW c \in call, TimesOut(c) PROVE OneLookupPerAttempt'
    <2>1. CASE c.attempt <= MaxRetries
      <3> DEFINE again == [c EXCEPT !.attempt = @ + 1]
      <3>1. c \in Call
        BY DEF TypeOK
      <3>2. again \in Call /\ again.tap = c.tap /\ again.attempt = c.attempt + 1
        BY <2>1, <3>1 DEF Call, MaxRetries
      <3>3. call' = {again} /\ Serve(again)
        BY <1>4, <2>1 DEF TimesOut
      <3> HIDE DEF again
      <3>4. \A l \in lookups : l.tap = again.tap => l.attempt < again.attempt
        BY <3>1, <3>2 DEF OneLookupPerAttempt, TypeOK, Lookup, Call, MaxRetries
      <3> QED
        BY <1>2, <3>2, <3>3, <3>4
    <2>2. CASE ~(c.attempt <= MaxRetries)
      BY <1>4, <2>2 DEF TimesOut, OneLookupPerAttempt
    <2> QED
      BY <2>1, <2>2
  <1>5. ASSUME NEW c \in call, Unreachable(c) PROVE OneLookupPerAttempt'
    BY <1>5 DEF Unreachable, OneLookupPerAttempt
  <1>6. ASSUME NEW l \in lookups, Deliver(l) PROVE OneLookupPerAttempt'
    BY <1>6 DEF Deliver, OneLookupPerAttempt
  <1>7. ASSUME NEW l \in lookups, PageArrives(l) PROVE OneLookupPerAttempt'
    <2>1. l.i < LoopLimit
      BY <1>7 DEF PageArrives, Running, LoopsRun
    <2>2. call' = call
      BY <1>7 DEF PageArrives, Continue
    <2> QED
      BY <1>1, <1>7, <2>1, <2>2, PageArrivesPushes
  <1>8. ASSUME NEW l \in lookups, EmptyPageArrives(l) \/ PageFails(l)
        PROVE  OneLookupPerAttempt'
    <2>1. l \in Lookup
      BY DEF TypeOK
    <2>2. \E m \in Lookup : /\ m.tap = l.tap /\ m.attempt = l.attempt
                           /\ lookups' = (lookups \ {l}) \cup {m}
                           /\ call' = call
      <3>1. CASE EmptyPageArrives(l)
        <4> DEFINE m == [l EXCEPT !.options.page = l.i, !.reply = "200"]
        <4>1. m \in Lookup /\ m.tap = l.tap /\ m.attempt = l.attempt
          BY <2>1 DEF Lookup, Options
        <4> QED
          BY <3>1, <4>1 DEF EmptyPageArrives, Continue
      <3>2. CASE PageFails(l)
        <4> DEFINE m == [l EXCEPT !.reply = "500"]
        <4>1. m \in Lookup /\ m.tap = l.tap /\ m.attempt = l.attempt
          BY <2>1 DEF Lookup
        <4> QED
          BY <3>2, <4>1 DEF PageFails, Continue
      <3> QED
        BY <1>8, <3>1, <3>2
    <2> QED
      BY <1>1, <2>2
  <1>9. CASE UNCHANGED vars
    BY <1>9 DEF vars, OneLookupPerAttempt
  <1> QED
    BY <1>3, <1>4, <1>5, <1>6, <1>7, <1>8, <1>9 DEF Next, Client, Server

\* A set with one element for each of two attempts at most.
LEMMA AtMostTwo ==
    ASSUME NEW S, \A l \in S : l.attempt \in {1, 2},
           \A l, m \in S : l.attempt = m.attempt => l = m
    PROVE  Cardinality(S) <= 2
  <1>1. \E x, y : S \subseteq {x, y}
    <2>1. ASSUME NEW k PROVE \E x : \A l \in S : l.attempt = k => l = x
      <3>1. CASE \E x \in S : x.attempt = k
        BY <3>1
      <3>2. CASE ~ \E x \in S : x.attempt = k
        BY <3>2
      <3> QED
        BY <3>1, <3>2
    <2>2. PICK x : \A l \in S : l.attempt = 1 => l = x
      BY <2>1
    <2>3. PICK y : \A l \in S : l.attempt = 2 => l = y
      BY <2>1
    <2>4. S \subseteq {x, y}
      BY <2>2, <2>3
    <2> QED
      BY <2>4
  <1>2. PICK x, y : S \subseteq {x, y}
    BY <1>1
  <1>3. /\ IsFiniteSet({}) /\ Cardinality({}) = 0
        /\ IsFiniteSet({x}) /\ Cardinality({x}) = 1
    BY FS_EmptySet, FS_Singleton
  <1>4. /\ IsFiniteSet({x} \cup {y})
        /\ Cardinality({x} \cup {y}) \in {1, 2}
    BY <1>3, FS_AddElement
  <1>5. {x, y} = {x} \cup {y}
    OBVIOUS
  <1>6. Cardinality(S) \in Nat /\ Cardinality(S) <= Cardinality({x, y})
    BY <1>2, <1>4, <1>5, FS_Subset, FS_CardinalityType
  <1> QED
    BY <1>4, <1>5, <1>6

\* However many attempts time out and however slow the registry is, a tap has two
\* lookups on the server at most (the retry policy of postcodeJsonParse).
THEOREM TwoLookupsPerTapInvariant == Spec => []TwoLookupsPerTap
<1>1. Init => OneLookupPerAttempt
  BY DEF Init, OneLookupPerAttempt
<1>2. TypeOK /\ OneLookupPerAttempt => TwoLookupsPerTap
  <2> SUFFICES ASSUME TypeOK, OneLookupPerAttempt, NEW n \in 1 .. nTaps
               PROVE  Cardinality({l \in lookups : l.tap = n}) <= 2
    BY DEF TwoLookupsPerTap
  <2> DEFINE S == {l \in lookups : l.tap = n}
  <2>1. \A l \in S : l.attempt \in {1, 2}
    BY DEF TypeOK, Lookup, MaxRetries
  <2>2. \A l, m \in S : l.attempt = m.attempt => l = m
    BY DEF OneLookupPerAttempt
  <2> HIDE DEF S
  <2>3. Cardinality(S) <= 2
    BY <2>1, <2>2, AtMostTwo
  <2> QED
    BY <2>3 DEF S
<1> QED
  BY <1>1, <1>2, OneLookupPerAttemptStep, TypeCorrect, ListCompleteInvariant, PTL
     DEF Spec

-----------------------------------------------------------------------------
(* The work of a tap comes to an end.                                      *)

\* One step of LookupsAdvance.
Advance ==
    /\ \A l \in lookups :
         (\A m \in lookups' : ~SameLookup(l, m)) => l.reply # "none"
    /\ \A m \in lookups' :
         \/ \E l \in lookups :
              /\ SameLookup(l, m)
              /\ m = l \/ (l.reply = "none" /\ (m.i = l.i + 1 \/ m.reply # "none"))
         \/ /\ m.i = 0
            /\ \/ m.tap = nTaps + 1 /\ m.attempt = 1
               \/ \E c \in call : c.tap = m.tap /\ m.attempt = c.attempt + 1

\* A step that starts one lookup, or lets one go on, advances.
LEMMA LookupsAdvanceStep ==
    ASSUME TypeOK, LoopsRun, [Next]_vars
    PROVE  Advance
  <1>1. ASSUME NEW c \in Call, Serve(c),
               \/ c.tap = nTaps + 1 /\ c.attempt = 1
               \/ \E d \in call : d.tap = c.tap /\ c.attempt = d.attempt + 1
        PROVE  Advance
    <2>1. NewLookup(c).tap = c.tap /\ NewLookup(c).attempt = c.attempt
          /\ NewLookup(c).i = 0
      BY DEF NewLookup
    <2> QED
      BY <1>1, <2>1 DEF Serve, Advance, SameLookup
  <1>2. ASSUME NEW l \in lookups, l.reply = "none", NEW m,
               lookups' = (lookups \ {l}) \cup {m}, SameLookup(l, m),
               m.i = l.i + 1 \/ m.reply # "none"
        PROVE  Advance
    BY <1>2 DEF Advance, SameLookup
  <1>3. ASSUME NEW p \in Postcodes, Tap(p) PROVE Advance
    <2> DEFINE first == [tap |-> nTaps + 1, attempt |-> 1, postcode |-> p]
    <2>1. first \in Call /\ first.tap = nTaps + 1 /\ first.attempt = 1 /\ Serve(first)
      BY <1>3, LookupAssumption DEF Tap, TypeOK, Call, MaxRetries
    <2> HIDE DEF first
    <2> QED
      BY <1>1, <2>1
  <1>4. ASSUME NEW c \in call, TimesOut(c) PROVE Advance
    <2>1. CASE c.attempt <= MaxRetries
      <3> DEFINE again == [c EXCEPT !.attempt = @ + 1]
      <3>1. again \in Call /\ again.tap = c.tap /\ again.attempt = c.attempt + 1
        BY <2>1 DEF TypeOK, Call, MaxRetries
      <3>2. Serve(again)
        BY <1>4, <2>1 DEF TimesOut
      <3> HIDE DEF again
      <3> QED
        BY <1>1, <3>1, <3>2
    <2>2. CASE ~(c.attempt <= MaxRetries)
      BY <1>4, <2>2 DEF TimesOut, Advance, SameLookup
    <2> QED
      BY <2>1, <2>2
  <1>5. ASSUME NEW c \in call, Unreachable(c) PROVE Advance
    BY <1>5 DEF Unreachable, Advance, SameLookup
  <1>6. ASSUME NEW l \in lookups, Deliver(l) PROVE Advance
    BY <1>6 DEF Deliver, Advance, SameLookup
  <1>7. ASSUME NEW l \in lookups, PageArrives(l) PROVE Advance
    <2>1. l.reply = "none" /\ l.i < LoopLimit
      BY <1>7 DEF PageArrives, Running, LoopsRun
    <2>2. PICK m \in Lookup :
             /\ lookups' = (lookups \ {l}) \cup {m}
             /\ m.tap = l.tap /\ m.attempt = l.attempt /\ m.i = l.i + 1
      BY <1>7, <2>1, PageArrivesPushes
    <2> QED
      BY <1>2, <2>1, <2>2 DEF SameLookup
  <1>8. ASSUME NEW l \in lookups, EmptyPageArrives(l) PROVE Advance
    <2> DEFINE m == [l EXCEPT !.options.page = l.i, !.reply = "200"]
    <2>1. SameLookup(l, m) /\ m.reply = "200"
      BY DEF TypeOK, Lookup, Options, SameLookup
    <2>2. l.reply = "none" /\ lookups' = (lookups \ {l}) \cup {m}
      BY <1>8 DEF EmptyPageArrives, Running, Continue
    <2> HIDE DEF m
    <2> QED
      BY <1>2, <2>1, <2>2
  <1>9. ASSUME NEW l \in lookups, PageFails(l) PROVE Advance
    <2> DEFINE m == [l EXCEPT !.reply = "500"]
    <2>1. SameLookup(l, m) /\ m.reply = "500"
      BY DEF TypeOK, Lookup, SameLookup
    <2>2. l.reply = "none" /\ lookups' = (lookups \ {l}) \cup {m}
      BY <1>9 DEF PageFails, Running, Continue
    <2> HIDE DEF m
    <2> QED
      BY <1>2, <2>1, <2>2
  <1>10. CASE UNCHANGED vars
    BY <1>10 DEF vars, Advance, SameLookup
  <1> QED
    BY <1>3, <1>4, <1>5, <1>6, <1>7, <1>8, <1>9, <1>10 DEF Next, Client, Server

\* No lookup starts over and none is served without a tap or a time-out that asks
\* for it: with TwoLookupsPerTap, a tap is the cause of a bounded number of requests
\* to the registry (getAllFromPostcode, postcodeJsonParse).
THEOREM LookupsOnlyAdvance == Spec => LookupsAdvance
<1>1. TypeOK /\ LoopsRun /\ [Next]_vars => [Advance]_vars
  BY LookupsAdvanceStep
<1> QED
  BY <1>1, TypeCorrect, PTL DEF Spec, LookupsAdvance, Advance

-----------------------------------------------------------------------------
(* What follows from the refinement.                                       *)

ListOf == INSTANCE LatestWinsProofs WITH
    feed <- 1, newest <- nTaps, shown <- ShownAddresses

\* A list is followed only by that of a later tap, whatever is late
\* (postcodeJsonParse).
THEOREM ListNeverGoesBack == Spec => List!ForwardOnly
  BY ListImplementsLatestWins, ListOf!ScreenMovesForward, PTL
     DEF ListLatestWins, List!Spec, List!Init, List!Next, List!vars,
         List!Ask, List!Leave, List!Show, List!ForwardOnly,
         ListOf!Spec, ListOf!Init, ListOf!Next, ListOf!vars,
         ListOf!Ask, ListOf!Leave, ListOf!Show, ListOf!ForwardOnly

=============================================================================
