--------------------------- MODULE BackendProofs ---------------------------
(***************************************************************************)
(* Theorems about Backend, for every number of processes, every set of     *)
(* radii, and every bound.                                                 *)
(***************************************************************************)
EXTENDS Backend, TLAPS

\* The replies that carry prices around a point.
Priced(p) == p.status = 200 /\ p.asked.route = "pcprices" /\ p.asked.radius # NoRadius

-----------------------------------------------------------------------------
(* Types.                                                                  *)

\* Wherever its thresholds lie, getPricesAtAround always has a collection.
LEMMA CollectionForType ==
    ASSUME NEW radius
    PROVE  CollectionFor(radius) \in Collections
  BY DEF CollectionFor, Collections

\* Dividing by 1000 and rounding carries no float across 1000 metres: those below
\* come out below one kilometre, and those from 1000 on do not.
LEMMA KilometresKeepSide ==
    ASSUME NEW radius \in Float
    PROVE  Below(Kilometres(radius), Km1) <=> InfoWindow(radius)
<1>. DEFINE m == (128 * radius.m + 62) \div 125
            half == (64 * radius.m + 62) \div 125
<1>1. radius.m \in Nat /\ radius.e \in Int /\ 8388608 <= radius.m /\ radius.m < 16777216
  BY SMT DEF Float
<1>2. InfoWindow(radius) <=> radius.e < -14 \/ (radius.e = -14 /\ radius.m < 16384000)
  BY SMT DEF InfoWindow, Below
<1>3. m \in Int /\ half \in Int /\ m >= 8388608
  BY <1>1, SMT
<1>4. m < 16777216 <=> radius.m < 16384000
  BY <1>1, SMT
<1>5. radius.m >= 16384000 => half >= 8388608
  BY <1>1, SMT
<1>6. CASE m < 16777216
  <2>1. Kilometres(radius) = [m |-> m, e |-> radius.e - 10]
    BY <1>6, SMT DEF Kilometres
  <2>2. Below(Kilometres(radius), Km1)
            <=> radius.e - 10 < -23 \/ (radius.e - 10 = -23 /\ m < 8388608)
    BY <2>1, SMT DEF Below, Km1
  <2>. HIDE DEF m
  <2>. QED BY <1>1, <1>2, <1>3, <1>4, <1>6, <2>2, SMT
<1>7. CASE ~(m < 16777216)
  <2>1. Kilometres(radius) = [m |-> half, e |-> radius.e - 9]
    BY <1>7, SMT DEF Kilometres
  <2>2. Below(Kilometres(radius), Km1)
            <=> radius.e - 9 < -23 \/ (radius.e - 9 = -23 /\ half < 8388608)
    BY <2>1, SMT DEF Below, Km1
  <2>. HIDE DEF m, half
  <2>. QED BY <1>1, <1>2, <1>3, <1>4, <1>5, <1>7, <2>2, SMT
<1>. QED BY <1>6, <1>7

\* A radius below 1000 metres, and none above, is answered with unit postcodes.
LEMMA NearIsUnitPostcodes ==
    ASSUME NEW radius \in Radii
    PROVE  CollectionFor(radius) = "postcodeData" <=> InfoWindow(radius)
<1>1. radius \in Float /\ radius # NoRadius
  BY BackendAssumption
<1>2. CollectionFor(radius) = "postcodeData" <=> Below(Kilometres(radius), Km1)
  BY <1>1 DEF CollectionFor
<1>. QED BY <1>1, <1>2, KilometresKeepSide

\* What is sent is a reply, whatever the handler was asked.
LEMMA ReplyToType ==
    ASSUME NEW r, r.id \in 1 .. MaxRequests, r.asked \in Asked,
           NEW status \in {200, 500}
    PROVE  ReplyTo(r, status) \in Reply
<1>1. CollectionFor(r.asked.radius) \in Collections
  BY CollectionForType
<1>2. "none" \notin Collections
  BY DEF Collections
<1>. QED BY <1>1, <1>2 DEF ReplyTo, Reply

\* Every connection, handler and reply keeps its type: the resolution is always one
\* of the four collections (getPricesAtAround).
THEOREM TypeCorrect == Spec => []TypeOK
<1>1. Init => TypeOK
  BY BackendAssumption DEF Init, TypeOK
<1>2. TypeOK /\ [Next]_vars => TypeOK'
  <2>. SUFFICES ASSUME TypeOK, [Next]_vars PROVE TypeOK'
    OBVIOUS
  <2>. USE DEF TypeOK
  <2>0. CASE UNCHANGED vars
    BY <2>0 DEF vars
  <2>1. ASSUME NEW w \in Workers, NEW asked \in Asked, NEW at \in {"buffer", "database", "download"},
               Wait(w, asked, at)
        PROVE  TypeOK'
    BY <2>1, BackendAssumption DEF Wait, Request
  <2>2. ASSUME NEW w \in Workers, NEW asked \in Asked, AnswerAtOnce(w, asked)
        PROVE  TypeOK'
    <3>. DEFINE r == [id |-> nRequests + 1, worker |-> w, asked |-> asked, at |-> "buffer"]
    <3>1. nRequests' \in 0 .. MaxRequests /\ nRequests + 1 \in 1 .. MaxRequests
      BY <2>2, BackendAssumption DEF AnswerAtOnce
    <3>2. r.id \in 1 .. MaxRequests /\ r.asked \in Asked
      BY <3>1
    <3>. HIDE DEF r
    <3>3. ReplyTo(r, 200) \in Reply /\ ReplyTo(r, 500) \in Reply
      BY <3>2, ReplyToType
    <3>4. replies' \subseteq replies \cup {ReplyTo(r, 200), ReplyTo(r, 500)}
      BY <2>2 DEF AnswerAtOnce, r
    <3>. QED BY <2>2, <3>1, <3>3, <3>4 DEF AnswerAtOnce
  <2>3. ASSUME NEW r \in requests, NEW status \in {200, 500}, Send(r, status),
               UNCHANGED <<conn, nRequests>>
        PROVE  TypeOK'
    <3>1. r.id \in 1 .. MaxRequests /\ r.asked \in Asked
      BY DEF Request
    <3>2. ReplyTo(r, status) \in Reply
      BY <3>1, ReplyToType
    <3>. QED BY <2>3, <3>2 DEF Send
  <2>4. ASSUME NEW w \in Workers, ConnectionOpens(w)
        PROVE  TypeOK'
    <3>1. \A r \in requests : [r EXCEPT !.at = "database"] \in Request
      BY DEF Request
    <3>. QED BY <2>4, <3>1 DEF ConnectionOpens
  <2>5. ASSUME NEW w \in Workers, ConnectionFails(w) \/ Restart(w)
        PROVE  TypeOK'
    BY <2>5 DEF ConnectionFails, Restart
  <2>6. ASSUME NEW r \in requests, DownloadBreaks(r)
        PROVE  TypeOK'
    <3>1. [r EXCEPT !.at = "hung"] \in Request
      BY DEF Request
    <3>. QED BY <2>6, <3>1 DEF DownloadBreaks
  <2>. QED
    BY <2>0, <2>1, <2>2, <2>3, <2>4, <2>5, <2>6
       DEF Next, Query, GetPostcodes, QueryReturns, QueryFails, DownloadEnds
<1>. QED BY <1>1, <1>2, PTL DEF Spec

-----------------------------------------------------------------------------
(* One reply to a request.                                                 *)

\* A reply says which request it answers, and what was asked.
LEMMA ReplyToAnswers ==
    ASSUME NEW r, NEW status
    PROVE  /\ ReplyTo(r, status).id = r.id
           /\ Priced(ReplyTo(r, status)) =>
                ReplyTo(r, status).from = CollectionFor(ReplyTo(r, status).asked.radius)
  BY DEF ReplyTo, Priced

\* Ids are given in order, so a new request has one that nobody has.
Numbered ==
    /\ \A r \in requests : r.id <= nRequests
    /\ \A p \in replies : p.id <= nRequests

\* A request is answered at most once and never while its handler still runs
\* (apiController).
THEOREM OneReplyInvariant == Spec => []OneReply
<1>. DEFINE IInv == OneReply /\ Numbered
<1>1. Init => IInv
  BY DEF Init, OneReply, Numbered
<1>2. TypeOK /\ IInv /\ [Next]_vars => IInv'
  <2>. SUFFICES ASSUME TypeOK, IInv, [Next]_vars PROVE IInv'
    OBVIOUS
  <2>0. /\ nRequests \in Int
        /\ \A r \in requests : r.id \in Int
        /\ \A p \in replies : p.id \in Int
    BY BackendAssumption DEF TypeOK, Request, Reply
  <2>1. CASE UNCHANGED vars
    BY <2>1 DEF vars, OneReply, Numbered
  <2>2. ASSUME NEW w \in Workers, NEW asked \in Asked, NEW at, Wait(w, asked, at)
        PROVE  IInv'
    <3>. DEFINE new == [id |-> nRequests + 1, worker |-> w, asked |-> asked, at |-> at]
    <3>1. /\ requests' = requests \cup {new}
          /\ replies' = replies /\ nRequests' = nRequests + 1
          /\ new.id = nRequests + 1
      BY <2>2 DEF Wait
    <3>. HIDE DEF new
    <3>. QED BY <2>0, <3>1 DEF OneReply, Numbered
  <2>3. ASSUME NEW w \in Workers, NEW asked \in Asked, AnswerAtOnce(w, asked)
        PROVE  IInv'
    <3>. DEFINE r == [id |-> nRequests + 1, worker |-> w, asked |-> asked, at |-> "buffer"]
    <3>0. ReplyTo(r, 200).id = nRequests + 1 /\ ReplyTo(r, 500).id = nRequests + 1
      BY ReplyToAnswers
    <3>1. PICK p : p.id = nRequests + 1 /\ replies' = replies \cup {p}
      BY <2>3, <3>0 DEF AnswerAtOnce
    <3>2. requests' = requests /\ nRequests' = nRequests + 1
      BY <2>3 DEF AnswerAtOnce
    <3>. QED BY <2>0, <3>1, <3>2 DEF OneReply, Numbered
  <2>4. ASSUME NEW r \in requests, NEW status, Send(r, status),
               UNCHANGED <<conn, nRequests>>
        PROVE  IInv'
    <3>1. PICK p : p.id = r.id /\ replies' = replies \cup {p}
      BY <2>4, ReplyToAnswers DEF Send
    <3>2. requests' = requests \ {r} /\ nRequests' = nRequests
      BY <2>4 DEF Send
    <3>. QED BY <2>0, <3>1, <3>2 DEF OneReply, Numbered
  <2>5. ASSUME NEW w \in Workers, ConnectionOpens(w)
        PROVE  IInv'
    <3>. DEFINE Sent(r) == IF r.worker = w /\ r.at = "buffer"
                           THEN [r EXCEPT !.at = "database"] ELSE r
    <3>1. /\ requests' = {Sent(r) : r \in requests}
          /\ replies' = replies /\ nRequests' = nRequests
      BY <2>5 DEF ConnectionOpens
    <3>2. \A r \in requests : Sent(r).id = r.id
      BY DEF TypeOK, Request
    <3>. HIDE DEF Sent
    <3>. QED BY <2>0, <3>1, <3>2 DEF OneReply, Numbered
  <2>6. ASSUME NEW w \in Workers, ConnectionFails(w) \/ Restart(w)
        PROVE  IInv'
    BY <2>6 DEF ConnectionFails, Restart, OneReply, Numbered
  <2>7. ASSUME NEW r \in requests, DownloadBreaks(r)
        PROVE  IInv'
    <3>1. [r EXCEPT !.at = "hung"].id = r.id
      BY DEF TypeOK, Request
    <3>2. PICK q : q.id = r.id /\ requests' = (requests \ {r}) \cup {q}
      BY <2>7, <3>1 DEF DownloadBreaks
    <3>3. replies' = replies /\ nRequests' = nRequests
      BY <2>7 DEF DownloadBreaks
    <3>. QED BY <2>0, <3>2, <3>3 DEF OneReply, Numbered
  <2>. QED
    BY <2>1, <2>2, <2>3, <2>4, <2>5, <2>6, <2>7
       DEF Next, Query, GetPostcodes, QueryReturns, QueryFails, DownloadEnds
<1>3. IInv => OneReply
  OBVIOUS
<1>. QED BY <1>1, <1>2, <1>3, TypeCorrect, PTL DEF Spec

-----------------------------------------------------------------------------
(* What the prices sent are.                                               *)

\* Prices are from the collection of their radius.
PricesFound ==
    \A p \in replies :
        Priced(p) => p.from = CollectionFor(p.asked.radius)

LEMMA PricesFoundInvariant == Spec => []PricesFound
<1>1. Init => PricesFound
  BY DEF Init, PricesFound
<1>2. PricesFound /\ [Next]_vars => PricesFound'
  <2>. SUFFICES ASSUME PricesFound, [Next]_vars PROVE PricesFound'
    OBVIOUS
  <2>1. ASSUME NEW r, NEW status, replies' = replies \cup {ReplyTo(r, status)}
        PROVE  PricesFound'
    BY <2>1, ReplyToAnswers DEF PricesFound
  <2>2. CASE replies' = replies
    BY <2>2 DEF PricesFound
  <2>3. \/ replies' = replies
        \/ \E r, status : replies' = replies \cup {ReplyTo(r, status)}
    <3>1. ASSUME NEW w \in Workers, NEW asked \in Asked, AnswerAtOnce(w, asked)
          PROVE  \E r, status : replies' = replies \cup {ReplyTo(r, status)}
      BY <3>1 DEF AnswerAtOnce
    <3>2. ASSUME NEW r \in requests, QueryReturns(r) \/ QueryFails(r) \/ DownloadEnds(r)
          PROVE  \E q, status : replies' = replies \cup {ReplyTo(q, status)}
      BY <3>2 DEF QueryReturns, QueryFails, DownloadEnds, Send
    <3>. QED
      BY <3>1, <3>2
         DEF Next, vars, Query, GetPostcodes, Wait, DownloadBreaks, ConnectionOpens,
             ConnectionFails, Restart
  <2>. QED BY <2>1, <2>2, <2>3
<1>. QED BY <1>1, <1>2, PTL DEF Spec

\* For every float of metres, rounded on its way as it is, unit postcodes are sent
\* exactly where the Android app lets a marker open the sheet (enableInfoWindow,
\* getPricesAtAround).
THEOREM SheetWhereUnitPostcodesInvariant == Spec => []SheetWhereUnitPostcodes
<1>1. TypeOK /\ PricesFound => SheetWhereUnitPostcodes
  <2>. SUFFICES ASSUME TypeOK, PricesFound, NEW p \in replies, Priced(p)
                PROVE  InfoWindow(p.asked.radius) <=> p.from = "postcodeData"
    BY DEF SheetWhereUnitPostcodes, Priced
  <2>1. p.asked.radius \in Radii
    BY DEF TypeOK, Reply, Asked, Priced
  <2>2. p.from = CollectionFor(p.asked.radius)
    BY DEF PricesFound
  <2>. QED BY <2>1, <2>2, NearIsUnitPostcodes
<1>. QED BY <1>1, TypeCorrect, PricesFoundInvariant, PTL

=============================================================================
