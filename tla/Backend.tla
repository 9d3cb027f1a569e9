------------------------------ MODULE Backend ------------------------------
(***************************************************************************)
(* The routes of the backend that need no more than one await: average     *)
(* prices around a point at a resolution that depends on the radius, the   *)
(* average of a postcode, the postcodes near a point, and the test route.  *)
(* (Route /addresses is AddressLookup.)                                    *)
(*                                                                         *)
(* pm2 runs several processes of server.js; each has one mongoose          *)
(* connection, made when it starts.  Until the connection opens mongoose   *)
(* keeps the queries in a buffer; an attempt that fails is only logged.    *)
(*                                                                         *)
(* A radius is a Java float of metres, which the Android app divides by    *)
(* 1000 before it sends it; which records a query finds is left out.       *)
(***************************************************************************)
EXTENDS Integers

CONSTANTS
    Workers,        \* processes that pm2 keeps running
    Radii,          \* radius_meter of the Android app
    NoRadius,       \* pcprices/:lat/:long, without a radius
    MaxRequests     \* bound: requests of a behaviour

Collections == {"area", "district", "sector", "postcodeData"}

\* A float is m * 2^e with a mantissa m of 24 bits.  Distances on the earth have an
\* exponent of 1 at most; those below a millionth of a metre are left out.
Float == {f \in [m : Nat, e : -43 .. 1] : 8388608 <= f.m /\ f.m < 16777216}

ASSUME BackendAssumption ==
    /\ Radii \subseteq Float
    /\ NoRadius \notin Radii
    /\ MaxRequests \in Nat

VARIABLES
    conn,           \* dbRemote of each process
    requests,       \* handlers waiting at their await
    replies,        \* what was sent
    nRequests       \* requests so far

vars == <<conn, requests, replies, nRequests>>

Routes == {"pcprices", "average", "postcodes", "print"}
Asked == [route : {"pcprices"}, radius : Radii \cup {NoRadius}]
             \cup [route : Routes \ {"pcprices"}, radius : {NoRadius}]

\* A handler waits for a query in mongoose's buffer, a query at the database, the
\* list downloaded from doogal.co.uk, or for what will never come ("hung").
Request == [id : 1 .. MaxRequests, worker : Workers, asked : Asked,
            at : {"buffer", "database", "download", "hung"}]

\* Prices, and nothing else, come from one of the collections.
Reply == {p \in [id : 1 .. MaxRequests, asked : Asked, status : {200, 500},
                 from : Collections \cup {"none"}] :
            p.from \in Collections <=> p.status = 200 /\ p.asked.route = "pcprices"}

TypeOK ==
    /\ conn \in [Workers -> {"connecting", "open", "failed"}]
    /\ requests \subseteq Request
    /\ replies \subseteq Reply
    /\ nRequests \in 0 .. MaxRequests

Init ==
    /\ conn = [w \in Workers |-> "connecting"]
    /\ requests = {}
    /\ replies = {}
    /\ nRequests = 0

-----------------------------------------------------------------------------
(* What the services look up.                                              *)

\* radius_meter/1000, a division of floats: m * 2^e / 1000 is m/125 * 2^(e-3), and
\* the new mantissa is rounded to the nearest (128/125 of m, or half of that where
\* it has a bit too many).  From there to the comparison, by way of a double and
\* the text of a URL, the number stays the same.
Kilometres(radius) ==
    LET m == (128 * radius.m + 62) \div 125
    IN  IF m < 16777216
        THEN [m |-> m, e |-> radius.e - 10]
        ELSE [m |-> (64 * radius.m + 62) \div 125, e |-> radius.e - 9]

Below(f, g) == f.e < g.e \/ (f.e = g.e /\ f.m < g.m)

Km1 == [m |-> 8388608, e |-> -23]
Km40 == [m |-> 10485760, e |-> -18]
Km90 == [m |-> 11796480, e |-> -17]

\* Mutant of CollectionFor: a radius of one kilometre is still near.
CollectionForInclusive(radius) ==
    IF radius = NoRadius \/ ~Below(Km1, Kilometres(radius)) THEN "postcodeData"
    ELSE IF Below(Km90, Kilometres(radius)) THEN "area"
    ELSE IF Below(Km40, Kilometres(radius)) THEN "district"
    ELSE "sector"

\* Mutant of CollectionFor: no branch for exactly one kilometre.
CollectionForWithGap(radius) ==
    IF radius = NoRadius \/ Below(Kilometres(radius), Km1) THEN "postcodeData"
    ELSE IF Below(Km90, Kilometres(radius)) THEN "area"
    ELSE IF Below(Km40, Kilometres(radius)) THEN "district"
    ELSE IF Below(Km1, Kilometres(radius)) THEN "sector"
    ELSE "none"

\* getPricesAtAround: the larger the radius, the coarser the answer.
CollectionFor(radius) ==
    IF radius = NoRadius \/ Below(Kilometres(radius), Km1) THEN "postcodeData"
    ELSE IF Below(Km90, Kilometres(radius)) THEN "area"
    ELSE IF Below(Km40, Kilometres(radius)) THEN "district"
    ELSE "sector"

\* res.send: the status, and for prices the collection they are from.
ReplyTo(r, status) ==
    [id |-> r.id, asked |-> r.asked, status |-> status,
     from |-> IF status = 200 /\ r.asked.route = "pcprices"
              THEN CollectionFor(r.asked.radius) ELSE "none"]

\* The handler resumes, sends its answer and is done.
Send(r, status) ==
    /\ requests' = requests \ {r}
    /\ replies' = replies \cup {ReplyTo(r, status)}

-----------------------------------------------------------------------------
(* Requests.                                                               *)

\* The route's handler runs up to its first await.
Wait(w, asked, at) ==
    /\ nRequests < MaxRequests
    /\ nRequests' = nRequests + 1
    /\ requests' = requests \cup
         {[id |-> nRequests + 1, worker |-> w, asked |-> asked, at |-> at]}
    /\ UNCHANGED <<conn, replies>>

\* getPricesAtAround, getAveragePrice: the query goes to the database or, before
\* the connection has opened, into the buffer.
Query(w, asked) ==
    /\ asked.route \in {"pcprices", "average"}
    /\ Wait(w, asked, IF conn[w] = "open" THEN "database" ELSE "buffer")

GetPostcodes(w, asked) ==
    /\ asked.route = "postcodes"
    /\ Wait(w, asked, "download")

\* The test route redirects at once.  Without a radius the bracket is NaN, and where
\* mongoose cannot cast that the error comes at once as well (it may also cast it,
\* and then finds nothing).
AnswerAtOnce(w, asked) ==
    /\ nRequests < MaxRequests
    /\ nRequests' = nRequests + 1
    /\ LET r == [id |-> nRequests + 1, worker |-> w, asked |-> asked, at |-> "buffer"]
       IN  \/ /\ asked.route = "print"
              /\ replies' = replies \cup {ReplyTo(r, 200)}
           \/ /\ asked.route = "pcprices" /\ asked.radius = NoRadius
              /\ replies' = replies \cup {ReplyTo(r, 500)}
    /\ UNCHANGED <<conn, requests>>

QueryReturns(r) ==
    /\ r \in requests
    /\ r.at = "database"
    /\ Send(r, 200)
    /\ UNCHANGED <<conn, nRequests>>

\* Mutant of QueryFails: the handler does not stop at the error.
QueryFailsGoesOn(r) ==
    /\ r \in requests
    /\ r.at = "database"
    /\ replies' = replies \cup {ReplyTo(r, 500)}
    /\ UNCHANGED <<conn, requests, nRequests>>

\* Mutant of QueryFails: the error is logged and nothing sent.
QueryFailsUnanswered(r) ==
    /\ r \in requests
    /\ r.at = "database"
    /\ requests' = (requests \ {r}) \cup {[r EXCEPT !.at = "hung"]}
    /\ UNCHANGED <<conn, replies, nRequests>>

QueryFails(r) ==
    /\ r \in requests
    /\ r.at = "database"
    /\ Send(r, 500)
    /\ UNCHANGED <<conn, nRequests>>

\* The csv ends, or does not parse.
DownloadEnds(r) ==
    /\ r \in requests
    /\ r.at = "download"
    /\ \E status \in {200, 500} : Send(r, status)
    /\ UNCHANGED <<conn, nRequests>>

\* doogal.co.uk is not reached, or breaks off: the error rejects the promise of
\* request.get, which nobody waits for, and ends no csv, so the handler waits on.
DownloadBreaks(r) ==
    /\ r \in requests
    /\ r.at = "download"
    /\ requests' = (requests \ {r}) \cup {[r EXCEPT !.at = "hung"]}
    /\ UNCHANGED <<conn, replies, nRequests>>

-----------------------------------------------------------------------------
(* Connections and processes.                                              *)

\* Every query of the buffer is sent.
ConnectionOpens(w) ==
    /\ conn[w] = "connecting"
    /\ conn' = [conn EXCEPT ![w] = "open"]
    /\ requests' = {IF r.worker = w /\ r.at = "buffer"
                    THEN [r EXCEPT !.at = "database"] ELSE r : r \in requests}
    /\ UNCHANGED <<replies, nRequests>>

\* on("error"): a line in the log.  Nobody connects again.
ConnectionFails(w) ==
    /\ conn[w] = "connecting"
    /\ conn' = [conn EXCEPT ![w] = "failed"]
    /\ UNCHANGED <<requests, replies, nRequests>>

\* The process ends and pm2 starts another; its clients see their sockets close.
Restart(w) ==
    /\ conn' = [conn EXCEPT ![w] = "connecting"]
    /\ requests' = {r \in requests : r.worker # w}
    /\ UNCHANGED <<replies, nRequests>>

-----------------------------------------------------------------------------
Next ==
    \/ \E w \in Workers, asked \in Asked :
         \/ Query(w, asked)
         \/ GetPostcodes(w, asked)
         \/ AnswerAtOnce(w, asked)
    \/ \E r \in requests : QueryReturns(r)
    \/ \E r \in requests : QueryFails(r)
    \/ \E r \in requests : DownloadEnds(r)
    \/ \E r \in requests : DownloadBreaks(r)
    \/ \E w \in Workers : ConnectionOpens(w)
    \/ \E w \in Workers : ConnectionFails(w)
    \/ \E w \in Workers : Restart(w)

Spec == Init /\ [][Next]_vars

\* An attempt to connect ends either way, and so does a query that was sent; a
\* download ends or breaks.  Nothing makes any of them succeed, or a process restart.
Fairness ==
    /\ \A w \in Workers : WF_vars(ConnectionOpens(w) \/ ConnectionFails(w))
    /\ \A n \in 1 .. MaxRequests :
         /\ WF_vars(\E r \in requests : r.id = n /\ (QueryReturns(r) \/ QueryFails(r)))
         /\ WF_vars(\E r \in requests : r.id = n /\ (DownloadEnds(r) \/ DownloadBreaks(r)))

FairSpec == Spec /\ Fairness

-----------------------------------------------------------------------------
(* Properties.                                                             *)

\* A request is answered once, whichever of its awaits, its process and its
\* connection ends first: no handler runs on after res.send, none sends twice
\* (apiController).
OneReply ==
    /\ \A p, q \in replies : p.id = q.id => p = q
    /\ \A r \in requests, p \in replies : r.id # p.id
    /\ \A r, s \in requests : r.id = s.id => r = s

\* enableInfoWindow of the Android app, which compares metres: radius_meter < 1000.
InfoWindow(radius) == Below(radius, [m |-> 16384000, e |-> -14])

\* The two programs agree on what is near, although one compares metres and the
\* other kilometres that were rounded on the way: markers open the sheet, which
\* asks for the addresses of a postcode, exactly where the backend sends unit
\* postcodes (MapsActivity.updateCameraRegion, getPricesAtAround).
SheetWhereUnitPostcodes ==
    \A p \in replies :
        p.status = 200 /\ p.asked.route = "pcprices" /\ p.asked.radius # NoRadius =>
            (InfoWindow(p.asked.radius) <=> p.from = "postcodeData")

\* A query that will never be sent, or a list whose download broke off.
Stuck(r) ==
    \/ r.at = "buffer" /\ conn[r.worker] = "failed"
    \/ r.at = "hung" /\ r.asked.route = "postcodes"

\* Every request is answered, those that come before the connection is open and
\* those whose query fails too, and only two kinds wait for ever: queries where the
\* connection has failed for good (mongooseRemote: the error is logged), and
\* postcodes nearby where the download broke (getPostcodesNearAround).
AnsweredUnlessStuck ==
    \A n \in 1 .. MaxRequests :
        (\E r \in requests : r.id = n)
            ~> \A r \in requests : r.id = n => Stuck(r)

=============================================================================
