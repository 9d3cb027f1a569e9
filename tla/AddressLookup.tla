--------------------------- MODULE AddressLookup ---------------------------
(***************************************************************************)
(* The addresses of a postcode from end to end, for one connection of the  *)
(* Android app: taps, which cancel the request before; the two attempts of *)
(* a Volley request; and the lookups they start on the server, which run   *)
(* concurrently, one await at a time, and know nothing of a client that    *)
(* has given up.                                                           *)
(*                                                                         *)
(* A page is a postcode and a number; the registry holds the pages         *)
(* 0 .. Pages[p] - 1 of postcode p and answers an empty list beyond them.  *)
(* Postcodes come from the database in upper case, so toUpperCase leaves   *)
(* them as they are.                                                       *)
(***************************************************************************)
EXTENDS Integers, Sequences, FiniteSets

CONSTANTS
    Postcodes,
    Pages,          \* Postcodes -> Nat: how many pages the registry holds
    LoopLimit,      \* the 50 of the for loop
    NoPostcode,     \* nothing tapped yet
    MaxTaps         \* bound: taps of a behaviour

ASSUME LookupAssumption ==
    /\ Pages \in [Postcodes -> Nat]
    /\ LoopLimit \in Nat \ {0}
    /\ NoPostcode \notin Postcodes
    /\ MaxTaps \in Nat

VARIABLES
    title,      \* postcode of the last tap
    nTaps,      \* taps so far: the number of the newest request
    call,       \* the request that is neither delivered nor cancelled, if any
    list,       \* what the sheet lists, if anything, with the request it answers
    lookups     \* getAllFromPostcode as it runs, once for each attempt sent

vars == <<title, nTaps, call, list, lookups>>

\* DefaultRetryPolicy(socketTimeout, 1, ...)
MaxRetriesOfTwo == 2
MaxRetries == 1

Page == Postcodes \X Nat
Call == [tap : 1 .. MaxTaps, attempt : 1 .. MaxRetries + 1, postcode : Postcodes]
Options == [page : 0 .. LoopLimit, postcode : Postcodes]
Lookup == [tap : 1 .. MaxTaps, attempt : 1 .. MaxRetries + 1, postcode : Postcodes,
           options : Options, i : 0 .. LoopLimit, props : Seq(Page),
           reply : {"none", "200", "500"}]
Addresses == [tap : 1 .. MaxTaps, postcode : Postcodes, props : Seq(Page)]

TypeOK ==
    /\ title \in Postcodes \cup {NoPostcode}
    /\ nTaps \in 0 .. MaxTaps
    /\ call \subseteq Call
    /\ list \subseteq Addresses
    /\ lookups \subseteq Lookup

Init ==
    /\ title = NoPostcode
    /\ nTaps = 0
    /\ call = {}
    /\ list = {}
    /\ lookups = {}

-----------------------------------------------------------------------------
(* The client.                                                             *)

NewLookup(c) ==
    [tap |-> c.tap, attempt |-> c.attempt, postcode |-> c.postcode,
     options |-> [page |-> 0, postcode |-> c.postcode],
     i |-> 0, props |-> <<>>, reply |-> "none"]

\* Mutant of Serve: options is a variable of the file, not of the function.
ServeShared(c) ==
    lookups' = {[l EXCEPT !.options = NewLookup(c).options] : l \in lookups}
                  \cup {NewLookup(c)}

\* The request reaches the server, which runs the handler up to its first await.
Serve(c) == lookups' = lookups \cup {NewLookup(c)}

\* postcodeJsonParse: the request before is cancelled.
Tap(p) ==
    /\ nTaps < MaxTaps
    /\ nTaps' = nTaps + 1
    /\ title' = p
    /\ LET c == [tap |-> nTaps + 1, attempt |-> 1, postcode |-> p]
       IN  call' = {c} /\ Serve(c)
    /\ UNCHANGED list

\* Mutant of TimesOut: the attempts are not counted.
TimesOutForever(c) ==
    /\ c \in call
    /\ LET again == [c EXCEPT !.attempt = 3 - @]
       IN  call' = {again} /\ Serve(again)
    /\ UNCHANGED <<title, nTaps, list>>

\* 20 seconds without a byte: one more attempt, or an error.  The server is not
\* told.
TimesOut(c) ==
    /\ c \in call
    /\ IF c.attempt <= MaxRetries
       THEN LET again == [c EXCEPT !.attempt = @ + 1]
            IN  call' = {again} /\ Serve(again)
       ELSE call' = {} /\ UNCHANGED lookups
    /\ UNCHANGED <<title, nTaps, list>>

\* Not reachable: an error without a second attempt.
Unreachable(c) ==
    /\ c \in call
    /\ call' = {}
    /\ UNCHANGED <<title, nTaps, list, lookups>>

Answers(l, c) == c.tap = l.tap /\ c.attempt = l.attempt

\* Mutant of Deliver: the answer of a request that was cancelled is shown too.
DeliverCancelled(l) ==
    /\ l \in lookups
    /\ l.reply # "none"
    /\ lookups' = lookups \ {l}
    /\ call' = {c \in call : ~Answers(l, c)}
    /\ list' = IF l.reply = "200"
               THEN {[tap |-> l.tap, postcode |-> l.postcode, props |-> l.props]}
               ELSE list
    /\ UNCHANGED <<title, nTaps>>

\* The reply finds its attempt waiting, or a socket nobody reads.  A 500 is an
\* alert and not tried again.
Deliver(l) ==
    /\ l \in lookups
    /\ l.reply # "none"
    /\ lookups' = lookups \ {l}
    /\ call' = {c \in call : ~Answers(l, c)}
    /\ list' = IF l.reply = "200" /\ \E c \in call : Answers(l, c)
               THEN {[tap |-> l.tap, postcode |-> l.postcode, props |-> l.props]}
               ELSE list
    /\ UNCHANGED <<title, nTaps>>

-----------------------------------------------------------------------------
(* The server, from one await of the registry to the next.                 *)

Running(l) == l \in lookups /\ l.reply = "none"

Continue(l, m) ==
    /\ lookups' = (lookups \ {l}) \cup {m}
    /\ UNCHANGED <<title, nTaps, call, list>>

\* Mutant of PageArrives: the counter is not advanced.
PageArrivesForever(l) ==
    /\ Running(l)
    /\ l.options.page < Pages[l.options.postcode]
    /\ Continue(l, [l EXCEPT !.i = 1 - @, !.options.page = l.i])

\* Mutant of PageArrives: one round too many.
PageArrivesOnceMore(l) ==
    /\ Running(l)
    /\ l.options.page < Pages[l.options.postcode]
    /\ Continue(l, [l EXCEPT
         !.options.page = l.i,
         !.props = Append(@, <<l.options.postcode, l.options.page>>),
         !.i = @ + 1,
         !.reply = IF l.i = LoopLimit THEN "200" ELSE "none"])

\* A page with transactions; the page to ask for next is the counter before it is
\* advanced.
PageArrives(l) ==
    /\ Running(l)
    /\ l.options.page < Pages[l.options.postcode]
    /\ Continue(l, [l EXCEPT
         !.options.page = l.i,
         !.props = Append(@, <<l.options.postcode, l.options.page>>),
         !.i = @ + 1,
         !.reply = IF l.i + 1 = LoopLimit THEN "200" ELSE "none"])

EmptyPageArrives(l) ==
    /\ Running(l)
    /\ l.options.page >= Pages[l.options.postcode]
    /\ Continue(l, [l EXCEPT !.options.page = l.i, !.reply = "200"])

\* The request or the parsing of its body throws, before or after the assignment
\* of the page, which nothing reads any more.
PageFails(l) ==
    /\ Running(l)
    /\ Continue(l, [l EXCEPT !.reply = "500"])

-----------------------------------------------------------------------------
Client ==
    \/ \E p \in Postcodes : Tap(p)
    \/ \E c \in call : TimesOut(c)
    \/ \E c \in call : Unreachable(c)
    \/ \E l \in lookups : Deliver(l)

Server ==
    \/ \E l \in lookups : PageArrives(l)
    \/ \E l \in lookups : EmptyPageArrives(l)
    \/ \E l \in lookups : PageFails(l)

Next == Client \/ Server

Spec == Init /\ [][Next]_vars

\* An attempt that is not answered times out, the registry answers each request
\* of each lookup, and a reply arrives or is dropped.  Nothing is assumed of taps.
Fairness ==
    /\ WF_vars(\E c \in call : TimesOut(c))
    /\ \A n \in 1 .. MaxTaps, k \in 1 .. MaxRetries + 1 :
         /\ WF_vars(\E l \in lookups : /\ l.tap = n /\ l.attempt = k
                                       /\ PageArrives(l) \/ EmptyPageArrives(l))
         /\ WF_vars(\E l \in lookups : l.tap = n /\ l.attempt = k /\ Deliver(l))

FairSpec == Spec /\ Fairness

-----------------------------------------------------------------------------
(* Properties.                                                             *)

\* The pages of a postcode that the loop can reach.
HasEveryPage(props, p) ==
    /\ \A k \in 1 .. Len(props) : props[k][1] = p
    /\ \A n \in 0 .. Pages[p] - 1 :
         n < LoopLimit - 1 => \E k \in 1 .. Len(props) : props[k] = <<p, n>>

\* Lookups that overlap at their awaits keep apart, whoever still waits for them:
\* each answer has pages of its own postcode only, and every page the loop can
\* reach.  So has the list shown, and the newest list is that of the postcode on
\* the sheet, whichever attempt brought it (getAllFromPostcode, postcodeJsonParse).
ListComplete ==
    /\ \A l \in lookups : l.reply = "200" => HasEveryPage(l.props, l.postcode)
    /\ \A s \in list :
         /\ HasEveryPage(s.props, s.postcode)
         /\ s.tap = nTaps => s.postcode = title

\* Lookups nobody waits for go on, but a tap never has more than two (the retry
\* policy of postcodeJsonParse).
TwoLookupsPerTap ==
    \A n \in 1 .. nTaps : Cardinality({l \in lookups : l.tap = n}) <= 2

ShownAddresses == {[id |-> s.tap, feed |-> 1] : s \in list}

List == INSTANCE LatestWins WITH
    feed <- 1, newest <- nTaps, shown <- ShownAddresses

\* The list implements LatestWins, as MapsScreen assumes of the answers of one
\* connection: neither a second attempt nor a late lookup brings back an older tap.
ListLatestWins == List!Spec

\* A request is settled, by an answer, an error or a later tap: the attempts of
\* one request come to an end.
TapSettles ==
    \A n \in 1 .. MaxTaps :
        (\E c \in call : c.tap = n) ~> ~(\E c \in call : c.tap = n)

\* Every lookup ends, those nobody waits for too.
LookupsEnd ==
    \A n \in 1 .. MaxTaps :
        (\E l \in lookups : l.tap = n) ~> ~(\E l \in lookups : l.tap = n)

SameLookup(l, m) == l.tap = m.tap /\ l.attempt = m.attempt

\* No lookup starts over: one that runs goes on by a round or replies, and is gone
\* only after that; one that starts is for a new tap, or for the next attempt of
\* the request that is waited for.  A tap is the cause of LoopLimit rounds for each
\* of its attempts at most (getAllFromPostcode, postcodeJsonParse).
LookupsAdvance ==
    [][/\ \A l \in lookups :
            (\A m \in lookups' : ~SameLookup(l, m)) => l.reply # "none"
       /\ \A m \in lookups' :
            \/ \E l \in lookups :
                 /\ SameLookup(l, m)
                 /\ m = l \/ (l.reply = "none" /\ (m.i = l.i + 1 \/ m.reply # "none"))
            \/ /\ m.i = 0
               /\ \/ m.tap = nTaps + 1 /\ m.attempt = 1
                  \/ \E c \in call : c.tap = m.tap /\ m.attempt = c.attempt + 1]_vars

\* priceService.js:22: "An array of the properties for each transaction at a
\* postcode": no transaction is in an answer twice.
EachTransactionOnce ==
    \A l \in lookups : l.reply = "200" =>
        \A j, k \in 1 .. Len(l.props) : l.props[j] = l.props[k] => j = k

=============================================================================
