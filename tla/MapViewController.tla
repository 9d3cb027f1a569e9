------------------------- MODULE MapViewController -------------------------
(***************************************************************************)
(* The map screen of the iOS app, MapViewController.swift.  Two queues run *)
(* concurrently: the main queue, which takes taps and the blocks that      *)
(* DispatchQueue.main.async left on it, and the serial queue on which      *)
(* URLSession.shared calls back.  Requests are never cancelled; an answer  *)
(* is stored from the background and drawn two (or one) blocks later.      *)
(***************************************************************************)
EXTENDS Naturals, Sequences, SequencesExt

CONSTANTS
    Failing,        \* kinds whose requests may fail
    MaxRequests,    \* bound: requests of a behaviour
    MaxPatient,     \* ... of one whose user is patient
    MaxQueue        \* bound: blocks on the main queue when the user acts

Kinds == {"house", "crime"}

ASSUME ControllerAssumption ==
    /\ Failing \subseteq Kinds
    /\ MaxRequests \in Nat
    /\ MaxPatient \in Nat
    /\ MaxQueue \in Nat

VARIABLES
    isCrime,
    dataSegment,        \* toggleDataControl: 0 property, 1 crime
    viewSegment,        \* toggleViewControl: 0 markers, 1 heat map
    near,               \* currentRadius < 1
    data,               \* postCodes and crimes, by kind: the batch stored
    weights,            \* list and crimeList, by kind: ids of batches appended
    markers,            \* batches whose markers are on the map
    heat,               \* heatmapLayer: on the map or not, and its weightedData
    spinner,            \* activityIndicator
    isDataRequestSent,
    main,               \* the main queue
    requests,           \* data tasks that have not called back
    background,         \* the answer whose completion is still to be called
    sent,               \* requests sent so far
    crashed,            \* the forced cast has failed
    patient             \* the user waits for the first location's answer, and for
                        \* every answer after it; never changes

segmentVars == <<isCrime, dataSegment, near>>
dataVars == <<data, weights>>
screenVars == <<viewSegment, markers, heat, spinner>>
networkVars == <<requests, background, sent>>
vars == <<segmentVars, dataVars, screenVars, networkVars, isDataRequestSent, main,
          crashed, patient>>

\* "relay" tells whether the answer is drawn through one more main.async.
Request == [id : Nat, kind : Kinds, near : BOOLEAN, relay : BOOLEAN]
Block == [op : {"emptyArrays", "relay", "deploy", "addMarkers"},
          kind : Kinds, near : BOOLEAN, relay : BOOLEAN]

Bound == IF patient THEN MaxPatient ELSE MaxRequests
MostRequests == IF MaxPatient > MaxRequests THEN MaxPatient ELSE MaxRequests

TypeOK ==
    /\ isCrime \in BOOLEAN
    /\ dataSegment \in 0 .. 1
    /\ viewSegment \in 0 .. 1
    /\ near \in BOOLEAN
    /\ data \in [Kinds -> SUBSET Request]
    /\ \A k \in Kinds : \A b, c \in data[k] : b.kind = k /\ b = c
    /\ weights \in [Kinds -> Seq(Nat)]
    /\ markers \subseteq Request
    /\ heat \in [on : BOOLEAN, weightedData : Seq(Nat)]
    /\ spinner \in BOOLEAN
    /\ isDataRequestSent \in BOOLEAN
    /\ main \in Seq(Block)
    /\ requests \cup background \subseteq Request
    /\ \A r \in requests \cup background : r.id <= sent
    /\ sent \in Nat
    /\ crashed \in BOOLEAN
    /\ patient \in BOOLEAN

\* After viewDidLoad: the indicator turns until the first answer.
Init ==
    /\ isCrime = FALSE
    /\ dataSegment = 0
    /\ viewSegment = 0
    /\ near = TRUE
    /\ data = [k \in Kinds |-> {}]
    /\ weights = [k \in Kinds |-> <<>>]
    /\ markers = {}
    /\ heat = [on |-> FALSE, weightedData |-> <<>>]
    /\ spinner = TRUE
    /\ isDataRequestSent = FALSE
    /\ main = <<>>
    /\ requests = {}
    /\ background = {}
    /\ sent = 0
    /\ crashed = FALSE
    /\ patient \in BOOLEAN

-----------------------------------------------------------------------------
(* Helpers.                                                                *)

KindOf(crime) == IF crime THEN "crime" ELSE "house"

Async(queue, block) == Append(queue, block)

BlockOf(op, kind) == [op |-> op, kind |-> kind, near |-> FALSE, relay |-> FALSE]

\* Requests sent or to be sent by a block of the queue.
Promised == sent + Len(SelectSeq(main, LAMBDA b : b.op = "emptyArrays"))

Idle == main = <<>> /\ requests = {} /\ background = {}

MayRequest ==
    /\ ~crashed
    /\ Promised < Bound
    /\ Len(main) < MaxQueue
    /\ patient => isDataRequestSent /\ Idle

\* mapView.clear: all markup that was added, the heat map layer too.
ClearMap ==
    /\ markers' = {}
    /\ heat' = [heat EXCEPT !.on = FALSE]

PrepareViewForUpdate ==
    /\ spinner' = TRUE
    /\ viewSegment' = 0
    /\ ClearMap

\* emptyArrays with a completion that sends a request.
EmptyArrays(kind, isNear, relay) ==
    main' = Async(main, [op |-> "emptyArrays", kind |-> kind, near |-> isNear,
                         relay |-> relay])

\* getPropertyData and getCrimeData.
PerformNetworkTask(kind, isNear, relay) ==
    /\ sent' = sent + 1
    /\ requests' = requests \cup
         {[id |-> sent + 1, kind |-> kind, near |-> isNear, relay |-> relay]}

-----------------------------------------------------------------------------
(* Taps and locations, on the main queue.                                  *)

RefreshTapped(isNear) ==
    /\ MayRequest
    /\ near' = isNear
    /\ PrepareViewForUpdate
    /\ EmptyArrays(KindOf(isCrime), isNear, TRUE)
    /\ UNCHANGED <<isCrime, dataSegment, dataVars, networkVars, isDataRequestSent,
                   crashed, patient>>

\* The crime answer is drawn from the background completion itself, one block
\* earlier than the property answer.
ToggleDataTapped(isNear) ==
    /\ MayRequest
    /\ near' = isNear
    /\ dataSegment' = 1 - dataSegment
    /\ isCrime' = (dataSegment' = 1)
    /\ PrepareViewForUpdate
    /\ EmptyArrays(KindOf(isCrime'), isNear, ~isCrime')
    /\ UNCHANGED <<dataVars, networkVars, isDataRequestSent, crashed, patient>>

\* Markers, drawn by a block of their own, or a new heat map layer.
ToggleViewTapped ==
    /\ ~crashed
    /\ Len(main) < MaxQueue
    /\ viewSegment' = 1 - viewSegment
    /\ spinner' = FALSE
    /\ IF viewSegment' = 0
       THEN /\ heat' = [heat EXCEPT !.on = FALSE]
            /\ main' = Async(main, BlockOf("addMarkers", KindOf(isCrime)))
            /\ UNCHANGED markers
       ELSE /\ markers' = {}
            /\ heat' = [on |-> TRUE, weightedData |-> weights[KindOf(isCrime)]]
            /\ UNCHANGED main
    /\ UNCHANGED <<segmentVars, dataVars, networkVars, isDataRequestSent, crashed,
                   patient>>

\* placePicker(didPick): isCrime is left as it was.
PlacePicked ==
    /\ MayRequest
    /\ near' = TRUE
    /\ dataSegment' = 0
    /\ PrepareViewForUpdate
    /\ EmptyArrays("house", TRUE, TRUE)
    /\ UNCHANGED <<isCrime, dataVars, networkVars, isDataRequestSent, crashed, patient>>

\* didUpdateLocations: the first location sends the first request, at once.
DidUpdateLocations ==
    /\ ~crashed
    /\ ~isDataRequestSent
    /\ Promised < Bound
    /\ isDataRequestSent' = TRUE
    /\ PerformNetworkTask("house", TRUE, TRUE)
    /\ UNCHANGED <<segmentVars, dataVars, screenVars, main, background, crashed, patient>>

\* didTap: from a near map the segue casts the marker to PlaceMarker.  For a house
\* marker the list of its postcode opens and nothing here changes.
MarkerTapped(m) ==
    /\ ~crashed
    /\ m \in markers
    /\ near
    /\ crashed' = (m.kind # "house")
    /\ UNCHANGED <<segmentVars, dataVars, screenVars, networkVars,
                   isDataRequestSent, main, patient>>

-----------------------------------------------------------------------------
(* The blocks of the main queue, in order.                                 *)

RunBlock(op) ==
    /\ ~crashed
    /\ main # <<>>
    /\ Head(main).op = op

\* Mutant of RunEmptyArrays: the weights are kept.
RunEmptyArraysKeepsWeights ==
    /\ RunBlock("emptyArrays")
    /\ main' = Tail(main)
    /\ data' = [k \in Kinds |-> {}]
    /\ ClearMap
    /\ PerformNetworkTask(Head(main).kind, Head(main).near, Head(main).relay)
    /\ UNCHANGED <<segmentVars, weights, viewSegment, spinner, background,
                   isDataRequestSent, crashed, patient>>

\* The heat map view may have been chosen since the block was queued: its layer
\* goes with the markers.
RunEmptyArrays ==
    /\ RunBlock("emptyArrays")
    /\ main' = Tail(main)
    /\ data' = [k \in Kinds |-> {}]
    /\ weights' = [k \in Kinds |-> <<>>]
    /\ ClearMap
    /\ PerformNetworkTask(Head(main).kind, Head(main).near, Head(main).relay)
    /\ UNCHANGED <<segmentVars, viewSegment, spinner, background,
                   isDataRequestSent, crashed, patient>>

\* The closure of main.async calls deployMarkerAndHeatmap, which is itself a
\* main.async: the drawing goes to the end of the queue.
RunRelay ==
    /\ RunBlock("relay")
    /\ main' = Async(Tail(main), BlockOf("deploy", Head(main).kind))
    /\ UNCHANGED <<segmentVars, dataVars, screenVars, networkVars,
                   isDataRequestSent, crashed, patient>>

\* deployMarkerAndHeatmapForProperty and -ForCrime: what is stored NOW is drawn and
\* appended to the weights; only the property one hands them to the layer.
RunDeploy ==
    /\ RunBlock("deploy")
    /\ main' = Tail(main)
    /\ LET kind == Head(main).kind
       IN  /\ markers' = markers \cup data[kind]
           /\ weights' = [weights EXCEPT
                ![kind] = @ \o SetToSeq({b.id : b \in data[kind]})]
           /\ heat' = IF kind = "house"
                      THEN [heat EXCEPT !.weightedData = weights'[kind]]
                      ELSE heat
    /\ spinner' = FALSE
    /\ UNCHANGED <<segmentVars, data, viewSegment, networkVars, isDataRequestSent,
                   crashed, patient>>

\* The block of toggleViewTapped.
RunAddMarkers ==
    /\ RunBlock("addMarkers")
    /\ main' = Tail(main)
    /\ markers' = markers \cup data[Head(main).kind]
    /\ UNCHANGED <<segmentVars, dataVars, viewSegment, heat, spinner, networkVars,
                   isDataRequestSent, crashed, patient>>

-----------------------------------------------------------------------------
(* The callbacks of URLSession.shared, one at a time, off the main queue.  *)

\* Mutant of StoreResponse: stored by the kind chosen, not by the kind asked for.
StoreResponseByFlag(r) ==
    /\ ~crashed
    /\ background = {}
    /\ r \in requests
    /\ requests' = requests \ {r}
    /\ data' = [data EXCEPT ![KindOf(isCrime)] = {r}]
    /\ background' = {r}
    /\ UNCHANGED <<segmentVars, weights, screenVars, sent, isDataRequestSent, main,
                   crashed, patient>>

\* The answer is decoded and stored while the main queue goes on.
StoreResponse(r) ==
    /\ ~crashed
    /\ background = {}
    /\ r \in requests
    /\ requests' = requests \ {r}
    /\ data' = [data EXCEPT ![r.kind] = {r}]
    /\ background' = {r}
    /\ UNCHANGED <<segmentVars, weights, screenVars, sent, isDataRequestSent, main,
                   crashed, patient>>

\* Mutant of CallCompletion: an answer of the kind not chosen is dropped.
CallCompletionIfChosen(r) ==
    /\ ~crashed
    /\ r \in background
    /\ background' = {}
    /\ main' = IF r.kind # KindOf(isCrime) THEN main
               ELSE Async(main, BlockOf(IF r.relay THEN "relay" ELSE "deploy", r.kind))
    /\ UNCHANGED <<segmentVars, dataVars, screenVars, requests, sent,
                   isDataRequestSent, crashed, patient>>

\* ... and its completion queues the drawing.
CallCompletion(r) ==
    /\ ~crashed
    /\ r \in background
    /\ background' = {}
    /\ main' = Async(main, BlockOf(IF r.relay THEN "relay" ELSE "deploy", r.kind))
    /\ UNCHANGED <<segmentVars, dataVars, screenVars, requests, sent,
                   isDataRequestSent, crashed, patient>>

\* An error shows an alert; only for crimes does it stop the indicator.
RequestFails(r) ==
    /\ ~crashed
    /\ background = {}
    /\ r \in requests
    /\ r.kind \in Failing
    /\ requests' = requests \ {r}
    /\ spinner' = (spinner /\ r.kind = "house")
    /\ UNCHANGED <<segmentVars, dataVars, viewSegment, markers, heat, background,
                   sent, isDataRequestSent, main, crashed, patient>>

-----------------------------------------------------------------------------
User ==
    \/ \E isNear \in BOOLEAN : RefreshTapped(isNear)
    \/ \E isNear \in BOOLEAN : ToggleDataTapped(isNear)
    \/ ToggleViewTapped
    \/ PlacePicked
    \/ \E m \in markers : MarkerTapped(m)

MainQueue ==
    \/ RunEmptyArrays
    \/ RunRelay
    \/ RunDeploy
    \/ RunAddMarkers

Callbacks ==
    \/ \E r \in requests : StoreResponse(r)
    \/ \E r \in background : CallCompletion(r)
    \/ \E r \in requests : RequestFails(r)

Next == User \/ MainQueue \/ Callbacks \/ DidUpdateLocations

Spec == Init /\ [][Next]_vars

\* The main queue drains and every data task calls back (URLSession times out by
\* itself).  Nothing is assumed of the user or of the location.
Fairness ==
    /\ WF_vars(MainQueue)
    /\ WF_vars(Callbacks)

FairSpec == Spec /\ Fairness

-----------------------------------------------------------------------------
(* Properties.                                                             *)

\* With a user who waits, each request ends with its answer stored, weighed once
\* and nothing else kept.  No marker of an older answer is left, on either view,
\* although the blocks that add markers run late (toggleViewTapped).  The markers
\* view shows the answer, unless isCrime was left behind by a picked place, and the
\* newest layer has the weights of a property answer; a crime answer that comes with
\* the heat map view is not given to the layer, and nothing is said of it.  A
\* request that fails leaves nothing of the answer before.
LoneAnswerShown ==
    patient /\ Idle /\ sent > 0 =>
        \/ \E kind \in Kinds : \E b \in data[kind] :
            /\ b.id = sent
            /\ \A k \in Kinds : data[k] = IF k = kind THEN {b} ELSE {}
            /\ \A k \in Kinds : weights[k] = IF k = kind THEN <<b.id>> ELSE <<>>
            /\ markers \subseteq {b}
            /\ viewSegment = 0 /\ kind = KindOf(isCrime) => markers = {b}
            /\ viewSegment = 1 /\ kind = "house" /\ ~isCrime =>
                 heat.weightedData = <<b.id>>
        \/ /\ {KindOf(isCrime), "house"} \cap Failing # {}
           /\ \A k \in Kinds : data[k] = {} /\ weights[k] = <<>>
           /\ markers = {}

\* The indicator stops once a first request is sent, if no request fails: every
\* request that is answered reaches a deploy, however the queues interleave.
SpinnerStops == (isDataRequestSent /\ spinner) ~> (~spinner \/ crashed)

\* While it turns there is something to wait for: a request on the network, an answer
\* on its way to the main queue, or a block of one on that queue.  No order of taps,
\* blocks and answers leaves it turning over an idle screen.
SpinnerHasCause ==
    isDataRequestSent /\ spinner /\ "house" \notin Failing =>
        \/ requests # {}
        \/ background # {}
        \/ \E b \in Range(main) : b.op # "addMarkers"

\* An answer that is stored is drawn, unless it is cleared or overwritten first.
StoredIsDrawn ==
    \A n \in 1 .. MostRequests :
        (\E b \in background : b.id = n)
            ~> \/ \E m \in markers : m.id = n
               \/ \A k \in Kinds : \A b \in data[k] : b.id # n
               \/ crashed

\* No stored answer is forgotten: it has been weighed for the heat map, which
\* deployMarkerAndHeatmap does as it draws, or a completion, a relay or a deploy
\* that will do so is still to come.
StoredOnItsWay ==
    \A k \in Kinds : \A b \in data[k] :
        \/ b \in background
        \/ \E c \in Range(main) : c.op \in {"relay", "deploy"} /\ c.kind = k
        \/ b.id \in Range(weights[k])

\* MapViewController.swift:356 asserts that the marker that opens the list of
\* prices is a house marker: "let markerSender = sender as! PlaceMarker".
ForcedCastHolds == ~crashed

=============================================================================
