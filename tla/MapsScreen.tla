----------------------------- MODULE MapsScreen -----------------------------
(***************************************************************************)
(* The map screen of the Android app: MapsActivity, MapsPresenter, the two *)
(* connections (ServerConnection to the team's backend, PoliceDataConnec-  *)
(* tion to data.police.uk) and the bottom sheet.  Everything runs on the   *)
(* main thread, so one handler is one step; what interleaves is the user,  *)
(* the camera, the cluster renderer and the answers of the Volley queues.  *)
(*                                                                         *)
(* Every switch of the data source builds a new connection with a request  *)
(* queue of its own.  A connection is identified here by its generation.   *)
(* Volley cancels by tag WITHIN one queue, and a request cancelled on the  *)
(* main thread is never delivered: that is all the ordering there is.      *)
(*                                                                         *)
(* The state begins when onMapReady has returned.  A request of two        *)
(* attempts is one request that is answered or fails.                      *)
(***************************************************************************)
EXTENDS Naturals

CONSTANTS
    Cameras,        \* camera positions
    NearCameras,    \* those whose visible radius is below 1000 metres
    Titles,         \* postcodes, districts, ... : titles of house markers
    TitlesAt,       \* Cameras -> SUBSET Titles: what pcprices answers there
    Crimes,         \* titles of police markers: crime categories
    Answering,      \* sources whose requests may be answered
    Failing,        \* sources whose requests may fail
    NoCamera,       \* the null in mPreviousCameraPosition[0]
    NoTitle,        \* the empty string: no search, nothing in the sheet
    MaxMarkers,     \* bound: marker requests of a behaviour
    MaxAddresses    \* bound: address requests of a behaviour

Sources == {"house", "police"}

ASSUME CamerasAssumption ==
    /\ NearCameras \subseteq Cameras
    /\ NoCamera \notin Cameras
ASSUME TitlesAssumption ==
    /\ TitlesAt \in [Cameras -> SUBSET Titles]
    /\ NoTitle \notin Titles \cup Crimes
ASSUME SourcesAssumption == Answering \cup Failing = Sources
ASSUME BoundsAssumption == MaxMarkers \in Nat /\ MaxAddresses \in Nat

VARIABLES
    camera,             \* where the map's camera is
    prevCamera,         \* mPreviousCameraPosition[0]
    enableInfoWindow,
    crimeMapEnabled,
    heatMapEnabled,     \* of the activity and of the presenter: always set together
    handler,            \* ServerConnectionHandler: [gen, source]
    markerRequests,     \* marker requests that are neither delivered nor cancelled
    nMarker,            \* marker requests sent so far
    addressRequests,    \* address requests that are neither delivered nor cancelled
    nAddress,           \* address requests sent so far
    markerList,         \* the presenter's list: the batch saved, named by its request
    map,                \* what is on the map, and what the cluster renderer is at
    postcodeSearch,
    sheet               \* the bottom sheet: open, the title and the list it shows

requestVars == <<handler, markerRequests, nMarker>>
modeVars == <<crimeMapEnabled, heatMapEnabled>>
cameraVars == <<prevCamera, enableInfoWindow>>
sheetVars == <<addressRequests, nAddress, sheet>>
vars == <<camera, cameraVars, modeVars, requestVars, markerList, map,
          postcodeSearch, sheetVars>>

Connection == [gen : Nat, source : Sources]
MarkerRequest == [id : Nat, gen : Nat, source : Sources, camera : Cameras]
AddressRequest == [id : Nat, gen : Nat, title : Titles]

\* Batches on the map: items are given to the cluster manager, visible are drawn as
\* markers (some of them at least), overlays as the heat map.  The renderer works on
\* snapshots of the items: clustering says that a ClusterTask computes one, next is
\* the one taken and not yet drawn (a set of one snapshot, or empty); collection are
\* the markers it remembers as drawn, GoogleMap.clear or not.
MapState == [items : SUBSET MarkerRequest, visible : SUBSET MarkerRequest,
             overlays : SUBSET MarkerRequest, clustering : BOOLEAN,
             next : SUBSET (SUBSET MarkerRequest),
             collection : SUBSET MarkerRequest]
SheetState == [open : BOOLEAN, title : Titles \cup {NoTitle},
               list : SUBSET AddressRequest]

\* The markers of a batch, by title, and the batches that have any.  A house
\* marker is titled with its postcode, a police marker with its category.
ParseMarkerResponse(b) == TitlesAt[b.camera]
ParseApiResponse(b) == Crimes
TitlesOf(b) ==
    IF b.source = "police" THEN ParseApiResponse(b) ELSE ParseMarkerResponse(b)
NonEmpty(batches) == {b \in batches : TitlesOf(b) # {}}

TypeOK ==
    /\ camera \in Cameras
    /\ prevCamera \in Cameras \cup {NoCamera}
    /\ enableInfoWindow \in BOOLEAN
    /\ crimeMapEnabled \in BOOLEAN
    /\ heatMapEnabled \in BOOLEAN
    /\ handler \in Connection
    /\ markerRequests \subseteq MarkerRequest
    /\ nMarker \in Nat
    /\ addressRequests \subseteq AddressRequest
    /\ nAddress \in Nat
    /\ markerList \subseteq MarkerRequest
    /\ map \in MapState
    /\ postcodeSearch \in Titles \cup {NoTitle}
    /\ sheet \in SheetState

Init ==
    /\ camera \in Cameras
    /\ prevCamera = NoCamera
    /\ enableInfoWindow = TRUE
    /\ crimeMapEnabled = FALSE
    /\ heatMapEnabled = FALSE
    /\ handler = [gen |-> 1, source |-> "house"]
    /\ markerRequests = {}
    /\ nMarker = 0
    /\ addressRequests = {}
    /\ nAddress = 0
    /\ markerList = {}
    /\ map = [items |-> {}, visible |-> {}, overlays |-> {}, clustering |-> FALSE,
              next |-> {}, collection |-> {}]
    /\ postcodeSearch = NoTitle
    /\ sheet = [open |-> FALSE, title |-> NoTitle, list |-> {}]

-----------------------------------------------------------------------------
(* What the handlers do to the map.                                        *)

\* Mutant of ClearMap: cluster() is forgotten after clearItems().
ClearMapUnclustered(m) ==
    [m EXCEPT !.items = {}, !.visible = {}, !.overlays = {}]

\* GoogleMap.clear drops what is drawn, clearItems empties the algorithm, and
\* cluster() cancels the ClusterTask in flight for a new one.  What the renderer has
\* already taken, and the manager's marker collection, stay.
ClearMap(m) ==
    [m EXCEPT !.items = {}, !.visible = {}, !.overlays = {}, !.clustering = TRUE]

\* addItems and cluster(): drawing itself is left to the renderer.
AddMarkersClustered(m, batches) ==
    [m EXCEPT !.items = @ \cup NonEmpty(batches), !.clustering = TRUE]

EnableHeatMap(m, batches) == [m EXCEPT !.overlays = @ \cup NonEmpty(batches)]

\* Mutant of DisplayMarkers: with the heat map on it only clears.
DisplayMarkersOnlyMarkers(m, heat, batches) ==
    IF heat THEN ClearMap(m) ELSE AddMarkersClustered(ClearMap(m), batches)

\* MapsPresenter.displayMarkers()
DisplayMarkers(m, heat, batches) ==
    IF heat THEN EnableHeatMap(ClearMap(m), batches)
            ELSE AddMarkersClustered(ClearMap(m), batches)

(* What the handlers do to the connections.                                *)

\* Mutant of CancelAll: a tag that no request carries.
CancelNothing(requests, conn) == requests

\* mQueue.cancelAll(tag): only the requests of the connection's own queue.
CancelAll(requests, conn) == {r \in requests : r.gen # conn.gen}

\* Mutant of MarkerJsonParse: asks for the position recorded before.
MarkerJsonParseOfPrevious(conn, pending) ==
    /\ nMarker < MaxMarkers
    /\ nMarker' = nMarker + 1
    /\ markerRequests' = CancelAll(pending, conn)
          \cup {[id |-> nMarker + 1, gen |-> conn.gen,
                 source |-> conn.source, camera |-> prevCamera]}

\* markerJsonParse of either connection, "pending" being the requests that are
\* still in some queue when it is called.
MarkerJsonParse(conn, pending) ==
    /\ nMarker < MaxMarkers
    /\ nMarker' = nMarker + 1
    /\ markerRequests' = CancelAll(pending, conn)
          \cup {[id |-> nMarker + 1, gen |-> conn.gen,
                 source |-> conn.source, camera |-> camera]}

\* Mutant of PostcodeJsonParse: without cancelAll("address").
PostcodeJsonParseKeeps(conn, title) ==
    IF conn.source = "house"
    THEN /\ nAddress < MaxAddresses
         /\ nAddress' = nAddress + 1
         /\ addressRequests' = addressRequests
               \cup {[id |-> nAddress + 1, gen |-> conn.gen, title |-> title]}
    ELSE UNCHANGED <<nAddress, addressRequests>>

\* postcodeJsonParse: the police connection does nothing.
PostcodeJsonParse(conn, title) ==
    IF conn.source = "house"
    THEN /\ nAddress < MaxAddresses
         /\ nAddress' = nAddress + 1
         /\ addressRequests' = CancelAll(addressRequests, conn)
               \cup {[id |-> nAddress + 1, gen |-> conn.gen, title |-> title]}
    ELSE UNCHANGED <<nAddress, addressRequests>>

\* BottomSheetView.displayBottomSheet: the list keeps what it showed before.
DisplayBottomSheet(title) ==
    /\ PostcodeJsonParse(handler, title)
    /\ sheet' = [sheet EXCEPT !.open = TRUE, !.title = title]

\* A police marker is told by its snippet.
MarkerClicked(b, title) ==
    IF enableInfoWindow /\ b.source # "police"
    THEN DisplayBottomSheet(title)
    ELSE UNCHANGED sheetVars

\* The loop of addMarkersClustered looks for the searched postcode among the
\* markers of the collection, which are those of the LAST render and have just
\* been removed from the map; the SDK leaves open what a removed marker answers,
\* so a match may be missed.
SearchCollection ==
    \/ \E b \in map.collection :
         /\ postcodeSearch \in TitlesOf(b)
         /\ postcodeSearch' = NoTitle
         /\ MarkerClicked(b, postcodeSearch)
    \/ UNCHANGED <<postcodeSearch, sheetVars>>

\* The branch of updateCameraRegion in which the position has changed.
UpdateCameraRegion(conn, pending) ==
    /\ prevCamera' = camera
    /\ enableInfoWindow' = (camera \in NearCameras)
    /\ MarkerJsonParse(conn, pending)

\* Mutant of SwitchMapSrc: the previous camera is not invalidated, so that no
\* markers are asked for where the map has not moved.
SwitchMapSrcKeepsCamera(pending) ==
    LET conn == [gen |-> handler.gen + 1,
                 source |-> IF crimeMapEnabled THEN "house" ELSE "police"]
    IN  /\ crimeMapEnabled' = ~crimeMapEnabled
        /\ map' = ClearMap(map)
        /\ handler' = conn
        /\ IF prevCamera = camera
           THEN markerRequests' = pending /\ UNCHANGED <<cameraVars, nMarker>>
           ELSE UpdateCameraRegion(conn, pending)

\* onClickSwitchMapSrc, from the button or from an error.  The previous camera
\* is invalidated, so updateCameraRegion always asks for markers.
SwitchMapSrc(pending) ==
    LET conn == [gen |-> handler.gen + 1,
                 source |-> IF crimeMapEnabled THEN "house" ELSE "police"]
    IN  /\ crimeMapEnabled' = ~crimeMapEnabled
        /\ map' = ClearMap(map)
        /\ handler' = conn
        /\ UpdateCameraRegion(conn, pending)

-----------------------------------------------------------------------------
(* The user and the camera.                                                *)

\* The user pans or zooms, or an animation (place picked, my location) runs.
CameraMoves(c) ==
    /\ c # camera
    /\ camera' = c
    /\ UNCHANGED <<cameraVars, modeVars, requestVars, markerList, map,
                   postcodeSearch, sheetVars>>

\* onCameraIdle; where the position is the previous one it changes nothing.  The
\* cluster manager, told first, clusters again if the zoom has changed.
OnCameraIdle ==
    /\ prevCamera # camera
    /\ \E zoomed \in BOOLEAN : map' = [map EXCEPT !.clustering = @ \/ zoomed]
    /\ UpdateCameraRegion(handler, markerRequests)
    /\ UNCHANGED <<camera, modeVars, handler, markerList, postcodeSearch, sheetVars>>

OnClickSwitchMapSrc ==
    /\ SwitchMapSrc(markerRequests)
    /\ UNCHANGED <<camera, heatMapEnabled, markerList, postcodeSearch, sheetVars>>

\* The heat map switch: onCheckedChanged and MapsPresenter.switchHeatmap.  Turning it
\* off adds the saved markers, with the search loop that belongs to that.
OnCheckedChanged ==
    /\ heatMapEnabled' = ~heatMapEnabled
    /\ map' = DisplayMarkers(map, ~heatMapEnabled, markerList)
    /\ IF heatMapEnabled THEN SearchCollection
                         ELSE UNCHANGED <<postcodeSearch, sheetVars>>
    /\ UNCHANGED <<camera, cameraVars, crimeMapEnabled, requestVars, markerList>>

MarkerTapped(b, title) ==
    /\ b \in map.visible
    /\ title \in TitlesOf(b)
    /\ MarkerClicked(b, title)
    /\ UNCHANGED <<camera, cameraVars, modeVars, requestVars, markerList, map,
                   postcodeSearch>>

\* A tap beside the markers hides the sheet.
MapTapped ==
    /\ sheet' = [sheet EXCEPT !.open = FALSE]
    /\ UNCHANGED <<camera, cameraVars, modeVars, requestVars, markerList, map,
                   postcodeSearch, addressRequests, nAddress>>

\* onActivityResult; the animation to the place is a CameraMoves of its own.
PlacePicked(name) ==
    /\ postcodeSearch' = name
    /\ UNCHANGED <<camera, cameraVars, modeVars, requestVars, markerList, map,
                   sheetVars>>

-----------------------------------------------------------------------------
(* The answers and the renderer.                                           *)

\* Mutant of MarkerResponse: an answer is ignored while the heat map is on.
MarkerResponseUnlessHeat(r) ==
    /\ r \in markerRequests
    /\ r.source \in Answering
    /\ markerRequests' = markerRequests \ {r}
    /\ IF heatMapEnabled
       THEN UNCHANGED <<markerList, map, postcodeSearch, sheetVars>>
       ELSE /\ markerList' = {r}
            /\ map' = DisplayMarkers(map, FALSE, {r})
            /\ SearchCollection
    /\ UNCHANGED <<camera, cameraVars, modeVars, handler, nMarker>>

\* onResponse of a marker request: parsed, saved and displayed.
MarkerResponse(r) ==
    /\ r \in markerRequests
    /\ r.source \in Answering
    /\ markerRequests' = markerRequests \ {r}
    /\ markerList' = {r}
    /\ map' = DisplayMarkers(map, heatMapEnabled, {r})
    /\ IF heatMapEnabled THEN UNCHANGED <<postcodeSearch, sheetVars>>
                         ELSE SearchCollection
    /\ UNCHANGED <<camera, cameraVars, modeVars, handler, nMarker>>

\* A marker request is not reachable or its body does not parse: an alert, and
\* the presenter switches the source.
MarkerError(r) ==
    /\ r \in markerRequests
    /\ r.source \in Failing
    /\ SwitchMapSrc(markerRequests \ {r})
    /\ UNCHANGED <<camera, heatMapEnabled, markerList, postcodeSearch, sheetVars>>

\* Mutant of AddressResponse: an answer is ignored while the sheet is hidden.
AddressResponseIfOpen(a) ==
    /\ a \in addressRequests
    /\ "house" \in Answering
    /\ addressRequests' = addressRequests \ {a}
    /\ sheet' = [sheet EXCEPT !.list = IF sheet.open THEN {a} ELSE @]
    /\ UNCHANGED <<camera, cameraVars, modeVars, requestVars, markerList, map,
                   postcodeSearch, nAddress>>

AddressResponse(a) ==
    /\ a \in addressRequests
    /\ "house" \in Answering
    /\ addressRequests' = addressRequests \ {a}
    /\ sheet' = [sheet EXCEPT !.list = {a}]
    /\ UNCHANGED <<camera, cameraVars, modeVars, requestVars, markerList, map,
                   postcodeSearch, nAddress>>

\* An alert and nothing else.
AddressError(a) ==
    /\ a \in addressRequests
    /\ "house" \in Failing
    /\ addressRequests' = addressRequests \ {a}
    /\ UNCHANGED <<camera, cameraVars, modeVars, requestVars, markerList, map,
                   postcodeSearch, nAddress, sheet>>

(* The renderer: a ClusterTask in the background, then a RenderTask on a   *)
(* thread of its own, whose markers the main thread adds and removes.  A   *)
(* snapshot that waits for the one being drawn is taken as not yet done.   *)

\* The ClusterTask in flight is done: its snapshot will be drawn, in place of one
\* that has not been.
ClusterTaskEnds ==
    /\ map.clustering
    /\ map' = [map EXCEPT !.clustering = FALSE, !.next = {map.items}]
    /\ UNCHANGED <<camera, cameraVars, modeVars, requestVars, markerList,
                   postcodeSearch, sheetVars>>

\* The snapshot is drawn, whatever the handlers have cleared since, and the markers
\* of the one before are removed.  A marker remembered as drawn is not added again,
\* even if it has been cleared, unless the zoom has changed.
Render(snapshot) ==
    /\ \E visible \in {(map.visible \cap snapshot) \cup (snapshot \ map.collection),
                       snapshot} :
         map' = [map EXCEPT !.visible = visible, !.collection = snapshot, !.next = {}]
    /\ UNCHANGED <<camera, cameraVars, modeVars, requestVars, markerList,
                   postcodeSearch, sheetVars>>

-----------------------------------------------------------------------------
User ==
    \/ \E c \in Cameras : CameraMoves(c)
    \/ OnClickSwitchMapSrc
    \/ OnCheckedChanged
    \/ \E b \in map.visible : \E title \in TitlesOf(b) : MarkerTapped(b, title)
    \/ MapTapped
    \/ \E name \in Titles : PlacePicked(name)

Answers ==
    \/ \E r \in markerRequests : MarkerResponse(r)
    \/ \E r \in markerRequests : MarkerError(r)
    \/ \E a \in addressRequests : AddressResponse(a)
    \/ \E a \in addressRequests : AddressError(a)

Renderer ==
    \/ ClusterTaskEnds
    \/ \E snapshot \in map.next : Render(snapshot)

Next == User \/ Answers \/ OnCameraIdle \/ Renderer

Spec == Init /\ [][Next]_vars

-----------------------------------------------------------------------------
(* Fairness: Volley delivers or fails every request that is not cancelled  *)
(* (its timeout bounds each attempt), the map reports an idle camera and   *)
(* the tasks of the renderer go on.  Nothing is assumed of the user.       *)

Fairness ==
    /\ \A i \in 1 .. MaxMarkers :
         WF_vars(\E r \in markerRequests : r.id = i /\ MarkerResponse(r))
    /\ \A i \in 1 .. MaxAddresses :
         WF_vars(\E a \in addressRequests : a.id = i /\ AddressResponse(a))
    /\ WF_vars(OnCameraIdle)
    /\ WF_vars(Renderer)

FairSpec == Spec /\ Fairness

-----------------------------------------------------------------------------
(* Properties.                                                             *)

\* What the map is given, and what the renderer has left on it once it rests, is the
\* saved list, as markers or as a heat map and never as both.  While the renderer works
\* it may draw a snapshot taken before a clear or a switch of the mode (clearMap,
\* displayMarkers); the cluster() at the end of each clear takes such markers away.
MapSettlesOnMarkerList ==
    /\ map.items \cup map.overlays \subseteq markerList
    /\ heatMapEnabled => map.items = {}
    /\ ~heatMapEnabled => map.overlays = {}
    /\ ~map.clustering /\ map.next = {}
          => map.visible \subseteq map.items /\ map.collection = map.items

\* A connection has at most one marker request outstanding.  The one of the
\* connection in use is the newest of the app, asks the source the button shows,
\* for the camera position last recorded (markerJsonParse cancels by tag).
OneLiveRequest ==
    /\ \A r, s \in markerRequests : r.gen = s.gen => r = s
    /\ \A r \in markerRequests :
         r.gen = handler.gen <=> r.id = nMarker
    /\ \A r \in markerRequests : r.id = nMarker =>
         r.source = handler.source /\ r.camera = prevCamera
    /\ handler.source = (IF crimeMapEnabled THEN "police" ELSE "house")

\* The order behind it: nothing is newer than the newest request or connection,
\* and the batch saved, of which there is at most one, is older than any request
\* its connection still has outstanding.
MarkerOrder ==
    /\ \A r \in markerRequests \cup markerList :
         r.id <= nMarker /\ r.gen <= handler.gen
    /\ \A b \in markerList, r \in markerRequests : b.gen = r.gen => b.id < r.id
    /\ \A b, c \in markerList : b = c
    /\ prevCamera # NoCamera =>
         (enableInfoWindow <=> prevCamera \in NearCameras)

\* When the saved batch is that of the newest request, the whole screen agrees
\* with it: the source of the button, the recorded position, and whether a tap
\* opens the sheet (switchDataSource, updateCameraRegion).
NewestBatchFitsScreen ==
    \A b \in markerList : b.id = nMarker =>
        /\ b.gen = handler.gen
        /\ b.source = (IF crimeMapEnabled THEN "police" ELSE "house")
        /\ b.camera = prevCamera
        /\ enableInfoWindow <=> b.camera \in NearCameras

ShownMarkers == {[id |-> b.id, feed |-> b.gen] : b \in markerList}

Markers == INSTANCE LatestWins WITH
    feed <- handler.gen, newest <- nMarker, shown <- ShownMarkers

\* The markers implement LatestWins: of the connection in use only the answer to
\* the newest request is ever displayed, and no connection, in use or left behind,
\* has an answer replaced by an older one (cancelAll in markerJsonParse).
MarkersLatestWins == Markers!Spec

\* The bottom sheet: an address request of the connection in use is for the title
\* on the sheet, and when the list is the answer to the newest request of that
\* connection, the list is the title's (displayBottomSheet, postcodeJsonParse).
SheetListFitsTitle ==
    /\ \A a \in addressRequests : a.gen = handler.gen => a.title = sheet.title
    /\ \A a \in sheet.list :
         a.gen = handler.gen /\ a.id = nAddress => a.title = sheet.title

\* The order behind it: a connection has at most one address request outstanding,
\* which is newer than the list shown, and the newest of all if the connection is
\* in use; only house connections have any.
SheetOrder ==
    /\ \A a \in addressRequests \cup sheet.list :
         /\ a.id <= nAddress
         /\ a.gen <= handler.gen
         /\ a.gen = handler.gen => handler.source = "house"
    /\ \A a \in addressRequests : a.gen = handler.gen => a.id = nAddress
    /\ \A a, c \in addressRequests : a.gen = c.gen => a = c
    /\ \A l \in sheet.list, a \in addressRequests : l.gen = a.gen => l.id < a.id
    /\ \A l, k \in sheet.list : l = k

ShownAddresses == {[id |-> a.id, feed |-> a.gen] : a \in sheet.list}

Sheet == INSTANCE LatestWins WITH
    feed <- handler.gen, newest <- nAddress, shown <- ShownAddresses

\* The list of the sheet implements LatestWins too, although its requests live in
\* connections that the map screen replaces (getServerConnectionHandler).
SheetLatestWins == Sheet!Spec

\* What the presenter hands over for a batch: an overlay, or items to be clustered.
Displayed(m, heat, batch) ==
    IF heat THEN m.overlays = NonEmpty({batch})
            ELSE m.items = NonEmpty({batch}) /\ m.clustering

\* No request disappears on the way to the map, in whatever mode its answer comes:
\* it is saved and handed to the map for that mode, or it fails, or its own connection,
\* the one in use, has cancelled it for a newer one.  A switch of the source cancels
\* nothing of the connection it leaves (cancelAll by tag, getServerConnectionHandler).
AnswersNotLost ==
    [][/\ \A r \in markerRequests \ markerRequests' :
            \/ markerList' = {r} /\ Displayed(map', heatMapEnabled, r)
            \/ nMarker' = nMarker + 1 /\ r.gen = handler.gen
            \/ nMarker' = nMarker + 1 /\ MarkerError(r)
       /\ \A a \in addressRequests \ addressRequests' :
            \/ sheet'.list = {a}
            \/ nAddress' = nAddress + 1 /\ a.gen = handler.gen
            \/ AddressError(a)]_vars

\* A batch is on the screen: drawn, in one of the two modes, or without any marker.
OnScreen(b) == b \in map.visible \cup map.overlays \/ TitlesOf(b) = {}

\* Once no connection left behind has an answer to come, the answer to the newest
\* request comes onto the screen, as markers or as the heat map, unless a newer request
\* is sent, whatever the user does meanwhile: no path from a response to the drawing of
\* its markers is lost (onResponse, displayMarkers, the renderer's tasks).
LastAnswerShown ==
    \A i \in 1 .. MaxMarkers :
        (nMarker = i /\ {r.id : r \in markerRequests} = {i})
            ~> (nMarker > i \/ \E b \in markerList : b.id = i /\ OnScreen(b))

\* The same for the list of the sheet; a switch of the source does not stop it:
\* the queue of the connection left behind still delivers.
LastAddressesShown ==
    \A i \in 1 .. MaxAddresses :
        (nAddress = i /\ {a.id : a \in addressRequests} = {i})
            ~> (nAddress > i \/ {a.id : a \in sheet.list} = {i})

\* The screen as MapsLifecycle sees it: one activity, in front and ready, whose
\* connections have a request each or none, and whose markers are known by the
\* connection that brought them.
Connections(batches) == {[act |-> 1, gen |-> b.gen - 1] : b \in batches}

Activity ==
    [id |-> 1, orientation |-> "portrait", ready |-> TRUE,
     switch |-> heatMapEnabled, heat |-> heatMapEnabled,
     button |-> crimeMapEnabled, crime |-> crimeMapEnabled,
     police |-> handler.source = "police", gen |-> handler.gen - 1,
     myLocation |-> TRUE, markers |-> Connections(markerList)]

Life == INSTANCE MapsLifecycle WITH
    MaxActivities <- 1, MaxSwitches <- MaxMarkers,
    orientation <- "portrait", main <- "portrait",
    maps <- {Activity}, nMaps <- 1, picker <- FALSE, killed <- FALSE,
    permission <- TRUE, dialog <- FALSE,
    requests <- Connections(markerRequests), crashed <- "no"

\* Whatever the screen does, MapsLifecycle has as a step: a connection it takes to be
\* answered has no second request still to be answered, and a switch, an error and a
\* heat map change on the ready map what it says they change.
StepsOfLifecycle == [][Life!Next]_(Life!vars)

(* What comments of the code say and the code does not do.                 *)

\* ServerConnection.java:51 and PoliceDataConnection.java:53, at each request:
\* "cancel all other requests to the backend as they are now outdated".
OutdatedNeverShown ==
    [][\A r \in markerList' : r \notin markerList => r.id = nMarker]_vars

\* MapsActivity.java:207, where a tap opens the sheet: "only display info window
\* for markers where that information is available" (unit postcodes).
SheetOnlyForUnitPostcodes ==
    [][sheet'.title # sheet.title =>
         \E c \in NearCameras : sheet'.title \in TitlesAt[c]]_vars

\* MapsPresenter.java:55, at an error: "Switching to available data source."
\* The source switched to is not the one that has just failed.
SwitchesToAvailable ==
    [][\A r \in markerRequests : MarkerError(r) => handler'.source # r.source]_vars

=============================================================================
