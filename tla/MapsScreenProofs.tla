-------------------------- MODULE MapsScreenProofs --------------------------
(***************************************************************************)
(* Theorems about MapsScreen for every set of cameras and titles, every    *)
(* answer of the backend and every bound.                                  *)
(***************************************************************************)
EXTENDS MapsScreen, Integers, TLAPS

-----------------------------------------------------------------------------
(* Typing.  The helpers that several handlers call come first.             *)

\* Sending a marker request keeps the set of requests well typed.
LEMMA MarkerJsonParseType ==
    ASSUME TypeOK, NEW conn \in Connection,
           NEW pending \in SUBSET MarkerRequest,
           MarkerJsonParse(conn, pending)
    PROVE  /\ nMarker' \in Nat
           /\ markerRequests' \subseteq MarkerRequest
  BY DEF TypeOK, MarkerJsonParse, CancelAll, MarkerRequest, Connection

\* Clearing the map keeps its type.
LEMMA ClearMapType == TypeOK => ClearMap(map) \in MapState
  BY DEF TypeOK, ClearMap, MapState

\* A switch of the source keeps the types of all it changes.
LEMMA SwitchMapSrcType ==
    ASSUME TypeOK, NEW pending \in SUBSET MarkerRequest, SwitchMapSrc(pending)
    PROVE  /\ prevCamera' \in Cameras
           /\ enableInfoWindow' \in BOOLEAN
           /\ crimeMapEnabled' \in BOOLEAN
           /\ handler' \in Connection
           /\ nMarker' \in Nat
           /\ markerRequests' \subseteq MarkerRequest
           /\ map' \in MapState
  <1> DEFINE conn == [gen |-> handler.gen + 1,
                      source |-> IF crimeMapEnabled THEN "house" ELSE "police"]
  <1>1. conn \in Connection
    BY DEF TypeOK, Connection, Sources
  <1>2. /\ crimeMapEnabled' = ~crimeMapEnabled
        /\ map' = ClearMap(map)
        /\ handler' = conn
        /\ UpdateCameraRegion(conn, pending)
    BY DEF SwitchMapSrc
  <1>3. MarkerJsonParse(conn, pending)
    BY <1>2 DEF UpdateCameraRegion
  <1>4. nMarker' \in Nat /\ markerRequests' \subseteq MarkerRequest
    BY <1>1, <1>3, MarkerJsonParseType
  <1>5. map' \in MapState
    BY <1>2, ClearMapType
  <1>6. prevCamera' \in Cameras /\ enableInfoWindow' \in BOOLEAN
    BY <1>2 DEF UpdateCameraRegion, TypeOK
  <1> QED
    BY <1>1, <1>2, <1>4, <1>5, <1>6

\* A tap, or a search that finds its marker, keeps the types of the sheet.
LEMMA MarkerClickedType ==
    ASSUME TypeOK, NEW b \in MarkerRequest, NEW title \in TitlesOf(b),
           MarkerClicked(b, title)
    PROVE  /\ nAddress' \in Nat
           /\ addressRequests' \subseteq AddressRequest
           /\ sheet' \in SheetState
  <1>1. CASE enableInfoWindow /\ b.source # "police"
    <2>1. title \in Titles
      BY <1>1, TitlesAssumption DEF TitlesOf, ParseMarkerResponse, MarkerRequest
    <2>2. DisplayBottomSheet(title)
      BY <1>1 DEF MarkerClicked
    <2>3. sheet' \in SheetState
      BY <2>1, <2>2 DEF DisplayBottomSheet, TypeOK, SheetState
    <2>4. PostcodeJsonParse(handler, title)
      BY <2>2 DEF DisplayBottomSheet
    <2>5. CASE handler.source = "house"
      <3>1. [id |-> nAddress + 1, gen |-> handler.gen, title |-> title]
               \in AddressRequest
        BY <2>1 DEF TypeOK, AddressRequest, Connection
      <3>2. CancelAll(addressRequests, handler) \subseteq AddressRequest
        BY DEF TypeOK, CancelAll
      <3> QED
        BY <2>3, <2>4, <2>5, <3>1, <3>2 DEF PostcodeJsonParse, TypeOK
    <2>6. CASE handler.source # "house"
      BY <2>3, <2>4, <2>6 DEF PostcodeJsonParse, TypeOK
    <2> QED
      BY <2>5, <2>6
  <1>2. CASE ~(enableInfoWindow /\ b.source # "police")
    BY <1>2 DEF MarkerClicked, sheetVars, TypeOK
  <1> QED
    BY <1>1, <1>2

\* So does the search through the marker collection.
LEMMA SearchCollectionType ==
    ASSUME TypeOK, SearchCollection
    PROVE  /\ postcodeSearch' \in Titles \cup {NoTitle}
           /\ nAddress' \in Nat
           /\ addressRequests' \subseteq AddressRequest
           /\ sheet' \in SheetState
  <1>1. CASE UNCHANGED <<postcodeSearch, sheetVars>>
    BY <1>1 DEF TypeOK, sheetVars
  <1>2. ASSUME NEW b \in map.collection, postcodeSearch \in TitlesOf(b),
               postcodeSearch' = NoTitle, MarkerClicked(b, postcodeSearch)
        PROVE  /\ postcodeSearch' \in Titles \cup {NoTitle}
               /\ nAddress' \in Nat
               /\ addressRequests' \subseteq AddressRequest
               /\ sheet' \in SheetState
    <2>1. b \in MarkerRequest
      BY DEF TypeOK, MapState
    <2> QED
      BY <1>2, <2>1, MarkerClickedType
  <1> QED
    BY <1>1, <1>2 DEF SearchCollection

\* Clearing and drawing keep the type of the map.
LEMMA DisplayMarkersType ==
    ASSUME TypeOK, NEW heat \in BOOLEAN, NEW batches \in SUBSET MarkerRequest
    PROVE  DisplayMarkers(map, heat, batches)
              \in MapState
  <1>1. ClearMap(map) \in MapState
    BY ClearMapType
  <1>2. NonEmpty(batches) \in SUBSET MarkerRequest
    BY DEF NonEmpty
  <1>3. \A m \in MapState : /\ AddMarkersClustered(m, batches) \in MapState
                           /\ EnableHeatMap(m, batches) \in MapState
    BY <1>2 DEF AddMarkersClustered, EnableHeatMap, MapState
  <1> QED
    BY <1>1, <1>3 DEF DisplayMarkers

\* Every variable keeps its type: among others a request is always for a camera
\* position that has been recorded, never for the invalidated one, and the sheet
\* never shows the title of a police marker.
THEOREM TypeCorrect == Spec => []TypeOK
<1>1. Init => TypeOK
  <2> SUFFICES ASSUME Init PROVE TypeOK
    OBVIOUS
  <2>1. map \in MapState
    BY DEF Init, MapState
  <2>2. sheet \in SheetState
    BY DEF Init, SheetState
  <2>3. handler \in Connection
    BY DEF Init, Connection, Sources
  <2> QED
    BY <2>1, <2>2, <2>3 DEF Init, TypeOK
<1>2. TypeOK /\ [Next]_vars => TypeOK'
  <2> SUFFICES ASSUME TypeOK, [Next]_vars PROVE TypeOK'
    OBVIOUS
  <2>1. ASSUME NEW c \in Cameras, CameraMoves(c) PROVE TypeOK'
    BY <2>1 DEF CameraMoves, TypeOK, cameraVars, modeVars, requestVars, sheetVars
  <2>2. CASE OnClickSwitchMapSrc
    BY <2>2, SwitchMapSrcType DEF OnClickSwitchMapSrc, TypeOK, sheetVars
  <2>3. CASE OnCheckedChanged
    <3>1. /\ postcodeSearch' \in Titles \cup {NoTitle}
          /\ nAddress' \in Nat
          /\ addressRequests' \subseteq AddressRequest
          /\ sheet' \in SheetState
      BY <2>3, SearchCollectionType DEF OnCheckedChanged, TypeOK, sheetVars
    <3> QED
      BY <2>3, <3>1, DisplayMarkersType
         DEF OnCheckedChanged, TypeOK, cameraVars, requestVars
  <2>4. ASSUME NEW b \in map.visible, NEW title \in TitlesOf(b),
               MarkerTapped(b, title)
        PROVE  TypeOK'
    <3>1. b \in MarkerRequest
      BY DEF TypeOK, MapState
    <3>2. MarkerClicked(b, title)
      BY <2>4 DEF MarkerTapped
    <3> QED
      BY <2>4, <3>1, <3>2, MarkerClickedType
         DEF MarkerTapped, TypeOK, cameraVars, modeVars, requestVars
  <2>5. CASE MapTapped
    BY <2>5 DEF MapTapped, TypeOK, SheetState, cameraVars, modeVars, requestVars
  <2>6. ASSUME NEW name \in Titles, PlacePicked(name) PROVE TypeOK'
    BY <2>6 DEF PlacePicked, TypeOK, cameraVars, modeVars, requestVars, sheetVars
  <2>7. ASSUME NEW r \in markerRequests, MarkerResponse(r) PROVE TypeOK'
    <3>1. {r} \in SUBSET MarkerRequest
      BY DEF TypeOK
    <3>2. map' \in MapState
      BY <2>7, <3>1, DisplayMarkersType DEF MarkerResponse, TypeOK
    <3>3. /\ postcodeSearch' \in Titles \cup {NoTitle}
          /\ nAddress' \in Nat
          /\ addressRequests' \subseteq AddressRequest
          /\ sheet' \in SheetState
      BY <2>7, SearchCollectionType DEF MarkerResponse, TypeOK, sheetVars
    <3> QED
      BY <2>7, <3>1, <3>2, <3>3 DEF MarkerResponse, TypeOK, cameraVars, modeVars
  <2>8. ASSUME NEW r \in markerRequests, MarkerError(r) PROVE TypeOK'
    <3>1. markerRequests \ {r} \in SUBSET MarkerRequest
      BY DEF TypeOK
    <3> QED
      BY <2>8, <3>1, SwitchMapSrcType DEF MarkerError, TypeOK, sheetVars
  <2>9. ASSUME NEW a \in addressRequests, AddressResponse(a) PROVE TypeOK'
    BY <2>9 DEF AddressResponse, TypeOK, SheetState, cameraVars, modeVars,
                             requestVars
  <2>10. ASSUME NEW a \in addressRequests, AddressError(a) PROVE TypeOK'
    BY <2>10 DEF AddressError, TypeOK, cameraVars, modeVars, requestVars
  <2>11. CASE OnCameraIdle
    <3>1. MarkerJsonParse(handler, markerRequests)
      BY <2>11 DEF OnCameraIdle, UpdateCameraRegion
    <3>2. nMarker' \in Nat /\ markerRequests' \subseteq MarkerRequest
      BY <3>1, MarkerJsonParseType DEF TypeOK
    <3>3. map' \in MapState
      BY <2>11 DEF OnCameraIdle, TypeOK, MapState
    <3> QED
      BY <2>11, <3>2, <3>3
         DEF OnCameraIdle, UpdateCameraRegion, TypeOK, modeVars, sheetVars
  <2>12. CASE Renderer
    <3>1. map' \in MapState
      <4>1. CASE ClusterTaskEnds
        BY <4>1 DEF ClusterTaskEnds, TypeOK, MapState
      <4>2. ASSUME NEW snapshot \in map.next, Render(snapshot)
            PROVE  map' \in MapState
        <5>1. PICK visible \in SUBSET snapshot :
                 map' = [map EXCEPT !.visible = visible, !.collection = snapshot,
                                    !.next = {}]
          BY <4>2 DEF Render
        <5>2. snapshot \in SUBSET MarkerRequest /\ visible \in SUBSET MarkerRequest
          BY DEF TypeOK, MapState
        <5> QED
          BY <5>1, <5>2 DEF TypeOK, MapState
      <4> QED
        BY <2>12, <4>1, <4>2 DEF Renderer
    <3> QED
      BY <2>12, <3>1 DEF Renderer, ClusterTaskEnds, Render, TypeOK, cameraVars,
                         modeVars, requestVars, sheetVars
  <2>13. CASE UNCHANGED vars
    BY <2>13 DEF vars, TypeOK, cameraVars, modeVars, requestVars, sheetVars
  <2> QED
    BY <2>1, <2>2, <2>3, <2>4, <2>5, <2>6, <2>7, <2>8, <2>9, <2>10, <2>11, <2>12,
       <2>13 DEF Next, User, Answers
<1> QED
  BY <1>1, <1>2, PTL DEF Spec

-----------------------------------------------------------------------------
(* What is on the map.                                                     *)

\* After a clear and a draw the map has been given the batches drawn that have any
\* marker, in the mode asked for, and nothing else, and it will be clustered.
LEMMA DisplayMarkersShows ==
    ASSUME NEW m \in MapState, NEW heat \in BOOLEAN,
           NEW batches \in SUBSET MarkerRequest
    PROVE  LET d == DisplayMarkers(m, heat, batches)
           IN  /\ d.clustering
               /\ d.items = IF heat THEN {} ELSE NonEmpty(batches)
               /\ d.overlays = IF heat THEN NonEmpty(batches) ELSE {}
  <1> DEFINE c == ClearMap(m)
  <1>1. c \in MapState /\ c.items = {} /\ c.overlays = {} /\ c.clustering = TRUE
    BY DEF ClearMap, MapState
  <1> HIDE DEF c
  <1>2. CASE heat
    <2>1. DisplayMarkers(m, heat, batches) = EnableHeatMap(c, batches)
      BY <1>2 DEF DisplayMarkers, c
    <2> QED
      BY <1>1, <1>2, <2>1 DEF EnableHeatMap, MapState
  <1>3. CASE ~heat
    <2>1. DisplayMarkers(m, heat, batches) = AddMarkersClustered(c, batches)
      BY <1>3 DEF DisplayMarkers, c
    <2> QED
      BY <1>1, <1>3, <2>1 DEF AddMarkersClustered, MapState
  <1> QED
    BY <1>2, <1>3

\* A snapshot that is to be drawn is of what the map has been given, unless a
\* ClusterTask in flight will replace it: at rest, that is what is drawn.
RendererFollows == ~map.clustering => map.next \subseteq {map.items}

MapInv == MapSettlesOnMarkerList /\ RendererFollows

\* The map is only ever given the saved batch, as markers or as a heat map and never
\* as both, and the renderer leaves nothing else on it, whatever answers, switches and
\* snapshots drawn late come between.  RendererFollows makes it inductive.
THEOREM MapSettlesInvariant == Spec => []MapSettlesOnMarkerList
<1>1. Init => MapInv
  BY DEF Init, MapInv, MapSettlesOnMarkerList, RendererFollows
<1>2. TypeOK /\ MapInv /\ [Next]_vars => MapInv'
  <2> SUFFICES ASSUME TypeOK, MapInv, [Next]_vars PROVE MapInv'
    OBVIOUS
  <2> USE DEF MapInv, MapSettlesOnMarkerList, RendererFollows
  <2>1. ASSUME UNCHANGED <<map, markerList, heatMapEnabled>>
        PROVE  MapInv'
    BY <2>1
  <2>2. ASSUME map' = ClearMap(map), markerList' = markerList,
               heatMapEnabled' = heatMapEnabled
        PROVE  MapInv'
    BY <2>2 DEF ClearMap, TypeOK, MapState
  <2>3. ASSUME map' = DisplayMarkers(map, heatMapEnabled', markerList'),
               markerList' \subseteq MarkerRequest, heatMapEnabled' \in BOOLEAN
        PROVE  MapInv'
    <3>1. map \in MapState
      BY DEF TypeOK
    <3>2. NonEmpty(markerList') \subseteq markerList'
      BY DEF NonEmpty
    <3>3. /\ map'.clustering
          /\ map'.items = IF heatMapEnabled' THEN {} ELSE NonEmpty(markerList')
          /\ map'.overlays = IF heatMapEnabled' THEN NonEmpty(markerList') ELSE {}
      BY <2>3, <3>1, DisplayMarkersShows
    <3> QED
      BY <2>3, <3>2, <3>3
  <2>4. CASE OnClickSwitchMapSrc
    BY <2>2, <2>4 DEF OnClickSwitchMapSrc, SwitchMapSrc
  <2>5. CASE OnCheckedChanged
    BY <2>3, <2>5 DEF OnCheckedChanged, TypeOK
  <2>6. ASSUME NEW r \in markerRequests, MarkerResponse(r)
        PROVE  MapInv'
    BY <2>3, <2>6 DEF MarkerResponse, TypeOK, modeVars
  <2>7. ASSUME NEW r \in markerRequests, MarkerError(r)
        PROVE  MapInv'
    BY <2>2, <2>7 DEF MarkerError, SwitchMapSrc
  <2>8. CASE ClusterTaskEnds
    BY <2>8 DEF ClusterTaskEnds, TypeOK, MapState, modeVars
  <2>9. ASSUME NEW snapshot \in map.next, Render(snapshot)
        PROVE  MapInv'
    <3>1. PICK visible : /\ visible \subseteq snapshot
                         /\ map' = [map EXCEPT !.visible = visible,
                                       !.collection = snapshot, !.next = {}]
      BY <2>9 DEF Render
    <3>2. /\ map'.visible = visible /\ map'.collection = snapshot /\ map'.next = {}
          /\ map'.items = map.items /\ map'.overlays = map.overlays
          /\ map'.clustering = map.clustering
      BY <3>1 DEF TypeOK, MapState
    <3>3. UNCHANGED <<markerList, heatMapEnabled>>
      BY <2>9 DEF Render, modeVars
    <3> QED
      BY <3>1, <3>2, <3>3
  <2>10. CASE OnCameraIdle
    <3>1. PICK zoomed \in BOOLEAN : map' = [map EXCEPT !.clustering = @ \/ zoomed]
      BY <2>10 DEF OnCameraIdle
    <3>2. /\ map'.visible = map.visible /\ map'.collection = map.collection
          /\ map'.next = map.next /\ map'.items = map.items
          /\ map'.overlays = map.overlays
          /\ map.clustering => map'.clustering
      BY <3>1 DEF TypeOK, MapState
    <3>3. UNCHANGED <<markerList, heatMapEnabled>>
      BY <2>10 DEF OnCameraIdle, modeVars
    <3> QED
      BY <3>2, <3>3
  <2>11. CASE \/ \E c \in Cameras : CameraMoves(c)
              \/ \E b \in map.visible : \E title \in TitlesOf(b) :
                    MarkerTapped(b, title)
              \/ MapTapped
              \/ \E name \in Titles : PlacePicked(name)
              \/ \E a \in addressRequests : AddressResponse(a)
              \/ \E a \in addressRequests : AddressError(a)
              \/ UNCHANGED vars
    BY <2>1, <2>11 DEF CameraMoves, MarkerTapped, MapTapped, PlacePicked,
       AddressResponse, AddressError, vars, modeVars
  <2> QED
    BY <2>4, <2>5, <2>6, <2>7, <2>8, <2>9, <2>10, <2>11
       DEF Next, User, Answers, Renderer
<1> QED
  BY <1>1, <1>2, TypeCorrect, PTL DEF Spec, MapInv

-----------------------------------------------------------------------------
(* The order of marker requests and answers.                               *)

MarkerInv == OneLiveRequest /\ MarkerOrder /\ NewestBatchFitsScreen

\* What a connection has after it has asked for markers at the camera position.
LEMMA UpdateCameraRegionSends ==
    ASSUME TypeOK, NEW conn \in Connection, NEW pending \in SUBSET markerRequests,
           UpdateCameraRegion(conn, pending)
    PROVE  \E new \in MarkerRequest :
              /\ new.id = nMarker + 1 /\ new.gen = conn.gen
              /\ new.source = conn.source /\ new.camera = camera
              /\ nMarker' = nMarker + 1
              /\ prevCamera' = camera
              /\ prevCamera' # NoCamera
              /\ enableInfoWindow' <=> camera \in NearCameras
              /\ new \in markerRequests'
              /\ \A r \in markerRequests' :
                    r = new \/ (r \in markerRequests /\ r.gen # conn.gen)
  <1> DEFINE new == [id |-> nMarker + 1, gen |-> conn.gen,
                     source |-> conn.source, camera |-> camera]
  <1>1. new \in MarkerRequest
    BY DEF TypeOK, MarkerRequest, Connection
  <1>2. MarkerJsonParse(conn, pending)
    BY DEF UpdateCameraRegion
  <1>3. nMarker' = nMarker + 1
    BY <1>2 DEF MarkerJsonParse
  <1>4. markerRequests' = CancelAll(pending, conn) \cup {new}
    BY <1>2 DEF MarkerJsonParse
  <1>5. prevCamera' = camera /\ enableInfoWindow' = (camera \in NearCameras)
    BY DEF UpdateCameraRegion
  <1>6. camera # NoCamera
    BY CamerasAssumption DEF TypeOK
  <1> WITNESS new \in MarkerRequest
  <1> QED
    BY <1>3, <1>4, <1>5, <1>6 DEF CancelAll

\* Asking for markers on the connection in use, or on a newer one that becomes
\* the one in use, keeps the order.
LEMMA SendKeepsMarkerInv ==
    ASSUME TypeOK, MarkerInv,
           NEW conn \in Connection, NEW pending \in SUBSET markerRequests,
           conn.gen \in {handler.gen, handler.gen + 1},
           UpdateCameraRegion(conn, pending),
           handler' = conn, markerList' = markerList,
           conn.source = (IF crimeMapEnabled' THEN "police" ELSE "house")
    PROVE  MarkerInv'
  <1>1. PICK new \in MarkerRequest :
              /\ new.id = nMarker + 1 /\ new.gen = conn.gen
              /\ new.source = conn.source /\ new.camera = camera
              /\ nMarker' = nMarker + 1
              /\ prevCamera' = camera
              /\ prevCamera' # NoCamera
              /\ enableInfoWindow' <=> camera \in NearCameras
              /\ new \in markerRequests'
              /\ \A r \in markerRequests' :
                    r = new \/ (r \in markerRequests /\ r.gen # conn.gen)
    BY UpdateCameraRegionSends
  <1>2. /\ nMarker \in Nat /\ handler.gen \in Nat
        /\ \A r \in markerRequests \cup markerList : r.id \in Nat /\ r.gen \in Nat
    BY DEF TypeOK, MarkerRequest, Connection
  <1>3. \A r \in markerRequests \cup markerList :
           r.id <= nMarker /\ r.gen <= handler.gen
    BY DEF MarkerInv, MarkerOrder
  <1>4. OneLiveRequest'
    BY <1>1, <1>2, <1>3 DEF MarkerInv, OneLiveRequest
  <1>5. MarkerOrder'
    BY <1>1, <1>2, <1>3 DEF MarkerInv, MarkerOrder
  <1>6. NewestBatchFitsScreen'
    BY <1>1, <1>2, <1>3 DEF NewestBatchFitsScreen
  <1> QED
    BY <1>4, <1>5, <1>6 DEF MarkerInv

\* A switch of the source opens a newer connection, which keeps the order.
LEMMA SwitchMapSrcKeepsMarkerInv ==
    ASSUME TypeOK, MarkerInv, NEW pending \in SUBSET markerRequests,
           SwitchMapSrc(pending), markerList' = markerList
    PROVE  MarkerInv'
  <1> DEFINE conn == [gen |-> handler.gen + 1,
                      source |-> IF crimeMapEnabled THEN "house" ELSE "police"]
  <1>1. conn \in Connection /\ conn.gen = handler.gen + 1
    BY DEF TypeOK, Connection, Sources
  <1>2. /\ crimeMapEnabled' = ~crimeMapEnabled
        /\ handler' = conn
        /\ UpdateCameraRegion(conn, pending)
    BY DEF SwitchMapSrc
  <1>3. conn.source = (IF crimeMapEnabled' THEN "police" ELSE "house")
    BY <1>2 DEF TypeOK
  <1> HIDE DEF conn
  <1> QED
    BY <1>1, <1>2, <1>3, SendKeepsMarkerInv

\* One live request per connection, the newest one that of the connection in use,
\* and a saved batch that is the newest agrees with the screen.  MarkerOrder makes
\* it inductive: without it an answer could carry a number still to be given out.
THEOREM MarkerOrderInvariant ==
    Spec => [](OneLiveRequest /\ MarkerOrder /\ NewestBatchFitsScreen)
<1>1. Init => MarkerInv
  BY DEF Init, MarkerInv, OneLiveRequest, MarkerOrder, NewestBatchFitsScreen
<1>2. TypeOK /\ MarkerInv /\ [Next]_vars => MarkerInv'
  <2> SUFFICES ASSUME TypeOK, MarkerInv, [Next]_vars PROVE MarkerInv'
    OBVIOUS
  <2>1. CASE OnCameraIdle
    <3>1. handler.source = (IF crimeMapEnabled' THEN "police" ELSE "house")
      BY <2>1 DEF OnCameraIdle, modeVars, MarkerInv, OneLiveRequest
    <3>2. handler \in Connection /\ markerRequests \in SUBSET markerRequests
      BY DEF TypeOK
    <3>3. UpdateCameraRegion(handler, markerRequests)
      BY <2>1 DEF OnCameraIdle
    <3>4. handler' = handler /\ markerList' = markerList
      BY <2>1 DEF OnCameraIdle
    <3> QED
      BY <3>1, <3>2, <3>3, <3>4, SendKeepsMarkerInv
  <2>2. CASE OnClickSwitchMapSrc
    BY <2>2, SwitchMapSrcKeepsMarkerInv DEF OnClickSwitchMapSrc
  <2>3. ASSUME NEW r \in markerRequests, MarkerError(r) PROVE MarkerInv'
    BY <2>3, SwitchMapSrcKeepsMarkerInv DEF MarkerError
  <2>4. ASSUME NEW r \in markerRequests, MarkerResponse(r) PROVE MarkerInv'
    <3>1. /\ markerRequests' = markerRequests \ {r}
          /\ markerList' = {r}
          /\ UNCHANGED <<handler, nMarker, prevCamera, enableInfoWindow,
                         crimeMapEnabled>>
      BY <2>4 DEF MarkerResponse, cameraVars, modeVars
    <3>2. \A s \in markerRequests : s.id \in Nat /\ s.gen \in Nat
      BY DEF TypeOK, MarkerRequest
    <3>3. r.camera # NoCamera
      BY CamerasAssumption DEF TypeOK, MarkerRequest
    <3>4. OneLiveRequest'
      BY <3>1 DEF MarkerInv, OneLiveRequest
    <3>5. MarkerOrder'
      <4>1. \A s \in markerRequests : s.gen = r.gen => s = r
        BY DEF MarkerInv, OneLiveRequest
      <4> QED
        BY <3>1, <3>2, <4>1 DEF MarkerInv, MarkerOrder
    <3>6. NewestBatchFitsScreen'
      BY <3>1, <3>3
         DEF MarkerInv, OneLiveRequest, MarkerOrder, NewestBatchFitsScreen
    <3> QED
      BY <3>4, <3>5, <3>6 DEF MarkerInv
  <2>5. CASE UNCHANGED <<markerRequests, markerList, nMarker, handler, prevCamera,
                         enableInfoWindow, crimeMapEnabled>>
    BY <2>5 DEF MarkerInv, OneLiveRequest, MarkerOrder, NewestBatchFitsScreen
  <2>6. CASE \/ \E c \in Cameras : CameraMoves(c)
             \/ OnCheckedChanged
             \/ \E b \in map.visible : \E title \in TitlesOf(b) :
                   MarkerTapped(b, title)
             \/ MapTapped
             \/ \E name \in Titles : PlacePicked(name)
             \/ \E a \in addressRequests : AddressResponse(a)
             \/ \E a \in addressRequests : AddressError(a)
             \/ Renderer
             \/ UNCHANGED vars
    BY <2>5, <2>6 DEF CameraMoves, OnCheckedChanged, MarkerTapped, MapTapped,
       PlacePicked, AddressResponse, AddressError, Renderer, ClusterTaskEnds, Render, vars, cameraVars,
       modeVars, requestVars
  <2> QED
    BY <2>1, <2>2, <2>3, <2>4, <2>6 DEF Next, User, Answers
<1> QED
  BY <1>1, <1>2, TypeCorrect, PTL DEF Spec, MarkerInv

\* The markers implement LatestWins.  A send is Ask, also when it comes with a
\* switch of the source; an answer is Show, whose guards are MarkerInv.
THEOREM MarkersImplementLatestWins == Spec => MarkersLatestWins
<1>1. Init => Markers!Init
  BY DEF Init, Markers!Init, ShownMarkers
<1>2. TypeOK /\ MarkerInv /\ [Next]_vars => [Markers!Next]_(Markers!vars)
  <2> SUFFICES ASSUME TypeOK, MarkerInv, [Next]_vars
               PROVE  Markers!Next \/ UNCHANGED Markers!vars
    OBVIOUS
  <2>1. ASSUME nMarker' = nMarker + 1, handler'.gen \in {handler.gen, handler.gen + 1},
               markerList' = markerList
        PROVE  Markers!Next
    BY <2>1 DEF Markers!Next, Markers!Ask, ShownMarkers
  <2>2. CASE OnCameraIdle
    BY <2>1, <2>2 DEF OnCameraIdle, UpdateCameraRegion, MarkerJsonParse
  <2>3. CASE OnClickSwitchMapSrc
    BY <2>1, <2>3
       DEF OnClickSwitchMapSrc, SwitchMapSrc, UpdateCameraRegion, MarkerJsonParse
  <2>4. ASSUME NEW r \in markerRequests, MarkerError(r) PROVE Markers!Next
    BY <2>1, <2>4
       DEF MarkerError, SwitchMapSrc, UpdateCameraRegion, MarkerJsonParse
  <2>5. ASSUME NEW r \in markerRequests, MarkerResponse(r) PROVE Markers!Next
    <3>1. /\ r.id \in 0 .. nMarker
          /\ r.gen \in 0 .. handler.gen
          /\ r.gen = handler.gen => r.id = nMarker
      BY DEF MarkerInv, OneLiveRequest, MarkerOrder, TypeOK, MarkerRequest,
             Connection
    <3>2. \A s \in ShownMarkers : s.feed = r.gen => s.id < r.id
      BY DEF ShownMarkers, MarkerInv, MarkerOrder
    <3>3. markerList' = {r} /\ UNCHANGED <<handler, nMarker>>
      BY <2>5 DEF MarkerResponse
    <3>4. ShownMarkers' = {[id |-> r.id, feed |-> r.gen]}
      BY <3>3 DEF ShownMarkers
    <3>5. Markers!Show
      BY <3>1, <3>2, <3>3, <3>4 DEF Markers!Show
    <3> QED
      BY <3>5 DEF Markers!Next
  <2>6. ASSUME UNCHANGED <<handler, nMarker, markerList>>
        PROVE  UNCHANGED Markers!vars
    BY <2>6 DEF Markers!vars, ShownMarkers
  <2>7. CASE \/ \E c \in Cameras : CameraMoves(c)
             \/ OnCheckedChanged
             \/ \E b \in map.visible : \E title \in TitlesOf(b) :
                   MarkerTapped(b, title)
             \/ MapTapped
             \/ \E name \in Titles : PlacePicked(name)
             \/ \E a \in addressRequests : AddressResponse(a)
             \/ \E a \in addressRequests : AddressError(a)
             \/ Renderer
             \/ UNCHANGED vars
    BY <2>6, <2>7 DEF CameraMoves, OnCheckedChanged, MarkerTapped, MapTapped,
       PlacePicked, AddressResponse, AddressError, Renderer, ClusterTaskEnds, Render, vars, requestVars
  <2> QED
    BY <2>2, <2>3, <2>4, <2>5, <2>7 DEF Next, User, Answers
<1> QED
  BY <1>1, <1>2, TypeCorrect, MarkerOrderInvariant, PTL
     DEF Spec, MarkerInv, MarkersLatestWins, Markers!Spec

\* At most one request of a connection is outstanding, and the one of the connection
\* in use is the newest (markerJsonParse).
THEOREM OneLiveRequestInvariant == Spec => []OneLiveRequest
<1>1. OneLiveRequest /\ MarkerOrder /\ NewestBatchFitsScreen => OneLiveRequest
  OBVIOUS
<1> QED
  BY <1>1, MarkerOrderInvariant, PTL

\* A saved batch is older than any request its connection has outstanding
\* (displayMarkers).
THEOREM BatchesInOrder == Spec => []MarkerOrder
<1>1. OneLiveRequest /\ MarkerOrder /\ NewestBatchFitsScreen => MarkerOrder
  OBVIOUS
<1> QED
  BY <1>1, MarkerOrderInvariant, PTL

-----------------------------------------------------------------------------
(* The bottom sheet.                                                       *)

SheetInv == SheetOrder /\ SheetListFitsTitle

\* Opening the sheet on a title, on either connection, keeps the order.
LEMMA DisplayBottomSheetKeepsSheetInv ==
    ASSUME TypeOK, SheetInv, NEW title \in Titles,
           DisplayBottomSheet(title), handler' = handler
    PROVE  SheetInv'
  <1>1. PostcodeJsonParse(handler, title)
    BY DEF DisplayBottomSheet
  <1>2. sheet'.title = title /\ sheet'.list = sheet.list
    BY DEF DisplayBottomSheet, TypeOK, SheetState
  <1>3. /\ nAddress \in Nat /\ handler.gen \in Nat
        /\ \A a \in addressRequests \cup sheet.list : a.id \in Nat /\ a.gen \in Nat
    BY DEF TypeOK, SheetState, AddressRequest, Connection
  <1>4. CASE handler.source = "house"
    <2> DEFINE new == [id |-> nAddress + 1, gen |-> handler.gen, title |-> title]
    <2>1. nAddress' = nAddress + 1
      BY <1>1, <1>4 DEF PostcodeJsonParse
    <2>2. addressRequests' = CancelAll(addressRequests, handler) \cup {new}
      BY <1>1, <1>4 DEF PostcodeJsonParse
    <2>3. \A a \in addressRequests' :
             a = new \/ (a \in addressRequests /\ a.gen # handler.gen)
      BY <2>2 DEF CancelAll
    <2>4. new.id = nAddress + 1 /\ new.gen = handler.gen /\ new.title = title
      OBVIOUS
    <2> HIDE DEF new
    <2>5. \A a \in addressRequests \cup sheet.list : a.id <= nAddress
      BY DEF SheetInv, SheetOrder
    <2>6. SheetOrder'
      BY <1>2, <1>3, <1>4, <2>1, <2>3, <2>4, <2>5 DEF SheetInv, SheetOrder
    <2>7. SheetListFitsTitle'
      BY <1>2, <1>3, <2>1, <2>3, <2>4, <2>5 DEF SheetListFitsTitle
    <2> QED
      BY <2>6, <2>7 DEF SheetInv
  <1>5. CASE handler.source # "house"
    <2>1. UNCHANGED <<nAddress, addressRequests>>
      BY <1>1, <1>5 DEF PostcodeJsonParse
    <2> QED
      BY <1>2, <1>5, <2>1 DEF SheetInv, SheetOrder, SheetListFitsTitle
  <1> QED
    BY <1>4, <1>5

\* So does a tap, or a search that finds its marker.
LEMMA MarkerClickedKeepsSheetInv ==
    ASSUME TypeOK, SheetInv, NEW b \in MarkerRequest, NEW title \in TitlesOf(b),
           MarkerClicked(b, title), handler' = handler
    PROVE  SheetInv'
  <1>1. CASE enableInfoWindow /\ b.source # "police"
    <2>1. title \in Titles
      BY <1>1, TitlesAssumption DEF TitlesOf, ParseMarkerResponse, MarkerRequest
    <2> QED
      BY <1>1, <2>1, DisplayBottomSheetKeepsSheetInv DEF MarkerClicked
  <1>2. CASE ~(enableInfoWindow /\ b.source # "police")
    BY <1>2 DEF MarkerClicked, sheetVars, SheetInv, SheetOrder, SheetListFitsTitle
  <1> QED
    BY <1>1, <1>2

\* So does the search through the collection.
LEMMA SearchCollectionKeepsSheetInv ==
    ASSUME TypeOK, SheetInv, SearchCollection, handler' = handler
    PROVE  SheetInv'
  <1>1. CASE UNCHANGED sheetVars
    BY <1>1 DEF sheetVars, SheetInv, SheetOrder, SheetListFitsTitle
  <1>2. ASSUME NEW b \in map.collection, postcodeSearch \in TitlesOf(b),
               MarkerClicked(b, postcodeSearch)
        PROVE  SheetInv'
    <2>1. b \in MarkerRequest
      BY DEF TypeOK, MapState
    <2> QED
      BY <1>2, <2>1, MarkerClickedKeepsSheetInv
  <1> QED
    BY <1>1, <1>2 DEF SearchCollection

\* A newer connection has neither sent an address request nor shown a list.
LEMMA SwitchKeepsSheetInv ==
    ASSUME TypeOK, SheetInv, handler'.gen = handler.gen + 1, UNCHANGED sheetVars
    PROVE  SheetInv'
  <1>1. /\ handler.gen \in Nat
        /\ \A a \in addressRequests \cup sheet.list :
              a.gen \in Nat /\ a.gen <= handler.gen
    BY DEF TypeOK, SheetState, AddressRequest, Connection, SheetInv, SheetOrder
  <1>2. SheetOrder'
    BY <1>1 DEF SheetInv, SheetOrder, sheetVars
  <1>3. SheetListFitsTitle'
    BY <1>1 DEF SheetListFitsTitle, sheetVars
  <1> QED
    BY <1>2, <1>3 DEF SheetInv

\* The newest list of the connection in use is the list of the title on the sheet,
\* and so will be the answer outstanding.  SheetOrder makes it inductive.
THEOREM SheetOrderInvariant == Spec => [](SheetOrder /\ SheetListFitsTitle)
<1>1. Init => SheetInv
  BY DEF Init, SheetInv, SheetOrder, SheetListFitsTitle
<1>2. TypeOK /\ SheetInv /\ [Next]_vars => SheetInv'
  <2> SUFFICES ASSUME TypeOK, SheetInv, [Next]_vars PROVE SheetInv'
    OBVIOUS
  <2>1. ASSUME NEW b \in map.visible, NEW title \in TitlesOf(b),
               MarkerTapped(b, title)
        PROVE  SheetInv'
    <3>1. b \in MarkerRequest
      BY DEF TypeOK, MapState
    <3> QED
      BY <2>1, <3>1, MarkerClickedKeepsSheetInv DEF MarkerTapped, requestVars
  <2>2. ASSUME UNCHANGED <<handler, addressRequests, nAddress>>,
               sheet'.title = sheet.title, sheet'.list = sheet.list
        PROVE  SheetInv'
    BY <2>2 DEF SheetInv, SheetOrder, SheetListFitsTitle
  <2>3. CASE MapTapped
    BY <2>2, <2>3 DEF MapTapped, TypeOK, SheetState, requestVars
  <2>4. ASSUME SearchCollection \/ UNCHANGED sheetVars, handler' = handler
        PROVE  SheetInv'
    BY <2>2, <2>4, SearchCollectionKeepsSheetInv DEF sheetVars
  <2>11. ASSUME NEW r \in markerRequests, MarkerResponse(r) PROVE SheetInv'
    BY <2>4, <2>11 DEF MarkerResponse
  <2>12. CASE OnCheckedChanged
    BY <2>4, <2>12 DEF OnCheckedChanged, requestVars
  <2>5. ASSUME NEW a \in addressRequests, AddressResponse(a) PROVE SheetInv'
    <3>1. /\ addressRequests' = addressRequests \ {a}
          /\ sheet'.title = sheet.title /\ sheet'.list = {a}
          /\ UNCHANGED <<handler, nAddress>>
      BY <2>5 DEF AddressResponse, TypeOK, SheetState, requestVars
    <3>2. \A c \in addressRequests : c.gen = a.gen => c = a
      BY DEF SheetInv, SheetOrder
    <3> QED
      BY <3>1, <3>2 DEF SheetInv, SheetOrder, SheetListFitsTitle
  <2>6. ASSUME NEW a \in addressRequests, AddressError(a) PROVE SheetInv'
    BY <2>6 DEF AddressError, requestVars, SheetInv, SheetOrder, SheetListFitsTitle
  <2>7. ASSUME NEW pending, SwitchMapSrc(pending), UNCHANGED sheetVars
        PROVE  SheetInv'
    <3>1. handler'.gen = handler.gen + 1
      BY <2>7 DEF SwitchMapSrc
    <3> QED
      BY <2>7, <3>1, SwitchKeepsSheetInv
  <2>8. CASE OnClickSwitchMapSrc
    BY <2>7, <2>8 DEF OnClickSwitchMapSrc
  <2>9. ASSUME NEW r \in markerRequests, MarkerError(r) PROVE SheetInv'
    BY <2>7, <2>9 DEF MarkerError
  <2>10. CASE \/ \E c \in Cameras : CameraMoves(c)
              \/ \E name \in Titles : PlacePicked(name)
              \/ OnCameraIdle
              \/ Renderer
              \/ UNCHANGED vars
    BY <2>2, <2>10 DEF CameraMoves, PlacePicked, OnCameraIdle,
       Renderer, ClusterTaskEnds, Render, vars, requestVars, sheetVars
  <2> QED
    BY <2>1, <2>3, <2>5, <2>6, <2>8, <2>9, <2>10, <2>11,
       <2>12 DEF Next, User, Answers
<1> QED
  BY <1>1, <1>2, TypeCorrect, PTL DEF Spec, SheetInv

\* Opening the sheet sends a request, or does nothing on the police connection.
LEMMA MarkerClickedAsks ==
    ASSUME TypeOK, NEW b, NEW title, MarkerClicked(b, title)
    PROVE  /\ nAddress' \in {nAddress, nAddress + 1}
           /\ sheet'.list = sheet.list
  BY DEF MarkerClicked, DisplayBottomSheet, PostcodeJsonParse, TypeOK, SheetState,
         sheetVars

\* So does the search.
LEMMA SearchCollectionAsks ==
    ASSUME TypeOK, SearchCollection \/ UNCHANGED sheetVars
    PROVE  /\ nAddress' \in {nAddress, nAddress + 1}
           /\ sheet'.list = sheet.list
  BY MarkerClickedAsks DEF SearchCollection, sheetVars

\* The list of the sheet implements LatestWins.  A tap or a search that finds its
\* marker is Ask, a switch of the source is Leave, an answer is Show.
THEOREM SheetImplementsLatestWins == Spec => SheetLatestWins
<1>1. Init => Sheet!Init
  BY DEF Init, Sheet!Init, ShownAddresses
<1>2. TypeOK /\ SheetInv /\ [Next]_vars => [Sheet!Next]_(Sheet!vars)
  <2> SUFFICES ASSUME TypeOK, SheetInv, [Next]_vars
               PROVE  Sheet!Next \/ UNCHANGED Sheet!vars
    OBVIOUS
  <2>1. ASSUME handler' = handler, nAddress' \in {nAddress, nAddress + 1},
               sheet'.list = sheet.list
        PROVE  Sheet!Next \/ UNCHANGED Sheet!vars
    BY <2>1 DEF Sheet!Next, Sheet!Ask, Sheet!vars, ShownAddresses
  <2>2. ASSUME handler'.gen = handler.gen + 1, UNCHANGED sheetVars
        PROVE  Sheet!Next
    BY <2>2 DEF Sheet!Next, Sheet!Leave, ShownAddresses, sheetVars
  <2>3. ASSUME NEW b \in map.visible, NEW title \in TitlesOf(b),
               MarkerTapped(b, title)
        PROVE  Sheet!Next \/ UNCHANGED Sheet!vars
    BY <2>1, <2>3, MarkerClickedAsks DEF MarkerTapped, requestVars
  <2>4. ASSUME NEW r \in markerRequests, MarkerResponse(r)
        PROVE  Sheet!Next \/ UNCHANGED Sheet!vars
    BY <2>1, <2>4, SearchCollectionAsks DEF MarkerResponse
  <2>10. CASE OnCheckedChanged
    BY <2>1, <2>10, SearchCollectionAsks DEF OnCheckedChanged, requestVars
  <2>5. CASE OnClickSwitchMapSrc
    BY <2>2, <2>5 DEF OnClickSwitchMapSrc, SwitchMapSrc
  <2>6. ASSUME NEW r \in markerRequests, MarkerError(r) PROVE Sheet!Next
    BY <2>2, <2>6 DEF MarkerError, SwitchMapSrc
  <2>7. ASSUME NEW a \in addressRequests, AddressResponse(a) PROVE Sheet!Next
    <3>1. /\ a.id \in 0 .. nAddress
          /\ a.gen \in 0 .. handler.gen
          /\ a.gen = handler.gen => a.id = nAddress
      BY DEF SheetInv, SheetOrder, TypeOK, AddressRequest, Connection
    <3>2. \A s \in ShownAddresses : s.feed = a.gen => s.id < a.id
      BY DEF ShownAddresses, SheetInv, SheetOrder
    <3>3. sheet'.list = {a} /\ UNCHANGED <<handler, nAddress>>
      BY <2>7 DEF AddressResponse, requestVars, TypeOK, SheetState
    <3>4. ShownAddresses' = {[id |-> a.id, feed |-> a.gen]}
      BY <3>3 DEF ShownAddresses
    <3>5. Sheet!Show
      BY <3>1, <3>2, <3>3, <3>4 DEF Sheet!Show
    <3> QED
      BY <3>5 DEF Sheet!Next
  <2>8. CASE MapTapped
    <3>1. sheet'.list = sheet.list
      BY <2>8 DEF MapTapped, TypeOK, SheetState
    <3> QED
      BY <2>1, <2>8, <3>1 DEF MapTapped, requestVars
  <2>9. CASE \/ \E c \in Cameras : CameraMoves(c)
             \/ \E name \in Titles : PlacePicked(name)
             \/ \E a \in addressRequests : AddressError(a)
             \/ OnCameraIdle
             \/ Renderer
             \/ UNCHANGED vars
    BY <2>1, <2>9 DEF CameraMoves, PlacePicked, AddressError,
       OnCameraIdle, Renderer, ClusterTaskEnds, Render, vars, requestVars, sheetVars
  <2> QED
    BY <2>3, <2>4, <2>5, <2>6, <2>7, <2>8, <2>9, <2>10 DEF Next, User, Answers
<1> QED
  BY <1>1, <1>2, TypeCorrect, SheetOrderInvariant, PTL
     DEF Spec, SheetInv, SheetLatestWins, Sheet!Spec

\* An address request is newer than the list shown, and only house connections have
\* any (postcodeJsonParse).
THEOREM AddressesInOrder == Spec => []SheetOrder
<1>1. SheetOrder /\ SheetListFitsTitle => SheetOrder
  OBVIOUS
<1> QED
  BY <1>1, SheetOrderInvariant, PTL

-----------------------------------------------------------------------------
(* Requests that are not lost.                                             *)

MarkersNotLost ==
    \A r \in markerRequests \ markerRequests' :
        \/ markerList' = {r} /\ Displayed(map', heatMapEnabled, r)
        \/ nMarker' = nMarker + 1 /\ r.gen = handler.gen
        \/ nMarker' = nMarker + 1 /\ MarkerError(r)

AddressesNotLost ==
    \A a \in addressRequests \ addressRequests' :
        \/ sheet'.list = {a}
        \/ nAddress' = nAddress + 1 /\ a.gen = handler.gen
        \/ AddressError(a)

\* A switch of the source leaves the requests of every connection alone.
LEMMA SwitchCancelsNothing ==
    ASSUME TypeOK, MarkerOrder, NEW pending \in SUBSET markerRequests,
           SwitchMapSrc(pending)
    PROVE  pending \subseteq markerRequests' /\ nMarker' = nMarker + 1
  <1> DEFINE conn == [gen |-> handler.gen + 1,
                      source |-> IF crimeMapEnabled THEN "house" ELSE "police"]
  <1>1. MarkerJsonParse(conn, pending) /\ conn.gen = handler.gen + 1
    BY DEF SwitchMapSrc, UpdateCameraRegion
  <1> HIDE DEF conn
  <1>2. \A r \in pending : r.gen # conn.gen
    BY <1>1 DEF TypeOK, MarkerOrder, MarkerRequest, Connection
  <1> QED
    BY <1>1, <1>2 DEF MarkerJsonParse, CancelAll

\* A tap on a marker drops only requests that it replaces.
LEMMA MarkerClickedCancels ==
    ASSUME NEW b, NEW title, MarkerClicked(b, title)
    PROVE  \A a \in addressRequests \ addressRequests' :
               nAddress' = nAddress + 1 /\ a.gen = handler.gen
  BY DEF MarkerClicked, DisplayBottomSheet, PostcodeJsonParse, CancelAll, sheetVars

\* So does the search, where it finds its marker.
LEMMA SearchCollectionCancels ==
    ASSUME SearchCollection \/ UNCHANGED sheetVars
    PROVE  AddressesNotLost
  <1>1. CASE UNCHANGED sheetVars
    BY <1>1 DEF sheetVars, AddressesNotLost
  <1>2. ASSUME NEW b \in map.collection, MarkerClicked(b, postcodeSearch)
        PROVE  AddressesNotLost
    BY <1>2, MarkerClickedCancels DEF AddressesNotLost
  <1> QED
    BY <1>1, <1>2 DEF SearchCollection, sheetVars

\* No answer is lost between the queue and the map, whichever source fails and
\* whatever the user does: the safety half of LastAnswerShown and
\* LastAddressesShown (onResponse, onResponseError, cancelAll).
THEOREM NoAnswerLost == Spec => AnswersNotLost
<1>1. TypeOK /\ MarkerOrder /\ [Next]_vars => [MarkersNotLost /\ AddressesNotLost]_vars
  <2> SUFFICES ASSUME TypeOK, MarkerOrder, [Next]_vars
               PROVE  MarkersNotLost /\ AddressesNotLost
    OBVIOUS
  <2>1. ASSUME UNCHANGED markerRequests PROVE MarkersNotLost
    BY <2>1 DEF MarkersNotLost
  <2>2. ASSUME UNCHANGED addressRequests PROVE AddressesNotLost
    BY <2>2 DEF AddressesNotLost
  <2>3. CASE OnCameraIdle
    <3>1. MarkerJsonParse(handler, markerRequests) /\ UNCHANGED addressRequests
      BY <2>3 DEF OnCameraIdle, UpdateCameraRegion, sheetVars
    <3> QED
      BY <2>2, <3>1 DEF MarkerJsonParse, CancelAll, MarkersNotLost
  <2>4. CASE OnClickSwitchMapSrc
    <3>1. SwitchMapSrc(markerRequests) /\ UNCHANGED addressRequests
      BY <2>4 DEF OnClickSwitchMapSrc, sheetVars
    <3> QED
      BY <2>2, <3>1, SwitchCancelsNothing DEF MarkersNotLost
  <2>5. ASSUME NEW r \in markerRequests, MarkerError(r)
        PROVE  MarkersNotLost /\ AddressesNotLost
    <3>1. SwitchMapSrc(markerRequests \ {r}) /\ UNCHANGED addressRequests
      BY <2>5 DEF MarkerError, sheetVars
    <3>2. markerRequests \ {r} \subseteq markerRequests' /\ nMarker' = nMarker + 1
      BY <3>1, SwitchCancelsNothing
    <3> QED
      BY <2>2, <2>5, <3>1, <3>2 DEF MarkersNotLost
  <2>6. ASSUME NEW r \in markerRequests, MarkerResponse(r)
        PROVE  MarkersNotLost /\ AddressesNotLost
    <3>1. /\ markerRequests' = markerRequests \ {r} /\ markerList' = {r}
          /\ map' = DisplayMarkers(map, heatMapEnabled, {r})
          /\ SearchCollection \/ UNCHANGED sheetVars
      BY <2>6 DEF MarkerResponse
    <3>2. map \in MapState /\ heatMapEnabled \in BOOLEAN /\ {r} \in SUBSET MarkerRequest
      BY DEF TypeOK
    <3>3. Displayed(map', heatMapEnabled, r)
      BY <3>1, <3>2, DisplayMarkersShows DEF Displayed
    <3> QED
      BY <3>1, <3>3, SearchCollectionCancels DEF MarkersNotLost
  <2>11. CASE OnCheckedChanged
    BY <2>1, <2>11, SearchCollectionCancels DEF OnCheckedChanged, requestVars
  <2>7. ASSUME NEW b \in map.visible, NEW title \in TitlesOf(b), MarkerTapped(b, title)
        PROVE  MarkersNotLost /\ AddressesNotLost
    BY <2>1, <2>7, MarkerClickedCancels DEF MarkerTapped, requestVars, AddressesNotLost
  <2>8. ASSUME NEW a \in addressRequests, AddressResponse(a)
        PROVE  MarkersNotLost /\ AddressesNotLost
    BY <2>1, <2>8
       DEF AddressResponse, requestVars, AddressesNotLost, TypeOK, SheetState
  <2>9. ASSUME NEW a \in addressRequests, AddressError(a)
        PROVE  MarkersNotLost /\ AddressesNotLost
    <3>1. addressRequests' = addressRequests \ {a} /\ UNCHANGED markerRequests
      BY <2>9 DEF AddressError, requestVars
    <3> QED
      BY <2>1, <2>9, <3>1 DEF AddressesNotLost
  <2>10. CASE \/ \E c \in Cameras : CameraMoves(c)
              \/ MapTapped
              \/ \E name \in Titles : PlacePicked(name)
              \/ Renderer
              \/ UNCHANGED vars
    BY <2>1, <2>2, <2>10 DEF CameraMoves, MapTapped, PlacePicked,
       Renderer, ClusterTaskEnds, Render, vars, requestVars, sheetVars
  <2> QED
    BY <2>3, <2>4, <2>5, <2>6, <2>7, <2>8, <2>9, <2>10, <2>11
       DEF Next, User, Answers
<1> QED
  BY <1>1, TypeCorrect, BatchesInOrder, PTL
     DEF Spec, AnswersNotLost, MarkersNotLost, AddressesNotLost

-----------------------------------------------------------------------------
(* The screen as a part of the app's life.                                 *)

\* A connection is built with a request of its own, all but the first.
ConnectionsCounted == handler.gen <= nMarker + 1

LEMMA ConnectionsCountedInvariant == Spec => []ConnectionsCounted
<1>1. Init => ConnectionsCounted
  BY DEF Init, ConnectionsCounted
<1>2. TypeOK /\ ConnectionsCounted /\ [Next]_vars => ConnectionsCounted'
  <2> SUFFICES ASSUME TypeOK, ConnectionsCounted, [Next]_vars PROVE ConnectionsCounted'
    OBVIOUS
  <2>1. handler.gen \in Nat /\ nMarker \in Nat
    BY DEF TypeOK, Connection
  <2>2. ASSUME NEW pending, SwitchMapSrc(pending)
        PROVE  ConnectionsCounted'
    BY <2>1, <2>2 DEF SwitchMapSrc, UpdateCameraRegion, MarkerJsonParse, ConnectionsCounted
  <2>3. CASE OnCameraIdle
    BY <2>1, <2>3 DEF OnCameraIdle, UpdateCameraRegion, MarkerJsonParse, ConnectionsCounted
  <2>4. CASE OnClickSwitchMapSrc \/ \E r \in markerRequests : MarkerError(r)
    BY <2>2, <2>4 DEF OnClickSwitchMapSrc, MarkerError
  <2>5. CASE UNCHANGED <<handler, nMarker>>
    BY <2>5 DEF ConnectionsCounted
  <2>6. \/ OnCameraIdle \/ OnClickSwitchMapSrc \/ \E r \in markerRequests : MarkerError(r)
        \/ UNCHANGED <<handler, nMarker>>
    BY DEF Next, User, Answers, CameraMoves, OnCheckedChanged, MarkerTapped, MapTapped,
       PlacePicked, MarkerResponse, AddressResponse, AddressError, Renderer, ClusterTaskEnds, Render, vars, requestVars
  <2> QED
    BY <2>3, <2>4, <2>5, <2>6
<1> QED
  BY <1>1, <1>2, TypeCorrect, PTL DEF Spec

\* Activities are compared field by field.
Shape == [id : Nat, orientation : Life!Orientations, ready : BOOLEAN, switch : BOOLEAN,
          heat : BOOLEAN, button : BOOLEAN, crime : BOOLEAN, police : BOOLEAN, gen : Int,
          myLocation : BOOLEAN, markers : SUBSET [act : Nat, gen : Int]]

LEMMA SameShape ==
    ASSUME NEW a \in Shape, NEW b \in Shape,
           b.id = a.id, b.orientation = a.orientation, b.ready = a.ready,
           b.myLocation = a.myLocation
    PROVE  /\ /\ b.switch = ~a.switch /\ b.heat = ~a.switch
              /\ b.button = a.button /\ b.crime = a.crime /\ b.police = a.police
              /\ b.gen = a.gen /\ b.markers = a.markers
              => b = [a EXCEPT !.switch = ~@, !.heat = ~a.switch]
           /\ /\ b.switch = a.switch /\ b.heat = a.heat
              /\ b.button = ~a.crime /\ b.crime = ~a.crime /\ b.police = ~a.crime
              /\ b.gen = a.gen + 1 /\ b.markers = a.markers
              => b = Life!SwitchMapSrc(a)
           /\ \A c \in [act : Nat, gen : Int] :
                 /\ b.switch = a.switch /\ b.heat = a.heat
                 /\ b.button = a.button /\ b.crime = a.crime /\ b.police = a.police
                 /\ b.gen = a.gen /\ b.markers = {c}
                 => b = [a EXCEPT !.markers = {c}]
  <1>1. ASSUME b.switch = ~a.switch, b.heat = ~a.switch,
               b.button = a.button, b.crime = a.crime, b.police = a.police,
               b.gen = a.gen, b.markers = a.markers
        PROVE  b = [a EXCEPT !.switch = ~@, !.heat = ~a.switch]
    BY <1>1 DEF Shape
  <1>2. ASSUME b.switch = a.switch, b.heat = a.heat,
               b.button = ~a.crime, b.crime = ~a.crime, b.police = ~a.crime,
               b.gen = a.gen + 1, b.markers = a.markers
        PROVE  b = Life!SwitchMapSrc(a)
    BY <1>2 DEF Shape, Life!SwitchMapSrc
  <1>3. ASSUME NEW c \in [act : Nat, gen : Int],
               b.switch = a.switch, b.heat = a.heat,
               b.button = a.button, b.crime = a.crime, b.police = a.police,
               b.gen = a.gen, b.markers = {c}
        PROVE  b = [a EXCEPT !.markers = {c}]
    BY <1>3 DEF Shape
  <1> QED
    BY <1>1, <1>2, <1>3

\* What MapsLifecycle sees of the screen, in any state of it.
ActivityIs(a, heat, crime, police, gen, markers) ==
    /\ a \in Shape
    /\ a.id = 1 /\ a.orientation = "portrait" /\ a.ready = TRUE /\ a.myLocation = TRUE
    /\ a.switch = heat /\ a.heat = heat /\ a.button = crime /\ a.crime = crime
    /\ a.police = police /\ a.gen = gen /\ a.markers = markers

LEMMA ActivityShape ==
    TypeOK => ActivityIs(Activity, heatMapEnabled, crimeMapEnabled,
                         handler.source = "police", handler.gen - 1, Connections(markerList))
  <1> DEFINE With(i, o, t, heat, crime, police, gen, markers) ==
        [id |-> i, orientation |-> o, ready |-> t, switch |-> heat, heat |-> heat,
         button |-> crime, crime |-> crime, police |-> police, gen |-> gen,
         myLocation |-> t, markers |-> markers]
  <1>1. ASSUME NEW i \in Nat, NEW o \in Life!Orientations, NEW t \in BOOLEAN, NEW heat \in BOOLEAN,
               NEW crime \in BOOLEAN, NEW police \in BOOLEAN, NEW gen \in Int,
               NEW markers \in SUBSET [act : Nat, gen : Int]
        PROVE  LET a == With(i, o, t, heat, crime, police, gen, markers)
               IN  /\ a \in Shape
                   /\ a.id = i /\ a.orientation = o /\ a.ready = t /\ a.myLocation = t
                   /\ a.switch = heat /\ a.heat = heat /\ a.button = crime /\ a.crime = crime
                   /\ a.police = police /\ a.gen = gen /\ a.markers = markers
    BY DEF Shape
  <1>2. Activity = With(1, "portrait", TRUE, heatMapEnabled, crimeMapEnabled,
                        handler.source = "police", handler.gen - 1, Connections(markerList))
    BY DEF Activity
  <1> HIDE DEF With
  <1>3. ASSUME TypeOK
        PROVE  /\ heatMapEnabled \in BOOLEAN /\ crimeMapEnabled \in BOOLEAN
               /\ (handler.source = "police") \in BOOLEAN /\ handler.gen - 1 \in Int
               /\ Connections(markerList) \in SUBSET [act : Nat, gen : Int]
    <2>1. \A b \in markerList : b.gen \in Nat
      BY <1>3 DEF TypeOK, MarkerRequest
    <2>2. \A b \in markerList : [act |-> 1, gen |-> b.gen - 1] \in [act : Nat, gen : Int]
      BY <2>1
    <2> QED
      BY <1>3, <2>2 DEF TypeOK, Connection, Connections
  <1>4. 1 \in Nat /\ "portrait" \in Life!Orientations /\ TRUE \in BOOLEAN
    BY DEF Life!Orientations
  <1>5. ASSUME TypeOK
        PROVE  ActivityIs(Activity, heatMapEnabled, crimeMapEnabled,
                          handler.source = "police", handler.gen - 1, Connections(markerList))
    <2>1. PICK heat \in BOOLEAN, crime \in BOOLEAN, police \in BOOLEAN, gen \in Int,
               markers \in SUBSET [act : Nat, gen : Int] :
            /\ heat = heatMapEnabled /\ crime = crimeMapEnabled
            /\ police = (handler.source = "police") /\ gen = handler.gen - 1
            /\ markers = Connections(markerList)
      BY <1>3, <1>5
    <2>2. PICK a : a = With(1, "portrait", TRUE, heat, crime, police, gen, markers)
      OBVIOUS
    <2>3. ActivityIs(a, heat, crime, police, gen, markers)
      <3>1. \A i \in Nat, o \in Life!Orientations, t \in BOOLEAN :
               LET w == With(i, o, t, heat, crime, police, gen, markers)
               IN  /\ w \in Shape
                   /\ w.id = i /\ w.orientation = o /\ w.ready = t /\ w.myLocation = t
                   /\ w.switch = heat /\ w.heat = heat /\ w.button = crime /\ w.crime = crime
                   /\ w.police = police /\ w.gen = gen /\ w.markers = markers
        BY <1>1
      <3>2. /\ a \in Shape
            /\ a.id = 1 /\ a.orientation = "portrait" /\ a.ready = TRUE /\ a.myLocation = TRUE
            /\ a.switch = heat /\ a.heat = heat /\ a.button = crime /\ a.crime = crime
            /\ a.police = police /\ a.gen = gen /\ a.markers = markers
        BY <1>4, <2>2, <3>1
      <3> QED
        BY <3>2, Zenon DEF ActivityIs
    <2>4. Activity = a
      BY <1>2, <2>1, <2>2
    <2> QED
      BY <2>1, <2>3, <2>4
  <1> QED
    BY <1>5

\* The connections that wait once one of them is answered, and that of one answer.
LEMMA ConnectionsOf ==
    ASSUME TypeOK, OneLiveRequest
    PROVE  /\ \A r \in markerRequests :
                Connections(markerRequests \ {r}) =
                    Connections(markerRequests) \ {[act |-> 1, gen |-> r.gen - 1]}
           /\ \A r : Connections({r}) = {[act |-> 1, gen |-> r.gen - 1]}
  <1>1. ASSUME NEW r \in markerRequests
        PROVE  Connections(markerRequests \ {r}) =
                   Connections(markerRequests) \ {[act |-> 1, gen |-> r.gen - 1]}
    <2>1. \A s \in markerRequests : s.gen \in Nat /\ (s.gen = r.gen => s = r)
      BY DEF TypeOK, MarkerRequest, OneLiveRequest
    <2>2. \A s \in markerRequests :
             [act |-> 1, gen |-> s.gen - 1] = [act |-> 1, gen |-> r.gen - 1] <=> s = r
      <3>1. \A m, n \in Int : [act |-> 1, gen |-> m] = [act |-> 1, gen |-> n] <=> m = n
        OBVIOUS
      <3>2. \A s \in markerRequests : s.gen - 1 = r.gen - 1 <=> s = r
        BY <2>1
      <3> QED
        BY <2>1, <3>1, <3>2
    <2> QED
      BY <2>2 DEF Connections
  <1> QED
    BY <1>1 DEF Connections

\* What a marker request sent on the connection in use, or on a new one that takes its
\* place, does to the connections that wait for an answer.
LEMMA ConnectionsAsked ==
    ASSUME TypeOK, OneLiveRequest, MarkerOrder,
           NEW conn \in Connection, NEW pending \in SUBSET markerRequests,
           \/ conn = handler /\ pending = markerRequests
           \/ conn.gen = handler.gen + 1,
           MarkerJsonParse(conn, pending)
    PROVE  Connections(markerRequests') =
               Connections(pending) \cup {[act |-> 1, gen |-> conn.gen - 1]}
  <1> DEFINE new == [id |-> nMarker + 1, gen |-> conn.gen,
                     source |-> conn.source, camera |-> camera]
             kept == CancelAll(pending, conn)
             added == [act |-> 1, gen |-> conn.gen - 1]
  <1>1. markerRequests' = kept \cup {new} /\ new.gen = conn.gen
    BY DEF MarkerJsonParse
  <1>2. Connections(markerRequests') = Connections(kept) \cup {added}
    BY <1>1 DEF Connections
  <1>3. Connections(pending) \ {added} \subseteq Connections(kept)
    BY DEF Connections, CancelAll
  <1>4. Connections(kept) \subseteq Connections(pending)
    BY DEF Connections, CancelAll
  <1> QED
    BY <1>2, <1>3, <1>4

\* Every step of the screen is one that MapsLifecycle allows an activity whose map is
\* ready, or changes nothing there (MapsActivity, MapsPresenter).
THEOREM ScreenStepsOfLifecycle == Spec => StepsOfLifecycle
<1>1. TypeOK /\ TypeOK' /\ OneLiveRequest /\ MarkerOrder /\ ConnectionsCounted /\ [Next]_vars
         => [Life!Next]_(Life!vars)
  <2> SUFFICES ASSUME TypeOK, TypeOK', OneLiveRequest, MarkerOrder, ConnectionsCounted, [Next]_vars
               PROVE  Life!Next \/ UNCHANGED Life!vars
    OBVIOUS
  <2>0. handler.gen \in Nat /\ nMarker \in Nat
    BY DEF TypeOK, Connection
  <2>a. ActivityIs(Activity, heatMapEnabled, crimeMapEnabled,
                   handler.source = "police", handler.gen - 1, Connections(markerList))
    BY ActivityShape
  <2>b. ActivityIs(Activity', heatMapEnabled', crimeMapEnabled',
                   handler'.source = "police", handler'.gen - 1, Connections(markerList'))
    <3>1. ActivityIs(Activity, heatMapEnabled, crimeMapEnabled,
                     handler.source = "police", handler.gen - 1, Connections(markerList))'
      BY ActivityShape, PTL
    <3> QED
      BY <3>1
  <2>1. ASSUME UNCHANGED <<heatMapEnabled, crimeMapEnabled, handler, markerList, markerRequests>>
        PROVE  UNCHANGED Life!vars
    BY <2>1 DEF Life!vars, Life!systemVars, Life!permissionVars, Activity, Connections
  <2>2. CASE OnCameraIdle
    <3>1. /\ MarkerJsonParse(handler, markerRequests)
          /\ UNCHANGED <<heatMapEnabled, crimeMapEnabled, handler, markerList>>
      BY <2>2 DEF OnCameraIdle, UpdateCameraRegion, modeVars
    <3>2. Connections(markerRequests') =
              Connections(markerRequests) \cup {[act |-> 1, gen |-> handler.gen - 1]}
      BY <3>1, ConnectionsAsked DEF TypeOK
    <3>3. Activity' = Activity
      BY <3>1 DEF Activity, Connections
    <3>4. Life!OnCameraIdle(Activity)
      BY <3>2, <3>3
         DEF Life!OnCameraIdle, Life!Conn, Life!systemVars, Life!permissionVars, Activity
    <3> QED
      BY <3>4 DEF Life!Next, Life!System
  <2>3. ASSUME NEW pending \in SUBSET markerRequests, SwitchMapSrc(pending),
               UNCHANGED <<heatMapEnabled, markerList>>
        PROVE  /\ Activity' = Life!SwitchMapSrc(Activity)
               /\ Connections(markerRequests') =
                     Connections(pending) \cup {Life!Conn(Activity')}
               /\ Activity.gen < MaxMarkers
    <3> DEFINE conn == [gen |-> handler.gen + 1,
                        source |-> IF crimeMapEnabled THEN "house" ELSE "police"]
    <3>1. /\ crimeMapEnabled' = ~crimeMapEnabled /\ handler' = conn
          /\ MarkerJsonParse(conn, pending)
      BY <2>3 DEF SwitchMapSrc, UpdateCameraRegion
    <3>2. conn \in Connection /\ conn.gen = handler.gen + 1
      BY <2>0 DEF Connection, Sources
    <3>3. Connections(markerRequests') =
              Connections(pending) \cup {[act |-> 1, gen |-> conn.gen - 1]}
      BY <3>1, <3>2, ConnectionsAsked
    <3>4. Activity.gen < MaxMarkers
      BY <2>0, <3>1, BoundsAssumption DEF Activity, ConnectionsCounted, MarkerJsonParse
    <3>5. (handler'.source = "police") = ~crimeMapEnabled
      BY <3>1 DEF TypeOK
    <3>6. handler'.gen - 1 = (handler.gen - 1) + 1
      BY <2>0, <3>1, <3>2
    <3>7. Activity' = Life!SwitchMapSrc(Activity)
      <4>1. PICK a \in Shape, b \in Shape : a = Activity /\ b = Activity'
        BY <2>a, <2>b DEF ActivityIs
      <4>2. /\ b.id = a.id /\ b.orientation = a.orientation /\ b.ready = a.ready
            /\ b.myLocation = a.myLocation /\ b.switch = a.switch /\ b.heat = a.heat
            /\ b.markers = a.markers
        BY <2>a, <2>b, <2>3, <4>1 DEF ActivityIs
      <4>3. b.button = ~a.crime /\ b.crime = ~a.crime /\ b.police = ~a.crime
        BY <2>a, <2>b, <3>1, <3>5, <4>1 DEF ActivityIs
      <4>4. b.gen = a.gen + 1
        BY <2>a, <2>b, <3>6, <4>1 DEF ActivityIs
      <4> QED
        BY <4>1, <4>2, <4>3, <4>4, SameShape
    <3>8. Life!Conn(Activity') = [act |-> 1, gen |-> conn.gen - 1]
      BY <3>1 DEF Life!Conn, Activity
    <3> QED
      BY <3>3, <3>4, <3>7, <3>8
  <2>4. CASE OnClickSwitchMapSrc
    <3>1. SwitchMapSrc(markerRequests) /\ UNCHANGED <<heatMapEnabled, markerList>>
      BY <2>4 DEF OnClickSwitchMapSrc
    <3>2. /\ Activity' = Life!SwitchMapSrc(Activity)
          /\ Connections(markerRequests') =
                Connections(markerRequests) \cup {Life!Conn(Activity')}
          /\ Activity.gen < MaxMarkers
      BY <2>3, <3>1
    <3>3. Life!SwitchTapped(Activity)
      BY <3>2 DEF Life!SwitchTapped, Life!InFront, Life!systemVars, Life!permissionVars, Activity
    <3> QED
      BY <3>3 DEF Life!Next, Life!User
  <2>5. CASE OnCheckedChanged
    <3>1. /\ heatMapEnabled' = ~heatMapEnabled
          /\ UNCHANGED <<crimeMapEnabled, handler, markerList, markerRequests>>
      BY <2>5 DEF OnCheckedChanged, requestVars
    <3>2. Activity' = [Activity EXCEPT !.switch = ~@, !.heat = ~Activity.switch]
      <4>1. PICK a \in Shape, b \in Shape : a = Activity /\ b = Activity'
        BY <2>a, <2>b DEF ActivityIs
      <4>2. /\ b.id = a.id /\ b.orientation = a.orientation /\ b.ready = a.ready
            /\ b.myLocation = a.myLocation /\ b.button = a.button /\ b.crime = a.crime
            /\ b.police = a.police /\ b.gen = a.gen /\ b.markers = a.markers
        BY <2>a, <2>b, <3>1, <4>1 DEF ActivityIs
      <4>3. b.switch = ~a.switch /\ b.heat = ~a.switch
        BY <2>a, <2>b, <3>1, <4>1 DEF ActivityIs
      <4> QED
        BY <4>1, <4>2, <4>3, SameShape
    <3>3. Connections(markerRequests') = Connections(markerRequests)
      BY <3>1 DEF Connections
    <3>4. Life!HeatTapped(Activity)
      BY <3>2, <3>3
         DEF Life!HeatTapped, Life!InFront, Life!systemVars, Life!permissionVars, Activity
    <3> QED
      BY <3>4 DEF Life!Next, Life!User
  <2>6. ASSUME NEW r \in markerRequests, MarkerResponse(r)
        PROVE  Life!Next
    <3> DEFINE c == [act |-> 1, gen |-> r.gen - 1]
    <3>1. /\ markerRequests' = markerRequests \ {r} /\ markerList' = {r}
          /\ UNCHANGED <<heatMapEnabled, crimeMapEnabled, handler>>
      BY <2>6 DEF MarkerResponse, modeVars
    <3>2. Connections(markerRequests') = Connections(markerRequests) \ {c}
      BY <3>1, ConnectionsOf
    <3>3. Connections(markerList') = {c}
      BY <3>1, ConnectionsOf
    <3>4. Activity' = [Activity EXCEPT !.markers = {c}]
      <4>1. PICK a \in Shape, b \in Shape : a = Activity /\ b = Activity'
        BY <2>a, <2>b DEF ActivityIs
      <4>2. /\ b.id = a.id /\ b.orientation = a.orientation /\ b.ready = a.ready
            /\ b.myLocation = a.myLocation /\ b.switch = a.switch /\ b.heat = a.heat
            /\ b.button = a.button /\ b.crime = a.crime /\ b.police = a.police /\ b.gen = a.gen
        BY <2>a, <2>b, <3>1, <4>1 DEF ActivityIs
      <4>3. b.markers = {c} /\ c \in [act : Nat, gen : Int]
        <5>1. r.gen \in Nat
          BY DEF TypeOK, MarkerRequest
        <5>2. c \in [act : Nat, gen : Int]
          BY <5>1
        <5>3. Activity'.markers = Connections(markerList')
          BY <2>b DEF ActivityIs
        <5>4. b.markers = Activity'.markers
          BY <4>1
        <5> QED
          BY <3>3, <5>2, <5>3, <5>4
      <4> HIDE DEF c
      <4>4. b = [a EXCEPT !.markers = {c}]
        BY <4>2, <4>3, SameShape
      <4> QED
        BY <4>1, <4>4
    <3>5. c \in Connections(markerRequests)
      BY DEF Connections
    <3>6. Activity.id = c.act
      BY DEF Activity
    <3>7. Life!MarkerResponse(c)
      BY <3>2, <3>4, <3>5, <3>6 DEF Life!MarkerResponse, Life!systemVars, Life!permissionVars
    <3> QED
      BY <3>5, <3>7 DEF Life!Next, Life!System
  <2>7. ASSUME NEW r \in markerRequests, MarkerError(r)
        PROVE  Life!Next
    <3> DEFINE c == [act |-> 1, gen |-> r.gen - 1]
    <3>1. /\ SwitchMapSrc(markerRequests \ {r})
          /\ UNCHANGED <<heatMapEnabled, markerList>>
      BY <2>7 DEF MarkerError
    <3>2. Connections(markerRequests \ {r}) = Connections(markerRequests) \ {c}
      BY ConnectionsOf
    <3>3. /\ Activity' = Life!SwitchMapSrc(Activity)
          /\ Connections(markerRequests') =
                Connections(markerRequests \ {r}) \cup {Life!Conn(Activity')}
          /\ Activity.gen < MaxMarkers
      BY <2>3, <3>1
    <3>5. c \in Connections(markerRequests)
      BY DEF Connections
    <3>6. Activity.id = c.act
      BY DEF Activity
    <3>7. Life!MarkerError(c)
      BY <3>2, <3>3, <3>5, <3>6 DEF Life!MarkerError, Life!systemVars, Life!permissionVars
    <3> QED
      BY <3>5, <3>7 DEF Life!Next, Life!System
  <2>8. \/ OnCameraIdle \/ OnClickSwitchMapSrc \/ OnCheckedChanged
        \/ \E r \in markerRequests : MarkerResponse(r) \/ MarkerError(r)
        \/ UNCHANGED <<heatMapEnabled, crimeMapEnabled, handler, markerList, markerRequests>>
    BY DEF Next, User, Answers, CameraMoves, MarkerTapped, MapTapped, PlacePicked,
       AddressResponse, AddressError, Renderer, ClusterTaskEnds, Render, vars, modeVars, requestVars
  <2> QED
    BY <2>1, <2>2, <2>4, <2>5, <2>6, <2>7, <2>8
<1> QED
  BY <1>1, TypeCorrect, OneLiveRequestInvariant, BatchesInOrder, ConnectionsCountedInvariant, PTL
     DEF Spec, StepsOfLifecycle

-----------------------------------------------------------------------------
(* What implementing LatestWins means for the screen.                      *)

MarkersOf == INSTANCE LatestWinsProofs WITH
    feed <- handler.gen, newest <- nMarker, shown <- ShownMarkers

SheetOf == INSTANCE LatestWinsProofs WITH
    feed <- handler.gen, newest <- nAddress, shown <- ShownAddresses

\* Of two answers of a connection the map shows the later one last, whatever order
\* they come in and however often the source is switched (displayMarkers).
THEOREM MarkersNeverGoBack == Spec => Markers!ForwardOnly
  BY MarkersImplementLatestWins, MarkersOf!ScreenMovesForward, PTL
     DEF MarkersLatestWins, Markers!Spec, Markers!Init, Markers!Next, Markers!vars,
         Markers!Ask, Markers!Leave, Markers!Show, Markers!ForwardOnly,
         MarkersOf!Spec, MarkersOf!Init, MarkersOf!Next, MarkersOf!vars,
         MarkersOf!Ask, MarkersOf!Leave, MarkersOf!Show, MarkersOf!ForwardOnly

\* The same for the list of the sheet (displayAddresses).
THEOREM SheetNeverGoesBack == Spec => Sheet!ForwardOnly
  BY SheetImplementsLatestWins, SheetOf!ScreenMovesForward, PTL
     DEF SheetLatestWins, Sheet!Spec, Sheet!Init, Sheet!Next, Sheet!vars,
         Sheet!Ask, Sheet!Leave, Sheet!Show, Sheet!ForwardOnly,
         SheetOf!Spec, SheetOf!Init, SheetOf!Next, SheetOf!vars,
         SheetOf!Ask, SheetOf!Leave, SheetOf!Show, SheetOf!ForwardOnly

=============================================================================
