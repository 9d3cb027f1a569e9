# House prices and crime on a map: TLA+ models and proofs

The repository holds two phone apps and a server. The **Android app** and the
**iOS app** draw average house prices or street crimes on a map, as markers or
as a heat map, and list the past sales of a postcode. The **backend** (node,
express) answers both from a MongoDB of precomputed averages and from the land
registry; crimes come straight from data.police.uk. This directory models the
parts of that system in which the order of events matters, model-checks them
with TLC and proves the central invariants with TLAPS.

Paths below leave out `ASE_android/app/src/main/java/sussex/android/ase_android/`,
`ASE_backend/` and `ASE_iOS/ASE_iOS/`.

## 1. Inventory

| component | state it keeps | operations | what makes it correct |
|---|---|---|---|
| Android map screen: `MapsActivity`, `MapsPresenter`, `ServerConnection`, `PoliceDataConnection`, `MarkerRenderer` | camera position last asked for, the two mode switches, the connection in use, its Volley requests, the saved marker list, what is on the map, the searched postcode | camera idle, switch of the source, heat map switch, tap on a marker or on the map, place picked, answers and errors, the renderer's tasks | what is drawn belongs to the source, the position and the mode the screen shows; an older answer never replaces a newer one; every answer reaches the screen |
| Android activities: `MainActivity`, creation, restoring and destruction of `MapsActivity`, `onMapReady`, the permission dialog, the place picker | which activities exist and in which orientation, what the system saved of them, the permission, requests of destroyed presenters | launch, rotation, Back, picker, process death, map ready, permission answered, late answers | the map is used once it is ready; the location is shown once allowed; an activity shows only what it asked for |
| Android bottom sheet: `BottomSheetView`, `BottomSheetPresenter` | title, list, open or hidden; its address request lives in the connection of the map screen | open for a marker, hide, list or error arrives, an attempt times out | the list is the list of the title |
| Backend address lookup: route `/addresses/:postcode`, `apiController.getPostcodeData`, `priceService.getAllFromPostcode` | loop counter, page asked for, transactions collected | a page arrives, is empty, fails | the loop ends; every page is in the answer, once |
| Backend routes: `server.js`, `apiRoutes.js`, `apiController`, `apiService`, `dbService`, `postcodeService`, `mongooseRemote` | one database connection per pm2 process and the queries it buffers, handlers at their `await` | prices around a point, average of a postcode, postcodes near a point, the test route; the connection opens, fails, goes with its process | a request is answered, once; the resolution is the one the app expects |
| Backend Facebook login: `fbController`, `fbService` | none | no route reaches it | - |
| iOS map screen: `MapViewController`, `Networking`, `PropertyAPI`, `CrimeAPI` | `isCrime`, two segmented controls, two arrays of answers, two of weights, markers, heat map layer, indicator, and the main dispatch queue | refresh, two toggles, place picked, first location, tap on a marker, blocks of the main queue, callbacks of `URLSession` | answers end on the screen once, and no older ones beside them; the indicator stops; a forced cast holds |
| Android info window: `CustomInfoWindowAdapter` | none | a view for a marker | - |
| iOS list of prices: `PropertyTableViewController` | one array | one request | the list of the postcode |
| iOS sign-up and log-in | none left (the calls are commented out) | segues | - |

### How they interact

* Android: everything runs on the main thread. `MapsActivity` calls the presenter,
  the presenter the connection, the connection's Volley queue calls the presenter
  back, the presenter calls `MapsActivity` (on an error it even presses the
  switch). The sheet borrows the presenter's *current* connection. Each switch of
  the source builds a **new connection with a new queue**; the old one is left
  to itself and goes on delivering. The cluster renderer is the only thing that
  runs elsewhere: some time after `cluster()` it takes a snapshot of the items, and
  some time after that the markers of the snapshot come onto the map.
  The system destroys and re-creates activities behind the code's back; nothing
  tells a connection, whose requests go on and call a presenter whose view is gone.
* Backend: pm2 runs several processes of `server.js`, each with its own mongoose
  connection, which buffers queries until it has opened. Within a process, one
  asynchronous function per request; each `await` lets others run.
  A lookup keeps its state in locals, and is not told when the phone has given up
  and asks a second time.
* iOS: the main queue takes taps and the blocks of `DispatchQueue.main.async`;
  `URLSession` calls back on a serial queue of its own, where the answer is
  parsed and *stored in the controller's arrays*, and only the drawing is sent to
  the main queue, through one block or two. Nothing is ever cancelled.

### What is hard

Answers out of order, answers to a connection or a mode the user has left,
drawing that happens later than the code that asks for it, from a snapshot, three copies of one
choice on iOS, a loop that reads its variable one round late, a map that is
there later than the screen that uses it, a connection that fails and is never
tried again, a download whose error nobody hears, a distance that is rounded
between two programs that compare it. `PROJECT.json`
lists every such hazard at its line with the properties that watch it.

## 2. The modules

| module | what it is |
|---|---|
| `MapsScreen` | the Android map screen and bottom sheet, one action per handler |
| `MapsScreenMC` | cameras, titles and crimes for TLC |
| `MapsScreenProofs` | theorems about `MapsScreen` |
| `LatestWins` | what a screen filled by numbered requests promises, whatever is behind it |
| `LatestWinsProofs` | what follows from it |
| `AddressLookup` | addresses from the tap to the registry: the client's two attempts and the concurrent lookups they start |
| `AddressLookupMC`, `AddressLookupProofs` | its instance and theorems |
| `MapsLifecycle`, `MapsLifecycleProofs` | the activities around the Android map screen, and theorems about them |
| `Backend` | the other routes: processes, connections, buffered queries, downloads and resolutions |
| `BackendMC`, `BackendProofs` | its instance and theorems |
| `MapViewController`, `MapViewControllerProofs` | the iOS map screen, and theorems about it |

`MapsLifecycle` and `MapViewController` take plain values as constants, so the cfg
files run them directly.

An operator whose comment begins "Mutant of" is a plausible slip of the code. No
action uses it; it is there to show that a property notices when it takes the
place of the operator named.

### MapsScreen

A connection is a *generation* (the n-th one built) and a source, `house` or
`police`. A marker request carries its number, its connection and the camera it
asks about; the batch of markers in an answer is named by its request, so
"which answer is on the screen" is a set of requests. `map` says what has become of
a batch. The *items* are what the cluster manager was given, and *overlays* the heat
map. The library's renderer draws in two tasks: a ClusterTask computes a
snapshot of the items (`clustering` while one is in flight, `next` its result), a
RenderTask adds its markers and removes those of the snapshot before (`visible`,
and `collection` for what it remembers as drawn). Any handler may run in between:
`GoogleMap.clear` takes down what is drawn at that moment and `clearItems` the
items, while a snapshot already taken is still drawn, on the map just cleared. Both
leave the collection as it was, and that is where the search for a picked postcode
looks (`SearchCollection`), at each answer drawn as markers and when the heat map
is turned off.

| code | TLA+ |
|---|---|
| `MapsActivity.updateCameraRegion`, `onCameraIdle` | `UpdateCameraRegion`, `OnCameraIdle` |
| `markerJsonParse` of either connection with `cancelAll("marker")` | `MarkerJsonParse`, `CancelAll` |
| `postcodeJsonParse` with `cancelAll("address")` | `PostcodeJsonParse` |
| `onClickSwitchMapSrc`, `switchDataSource` | `SwitchMapSrc`, `OnClickSwitchMapSrc` |
| `onResponseError` of the presenter | `MarkerError`: the whole switch, with its new request, in the same step |
| `onResponse`, `displayMarkers` | `MarkerResponse`, `DisplayMarkers` |
| `onCheckedChanged`, `switchHeatmap`, with the search loop when it is turned off | `OnCheckedChanged` |
| `onMarkerClick`, `markerClicked`, `displayBottomSheet` | `MarkerTapped`, `MarkerClicked`, `DisplayBottomSheet` |
| `displayInfo`, `BottomSheetView.onResponseError` | `AddressResponse`, `AddressError` |
| the tasks of the maps library's cluster renderer (external) | `ClusterTaskEnds`, `Render` |

Left out on purpose: alerts, toasts, info windows, icons, logging, prices and
coordinates (a batch is known by its request), clusters of several items (a tap
on one has no title and does nothing), and the second attempt of a Volley
request: two attempts are one request that ends in an answer or an error, which
`AddressLookup` takes apart. The
state starts when `onMapReady` has returned; what comes before, and what becomes
of an activity, is `MapsLifecycle`. A body that does not parse ends in
the same handler as an unreachable server, so one action stands for both.

### LatestWins

The abstract specification. A *feed* is a connection; a request goes to the feed
in use or opens the next one, a feed left behind is never taken up again. Of the
feed in use only the answer to the newest request may be shown, of an older one
none that is older than what it has on the screen. `MapsScreen` implements it
twice (`Markers` by its generations and saved batch, `Sheet` by its generations
and list), `AddressLookup` once more (`List`, a single feed). Its own theorem,
`ScreenMovesForward`, is what a user sees: within a feed the screen never goes
back.

### AddressLookup

The seam between the two programs, which neither sees whole. The client is
`postcodeJsonParse` with Volley's queue: a tap cancels the request before it, an
attempt may time out and is made once more (`DefaultRetryPolicy(20000, 1, ..)`), a
reply finds its attempt waiting or a socket nobody reads. The server is
`getPostcodeData` and `getAllFromPostcode`, one record of `lookups` for each
attempt sent, with the locals of the function; one action runs it from one
`await` to the next, so that any two may interleave. The code assigns `_page`
*after* the request it should serve, to the counter before it is advanced; the
model does the same, so page 0 is fetched twice. The registry is external: it
holds a fixed number of pages and answers an empty list beyond them. A lookup goes on to its end
whoever waits for it.

| code | TLA+ |
|---|---|
| `postcodeJsonParse`, the route's handler up to its first await | `Tap` with `Serve` |
| time-out of an attempt, retry policy | `TimesOut`, `MaxRetries` |
| `onErrorResponse` | `Unreachable`, and the 500 in `Deliver` |
| `res.send`, `onResponse` | `Deliver` |
| a round of the loop, `break`, `catch` | `PageArrives`, `EmptyPageArrives`, `PageFails` |

Left out: Volley's cache and its waiting for an equal request in flight (either
would only merge two lookups of the same postcode), and the way of a request and
of a reply: sending and arriving are one step. A request that never arrives, or a
reply that is lost, shows at the client as `TimesOut` or `Unreachable`, while a
lookup runs that nobody waits for.

### MapsLifecycle

An activity is a record: whether its map is ready (`mMap`), the two switches and
the fields that copy them, the connection in use, and who brought the markers it
has saved. `maps` is a set of at most one of them, and destroying an activity takes
it out of the set while its requests stay in `requests`. `orientation` is the device's; an
activity keeps the one it was created in, and is created again when it comes to
the front out of date. What happens on a ready map is `MapsScreen`; here a
connection has a live request or none. The activity stack, the saved state, the
dialog and the picker belong to the system and are modelled from how the code
uses them.

| code | TLA+ |
|---|---|
| `MainActivity.onCreate` | `Launch`, and `StartMaps` where `MainActivity` is created again |
| `MapsActivity.onCreate`; restoring of the switch, with its listener | `OnCreate`; `RestoreInstanceState` in `Recreate` |
| `onMapReady`, `enableMyLocation` | `OnMapReady` |
| `onRequestPermissionsResult` | `OnRequestPermissionsResult` |
| `search_onclick`, `onActivityResult` | `SearchTapped`, `PickerReturns` |
| `onCameraIdle` | `OnCameraIdle` |
| `onClickSwitchMapSrc`, `switchDataSource` | `SwitchTapped`, `SwitchMapSrc` |
| `onCheckedChanged` | `HeatTapped` |
| `displayMarkers` and `onResponseError` of a presenter, its activity destroyed or not | `MarkerResponse`, `MarkerError` |
| rotation, Back, death of the process in the background (external) | `Rotate`, `BackFromMaps`, `BackFromMain`, `Kill` |

`crashed` says how the program ended: `map`, where a handler used a map that is
null, or `window`, where the presenter of a destroyed activity showed an alert.

### Backend

A handler that waits is a request with the place where it waits: mongoose's
`buffer`, the `database`, the `download` of the list of postcodes, or nothing that
will come (`hung`). `conn` is the connection of each process. A radius is a Java
float of metres, a mantissa of 24 bits and an exponent. `Kilometres` divides it by
1000 as `cameraPosChanged` does, rounding to the nearest float; a tie cannot
happen, 125 being odd. From there the number is widened to a double,
written into the URL and read by JavaScript, each of which keeps its value, and
`CollectionFor` compares it as `getPricesAtAround` does. Which records then lie in
the bracket of the query is left out (section 5).

| code | TLA+ |
|---|---|
| the routes with `apiController`, up to the first `await` | `Query`, `GetPostcodes`, `AnswerAtOnce` |
| `cameraPosChanged` of the app, `getPricesAtAround` | `Kilometres`, `CollectionFor` |
| `res.send` after the `await`, the `catch` with 500 | `QueryReturns`, `QueryFails`, `DownloadEnds` |
| an error of the stream of `request.get` | `DownloadBreaks` |
| `mongooseRemote`: `createConnection`, `on('error')` | `ConnectionOpens`, `ConnectionFails` |
| a process that ends and is started again by pm2 (external) | `Restart` |

The answers with 400 are left out: every route that reaches them has its parameters, since
express would not have matched it without.

### MapViewController

`main` is the dispatch queue as a sequence of blocks: `emptyArrays` (which ends by
sending a request), `relay` (a block that only queues `deploy`), `deploy`
(`deployMarkerAndHeatmapForProperty` / `-ForCrime`) and `addMarkers` (of
`toggleViewTapped`). The kind a block or a request was made for is captured in
it, as the closures capture it; `isCrime` is read where the code reads it.
`StoreResponse` writes the array from the callback queue, `CallCompletion`
queues the drawing: between the two the main queue may do anything. The arrays
are Swift arrays written without a lock, a data race; the model takes the reads
and writes as whole, which is the best the build can do.
`didTap` on a near map ends in the cast `sender as! PlaceMarker`; a failed cast
sets `crashed` and the program stops there. `ClearMap` is `mapView.clear()`, which
takes off the heat map layer as well (`GMSMapView.h`: "all markup that has been added
to the map"), in `prepareViewForUpdate` and once more in the block of `emptyArrays`.

`patient` is chosen by `Init` and never changes: a user who waits for the first
location and acts only when every answer is on the screen, or one who taps
whenever they like. `LoneAnswerShown` is about the first, everything else about
both.

## 3. The runs

| run | specification | question | result |
|---|---|---|---|
| `maps_safety` | `Spec`, both sources answer or fail | does what is on the screen belong together, whatever the order, is no answer lost, does the map settle on the saved list, and is every step one of `MapsLifecycle`? | holds, 853 000 states |
| `maps_live` | `FairSpec`, no failures | is the last answer drawn, in whatever mode it finds the screen? | holds, 256 000 states |
| `maps_outdated` | `Spec` | are outdated answers never shown, as `ServerConnection.java:51` says? | refuted |
| `maps_sheet_region` | `Spec` | does the sheet open only where `MapsActivity.java:207` says? | refuted |
| `maps_switch_back` | `Spec`, the backend down | does an error switch to the *available* source (`MapsPresenter.java:55`)? | refuted |
| `lookup` | `FairSpec`, attempts time out, pages fail | do overlapping lookups keep apart, does none start over, and do requests and lookups end? | holds, 38 600 states |
| `lookup_twice` | `Spec` | is each transaction listed once (`priceService.js:22`)? | refuted |
| `lifecycle` | `FairSpec`, rotations, Back, picker, process death | is the location shown, does an activity show only its own? | holds, 298 200 states |
| `lifecycle_crash` | `Spec` | is the map used only once it is ready (`MapsActivity.java:88`)? | refuted |
| `backend` | `FairSpec`, connections fail, processes end | is a request answered once, at the resolution the app expects, and which ones wait for ever? | holds, 14 800 states |
| `ios_live` | `FairSpec`, either user, crime requests fail | does the indicator stop and never turn for nothing, is what is stored drawn, does a patient user end with exactly the last answer? | holds, 448 000 states |
| `ios_cast` | `Spec` | does the cast of `MapViewController.swift:356` hold? | refuted |

### What the safety run of the Android app shows

Per connection, cancelling on the main thread is enough: there is one live
request (`OneLiveRequest`), the markers implement `LatestWins`
(`MarkersLatestWins`), and once the newest request is answered the button,
the recorded position and the sheet's behaviour all fit the markers
(`NewestBatchFitsScreen`). The same two facts hold of the sheet
(`SheetListFitsTitle`, `SheetLatestWins`), whose requests are sent by taps and by
the search loops of an answer and of the heat map switch. While the renderer works,
the map may show markers of a batch that has been replaced, or markers under a heat
map: a snapshot taken before is drawn after the clear. Once the renderer rests there
is nothing on the map but the saved batch, in the mode chosen
(`MapSettlesOnMarkerList`), because each `clearMap` ends in a `cluster()` of its own;
without it such markers would stay (the mutant `ClearMapUnclustered`).
No request disappears on the way (`AnswersNotLost`): it is saved and handed to the
map in the mode chosen, it fails, or its own connection, while it is the one in
use, has cancelled it for a newer one. That it is then drawn is `LastAnswerShown`,
of the liveness run. Not promised, and not true: that markers come back when a heat
map is turned off. The renderer remembers what it drew before `GoogleMap.clear`, and
where no empty snapshot was drawn in between it does not add those markers again.
Across connections nothing is guaranteed, which is the first refuted run.

`StepsOfLifecycle` ties the two Android modules together. Seen through `Life`, the
screen is one ready activity of `MapsLifecycle` with at most one request for each
connection, and everything `MapsScreen` does to it is a step that module has. What
`MapsLifecycle` says of connections in a few words (a switch opens the next, an
error switches too, an answer takes the one request away) is therefore what the
detailed screen does. Only the steps are mapped: `MapsScreen` begins where
`onMapReady` has returned, which is not an initial state of `MapsLifecycle`.

### What the lookup run shows

A slow registry can outlast the 20 seconds of an attempt, and then the server
fetches the same pages twice at once, and a user who taps on leaves lookups
behind. That costs two lookups for each tap and no more (`TwoLookupsPerTap`);
they do not mix (`ListComplete`), none starts over or is served without a tap or a
time-out that asks for it (`LookupsAdvance`), they end (`LookupsEnd`), and the client neither
waits for ever (`TapSettles`) nor shows what an older tap asked for
(`ListLatestWins`), which is the assumption `MapsScreen` makes when it takes two
attempts as one request.

### What the life cycle run shows

Of three activities created one after another, the newest is the only one there
is, and although the presenters of the others go on receiving answers none of
them reaches its map (`OwnMarkersOnly`): the presenter keeps the view it was made
for. The switch is the one piece of state Android restores, and restoring it calls
its listener, which on a map that is not ready ends the program. The permission
may be answered to an activity other than the one that asked, before or after its
map is ready; the location is shown all the same (`MyLocationOnceGranted`,
`MyLocationComes`), because both handlers turn it on.

### What the backend run shows

The two programs choose a resolution each, from the same radius, with thresholds
written down twice, one of them in metres and the other in kilometres that have been
rounded. They agree at the boundary and on both sides of it
(`SheetWhereUnitPostcodes`): the largest float below 1000 becomes a float below 1.
A request is answered once at most, whatever ends first (`OneReply`). Two kinds
of requests are never answered, and `AnsweredUnlessStuck` says that there is no
third: queries of a process whose connection failed to open, and `/postcodes`
where the download broke off. Of the latter, `request.get` with
`request-promise-native` reports the error to a promise nobody waits for, and the
csv that the handler waits for never ends.

### What the iOS run shows

Of a patient user's taps only the last answer is kept, however the blocks and the
callback of that request interleave (`LoneAnswerShown`): it alone is stored and
weighed, and no marker of an older one is left on either view. It is shown on the
markers view, unless a picked place left `isCrime` behind, which then draws the
wrong array; a property answer is in the weights of the newest heat map layer; of a
crime answer on the heat map view the property says nothing, as the code gives it to
no layer. Where a request may fail, nothing of the answer before is left. For the
impatient user too, the indicator has a cause while it turns (`SpinnerHasCause`), and
what is stored has its drawing ahead of it until it is weighed (`StoredOnItsWay`);
the indicator's properties leave out property requests that fail. What the model
shows and no text speaks about: markers of a late block may lie on the heat map
view, and a heat map view chosen between a tap and its `emptyArrays` block loses its
layer until it is chosen again.

### The findings

1. *Outdated answers* (`maps_outdated`). Ask for house prices, switch to crimes,
   get the crimes, and then the late prices replace them under the crime button.
   `cancelAll` reaches only its own queue.
2. *Sheet over a district* (`maps_sheet_region`). Zoom in on districts that were
   drawn for a far camera: a tap now opens the sheet, and asks for the addresses
   of a district.
3. *Switching back* (`maps_switch_back`). Leave the failing backend by hand; its
   late error then toggles back *to* the backend.
4. *Page 0 twice* (`lookup_twice`). Every answer of `/addresses` of a postcode with
   sales lists the first page twice, and the last of the rounds fetches the page
   before the last one allowed.
5. *Crime markers on a near iOS map* (`ios_cast`). A tap traps in the forced cast.
6. *A map used before it is ready* (`lifecycle_crash`). Either button tapped
   before `onMapReady`, a heat map switch restored by a rotation, or a place
   picked while the screen was rotated, uses `mMap` while it is null.

### Bounds, and why they are enough

* `MaxMarkers = 3`, `MaxAddresses = 2`: three marker requests are needed for an
  answer of a left connection to cross two of the one in use, or for two
  switches with requests of all three connections outstanding; two address
  requests for one to cross another. Past a bound no handler that sends a
  request is enabled. The theorems of section 4 do not depend on them.
* Two cameras, near with a unit postcode and far with a district: the code
  compares positions for equality and radii with one threshold, and the sheet
  changes its title with the two. The liveness run has an *empty* answer far away,
  the case in which no marker is drawn.
* `AddressLookup.cfg`: two taps, so four lookups at most; a postcode with three
  pages and one with a single page, and `LoopLimit = 3` for the code's 50, so that lookups of the two
  end by the limit and by the empty page, are at different rounds at once, and the
  loop misses pages it cannot reach. The theorems hold for any number of each.
* `MaxActivities = 3`, `MaxSwitches = 2`: two destroyed activities whose requests
  are out at once, each with a connection of its own and one it has left. A third
  of a kind would only repeat the second.
* `Backend.cfg`: two processes, one of which may serve while the other waits, and
  two requests; the floats 1000, 40000 and 90000 or their next neighbours, on both
  sides of the first, where the two programs have to agree. The theorem holds for
  every float.
* iOS: `MaxRequests = 3` and `MaxPatient = 4` count requests sent or promised by a
  block, `MaxQueue = 2` blocks on the main queue when the user acts (the blocks
  the code itself queues are not limited). Four requests with a patient user
  reach every order of refresh, toggle and pick; three with an impatient one have
  two answers overtake each other around a third.

### Fairness

* Android: weak fairness for the answer of each marker and address request, for
  `onCameraIdle` and for the renderer's tasks. Volley bounds each attempt (20 s,
  `DefaultRetryPolicy`), the camera comes to rest, and a task of the renderer ends.
  Requests are numbered so that fairness is per request. A request that is
  cancelled is gone, which disables its action.
* Lookup: the registry answers each request with a page or an error (the code sets
  no timeout, so this is an assumption about the registry and the socket), an
  attempt without an answer times out, and a reply is read or dropped. Nothing
  makes an attempt succeed: `TapSettles` holds because attempts run out.
* Life cycle: the map of an activity becomes ready. No answer, no user and no
  permission is assumed.
* Backend: an attempt to connect ends either way, and so does a query that was
  sent; a download ends or breaks. Nothing makes a connection open, a query or a
  download succeed, or a process restart.
* iOS: the main queue drains, and each data task calls back (`URLSession` has a
  60 s timeout).
* Nothing is assumed of the user, who may stop, or never stop tapping.

`SpinnerStops` is checked with only crime requests failing: a property request
that fails leaves the indicator turning (`getPropertyData` has no such line).

## 4. What is proved

For every value of the constants: cameras, titles, answers, pages, radii,
numbers of processes, and every bound:

| theorem | says |
|---|---|
| `MapsScreenProofs!TypeCorrect` | `Spec => []TypeOK` |
| `MapSettlesInvariant` | `MapSettlesOnMarkerList`: a map whose renderer rests shows only the saved batch, in the chosen mode |
| `OneLiveRequestInvariant`, `BatchesInOrder`, `MarkerOrderInvariant` | `OneLiveRequest`, `MarkerOrder`, and all of it with `NewestBatchFitsScreen` |
| `MarkersImplementLatestWins` | the refinement `MarkersLatestWins` |
| `AddressesInOrder`, `SheetOrderInvariant` | `SheetOrder`, and with it `SheetListFitsTitle` |
| `SheetImplementsLatestWins` | the refinement `SheetLatestWins` |
| `MarkersNeverGoBack`, `SheetNeverGoesBack` | `Markers!ForwardOnly`, `Sheet!ForwardOnly`, by `ScreenMovesForward` |
| `NoAnswerLost` | the action property `AnswersNotLost`: to the map or the sheet, whichever sources fail |
| `ScreenStepsOfLifecycle` | `StepsOfLifecycle`: each step of the screen is a step of `MapsLifecycle` or a stutter |
| `LatestWinsProofs!ScreenMovesForward` | `LatestWins` never goes back within a feed |
| `AddressLookupProofs!TypeCorrect` | `TypeOK`, and a running lookup is below the limit |
| `ListCompleteInvariant` | `ListComplete`, with `LookupsApart` |
| `TwoLookupsPerTapInvariant` | `TwoLookupsPerTap` |
| `ListImplementsLatestWins` | the refinement `ListLatestWins` |
| `LookupsOnlyAdvance` | the action property `LookupsAdvance` |
| `ListNeverGoesBack` | `List!ForwardOnly`, by `ScreenMovesForward` |
| `MapsLifecycleProofs!TypeCorrect` | `TypeOK`: the activity on the screen is the newest one created |
| `MyLocationOnceGrantedInvariant` | a map that is ready shows the location once it may |
| `OwnMarkersOnlyInvariant` | no activity shows what another asked for |
| `BackendProofs!TypeCorrect`, `OneReplyInvariant` | `TypeOK`; a request has one answer at most, and none while its handler runs |
| `SheetWhereUnitPostcodesInvariant` | unit postcodes are sent exactly where the app opens the sheet, for every float of metres and its rounded kilometres |
| `MapViewControllerProofs!TypeCorrect` | `TypeOK`: each array holds at most one batch, of its own kind |
| `LoneAnswerShownInvariant` | for a user who waits only the last answer is kept and no older marker is left; the markers view shows it unless a picked place left `isCrime` behind, and nothing is said of a crime answer on the heat map view |
| `SpinnerHasCauseInvariant`, `StoredOnItsWayInvariant` | the indicator turns only while something is to come; a stored answer is weighed or on its way |

*The argument.* `NewestBatchFitsScreen` is not inductive: an answer makes the saved
batch the request it answers, so one must know what live requests carry
(`OneLiveRequest`); a new request must not coincide with the saved batch, so one
must know nothing is numbered above `nMarker` and no connection above
`handler.gen`; and "never goes back" needs the saved batch to be older than any
live request of its connection. `MarkerOrder` states these facts, and the three
together are inductive. Their one non-trivial step is that a new request leaves
its own connection with exactly itself outstanding (`CancelAll`), used by camera
moves, switches and errors alike. The sheet repeats the argument with
`SheetOrder`, and needs in addition that only house connections carry address
requests, so that a switch away and back starts a fresh generation. The two
refinements follow from the invariants: only an answer changes the saved
batch (the list), and it is newer than what it replaces.

`MapSettlesOnMarkerList` speaks of a renderer at rest, and is not inductive: drawing
the last snapshot brings the renderer to rest. `RendererFollows` adds that where no
ClusterTask is in flight the snapshot still to be drawn is that of the items as they
are. It holds because each handler that changes the items ends in `cluster()`.

For the lookups,
`Len(props) = i` and the page trailing the counter make "every page below" a
consequence of the positions. `LookupsApart` says so of each of the
concurrent lookups, and in addition that the request waited for is that of the
newest tap, alone, and newer than the list. `TwoLookupsPerTap` is counting:
`OneLookupPerAttempt` keeps one lookup for each attempt and none later than the
attempt that waits, so the lookups of a tap map one to one to two attempts.

`OwnMarkersOnly` needs to know that a request answered was sent by an activity
that existed: `RequestsOwned` (nobody asks on behalf of an activity not yet
created, nor of a connection the newest one has not built) and `OneScreen` make
it inductive. `OneReply` needs `Numbered`, since only a request above all
numbers so far is certain to be new. `SheetWhereUnitPostcodes` is an invariant
about every reply (`PricesFound`: it is from the collection of its radius) followed
by arithmetic (`KilometresKeepSide`): the quotient of a float below 1000 is rounded
to one below 1, that of another to 1 or above. On iOS the type
invariant carries the argument: an array holds at most one batch because an
answer replaces the array whole, and one of its own kind because the task that
stores it was made for that kind, whatever `isCrime` says by then.

`LoneAnswerShown` speaks of an idle screen only, and says nothing of how it came to
be idle. `InStages` does: a patient user's screen is at one stage of a request, nothing
asked yet (`Fresh`), a block that will empty the arrays (`Emptying`), a request on
the network (`Asking`), its answer stored but not announced (`Answered`), a block
that will draw it (`Drawing`), or the end, `Settled` or `Failed`; and beside the one
block of its stage the main queue holds nothing but `addMarkers` blocks of toggled
views, which may run at any time and leave the stage as it is (`QueueShapes`,
`QuietStep`). Each other action moves from one stage to the next, and `Settled`
and `Failed` are the two alternatives of the property.

*The safety half of liveness.* A leads-to is checked by TLC, but what usually breaks
one, a step after which nothing is left that could do the rest, is a matter of
safety and is proved: `SpinnerHasCause` for `SpinnerStops`, `StoredOnItsWay` for
`StoredIsDrawn`, `NoAnswerLost`
for `LastAnswerShown` and `LastAddressesShown`, `LookupsOnlyAdvance` for
`TapSettles` and `LookupsEnd`, `MyLocationOnceGranted` for `MyLocationComes`. The
two of the iOS screen rest on lemmas about the queue (`RangeOfStep`, `BlocksAdded`):
a step takes its block off the front and loses no other.

*From step to step.* `ScreenStepsOfLifecycle` needs `OneLiveRequest` (a connection is
mapped to one request or none, so answering one of two would not be a step of
`MapsLifecycle`), `MarkerOrder`, and `ConnectionsCounted`: every connection after the
first was built with a request, so `MaxMarkers` bounds the switches. `NoAnswerLost`
uses `MarkerOrder` where a switch asks on a new connection: no outstanding request
carries its generation yet, so its `cancelAll` cancels nothing.

*Assumptions.* `CamerasAssumption`, `TitlesAssumption`, `SourcesAssumption`,
`BoundsAssumption`, `LookupAssumption`, `LifecycleAssumption`,
`BackendAssumption`, `ControllerAssumption`: near cameras are cameras, the null
camera, the empty title and the missing radius are none, a radius is a normalised
float, every camera has an answer, each source answers or fails, the limits are numbers. TLC evaluates them
in every run.

*Only model-checked:* the liveness properties (`LastAnswerShown`,
`LastAddressesShown`, `TapSettles`, `LookupsEnd`, `MyLocationComes`,
`AnsweredUnlessStuck`, `SpinnerStops`, `StoredIsDrawn`). They rest on weak fairness,
so on ENABLED, which the prover does not handle. Every invariant and every
action property that a passing run checks is proved. The refuted properties need
no proof: TLC's counterexample is one.

## 5. Not modelled

* Which markers a *removed* marker's title still answers is the SDK's business;
  `SearchCollection` allows both outcomes and no property depends on it.
* Android with both sources down: each error switches and asks the other, for
  ever. Cut at the bound on requests.
* Android behaviours that are modelled and that nothing in the repository speaks
  about, so that no property does: the alert of a destroyed activity (the crash
  `window`), and `MainActivity` starting a new map screen when Back returns to it
  after a rotation.
* Which records lie in the bracket of a query. The app's radius is the larger of
  width and height of a region that may be tilted and rotated, the server turns it
  into degrees with rounded constants (`dbService.js:29`) and, to the east and west,
  the cosine of an angle in degrees taken for radians (`dbService.js:30`). An
  integer model would settle none of these. What the code says for itself:
  the bracket is half of the radius on each side, three quarters for sectors and
  unit postcodes, while `ServerConnection.java:43-44` promises the postcodes
  "within the radius". The two do not agree; no run checks it.
* iOS: the data race on the arrays, beyond reads and writes taken as whole. The
  code promises nothing for an impatient user, apart from what `ios_live` checks:
  a first location that comes after a switch to crimes draws house markers on the
  crime map.
* iOS list of prices: one request fills one array. On an error its indicator keeps
  turning, which a look at the code shows as well as a model.
* `process.env.PORT | 3000` (`server.js:7`), one expression.
* Facebook login (no route reaches it), iOS sign-up (its calls are commented out),
  the Android info window (no state), `getAverageAtPostcode` (deprecated, unused),
  `mongooseLocal`, `postcodeService.getPostcodeDetails` (unused), the iOS
  utilities, vendored libraries (`node_modules`, `Pods`)
  and assets.

## 6. Plan

Done: the Android screen and sheet with proofs, the abstract `LatestWins` with its
three refinements, `MapsScreen` as steps of `MapsLifecycle`, the lookup from end to
end with proofs, the Android life cycle, the backend's other routes and the iOS
screen, each with its runs and proofs.
Every safety property of a passing run is a theorem. What could come next:

1. `LatestWins` for a patient user of the iOS screen, from `InStages`.
2. The initial states too for `MapsScreen` in `MapsLifecycle`, by a history of what
   comes before `onMapReady`, and the composition for several activities.
3. `PropertyTableViewController`, should it get a second request.

Runs are kept few: a new question replaces or joins one that asks nearly the same.
