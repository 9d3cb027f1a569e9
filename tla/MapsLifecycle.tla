--------------------------- MODULE MapsLifecycle ---------------------------
(***************************************************************************)
(* The life of the Android app's activities around the map screen:         *)
(* MainActivity, which only starts MapsActivity; a MapsActivity that is    *)
(* destroyed and created again on every rotation; the steps before its map *)
(* is ready; the place picker and the permission dialog on top of it; and  *)
(* the requests of the presenters that destroyed activities leave behind.  *)
(*                                                                         *)
(* What happens on a map that is ready is MapsScreen; here a connection    *)
(* has a live marker request or not, and the markers saved and drawn are   *)
(* known by the connection that brought them.  Everything is on the main   *)
(* thread.                                                                 *)
(***************************************************************************)
EXTENDS Naturals

CONSTANTS
    MaxActivities,  \* bound: MapsActivities created in a behaviour
    MaxSwitches     \* bound: switches of the source in one of them

ASSUME LifecycleAssumption == MaxActivities \in Nat /\ MaxSwitches \in Nat

VARIABLES
    orientation,
    main,           \* MainActivity: the orientation it was created in, or that
                    \* there is none, or only its saved state
    maps,           \* the MapsActivity of the task, if any
    nMaps,          \* MapsActivities created so far
    picker,         \* the place picker covers the map screen
    killed,         \* ... and the process below it has been killed
    permission,     \* ACCESS_FINE_LOCATION
    dialog,         \* the permission dialog is on the screen
    requests,       \* connections with a marker request that is not delivered
    crashed

systemVars == <<orientation, picker, killed>>
permissionVars == <<permission, dialog>>
vars == <<systemVars, main, maps, nMaps, permissionVars, requests, crashed>>

Orientations == {"portrait", "landscape"}

\* A connection is known by the activity that built it and how many came before.
Connection == [act : 1 .. MaxActivities, gen : 0 .. MaxSwitches]
Activity == [id : 1 .. MaxActivities, orientation : Orientations,
             ready : BOOLEAN,                       \* mMap # null
             switch : BOOLEAN, heat : BOOLEAN,      \* switch1, heatMapEnabled
             button : BOOLEAN,                      \* the house icon
             crime : BOOLEAN, police : BOOLEAN,     \* crimeMapEnabled, the connection
             gen : 0 .. MaxSwitches,
             myLocation : BOOLEAN,
             markers : SUBSET Connection]           \* who brought the saved list

TypeOK ==
    /\ orientation \in Orientations
    /\ main \in Orientations \cup {"none", "saved"}
    /\ maps \subseteq Activity
    /\ \A a \in maps : a.id = nMaps         \* the newest, and no other
    /\ nMaps \in 0 .. MaxActivities
    /\ picker \in BOOLEAN
    /\ killed \in BOOLEAN
    /\ permission \in BOOLEAN
    /\ dialog \in BOOLEAN
    /\ requests \subseteq Connection
    /\ crashed \in {"no", "map", "window"}

Init ==
    /\ orientation = "portrait"
    /\ main = "none"
    /\ maps = {}
    /\ nMaps = 0
    /\ picker = FALSE
    /\ killed = FALSE
    /\ permission \in BOOLEAN
    /\ dialog = FALSE
    /\ requests = {}
    /\ crashed = "no"

-----------------------------------------------------------------------------
(* What the handlers do.                                                   *)

Conn(a) == [act |-> a.id, gen |-> a.gen]

\* On the screen, with nothing on top of it.
InFront(a) == a \in maps /\ ~picker /\ ~dialog /\ crashed = "no"

\* A new activity: both modes off, no map yet.
OnCreate(n, o) ==
    [id |-> n, orientation |-> o, ready |-> FALSE, switch |-> FALSE, heat |-> FALSE,
     button |-> FALSE, crime |-> FALSE, police |-> FALSE, gen |-> 0,
     myLocation |-> FALSE, markers |-> {}]

\* A switch that was on is turned on again, and its listener called: of the
\* state of the old activity nothing else is saved.
RestoreInstanceState(a, saved) ==
    [a EXCEPT !.switch = saved.switch, !.heat = saved.switch]

\* Mutant of StartMaps: the map screen left by Back is not destroyed.
StartMapsOnTop ==
    /\ nMaps < MaxActivities
    /\ nMaps' = nMaps + 1
    /\ maps' = maps \cup {OnCreate(nMaps + 1, orientation')}

StartMaps ==
    /\ nMaps < MaxActivities
    /\ nMaps' = nMaps + 1
    /\ maps' = {OnCreate(nMaps + 1, orientation')}

\* A MapsActivity takes the place of the one destroyed.  The listener of the
\* switch clears a map that is not there, and so does the result of the picker.
Recreate(saved, picked) ==
    /\ nMaps < MaxActivities
    /\ nMaps' = nMaps + 1
    /\ maps' = {RestoreInstanceState(OnCreate(nMaps + 1, orientation'), saved)}
    /\ crashed' = IF saved.switch \/ picked THEN "map" ELSE crashed

\* onClickSwitchMapSrc with switchDataSource: a new connection, and its request.  The
\* map is cleared, the saved list is not: the heat map switch draws it again.
SwitchMapSrc(a) ==
    [a EXCEPT !.button = ~a.crime, !.crime = ~a.crime, !.police = ~a.crime,
              !.gen = @ + 1]

-----------------------------------------------------------------------------
(* Activities come and go.                                                 *)

\* MainActivity starts the map screen whenever it is created.
Launch ==
    /\ crashed = "no"
    /\ main = "none"
    /\ main' = orientation
    /\ orientation' = orientation
    /\ StartMaps
    /\ UNCHANGED <<picker, killed, permissionVars, requests, crashed>>

\* There is no configChanges in the manifest: the map screen is built again, also
\* below the permission dialog, but only later if the picker covers it.
Rotate ==
    /\ crashed = "no"
    /\ orientation' \in Orientations \ {orientation}
    /\ \/ /\ picker
          /\ UNCHANGED <<main, maps, nMaps, crashed>>
       \/ /\ ~picker
          /\ \E a \in maps : Recreate(a, FALSE)
          /\ UNCHANGED main
       \/ /\ maps = {}
          /\ main # "none"
          /\ main' = orientation'
          /\ StartMaps
          /\ UNCHANGED crashed
    /\ UNCHANGED <<picker, killed, permissionVars, requests>>

\* Back destroys the map screen.  MainActivity comes to the front as it is, or is
\* created again if the device was rotated since, or its process killed.
BackFromMaps(a) ==
    /\ InFront(a)
    /\ orientation' = orientation
    /\ \/ /\ main = orientation
          /\ maps' = {}
          /\ UNCHANGED <<main, nMaps>>
       \/ /\ main # orientation
          /\ main' = orientation
          /\ StartMaps
    /\ UNCHANGED <<picker, killed, permissionVars, requests, crashed>>

BackFromMain ==
    /\ crashed = "no"
    /\ maps = {}
    /\ main # "none"
    /\ main' = "none"
    /\ UNCHANGED <<systemVars, maps, nMaps, permissionVars, requests, crashed>>

\* search_onclick
SearchTapped(a) ==
    /\ InFront(a)
    /\ picker' = TRUE
    /\ UNCHANGED <<orientation, killed, main, maps, nMaps, permissionVars, requests,
                   crashed>>

\* The system takes the memory of a process that is not in front: its requests are
\* gone, its activities' state is saved.
Kill ==
    /\ crashed = "no"
    /\ picker
    /\ ~dialog
    /\ killed' = TRUE
    /\ main' = "saved"
    /\ requests' = {}
    /\ UNCHANGED <<orientation, picker, maps, nMaps, permissionVars, crashed>>

\* The picker closes, with a place or without.  An activity that is out of date is
\* created again first.  onActivityResult moves the camera.
PickerReturns(a, picked) ==
    /\ crashed = "no"
    /\ a \in maps
    /\ picker
    /\ ~dialog
    /\ picker' = FALSE
    /\ killed' = FALSE
    /\ orientation' = orientation
    /\ \/ /\ killed \/ a.orientation # orientation
          /\ Recreate(a, picked)
       \/ /\ ~killed
          /\ a.orientation = orientation
          /\ crashed' = IF picked /\ ~a.ready THEN "map" ELSE crashed
          /\ UNCHANGED <<maps, nMaps>>
    /\ UNCHANGED <<main, permissionVars, requests>>

-----------------------------------------------------------------------------
(* The map and the permission.                                             *)

\* Mutant of OnMapReady: mMap is assigned after enableMyLocation.
OnMapReadyTooLate(a) ==
    /\ crashed = "no"
    /\ ~killed
    /\ a \in maps
    /\ ~a.ready
    /\ maps' = {[a EXCEPT !.ready = TRUE]}
    /\ dialog' = (dialog \/ ~permission)
    /\ UNCHANGED <<systemVars, main, nMaps, permission, requests, crashed>>

\* onMapReady, with enableMyLocation.  A dialog that is on the screen already is
\* not shown a second time.
OnMapReady(a) ==
    /\ crashed = "no"
    /\ ~killed
    /\ a \in maps
    /\ ~a.ready
    /\ maps' = {[a EXCEPT !.ready = TRUE, !.myLocation = permission]}
    /\ dialog' = (dialog \/ ~permission)
    /\ UNCHANGED <<systemVars, main, nMaps, permission, requests, crashed>>

\* Mutant of OnRequestPermissionsResult: the grant is left for the next onMapReady.
OnRequestPermissionsResultLater(granted) ==
    /\ crashed = "no"
    /\ dialog
    /\ dialog' = FALSE
    /\ permission' = granted
    /\ UNCHANGED <<systemVars, main, nMaps, maps, requests, crashed>>

\* The answer goes to the activity that is there now, whose map may not be ready.
OnRequestPermissionsResult(granted) ==
    /\ crashed = "no"
    /\ dialog
    /\ dialog' = FALSE
    /\ permission' = granted
    /\ maps' = {[a EXCEPT !.myLocation = @ \/ (granted /\ a.ready)] : a \in maps}
    /\ UNCHANGED <<systemVars, main, nMaps, requests, crashed>>

\* The camera comes to rest where it was not before.
OnCameraIdle(a) ==
    /\ crashed = "no"
    /\ ~killed
    /\ a \in maps
    /\ a.ready
    /\ requests' = requests \cup {Conn(a)}
    /\ UNCHANGED <<systemVars, main, maps, nMaps, permissionVars, crashed>>

\* onClickSwitchMapSrc from the button: the variable and the icon change before the
\* map is cleared, and stay changed where there is none to clear.
SwitchTapped(a) ==
    /\ InFront(a)
    /\ a.gen < MaxSwitches
    /\ IF a.ready
       THEN /\ maps' = {SwitchMapSrc(a)}
            /\ requests' = requests \cup {Conn(SwitchMapSrc(a))}
            /\ UNCHANGED crashed
       ELSE /\ maps' = {[a EXCEPT !.button = ~a.crime, !.crime = ~a.crime]}
            /\ crashed' = "map"
            /\ UNCHANGED requests
    /\ UNCHANGED <<systemVars, main, nMaps, permissionVars>>

\* onCheckedChanged
HeatTapped(a) ==
    /\ InFront(a)
    /\ maps' = {[a EXCEPT !.switch = ~@, !.heat = ~a.switch]}
    /\ crashed' = IF a.ready THEN crashed ELSE "map"
    /\ UNCHANGED <<systemVars, main, nMaps, permissionVars, requests>>

-----------------------------------------------------------------------------
(* Answers.  A connection does not know whether its activity is destroyed. *)

\* Mutant of MarkerResponse: a presenter that outlives its activity.
MarkerResponseShared(c) ==
    /\ crashed = "no"
    /\ c \in requests
    /\ requests' = requests \ {c}
    /\ maps' = {[a EXCEPT !.markers = {c}] : a \in maps}
    /\ UNCHANGED <<systemVars, main, nMaps, permissionVars, crashed>>

\* displayMarkers of the presenter, on the view it was made for.
MarkerResponse(c) ==
    /\ crashed = "no"
    /\ c \in requests
    /\ requests' = requests \ {c}
    /\ maps' = {IF a.id = c.act THEN [a EXCEPT !.markers = {c}] ELSE a : a \in maps}
    /\ UNCHANGED <<systemVars, main, nMaps, permissionVars, crashed>>

\* onResponseError: an alert and a switch of the source, or an alert that belongs to
\* a destroyed activity, whose window cannot be added.
MarkerError(c) ==
    /\ crashed = "no"
    /\ c \in requests
    /\ \/ \E a \in maps :
            /\ a.id = c.act
            /\ a.gen < MaxSwitches
            /\ maps' = {SwitchMapSrc(a)}
            /\ requests' = (requests \ {c}) \cup {Conn(SwitchMapSrc(a))}
            /\ UNCHANGED crashed
       \/ /\ \A a \in maps : a.id # c.act
          /\ requests' = requests \ {c}
          /\ crashed' = "window"
          /\ UNCHANGED maps
    /\ UNCHANGED <<systemVars, main, nMaps, permissionVars>>

-----------------------------------------------------------------------------
System ==
    \/ Rotate
    \/ Kill
    \/ \E a \in maps : OnMapReady(a)
    \/ \E a \in maps : OnCameraIdle(a)
    \/ \E c \in requests : MarkerResponse(c)
    \/ \E c \in requests : MarkerError(c)

User ==
    \/ Launch
    \/ \E a \in maps : BackFromMaps(a)
    \/ BackFromMain
    \/ \E a \in maps : SearchTapped(a)
    \/ \E a \in maps, picked \in BOOLEAN : PickerReturns(a, picked)
    \/ \E granted \in BOOLEAN : OnRequestPermissionsResult(granted)
    \/ \E a \in maps : SwitchTapped(a)
    \/ \E a \in maps : HeatTapped(a)

Next == System \/ User

Spec == Init /\ [][Next]_vars

\* The map of an activity gets ready some time.  Nothing else is assumed.
FairSpec == Spec /\ WF_vars(\E a \in maps : OnMapReady(a))

-----------------------------------------------------------------------------
(* Properties.                                                             *)

\* Once the dialog is answered and the map is ready, in whatever order and whichever
\* activity asked, the map shows the user's location if it may (enableMyLocation,
\* which both onMapReady and onRequestPermissionsResult call).
MyLocationOnceGranted ==
    permission /\ ~dialog => \A a \in maps : a.ready => a.myLocation

\* Presenters of destroyed activities go on receiving answers, and draw none of them
\* on the map that has taken the place of theirs (MapsPresenter.view).
OwnMarkersOnly ==
    \A a \in maps : \A c \in a.markers : c.act = a.id /\ c.gen <= a.gen

\* The grant reaches the screen, however often the activity is created again before
\* its map is ready.
MyLocationComes ==
    permission /\ maps # {}
        ~> (\E a \in maps : a.myLocation) \/ maps = {} \/ killed \/ crashed # "no"

\* MapsActivity.java:88 "get notified when the map is ready to be used": the map is
\* not used before that.
MapUsedOnceReady == crashed # "map"

=============================================================================
