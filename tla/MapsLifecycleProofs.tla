------------------------ MODULE MapsLifecycleProofs ------------------------
(***************************************************************************)
(* Theorems about MapsLifecycle, for every number of activities and of     *)
(* switches.                                                               *)
(***************************************************************************)
EXTENDS MapsLifecycle, TLAPS

\* What the properties say of one activity.
Located(a) == a.ready => a.myLocation
Owns(a) == \A c \in a.markers : c.act = a.id /\ c.gen <= a.gen

-----------------------------------------------------------------------------
(* The operators on activities.                                            *)

\* An activity just created, its state restored or not, is empty and in order.
LEMMA CreatedActivity ==
    ASSUME NEW n \in 1 .. MaxActivities, NEW o \in Orientations,
           NEW saved, saved.switch \in BOOLEAN,
           NEW b \in {OnCreate(n, o), RestoreInstanceState(OnCreate(n, o), saved)}
    PROVE  /\ b \in Activity
           /\ b.id = n
           /\ Located(b) /\ Owns(b)
<1>1. OnCreate(n, o) \in Activity
  BY LifecycleAssumption DEF OnCreate, Activity
<1>3. RestoreInstanceState(OnCreate(n, o), saved) \in Activity
  BY <1>1 DEF RestoreInstanceState, Activity
<1>4. CASE b = OnCreate(n, o)
  <2>1. b.id = n /\ b.ready = FALSE /\ b.markers = {}
    BY <1>4 DEF OnCreate
  <2>. QED BY <1>1, <1>4, <2>1 DEF Located, Owns
<1>5. CASE b = RestoreInstanceState(OnCreate(n, o), saved)
  <2>1. b.id = n /\ b.ready = FALSE /\ b.markers = {}
    BY <1>5 DEF RestoreInstanceState, OnCreate
  <2>. QED BY <1>3, <1>5, <2>1 DEF Located, Owns
<1>. QED BY <1>4, <1>5

\* A switch of the source changes nothing but the copies of it and the connection.
LEMMA SwitchedActivity ==
    ASSUME NEW a \in Activity, a.gen < MaxSwitches
    PROVE  /\ SwitchMapSrc(a) \in Activity
           /\ Conn(SwitchMapSrc(a)) \in Connection
           /\ Conn(SwitchMapSrc(a)) = [act |-> a.id, gen |-> a.gen + 1]
           /\ SwitchMapSrc(a).id = a.id
           /\ SwitchMapSrc(a).gen = a.gen + 1
           /\ SwitchMapSrc(a).markers = a.markers
           /\ SwitchMapSrc(a).ready = a.ready
           /\ SwitchMapSrc(a).myLocation = a.myLocation
<1>1. a.gen \in Nat /\ a.gen + 1 \in 0 .. MaxSwitches /\ a.id \in 1 .. MaxActivities
  BY LifecycleAssumption DEF Activity
<1>2. a.crime \in BOOLEAN
  BY DEF Activity
<1>3. SwitchMapSrc(a) \in Activity
  BY <1>1, <1>2 DEF SwitchMapSrc, Activity
<1>4. /\ SwitchMapSrc(a).id = a.id
      /\ SwitchMapSrc(a).gen = a.gen + 1
      /\ SwitchMapSrc(a).markers = a.markers
      /\ SwitchMapSrc(a).ready = a.ready
      /\ SwitchMapSrc(a).myLocation = a.myLocation
  BY <1>1 DEF SwitchMapSrc, Activity
<1>. QED BY <1>1, <1>3, <1>4 DEF Conn, Connection

\* A switch cut short by a crash changes the variable and the icon only.
CutShort(a) == [a EXCEPT !.button = ~a.crime, !.crime = ~a.crime]

LEMMA CutShortActivity ==
    ASSUME NEW a \in Activity
    PROVE  /\ CutShort(a) \in Activity
           /\ CutShort(a).id = a.id /\ CutShort(a).gen = a.gen
           /\ CutShort(a).ready = a.ready /\ CutShort(a).myLocation = a.myLocation
           /\ CutShort(a).markers = a.markers
  BY DEF CutShort, Activity

-----------------------------------------------------------------------------
(* Types.                                                                  *)

\* Whatever creates a map screen, it is the newest one, empty and in order.
LEMMA CreatedMaps ==
    ASSUME TypeOK, orientation' \in Orientations,
           StartMaps \/ \E a \in maps, picked \in BOOLEAN : Recreate(a, picked)
    PROVE  /\ nMaps' = nMaps + 1
           /\ nMaps' \in 0 .. MaxActivities
           /\ maps' \subseteq Activity
           /\ \A b \in maps' : b.id = nMaps' /\ Located(b) /\ Owns(b)
<1>1. nMaps' = nMaps + 1 /\ nMaps' \in 1 .. MaxActivities
  BY LifecycleAssumption DEF TypeOK, StartMaps, Recreate
<1>2. PICK n, o : n = nMaps' /\ o = orientation'
  OBVIOUS
<1>3. n \in 1 .. MaxActivities /\ o \in Orientations
  BY <1>1, <1>2
<1>4. PICK saved : /\ saved.switch \in BOOLEAN
                   /\ maps' \subseteq {OnCreate(n, o), RestoreInstanceState(OnCreate(n, o), saved)}
  <2>1. CASE StartMaps
    <3>1. PICK saved : saved = [switch |-> FALSE]
      OBVIOUS
    <3>2. saved.switch \in BOOLEAN
      BY <3>1
    <3>3. maps' = {OnCreate(n, o)}
      BY <2>1, <1>1, <1>2 DEF StartMaps
    <3>. QED BY <3>2, <3>3
  <2>2. ASSUME NEW a \in maps, NEW picked \in BOOLEAN, Recreate(a, picked)
        PROVE  \E saved : /\ saved.switch \in BOOLEAN
                          /\ maps' \subseteq {OnCreate(n, o),
                                              RestoreInstanceState(OnCreate(n, o), saved)}
    <3>1. a.switch \in BOOLEAN
      BY DEF TypeOK, Activity
    <3>. QED BY <2>2, <3>1, <1>1, <1>2 DEF Recreate
  <2>. QED BY <2>1, <2>2
<1>5. \A b \in maps' : b \in Activity /\ b.id = n /\ Located(b) /\ Owns(b)
  BY <1>3, <1>4, CreatedActivity
<1>. QED BY <1>1, <1>2, <1>5

\* Of the steps, which create a map screen and what the others leave alone.
LEMMA CreatingSteps ==
    ASSUME TypeOK,
           Launch \/ Rotate \/ \E a \in maps : \/ BackFromMaps(a)
                                               \/ \E picked \in BOOLEAN : PickerReturns(a, picked)
    PROVE  /\ orientation' \in Orientations
           /\ UNCHANGED <<permissionVars, requests>>
           /\ \/ StartMaps
              \/ \E a \in maps, picked \in BOOLEAN : Recreate(a, picked)
              \/ maps' \subseteq maps /\ nMaps' = nMaps
<1>. DEFINE Shape == /\ orientation' \in Orientations
                    /\ UNCHANGED <<permissionVars, requests>>
                    /\ \/ StartMaps
                       \/ \E a \in maps, picked \in BOOLEAN : Recreate(a, picked)
                       \/ maps' \subseteq maps /\ nMaps' = nMaps
<1>1. ASSUME Launch
      PROVE  Shape
  BY <1>1 DEF Launch, TypeOK
<1>2. ASSUME Rotate
      PROVE  Shape
  BY <1>2 DEF Rotate, TypeOK
<1>3. ASSUME NEW a \in maps, BackFromMaps(a)
      PROVE  Shape
  BY <1>3 DEF BackFromMaps, TypeOK
<1>4. ASSUME NEW a \in maps, NEW picked \in BOOLEAN, PickerReturns(a, picked)
      PROVE  Shape
  BY <1>4 DEF PickerReturns, TypeOK
<1>5. Shape
  <2>. HIDE DEF Shape
  <2>. QED BY <1>1, <1>2, <1>3, <1>4
<1>. QED BY <1>5

\* Every activity keeps its type, and the only one there is is the last created
\* (MapsActivity, MainActivity).
THEOREM TypeCorrect == Spec => []TypeOK
<1>1. Init => TypeOK
  <2>. SUFFICES ASSUME Init PROVE TypeOK
    OBVIOUS
  <2>1. nMaps \in 0 .. MaxActivities
    BY LifecycleAssumption DEF Init
  <2>2. /\ orientation \in Orientations
        /\ main \in Orientations \cup {"none", "saved"}
        /\ crashed \in {"no", "map", "window"}
    BY DEF Init, Orientations
  <2>3. maps \subseteq Activity /\ (\A a \in maps : a.id = nMaps) /\ requests \subseteq Connection
    BY DEF Init
  <2>4. picker \in BOOLEAN /\ killed \in BOOLEAN /\ permission \in BOOLEAN /\ dialog \in BOOLEAN
    BY DEF Init
  <2>. QED BY <2>1, <2>2, <2>3, <2>4 DEF TypeOK
<1>2. TypeOK /\ [Next]_vars => TypeOK'
  <2>. SUFFICES ASSUME TypeOK, [Next]_vars PROVE TypeOK'
    OBVIOUS
  <2>0. CASE UNCHANGED vars
    BY <2>0 DEF vars, systemVars, permissionVars, TypeOK
  <2>1. CASE Launch \/ Rotate \/ \E a \in maps : \/ BackFromMaps(a)
                                                 \/ \E picked \in BOOLEAN : PickerReturns(a, picked)
    <3>1. /\ orientation' \in Orientations
          /\ UNCHANGED <<permissionVars, requests>>
          /\ maps' \subseteq Activity
          /\ \A a \in maps' : a.id = nMaps'
          /\ nMaps' \in 0 .. MaxActivities
      BY <2>1, CreatingSteps, CreatedMaps DEF TypeOK
    <3>2. /\ main' \in Orientations \cup {"none", "saved"}
          /\ picker' \in BOOLEAN /\ killed' \in BOOLEAN
          /\ crashed' \in {"no", "map", "window"}
      BY <2>1 DEF TypeOK, Launch, Rotate, BackFromMaps, PickerReturns, Recreate
    <3>. QED BY <3>1, <3>2 DEF TypeOK, permissionVars
  <2>2. ASSUME NEW a \in maps, SwitchTapped(a)
        PROVE  TypeOK'
    <3>1. a \in Activity /\ a.id = nMaps
      BY DEF TypeOK
    <3>2. CASE a.ready
      BY <2>2, <3>1, <3>2, SwitchedActivity
         DEF SwitchTapped, systemVars, permissionVars, TypeOK
    <3>3. CASE ~a.ready
      <4>1. maps' = {CutShort(a)} /\ crashed' = "map" /\ requests' = requests
        BY <2>2, <3>3 DEF SwitchTapped, CutShort
      <4> QED
        BY <2>2, <3>1, <4>1, CutShortActivity
           DEF SwitchTapped, systemVars, permissionVars, TypeOK
    <3>. QED BY <3>2, <3>3
  <2>3. ASSUME NEW c \in requests, MarkerError(c)
        PROVE  TypeOK'
    BY <2>3, SwitchedActivity DEF MarkerError, systemVars, permissionVars, TypeOK
  <2>4. ASSUME NEW c \in requests, MarkerResponse(c)
        PROVE  TypeOK'
    <3>1. \A a \in maps : /\ [a EXCEPT !.markers = {c}] \in Activity
                          /\ [a EXCEPT !.markers = {c}].id = a.id
      BY DEF TypeOK, Activity
    <3>. QED BY <2>4, <3>1 DEF MarkerResponse, systemVars, permissionVars, TypeOK
  <2>5. ASSUME NEW a \in maps, OnMapReady(a)
        PROVE  TypeOK'
    <3>1. /\ [a EXCEPT !.ready = TRUE, !.myLocation = permission] \in Activity
          /\ [a EXCEPT !.ready = TRUE, !.myLocation = permission].id = a.id
      BY DEF TypeOK, Activity
    <3>. QED BY <2>5, <3>1 DEF OnMapReady, systemVars, permissionVars, TypeOK
  <2>6. ASSUME NEW granted \in BOOLEAN, OnRequestPermissionsResult(granted)
        PROVE  TypeOK'
    <3>1. \A a \in maps :
            /\ [a EXCEPT !.myLocation = @ \/ (granted /\ a.ready)] \in Activity
            /\ [a EXCEPT !.myLocation = @ \/ (granted /\ a.ready)].id = a.id
      BY DEF TypeOK, Activity
    <3>. QED BY <2>6, <3>1 DEF OnRequestPermissionsResult, systemVars, TypeOK
  <2>7. ASSUME NEW a \in maps, HeatTapped(a)
        PROVE  TypeOK'
    <3>1. /\ [a EXCEPT !.switch = ~@, !.heat = ~a.switch] \in Activity
          /\ [a EXCEPT !.switch = ~@, !.heat = ~a.switch].id = a.id
      BY DEF TypeOK, Activity
    <3>. QED BY <2>7, <3>1 DEF HeatTapped, systemVars, permissionVars, TypeOK
  <2>8. ASSUME NEW a \in maps, OnCameraIdle(a)
        PROVE  TypeOK'
    <3>1. Conn(a) \in Connection
      BY DEF TypeOK, Activity, Conn, Connection
    <3>. QED BY <2>8, <3>1 DEF OnCameraIdle, systemVars, permissionVars, TypeOK
  <2>9. CASE BackFromMain \/ Kill \/ \E a \in maps : SearchTapped(a)
    BY <2>9 DEF BackFromMain, Kill, SearchTapped, systemVars, permissionVars, TypeOK
  <2>. QED
    BY <2>0, <2>1, <2>2, <2>3, <2>4, <2>5, <2>6, <2>7, <2>8, <2>9 DEF Next, System, User
<1>. QED BY <1>1, <1>2, PTL DEF Spec

-----------------------------------------------------------------------------
(* The permission.                                                         *)

\* In whatever order the dialog is answered, the map gets ready and the activity is
\* created again, the location is shown once it may be (enableMyLocation).
THEOREM MyLocationOnceGrantedInvariant == Spec => []MyLocationOnceGranted
<1>1. Init => MyLocationOnceGranted
  BY DEF Init, MyLocationOnceGranted
<1>2. TypeOK /\ MyLocationOnceGranted /\ [Next]_vars => MyLocationOnceGranted'
  <2>. SUFFICES ASSUME TypeOK, MyLocationOnceGranted, [Next]_vars,
                       permission', ~dialog', NEW b \in maps'
                PROVE  Located(b)
    BY DEF MyLocationOnceGranted, Located
  <2>0. CASE UNCHANGED vars
    BY <2>0 DEF vars, permissionVars, MyLocationOnceGranted, Located
  <2>1. CASE Launch \/ Rotate \/ \E a \in maps : \/ BackFromMaps(a)
                                                 \/ \E picked \in BOOLEAN : PickerReturns(a, picked)
    BY <2>1, CreatingSteps, CreatedMaps DEF permissionVars, MyLocationOnceGranted, Located
  <2>2. ASSUME NEW a \in maps, SwitchTapped(a)
        PROVE  Located(b)
    <3>1. a \in Activity
      BY DEF TypeOK
    <3>2. Located(a)
      BY <2>2 DEF SwitchTapped, permissionVars, MyLocationOnceGranted, Located
    <3>3. (a.gen < MaxSwitches /\ b = SwitchMapSrc(a)) \/ b = CutShort(a)
      BY <2>2 DEF SwitchTapped, CutShort
    <3>. QED BY <3>1, <3>2, <3>3, SwitchedActivity, CutShortActivity DEF Located
  <2>3. ASSUME NEW c \in requests, MarkerError(c)
        PROVE  Located(b)
    <3>1. b \in maps \/ \E a \in maps : a.gen < MaxSwitches /\ b = SwitchMapSrc(a)
      BY <2>3 DEF MarkerError
    <3>2. ASSUME NEW a \in maps, a.gen < MaxSwitches, b = SwitchMapSrc(a)
          PROVE  Located(b)
      <4>1. a \in Activity
        BY DEF TypeOK
      <4>2. Located(a)
        BY <2>3 DEF MarkerError, permissionVars, MyLocationOnceGranted, Located
      <4>. QED BY <3>2, <4>1, <4>2, SwitchedActivity DEF Located
    <3>. QED BY <2>3, <3>1, <3>2 DEF MarkerError, permissionVars, MyLocationOnceGranted, Located
  <2>4. ASSUME NEW c \in requests, MarkerResponse(c)
        PROVE  Located(b)
    <3>1. PICK a \in maps : b = a \/ b = [a EXCEPT !.markers = {c}]
      BY <2>4 DEF MarkerResponse
    <3>2. Located(a)
      BY <2>4 DEF MarkerResponse, permissionVars, MyLocationOnceGranted, Located
    <3>3. a \in Activity
      BY DEF TypeOK
    <3>. QED BY <3>1, <3>2, <3>3 DEF Located, Activity
  <2>5. ASSUME NEW a \in maps, OnMapReady(a)
        PROVE  Located(b)
    <3>1. b = [a EXCEPT !.ready = TRUE, !.myLocation = permission]
      BY <2>5 DEF OnMapReady
    <3>2. permission
      BY <2>5 DEF OnMapReady
    <3>3. a \in Activity
      BY DEF TypeOK
    <3>. QED BY <3>1, <3>2, <3>3 DEF Located, Activity
  <2>6. ASSUME NEW granted \in BOOLEAN, OnRequestPermissionsResult(granted)
        PROVE  Located(b)
    <3>1. PICK a \in maps : b = [a EXCEPT !.myLocation = @ \/ (granted /\ a.ready)]
      BY <2>6 DEF OnRequestPermissionsResult
    <3>2. granted
      BY <2>6 DEF OnRequestPermissionsResult
    <3>3. a \in Activity
      BY DEF TypeOK
    <3>. QED BY <3>1, <3>2, <3>3 DEF Located, Activity
  <2>7. ASSUME NEW a \in maps, HeatTapped(a)
        PROVE  Located(b)
    <3>1. b = [a EXCEPT !.switch = ~@, !.heat = ~a.switch]
      BY <2>7 DEF HeatTapped
    <3>2. Located(a)
      BY <2>7 DEF HeatTapped, permissionVars, MyLocationOnceGranted, Located
    <3>3. a \in Activity
      BY DEF TypeOK
    <3>. QED BY <3>1, <3>2, <3>3 DEF Located, Activity
  <2>8. CASE BackFromMain \/ Kill \/ \E a \in maps : SearchTapped(a) \/ OnCameraIdle(a)
    BY <2>8 DEF BackFromMain, Kill, SearchTapped, OnCameraIdle, permissionVars,
                MyLocationOnceGranted, Located
  <2>. QED
    BY <2>0, <2>1, <2>2, <2>3, <2>4, <2>5, <2>6, <2>7, <2>8 DEF Next, System, User
<1>. QED BY <1>1, <1>2, TypeCorrect, PTL DEF Spec

-----------------------------------------------------------------------------
(* The markers.                                                            *)

\* What a step makes of an activity: a newer state of the same one.
Follows(a, b) ==
    /\ b.id = a.id
    /\ a.gen \in Nat /\ b.gen \in Nat /\ a.gen <= b.gen
    /\ \/ b.markers = a.markers
       \/ \E c \in requests : c.act = a.id /\ b.markers = {c}

\* After every step an activity is created just now, or follows one there was.
LEMMA ActivitySteps ==
    ASSUME TypeOK, [Next]_vars, NEW b \in maps'
    PROVE  \/ /\ nMaps' = nMaps + 1 /\ b.id = nMaps'
              /\ requests' = requests
              /\ Owns(b)
           \/ /\ nMaps' = nMaps
              /\ \E a \in maps : Follows(a, b)
<1>. DEFINE Goal == \/ /\ nMaps' = nMaps + 1 /\ b.id = nMaps'
                       /\ requests' = requests
                       /\ Owns(b)
                    \/ /\ nMaps' = nMaps
                       /\ \E a \in maps : Follows(a, b)
<1>a. \A a \in maps : a \in Activity /\ a.gen \in Nat
  BY LifecycleAssumption DEF TypeOK, Activity
<1>b. \A a \in maps : Follows(a, a)
  BY <1>a DEF Follows
<1>0. ASSUME UNCHANGED <<maps, nMaps>>
      PROVE  Goal
  BY <1>0, <1>b
<1>1. ASSUME Launch \/ Rotate \/ \E a \in maps : \/ BackFromMaps(a)
                                                 \/ \E picked \in BOOLEAN : PickerReturns(a, picked)
      PROVE  Goal
  BY <1>1, <1>b, CreatingSteps, CreatedMaps
<1>2. ASSUME NEW a \in maps, a.gen < MaxSwitches, b = SwitchMapSrc(a), nMaps' = nMaps
      PROVE  Goal
  <2>1. Follows(a, b)
    BY <1>a, <1>2, SwitchedActivity DEF Follows
  <2>. QED BY <1>2, <2>1
<1>3. ASSUME NEW a \in maps, SwitchTapped(a)
      PROVE  Goal
  <2>1. CASE a.ready
    BY <1>2, <1>3, <2>1 DEF SwitchTapped
  <2>2. CASE ~a.ready
    <3>1. b = CutShort(a) /\ nMaps' = nMaps
      BY <1>3, <2>2 DEF SwitchTapped, CutShort
    <3>2. Follows(a, b)
      BY <1>a, <3>1, CutShortActivity DEF Follows
    <3>. QED BY <3>1, <3>2
  <2>. QED BY <2>1, <2>2
<1>4. ASSUME NEW c \in requests, MarkerError(c)
      PROVE  Goal
  BY <1>0, <1>2, <1>4 DEF MarkerError
<1>5. ASSUME NEW c \in requests, MarkerResponse(c)
      PROVE  Goal
  <2>1. PICK a \in maps : b = a \/ (a.id = c.act /\ b = [a EXCEPT !.markers = {c}])
    BY <1>5 DEF MarkerResponse
  <2>2. Follows(a, b)
    BY <1>a, <1>b, <2>1 DEF Follows, Activity
  <2>. QED BY <1>5, <2>2 DEF MarkerResponse
<1>6. ASSUME NEW a \in maps, OnMapReady(a)
      PROVE  Goal
  <2>1. b = [a EXCEPT !.ready = TRUE, !.myLocation = permission]
    BY <1>6 DEF OnMapReady
  <2>2. Follows(a, b)
    BY <1>a, <2>1 DEF Follows, Activity
  <2>. QED BY <1>6, <2>2 DEF OnMapReady
<1>7. ASSUME NEW granted \in BOOLEAN, OnRequestPermissionsResult(granted)
      PROVE  Goal
  <2>1. PICK a \in maps : b = [a EXCEPT !.myLocation = @ \/ (granted /\ a.ready)]
    BY <1>7 DEF OnRequestPermissionsResult
  <2>2. Follows(a, b)
    BY <1>a, <2>1 DEF Follows, Activity
  <2>. QED BY <1>7, <2>2 DEF OnRequestPermissionsResult
<1>8. ASSUME NEW a \in maps, HeatTapped(a)
      PROVE  Goal
  <2>1. b = [a EXCEPT !.switch = ~@, !.heat = ~a.switch]
    BY <1>8 DEF HeatTapped
  <2>2. Follows(a, b)
    BY <1>a, <2>1 DEF Follows, Activity
  <2>. QED BY <1>8, <2>2 DEF HeatTapped
<1>9. ASSUME \/ BackFromMain \/ Kill \/ UNCHANGED vars
             \/ \E a \in maps : SearchTapped(a) \/ OnCameraIdle(a)
      PROVE  Goal
  BY <1>0, <1>9 DEF BackFromMain, Kill, SearchTapped, OnCameraIdle, vars
<1>10. Goal
  <2>. HIDE DEF Goal
  <2>. QED
    BY <1>1, <1>3, <1>4, <1>5, <1>6, <1>7, <1>8, <1>9 DEF Next, System, User
<1>. QED BY <1>10

\* One map screen at most, and no request of a connection that is still to be built.
OneScreen == \A a, b \in maps : a = b
RequestsOwned ==
    \A c \in requests : c.act <= nMaps /\ \A a \in maps : c.act = a.id => c.gen <= a.gen

\* No step puts a second map screen beside the one there is.
LEMMA OneScreenSteps ==
    ASSUME OneScreen, [Next]_vars
    PROVE  OneScreen'
<1>1. CASE Launch \/ Rotate \/ \E a \in maps : \/ BackFromMaps(a)
                                               \/ \E picked \in BOOLEAN : PickerReturns(a, picked)
  BY <1>1 DEF Launch, Rotate, BackFromMaps, PickerReturns, StartMaps, Recreate, OneScreen
<1>2. CASE \E a \in maps : SwitchTapped(a) \/ HeatTapped(a) \/ OnMapReady(a)
  BY <1>2 DEF SwitchTapped, HeatTapped, OnMapReady, OneScreen
<1>3. CASE \E c \in requests : MarkerError(c)
  BY <1>3 DEF MarkerError, OneScreen
<1>4. CASE \/ \E c \in requests : MarkerResponse(c)
           \/ \E granted \in BOOLEAN : OnRequestPermissionsResult(granted)
  BY <1>4 DEF MarkerResponse, OnRequestPermissionsResult, OneScreen
<1>5. CASE \/ BackFromMain \/ Kill \/ UNCHANGED vars
           \/ \E a \in maps : SearchTapped(a) \/ OnCameraIdle(a)
  BY <1>5 DEF BackFromMain, Kill, SearchTapped, OnCameraIdle, vars, OneScreen
<1>. QED BY <1>1, <1>2, <1>3, <1>4, <1>5 DEF Next, System, User

\* A request is one there was, or of the connection the screen uses now.
LEMMA RequestSteps ==
    ASSUME [Next]_vars, NEW c \in requests'
    PROVE  c \in requests \/ \E b \in maps' : c = Conn(b)
<1>1. CASE Launch \/ Rotate \/ \E a \in maps : \/ BackFromMaps(a)
                                               \/ \E picked \in BOOLEAN : PickerReturns(a, picked)
  BY <1>1 DEF Launch, Rotate, BackFromMaps, PickerReturns
<1>2. CASE \E a \in maps : SwitchTapped(a) \/ OnCameraIdle(a)
  BY <1>2 DEF SwitchTapped, OnCameraIdle
<1>3. CASE \E d \in requests : MarkerError(d) \/ MarkerResponse(d)
  BY <1>3 DEF MarkerError, MarkerResponse
<1>4. CASE \/ BackFromMain \/ Kill \/ UNCHANGED vars
           \/ \E a \in maps : SearchTapped(a) \/ HeatTapped(a) \/ OnMapReady(a)
           \/ \E granted \in BOOLEAN : OnRequestPermissionsResult(granted)
  BY <1>4 DEF BackFromMain, Kill, SearchTapped, HeatTapped, OnMapReady,
              OnRequestPermissionsResult, vars
<1>. QED BY <1>1, <1>2, <1>3, <1>4 DEF Next, System, User

\* Activities are created one at a time.
LEMMA CountSteps ==
    ASSUME TypeOK, [Next]_vars
    PROVE  nMaps' = nMaps \/ nMaps' = nMaps + 1
<1>1. CASE Launch \/ Rotate \/ \E a \in maps : \/ BackFromMaps(a)
                                               \/ \E picked \in BOOLEAN : PickerReturns(a, picked)
  BY <1>1, CreatingSteps, CreatedMaps
<1>2. CASE \E c \in requests : MarkerError(c) \/ MarkerResponse(c)
  BY <1>2 DEF MarkerError, MarkerResponse
<1>3. CASE \/ \E a \in maps : SwitchTapped(a) \/ HeatTapped(a) \/ OnMapReady(a) \/ OnCameraIdle(a)
           \/ \E granted \in BOOLEAN : OnRequestPermissionsResult(granted)
  BY <1>3 DEF SwitchTapped, HeatTapped, OnMapReady, OnCameraIdle, OnRequestPermissionsResult
<1>4. CASE BackFromMain \/ Kill \/ UNCHANGED vars \/ \E a \in maps : SearchTapped(a)
  BY <1>4 DEF BackFromMain, Kill, SearchTapped, vars
<1>. QED BY <1>1, <1>2, <1>3, <1>4 DEF Next, System, User

\* What a destroyed activity's presenter still receives is drawn on no other map
\* (MapsPresenter.view).
THEOREM OwnMarkersOnlyInvariant == Spec => []OwnMarkersOnly
<1>. DEFINE IInv == OwnMarkersOnly /\ OneScreen /\ RequestsOwned
<1>1. Init => IInv
  BY DEF Init, OwnMarkersOnly, OneScreen, RequestsOwned
<1>2. TypeOK /\ TypeOK' /\ IInv /\ [Next]_vars => IInv'
  <2>. SUFFICES ASSUME TypeOK, TypeOK', IInv, [Next]_vars PROVE IInv'
    OBVIOUS
  <2>1. OneScreen'
    BY OneScreenSteps
  <2>2. \A a \in maps : Owns(a)
    BY DEF OwnMarkersOnly, Owns
  <2>3. /\ nMaps \in Nat
        /\ \A c \in requests : c.act \in Nat /\ c.gen \in Nat
        /\ \A a \in maps : a.gen \in Nat /\ a.id \in Nat /\ a.id = nMaps
                           /\ \A c \in a.markers : c.gen \in Nat
    BY LifecycleAssumption DEF TypeOK, Connection, Activity
  <2>4. \A b \in maps' : Owns(b)
    <3>. SUFFICES ASSUME NEW b \in maps' PROVE Owns(b)
      OBVIOUS
    <3>1. CASE Owns(b)
      BY <3>1
    <3>2. ASSUME NEW a \in maps, Follows(a, b)
          PROVE  Owns(b)
      BY <2>2, <2>3, <3>2 DEF Follows, Owns, RequestsOwned
    <3>. QED BY <3>1, <3>2, ActivitySteps
  <2>5. RequestsOwned'
    <3>. SUFFICES ASSUME NEW c \in requests'
                  PROVE  c.act <= nMaps' /\ \A b \in maps' : c.act = b.id => c.gen <= b.gen
      BY DEF RequestsOwned
    <3>1. nMaps' \in Nat /\ \A b \in maps' : b.gen \in Nat /\ b.id = nMaps'
      BY LifecycleAssumption DEF TypeOK, Activity
    <3>3. CASE \E b \in maps' : c = Conn(b)
      BY <2>1, <3>1, <3>3 DEF Conn, OneScreen
    <3>4. CASE c \in requests
      <4>1. c.act <= nMaps /\ \A a \in maps : c.act = a.id => c.gen <= a.gen
        BY <3>4 DEF RequestsOwned
      <4>2. nMaps' >= nMaps
        BY <2>3, CountSteps
      <4>3. ASSUME NEW b \in maps', c.act = b.id
            PROVE  c.gen <= b.gen
        <5>1. nMaps' = nMaps
          BY <2>3, <3>1, <3>4, <4>1, <4>3, ActivitySteps
        <5>2. PICK a \in maps : Follows(a, b)
          BY <2>3, <5>1, ActivitySteps
        <5>3. c.act = a.id /\ a.gen <= b.gen /\ a.gen \in Nat /\ b.gen \in Nat
          BY <4>3, <5>2 DEF Follows
        <5>4. c.gen <= a.gen
          BY <4>1, <5>3
        <5>. QED BY <2>3, <3>4, <5>3, <5>4
      <4>. QED BY <2>3, <3>1, <3>4, <4>1, <4>2, <4>3
    <3>. QED BY <3>3, <3>4, RequestSteps
  <2>. QED BY <2>1, <2>4, <2>5 DEF OwnMarkersOnly, Owns
<1>3. IInv => OwnMarkersOnly
  OBVIOUS
<1>. QED BY <1>1, <1>2, <1>3, TypeCorrect, PTL DEF Spec

=============================================================================
