----------------------- MODULE MapViewControllerProofs -----------------------
(***************************************************************************)
(* Theorems about MapViewController, for every bound and every user, and   *)
(* whatever requests fail.                                                 *)
(***************************************************************************)
EXTENDS MapViewController, FiniteSetTheorems, SequenceTheorems, TLAPS

-----------------------------------------------------------------------------
(* Sequences.                                                              *)

\* The ids of a batch, of which there is at most one, are a sequence.
LEMMA IdsOfBatch ==
    ASSUME NEW S, S \subseteq Nat, \A x, y \in S : x = y
    PROVE  SetToSeq(S) \in Seq(Nat)
<1>. DEFINE Numberings == [1 .. Cardinality(S) -> S]
<1>1. CASE S = {}
  <2>1. Cardinality(S) = 0
    BY <1>1, FS_EmptySet
  <2>2. 1 .. Cardinality(S) = {}
    BY <2>1
  <2>. DEFINE none == [k \in {} |-> 0]
  <2>3. none \in [{} -> S] /\ IsInjective(none)
    BY DEF IsInjective
  <2>4. \E f \in Numberings : IsInjective(f)
    BY <2>2, <2>3
  <2>5. SetToSeq(S) \in Numberings
    BY <2>4, Zenon DEF SetToSeq
  <2>. QED BY <2>1, <2>5
<1>2. CASE S # {}
  <2>1. PICK x : x \in S
    BY <1>2
  <2>2. S = {x}
    BY <2>1
  <2>3. Cardinality({x}) = 1
    BY FS_Singleton
  <2>4. Cardinality(S) = 1
    BY <2>2, <2>3
  <2>. DEFINE one == [k \in 1 .. 1 |-> x]
  <2>5. one \in [1 .. 1 -> S] /\ IsInjective(one)
    BY <2>1 DEF IsInjective
  <2>6. \E f \in Numberings : IsInjective(f)
    BY <2>4, <2>5
  <2>7. SetToSeq(S) \in Numberings
    BY <2>6, Zenon DEF SetToSeq
  <2>8. SetToSeq(S) \in [1 .. 1 -> Nat]
    BY <2>4, <2>7
  <2>. HIDE DEF Numberings, one
  <2>9. SetToSeq(S) \in UNION {[1 .. n -> Nat] : n \in Nat}
    BY <2>8
  <2>. QED BY <2>9, SeqDef
<1>. QED BY <1>1, <1>2

\* Adding a block to the main queue and taking one off it.
LEMMA Queue ==
    ASSUME NEW q \in Seq(Block)
    PROVE  /\ \A b \in Block : Async(q, b) \in Seq(Block)
           /\ q # <<>> => Head(q) \in Block /\ Tail(q) \in Seq(Block)
  BY DEF Async

\* The kinds of a choice and of a block.
LEMMA KindsOf ==
    /\ \A c \in BOOLEAN : KindOf(c) \in Kinds
    /\ \A op \in {"relay", "deploy", "addMarkers"}, k \in Kinds : BlockOf(op, k) \in Block
    /\ \A k \in Kinds, n \in BOOLEAN, r \in BOOLEAN :
         [op |-> "emptyArrays", kind |-> k, near |-> n, relay |-> r] \in Block
  BY DEF KindOf, BlockOf, Kinds, Block

\* The steps that several handlers share.
LEMMA PrepareViewForUpdateType ==
    ASSUME TypeOK, PrepareViewForUpdate
    PROVE  /\ spinner' \in BOOLEAN /\ viewSegment' \in 0 .. 1 /\ markers' \subseteq Request
           /\ heat' \in [on : BOOLEAN, weightedData : Seq(Nat)]
<1>1. heat \in [on : BOOLEAN, weightedData : Seq(Nat)]
  BY DEF TypeOK
<1>2. heat' = [heat EXCEPT !.on = FALSE]
  BY DEF PrepareViewForUpdate, ClearMap
<1>3. heat' \in [on : BOOLEAN, weightedData : Seq(Nat)]
  BY <1>1, <1>2
<1>4. spinner' = TRUE /\ viewSegment' = 0 /\ markers' = {}
  BY DEF PrepareViewForUpdate, ClearMap
<1>. QED BY <1>3, <1>4

LEMMA PerformNetworkTaskType ==
    ASSUME TypeOK, NEW kind \in Kinds, NEW isNear \in BOOLEAN, NEW relay \in BOOLEAN,
           PerformNetworkTask(kind, isNear, relay), background' = background
    PROVE  /\ requests' \cup background' \subseteq Request
           /\ \A r \in requests' \cup background' : r.id <= sent'
           /\ sent' \in Nat
<1>1. PICK r : r = [id |-> sent + 1, kind |-> kind, near |-> isNear, relay |-> relay]
  OBVIOUS
<1>2. r \in Request /\ r.id = sent + 1
  BY <1>1 DEF TypeOK, Request
<1>3. sent' = sent + 1 /\ requests' = requests \cup {r}
  BY <1>1 DEF PerformNetworkTask
<1>4. \A q \in requests \cup background : q \in Request /\ q.id \in Nat /\ q.id <= sent
  BY DEF TypeOK, Request
<1>. QED BY <1>2, <1>3, <1>4 DEF TypeOK

-----------------------------------------------------------------------------
(* Types.                                                                  *)

\* Every variable keeps its type however the two queues interleave: each array holds
\* one batch of its own kind at most (performNetworkTask and its completions).
THEOREM TypeCorrect == Spec => []TypeOK
<1>1. Init => TypeOK
  <2>. SUFFICES ASSUME Init PROVE TypeOK
    OBVIOUS
  <2>1. /\ data \in [Kinds -> SUBSET Request]
        /\ \A k \in Kinds : \A b, c \in data[k] : b.kind = k /\ b = c
    BY DEF Init
  <2>2. /\ weights \in [Kinds -> Seq(Nat)]
        /\ heat \in [on : BOOLEAN, weightedData : Seq(Nat)]
        /\ main \in Seq(Block)
    BY DEF Init
  <2>3. /\ isCrime \in BOOLEAN /\ near \in BOOLEAN /\ spinner \in BOOLEAN
        /\ isDataRequestSent \in BOOLEAN /\ crashed \in BOOLEAN /\ patient \in BOOLEAN
    BY DEF Init
  <2>4. /\ dataSegment \in 0 .. 1 /\ viewSegment \in 0 .. 1 /\ sent \in Nat
        /\ markers \subseteq Request /\ requests \cup background \subseteq Request
        /\ \A r \in requests \cup background : r.id <= sent
    BY DEF Init
  <2>. QED BY <2>1, <2>2, <2>3, <2>4 DEF TypeOK
<1>2. TypeOK /\ [Next]_vars => TypeOK'
  <2>. SUFFICES ASSUME TypeOK, [Next]_vars PROVE TypeOK'
    OBVIOUS
  <2>. USE DEF TypeOK
  <2>a. KindOf(isCrime) \in Kinds
    BY KindsOf
  <2>b. [heat EXCEPT !.on = FALSE] \in [on : BOOLEAN, weightedData : Seq(Nat)]
    OBVIOUS
  <2>0. CASE UNCHANGED vars
    BY <2>0 DEF vars, segmentVars, dataVars, screenVars, networkVars
  <2>1. ASSUME NEW isNear \in BOOLEAN, RefreshTapped(isNear)
        PROVE  TypeOK'
    <3>1. main' \in Seq(Block)
      BY <2>1, <2>a, KindsOf, Queue DEF RefreshTapped, EmptyArrays
    <3>. QED BY <2>1, <3>1, PrepareViewForUpdateType DEF RefreshTapped, dataVars, networkVars
  <2>2. ASSUME NEW isNear \in BOOLEAN, ToggleDataTapped(isNear)
        PROVE  TypeOK'
    <3>1. isCrime' \in BOOLEAN /\ dataSegment' \in 0 .. 1
      BY <2>2 DEF ToggleDataTapped
    <3>2. KindOf(isCrime') \in Kinds
      BY <3>1, KindsOf
    <3>3. main' \in Seq(Block)
      BY <2>2, <3>1, <3>2, KindsOf, Queue DEF ToggleDataTapped, EmptyArrays
    <3>. QED BY <2>2, <3>1, <3>3, PrepareViewForUpdateType
         DEF ToggleDataTapped, dataVars, networkVars
  <2>3. CASE ToggleViewTapped
    <3>1. CASE viewSegment' = 0
      <4>1. main' = Async(main, BlockOf("addMarkers", KindOf(isCrime)))
        BY <2>3, <3>1 DEF ToggleViewTapped
      <4>2. main' \in Seq(Block)
        BY <4>1, <2>a, KindsOf, Queue
      <4>3. heat' \in [on : BOOLEAN, weightedData : Seq(Nat)]
        BY <2>3, <2>b, <3>1 DEF ToggleViewTapped
      <4>4. markers' \subseteq Request /\ spinner' \in BOOLEAN /\ viewSegment' \in 0 .. 1
        <5>1. markers' = markers
          BY <2>3, <3>1 DEF ToggleViewTapped
        <5>2. spinner' = FALSE
          BY <2>3 DEF ToggleViewTapped
        <5>3. spinner' \in BOOLEAN
          BY <5>2, Zenon
        <5>4. viewSegment' \in 0 .. 1
          BY <3>1
        <5>. QED BY <5>1, <5>3, <5>4
      <4>5. UNCHANGED <<segmentVars, dataVars, networkVars, isDataRequestSent, crashed, patient>>
        BY <2>3 DEF ToggleViewTapped
      <4>. QED BY <4>2, <4>3, <4>4, <4>5 DEF segmentVars, dataVars, networkVars
    <3>2. CASE viewSegment' # 0
      <4>1. viewSegment' = 1
        BY <2>3, <3>2 DEF ToggleViewTapped
      <4>2. weights[KindOf(isCrime)] \in Seq(Nat)
        BY <2>a
      <4>3. heat' = [on |-> TRUE, weightedData |-> weights[KindOf(isCrime)]]
        BY <2>3, <3>2 DEF ToggleViewTapped
      <4>4. heat' \in [on : BOOLEAN, weightedData : Seq(Nat)]
        BY <4>2, <4>3
      <4>5. /\ markers' \subseteq Request /\ spinner' \in BOOLEAN /\ viewSegment' \in 0 .. 1
            /\ main' \in Seq(Block)
        <5>1. markers' = {} /\ main' = main
          BY <2>3, <3>2 DEF ToggleViewTapped
        <5>2. spinner' = FALSE
          BY <2>3 DEF ToggleViewTapped
        <5>3. spinner' \in BOOLEAN
          BY <5>2, Zenon
        <5>4. viewSegment' \in 0 .. 1
          BY <4>1
        <5>. QED BY <5>1, <5>3, <5>4
      <4>6. UNCHANGED <<segmentVars, dataVars, networkVars, isDataRequestSent, crashed, patient>>
        BY <2>3 DEF ToggleViewTapped
      <4>. QED BY <4>4, <4>5, <4>6 DEF segmentVars, dataVars, networkVars
    <3>. QED BY <3>1, <3>2
  <2>4. CASE PlacePicked
    <3>1. main' \in Seq(Block)
      BY <2>4, KindsOf, Queue DEF PlacePicked, EmptyArrays, Kinds
    <3>. QED BY <2>4, <3>1, PrepareViewForUpdateType DEF PlacePicked, dataVars, networkVars
  <2>5. CASE DidUpdateLocations
    <3>1. PerformNetworkTask("house", TRUE, TRUE) /\ background' = background
      BY <2>5 DEF DidUpdateLocations
    <3>2. /\ requests' \cup background' \subseteq Request
          /\ \A r \in requests' \cup background' : r.id <= sent'
          /\ sent' \in Nat
      BY <3>1, PerformNetworkTaskType DEF Kinds
    <3>. QED BY <2>5, <3>2 DEF DidUpdateLocations, segmentVars, dataVars, screenVars
  <2>6. ASSUME NEW m \in markers, MarkerTapped(m)
        PROVE  TypeOK'
    BY <2>6 DEF MarkerTapped, segmentVars, dataVars, screenVars, networkVars
  <2>7. CASE RunEmptyArrays
    <3>1. Head(main) \in Block /\ main' \in Seq(Block)
      BY <2>7, Queue DEF RunEmptyArrays, RunBlock
    <3>2. /\ data' \in [Kinds -> SUBSET Request]
          /\ \A k \in Kinds : \A b, c \in data'[k] : b.kind = k /\ b = c
          /\ weights' \in [Kinds -> Seq(Nat)]
      BY <2>7 DEF RunEmptyArrays
    <3>3. /\ requests' \cup background' \subseteq Request
          /\ \A r \in requests' \cup background' : r.id <= sent'
          /\ sent' \in Nat
      <4>1. PICK b \in Block : b = Head(main)
        BY <3>1
      <4>2. b.kind \in Kinds /\ b.near \in BOOLEAN /\ b.relay \in BOOLEAN
        BY DEF Block
      <4>3. PerformNetworkTask(b.kind, b.near, b.relay) /\ background' = background
        BY <2>7, <4>1 DEF RunEmptyArrays
      <4>. QED BY <4>2, <4>3, PerformNetworkTaskType
    <3>4. markers' \subseteq Request /\ heat' \in [on : BOOLEAN, weightedData : Seq(Nat)]
      BY <2>b, <2>7 DEF RunEmptyArrays, ClearMap
    <3>. QED BY <2>7, <3>1, <3>2, <3>3, <3>4 DEF RunEmptyArrays, segmentVars
  <2>8. CASE RunRelay
    <3>1. Head(main) \in Block /\ Tail(main) \in Seq(Block)
      BY <2>8, Queue DEF RunRelay, RunBlock
    <3>2. BlockOf("deploy", Head(main).kind) \in Block
      BY <3>1, KindsOf DEF Block
    <3>. QED BY <2>8, <3>1, <3>2, Queue DEF RunRelay, segmentVars, dataVars, screenVars, networkVars
  <2>9. CASE RunDeploy
    <3>1. Head(main) \in Block /\ main' \in Seq(Block)
      BY <2>9, Queue DEF RunDeploy, RunBlock
    <3>2. PICK kind \in Kinds : kind = Head(main).kind
      BY <3>1 DEF Block
    <3>3. SetToSeq({b.id : b \in data[kind]}) \in Seq(Nat)
      <4>1. \A b \in data[kind] : b.id \in Nat
        BY DEF Request
      <4>2. PICK S : S = {b.id : b \in data[kind]}
        OBVIOUS
      <4>3. S \subseteq Nat /\ \A x, y \in S : x = y
        BY <4>1, <4>2
      <4>. QED BY <4>2, <4>3, IdsOfBatch
    <3>4. PICK ids \in Seq(Nat) : ids = SetToSeq({b.id : b \in data[kind]})
      BY <3>3
    <3>5. weights' = [weights EXCEPT ![kind] = weights[kind] \o ids]
      BY <2>9, <3>2, <3>4 DEF RunDeploy
    <3>6. weights' \in [Kinds -> Seq(Nat)]
      BY <3>5
    <3>7. heat' \in [on : BOOLEAN, weightedData : Seq(Nat)]
      BY <2>9, <3>2, <3>6 DEF RunDeploy
    <3>8. markers' \subseteq Request
      BY <2>9, <3>2 DEF RunDeploy
    <3>. QED BY <2>9, <3>1, <3>6, <3>7, <3>8 DEF RunDeploy, segmentVars, networkVars
  <2>10. CASE RunAddMarkers
    <3>1. Head(main) \in Block /\ main' \in Seq(Block)
      BY <2>10, Queue DEF RunAddMarkers, RunBlock
    <3>2. markers' \subseteq Request
      BY <2>10, <3>1 DEF RunAddMarkers, Block
    <3>. QED BY <2>10, <3>1, <3>2 DEF RunAddMarkers, segmentVars, dataVars, networkVars
  <2>11. ASSUME NEW r \in requests, StoreResponse(r)
         PROVE  TypeOK'
    <3>1. r.kind \in Kinds
      BY DEF Request
    <3>2. /\ data' \in [Kinds -> SUBSET Request]
          /\ \A k \in Kinds : \A b, c \in data'[k] : b.kind = k /\ b = c
      BY <2>11, <3>1 DEF StoreResponse
    <3>. QED BY <2>11, <3>2 DEF StoreResponse, segmentVars, screenVars
  <2>12. ASSUME NEW r \in background, CallCompletion(r)
         PROVE  TypeOK'
    <3>1. r.kind \in Kinds
      BY DEF Request
    <3>2. main' \in Seq(Block)
      BY <2>12, <3>1, KindsOf, Queue DEF CallCompletion
    <3>. QED BY <2>12, <3>2 DEF CallCompletion, segmentVars, dataVars, screenVars
  <2>13. ASSUME NEW r \in requests, RequestFails(r)
         PROVE  TypeOK'
    BY <2>13 DEF RequestFails, segmentVars, dataVars
  <2>. QED
    BY <2>0, <2>1, <2>2, <2>3, <2>4, <2>5, <2>6, <2>7, <2>8, <2>9, <2>10, <2>11, <2>12, <2>13
       DEF Next, User, MainQueue, Callbacks
<1>. QED BY <1>1, <1>2, PTL DEF Spec

-----------------------------------------------------------------------------
(* A user who waits.                                                       *)

\* The main queue has only blocks that add markers, or one other block besides.
OnlyAdds(q) == \A i \in 1 .. Len(q) : q[i].op = "addMarkers"
OneOther(q, b) ==
    \E i \in 1 .. Len(q) :
        /\ q[i] = b
        /\ \A j \in 1 .. Len(q) : j # i => q[j].op = "addMarkers"

NoTask == requests = {} /\ background = {}
Unweighed == \A k \in Kinds : weights[k] = <<>>
Cleared == Unweighed /\ markers = {} /\ \A k \in Kinds : data[k] = {}
Stored(b) ==
    /\ b.id = sent
    /\ \A k \in Kinds : data[k] = IF k = b.kind THEN {b} ELSE {}
    /\ markers \subseteq {b}

OnItsView(r) ==
    /\ viewSegment = 0 /\ r.kind = KindOf(isCrime) =>
         \/ markers = {r}
         \/ \E i \in 1 .. Len(main) : main[i] = BlockOf("addMarkers", r.kind)
    /\ r.kind = "house" /\ ~isCrime => heat.weightedData = <<r.id>>

\* The stages of a request, one after another.
Fresh == NoTask /\ OnlyAdds(main) /\ sent = 0 /\ Cleared
Emptying(b) ==
    /\ NoTask
    /\ b.op = "emptyArrays" /\ OneOther(main, b)
    /\ b.kind = "crime" => isCrime
Asking(r) ==
    /\ requests = {r} /\ background = {}
    /\ OnlyAdds(main)
    /\ r.id = sent
    /\ r.kind = "crime" => isCrime
    /\ Cleared
Answered(r) ==
    /\ requests = {} /\ background = {r}
    /\ OnlyAdds(main)
    /\ Stored(r) /\ Unweighed
Drawing(r, b) ==
    /\ NoTask
    /\ b.op \in {"relay", "deploy"} /\ OneOther(main, b)
    /\ b.kind = r.kind
    /\ Stored(r) /\ Unweighed
Settled(r) ==
    /\ NoTask
    /\ OnlyAdds(main)
    /\ Stored(r)
    /\ \A k \in Kinds : weights[k] = IF k = r.kind THEN <<r.id>> ELSE <<>>
    /\ OnItsView(r)
Failed ==
    /\ NoTask
    /\ OnlyAdds(main)
    /\ {KindOf(isCrime), "house"} \cap Failing # {}
    /\ Cleared

\* With a user who waits there is one request at most, in one of its stages.
InStages ==
    patient =>
        IF isDataRequestSent
        THEN \/ \E b \in Block : Emptying(b)
             \/ \E r \in Request : \/ Asking(r)
                                   \/ Answered(r)
                                   \/ \E b \in Block : Drawing(r, b)
                                   \/ Settled(r)
             \/ Failed
        ELSE Fresh

\* A block added, or taken off the front.
LEMMA QueueShapes ==
    ASSUME NEW q \in Seq(Block), NEW b \in Block, b.op # "addMarkers",
           NEW a \in Block, a.op = "addMarkers"
    PROVE  /\ OnlyAdds(<<>>)
           /\ OnlyAdds(q) => OnlyAdds(Async(q, a)) /\ OneOther(Async(q, b), b)
           /\ OneOther(q, b) => OneOther(Async(q, a), b) /\ ~OnlyAdds(q) /\ q # <<>>
           /\ q # <<>> /\ OnlyAdds(q) => Head(q).op = "addMarkers" /\ OnlyAdds(Tail(q))
           /\ OneOther(q, b) /\ Head(q).op = "addMarkers" => OneOther(Tail(q), b)
           /\ OneOther(q, b) /\ Head(q).op # "addMarkers" => Head(q) = b /\ OnlyAdds(Tail(q))
<1>1. OnlyAdds(<<>>)
  BY DEF OnlyAdds
<1>2. PICK n \in Nat : n = Len(q)
  OBVIOUS
<1>3. PICK qa \in Seq(Block) :
        /\ qa = Async(q, a)
        /\ Len(qa) = n + 1 /\ qa[n + 1] = a /\ \A i \in 1 .. n : qa[i] = q[i]
  <2>1. PICK new : new = Append(q, a)
    OBVIOUS
  <2>2. /\ new \in Seq(Block) /\ Len(new) = n + 1
        /\ new[n + 1] = a /\ \A i \in 1 .. n : new[i] = q[i]
    BY <1>2, <2>1
  <2>. QED BY <2>1, <2>2 DEF Async
<1>4. PICK qb \in Seq(Block) :
        /\ qb = Async(q, b)
        /\ Len(qb) = n + 1 /\ qb[n + 1] = b /\ \A i \in 1 .. n : qb[i] = q[i]
  <2>1. PICK new : new = Append(q, b)
    OBVIOUS
  <2>2. /\ new \in Seq(Block) /\ Len(new) = n + 1
        /\ new[n + 1] = b /\ \A i \in 1 .. n : new[i] = q[i]
    BY <1>2, <2>1
  <2>. QED BY <2>1, <2>2 DEF Async
<1>5. ASSUME OnlyAdds(q)
      PROVE  OnlyAdds(Async(q, a)) /\ OneOther(Async(q, b), b)
  <2>1. \A i \in 1 .. n : q[i].op = "addMarkers"
    BY <1>2, <1>5 DEF OnlyAdds
  <2>2. \A i \in 1 .. n + 1 : i # n + 1 => i \in 1 .. n
    OBVIOUS
  <2>3. OnlyAdds(qa)
    BY <1>3, <2>1, <2>2 DEF OnlyAdds
  <2>4. OneOther(qb, b)
    BY <1>4, <2>1, <2>2 DEF OneOther
  <2>. QED BY <1>3, <1>4, <2>3, <2>4
<1>a. ASSUME OneOther(q, b)
      PROVE  OneOther(Async(q, a), b) /\ ~OnlyAdds(q) /\ q # <<>>
  <2>1. PICK i \in 1 .. n :
            /\ q[i] = b
            /\ \A j \in 1 .. n : j # i => q[j].op = "addMarkers"
    BY <1>2, <1>a DEF OneOther
  <2>2. \A j \in 1 .. n + 1 : j # n + 1 => j \in 1 .. n
    OBVIOUS
  <2>3. OneOther(qa, b)
    BY <1>3, <2>1, <2>2 DEF OneOther
  <2>4. ~OnlyAdds(q)
    BY <1>2, <2>1 DEF OnlyAdds
  <2>5. q # <<>>
    BY <1>2, <2>1
  <2>. QED BY <1>3, <2>3, <2>4, <2>5
<1>6. ASSUME q # <<>>
      PROVE  /\ Head(q) = q[1] /\ Len(q) >= 1 /\ Len(Tail(q)) = Len(q) - 1
             /\ \A i \in 1 .. Len(Tail(q)) : Tail(q)[i] = q[i + 1]
  BY <1>6
<1>7. ASSUME q # <<>>, OnlyAdds(q)
      PROVE  Head(q).op = "addMarkers" /\ OnlyAdds(Tail(q))
  BY <1>2, <1>6, <1>7 DEF OnlyAdds
<1>8. ASSUME OneOther(q, b), Head(q).op = "addMarkers"
      PROVE  OneOther(Tail(q), b)
  <2>1. PICK i \in 1 .. Len(q) :
            /\ q[i] = b
            /\ \A j \in 1 .. Len(q) : j # i => q[j].op = "addMarkers"
    BY <1>8 DEF OneOther
  <2>2. q # <<>>
    BY <1>a, <1>8
  <2>3. i # 1
    BY <1>6, <1>8, <2>1, <2>2
  <2>4. i - 1 \in 1 .. Len(Tail(q)) /\ Tail(q)[i - 1] = b
    BY <1>2, <1>6, <2>1, <2>2, <2>3
  <2>5. \A j \in 1 .. Len(Tail(q)) : j # i - 1 => Tail(q)[j].op = "addMarkers"
    BY <1>2, <1>6, <2>1, <2>2
  <2>. QED BY <2>4, <2>5 DEF OneOther
<1>9. ASSUME OneOther(q, b), Head(q).op # "addMarkers"
      PROVE  Head(q) = b /\ OnlyAdds(Tail(q))
  <2>1. PICK i \in 1 .. Len(q) :
            /\ q[i] = b
            /\ \A j \in 1 .. Len(q) : j # i => q[j].op = "addMarkers"
    BY <1>9 DEF OneOther
  <2>2. q # <<>>
    BY <1>a, <1>9
  <2>3. i = 1
    BY <1>2, <1>6, <1>9, <2>1, <2>2
  <2>. QED BY <1>2, <1>6, <2>1, <2>2, <2>3 DEF OnlyAdds
<1>. QED BY <1>1, <1>5, <1>a, <1>7, <1>8, <1>9

\* The one id of a batch, as a sequence.
LEMMA IdOfBatch ==
    ASSUME NEW x \in Nat
    PROVE  SetToSeq({x}) = <<x>>
<1>1. Cardinality({x}) = 1
  BY FS_Singleton
<1>. DEFINE one == [k \in 1 .. 1 |-> x]
<1>2. one \in [1 .. Cardinality({x}) -> {x}] /\ IsInjective(one)
  BY <1>1 DEF IsInjective
<1>3. \E f \in [1 .. Cardinality({x}) -> {x}] : IsInjective(f)
  BY <1>2
<1>4. SetToSeq({x}) \in [1 .. Cardinality({x}) -> {x}]
  BY <1>3, Zenon DEF SetToSeq
<1>5. SetToSeq({x}) \in [1 .. 1 -> {x}]
  BY <1>1, <1>4
<1>6. PICK f \in [1 .. 1 -> {x}] : f = SetToSeq({x})
  BY <1>5
<1>7. f = [k \in 1 .. 1 |-> x]
  OBVIOUS
<1>8. [k \in 1 .. 1 |-> x] = <<x>>
  OBVIOUS
<1>. QED BY <1>6, <1>7, <1>8

\* A step that leaves the request and its answer alone leaves its stage.
LEMMA QuietStep ==
    ASSUME TypeOK, InStages, patient,
           UNCHANGED <<isCrime, dataVars, networkVars, isDataRequestSent, patient>>,
           markers' \subseteq markers \cup UNION {data[k] : k \in Kinds},
           OnlyAdds(main) => OnlyAdds(main'),
           \A b \in Block : b.op # "addMarkers" /\ OneOther(main, b) => OneOther(main', b),
           \A r \in Request : Settled(r) => OnItsView(r)'
    PROVE  InStages'
<1>1. UNCHANGED <<isCrime, data, weights, requests, background, sent, isDataRequestSent, patient>>
  BY DEF dataVars, networkVars
<1>2. (Cleared => Cleared') /\ (Unweighed => Unweighed') /\ (NoTask => NoTask')
  <2>1. Cleared => markers' = {}
    BY DEF Cleared
  <2>. QED BY <1>1, <2>1 DEF Cleared, Unweighed, NoTask
<1>3. ASSUME NEW r \in Request, Stored(r)
      PROVE  Stored(r)'
  <2>1. \A k \in Kinds : data[k] \subseteq {r}
    BY <1>3 DEF Stored
  <2>2. markers' \subseteq {r}
    BY <1>3, <2>1 DEF Stored
  <2>. QED BY <1>1, <1>3, <2>2 DEF Stored
<1>4. CASE ~isDataRequestSent
  BY <1>1, <1>2, <1>4 DEF InStages, Fresh
<1>5. CASE isDataRequestSent
  <2>1. ASSUME NEW b \in Block, Emptying(b)
        PROVE  Emptying(b)'
    BY <1>1, <1>2, <2>1 DEF Emptying
  <2>2. ASSUME NEW r \in Request
        PROVE  /\ Asking(r) => Asking(r)'
               /\ Answered(r) => Answered(r)'
               /\ Settled(r) => Settled(r)'
    <3>1. Asking(r) => Asking(r)'
      BY <1>1, <1>2 DEF Asking
    <3>2. Answered(r) => Answered(r)'
      BY <1>1, <1>2, <1>3 DEF Answered
    <3>3. Settled(r) => Settled(r)'
      BY <1>1, <1>2, <1>3 DEF Settled
    <3>. QED BY <3>1, <3>2, <3>3
  <2>3. ASSUME NEW r \in Request, NEW b \in Block, Drawing(r, b)
        PROVE  Drawing(r, b)'
    BY <1>1, <1>2, <1>3, <2>3 DEF Drawing
  <2>4. Failed => Failed'
    BY <1>1, <1>2 DEF Failed, KindOf
  <2>. QED BY <1>1, <1>5, <2>1, <2>2, <2>3, <2>4 DEF InStages
<1>. QED BY <1>4, <1>5

\* A block at the front that does not only add markers tells the stage.
LEMMA FrontTellsStage ==
    ASSUME TypeOK, InStages, patient, main # <<>>, Head(main).op # "addMarkers"
    PROVE  /\ isDataRequestSent
           /\ Head(main) \in Block
           /\ OnlyAdds(Tail(main))
           /\ \/ Emptying(Head(main))
              \/ \E r \in Request : Drawing(r, Head(main))
<1>1. BlockOf("addMarkers", "house") \in Block /\ BlockOf("addMarkers", "house").op = "addMarkers"
  BY KindsOf DEF BlockOf, Kinds
<1>2. main \in Seq(Block)
  BY DEF TypeOK
<1>3. Head(main) \in Block
  BY <1>2, Queue
<1>4. ~OnlyAdds(main)
  BY <1>1, <1>2, <1>3, QueueShapes
<1>5. ASSUME NEW b \in Block, b.op # "addMarkers", OneOther(main, b)
      PROVE  Head(main) = b /\ OnlyAdds(Tail(main))
  BY <1>1, <1>2, <1>5, QueueShapes
<1>6. isDataRequestSent
  BY <1>4 DEF InStages, Fresh
<1>7. \/ \E b \in Block : Emptying(b)
      \/ \E r \in Request, b \in Block : Drawing(r, b)
  BY <1>4, <1>6 DEF InStages, Asking, Answered, Settled, Failed
<1>8. ASSUME NEW b \in Block, Emptying(b)
      PROVE  Head(main) = b /\ OnlyAdds(Tail(main))
  BY <1>5, <1>8 DEF Emptying
<1>9. ASSUME NEW b \in Block, NEW r \in Request, Drawing(r, b)
      PROVE  Head(main) = b /\ OnlyAdds(Tail(main))
  BY <1>5, <1>9 DEF Drawing
<1>. QED BY <1>3, <1>6, <1>7, <1>8, <1>9

\* A user who waits acts on an empty queue, and the request is to be sent by its block.
LEMMA RequestingStep ==
    ASSUME TypeOK, InStages, patient,
           \/ \E isNear \in BOOLEAN : RefreshTapped(isNear) \/ ToggleDataTapped(isNear)
           \/ PlacePicked
    PROVE  InStages'
<1>1. isDataRequestSent /\ requests = {} /\ background = {} /\ main = <<>>
  BY DEF RefreshTapped, ToggleDataTapped, PlacePicked, MayRequest, Idle
<1>2. UNCHANGED <<requests, background, isDataRequestSent, patient>>
  BY DEF RefreshTapped, ToggleDataTapped, PlacePicked, networkVars
<1>. DEFINE Queues(b) == /\ main' = Async(main, b)
                         /\ b.op = "emptyArrays"
                         /\ b.kind = "crime" => isCrime'
<1>3. PICK b \in Block : Queues(b)
  <2>. DEFINE block(k, n, r) == [op |-> "emptyArrays", kind |-> k, near |-> n, relay |-> r]
  <2>1. \A k \in Kinds, n \in BOOLEAN, r \in BOOLEAN :
          block(k, n, r) \in Block /\ block(k, n, r).op = "emptyArrays" /\ block(k, n, r).kind = k
    BY KindsOf
  <2>2. isCrime \in BOOLEAN
    BY DEF TypeOK
  <2>. HIDE DEF block
  <2>3. ASSUME NEW n \in BOOLEAN, RefreshTapped(n)
        PROVE  \E b \in Block : Queues(b)
    <3>1. main' = Async(main, block(KindOf(isCrime), n, TRUE)) /\ isCrime' = isCrime
      BY <2>3 DEF RefreshTapped, EmptyArrays, block
    <3>. QED BY <2>1, <2>2, <3>1, KindsOf DEF KindOf
  <2>4. ASSUME NEW n \in BOOLEAN, ToggleDataTapped(n)
        PROVE  \E b \in Block : Queues(b)
    <3>1. main' = Async(main, block(KindOf(isCrime'), n, ~isCrime')) /\ isCrime' \in BOOLEAN
      BY <2>4 DEF ToggleDataTapped, EmptyArrays, block
    <3>. QED BY <2>1, <3>1, KindsOf DEF KindOf
  <2>5. ASSUME PlacePicked
        PROVE  \E b \in Block : Queues(b)
    <3>1. main' = Async(main, block("house", TRUE, TRUE))
      BY <2>5 DEF PlacePicked, EmptyArrays, block
    <3>. QED BY <2>1, <3>1 DEF Kinds
  <2>. QED BY <2>3, <2>4, <2>5
<1>4. OneOther(main', b)
  <2>1. BlockOf("addMarkers", "house") \in Block /\ BlockOf("addMarkers", "house").op = "addMarkers"
    BY KindsOf DEF BlockOf, Kinds
  <2>2. main \in Seq(Block)
    BY DEF TypeOK
  <2>3. OnlyAdds(main)
    BY <1>1 DEF OnlyAdds
  <2>4. b.op # "addMarkers"
    BY <1>3
  <2>5. OneOther(Async(main, b), b)
    BY <2>1, <2>2, <2>3, <2>4, QueueShapes
  <2>. QED BY <1>3, <2>5
<1>5. Emptying(b)'
  <2>1. NoTask'
    BY <1>1, <1>2 DEF NoTask
  <2>2. b.kind = "crime" => isCrime'
    BY <1>3
  <2>. QED BY <1>3, <1>4, <2>1, <2>2 DEF Emptying
<1>. QED BY <1>1, <1>2, <1>5 DEF InStages

\* Adding markers, now or by a block, is quiet.
LEMMA ToggleViewStep ==
    ASSUME TypeOK, InStages, patient, ToggleViewTapped
    PROVE  InStages'
<1>. DEFINE add == BlockOf("addMarkers", KindOf(isCrime))
<1>1. main \in Seq(Block) /\ add \in Block /\ add.op = "addMarkers"
  BY KindsOf DEF TypeOK, BlockOf
<1>. HIDE DEF add
<1>2. UNCHANGED <<isCrime, dataVars, networkVars, isDataRequestSent, patient>>
  BY DEF ToggleViewTapped, segmentVars
<1>3. main' \in {main, Async(main, add)} /\ markers' \subseteq markers
  BY DEF ToggleViewTapped, add
<1>4. /\ OnlyAdds(main) => OnlyAdds(main')
      /\ \A b \in Block : b.op # "addMarkers" /\ OneOther(main, b) => OneOther(main', b)
  <2>1. PICK b \in Block : b.op # "addMarkers"
    BY KindsOf DEF BlockOf, Kinds
  <2>. QED BY <1>1, <1>3, <2>1, QueueShapes
<1>5. ASSUME NEW r \in Request, Settled(r)
      PROVE  OnItsView(r)'
  <2>1. CASE viewSegment' = 0
    <3>1. main' = Async(main, add) /\ heat' = [heat EXCEPT !.on = FALSE]
      BY <2>1 DEF ToggleViewTapped, add
    <3>2. Len(main) + 1 \in 1 .. Len(main') /\ main'[Len(main) + 1] = add
      BY <1>1, <3>1 DEF Async
    <3>3. heat'.weightedData = heat.weightedData
      BY <3>1 DEF TypeOK
    <3>. QED BY <1>2, <1>5, <3>2, <3>3 DEF Settled, OnItsView, add
  <2>2. CASE viewSegment' # 0
    <3>1. heat' = [on |-> TRUE, weightedData |-> weights[KindOf(isCrime)]]
      BY <2>2 DEF ToggleViewTapped
    <3>2. r.kind = "house" /\ ~isCrime => weights[KindOf(isCrime)] = <<r.id>>
      BY <1>5 DEF Settled, KindOf, Kinds
    <3>. QED BY <1>2, <2>2, <3>1, <3>2 DEF OnItsView
  <2>. QED BY <2>1, <2>2
<1>. QED BY <1>2, <1>3, <1>4, <1>5, QuietStep

LEMMA AddMarkersStep ==
    ASSUME TypeOK, InStages, patient, RunAddMarkers
    PROVE  InStages'
<1>1. /\ main # <<>> /\ Head(main).op = "addMarkers" /\ main' = Tail(main)
      /\ markers' = markers \cup data[Head(main).kind]
      /\ UNCHANGED <<isCrime, dataVars, networkVars, isDataRequestSent, patient, heat, viewSegment>>
  BY DEF RunAddMarkers, RunBlock, segmentVars
<1>2. main \in Seq(Block) /\ Head(main) \in Block
  BY <1>1, Queue DEF TypeOK
<1>3. /\ OnlyAdds(main) => OnlyAdds(main')
      /\ \A b \in Block : b.op # "addMarkers" /\ OneOther(main, b) => OneOther(main', b)
  <2>1. PICK b \in Block : b.op # "addMarkers"
    BY KindsOf DEF BlockOf, Kinds
  <2>. QED BY <1>1, <1>2, <2>1, QueueShapes
<1>4. Head(main).kind \in Kinds
  BY <1>2 DEF Block
<1>5. ASSUME NEW r \in Request, Settled(r)
      PROVE  OnItsView(r)'
  <2>1. r.kind \in Kinds /\ Stored(r) /\ OnItsView(r)
    BY <1>5 DEF Settled, Request
  <2>2. data[r.kind] = {r} /\ markers' \subseteq {r}
    BY <1>1, <1>4, <2>1 DEF Stored
  <2>3. CASE markers = {r}
    BY <1>1, <2>1, <2>2, <2>3 DEF OnItsView
  <2>4. ASSUME NEW i \in 1 .. Len(main), main[i] = BlockOf("addMarkers", r.kind)
        PROVE  \/ markers' = {r}
               \/ \E j \in 1 .. Len(main') : main'[j] = BlockOf("addMarkers", r.kind)
    <3>1. CASE i = 1
      <4>1. Head(main).kind = r.kind
        BY <1>1, <1>2, <2>4, <3>1 DEF BlockOf
      <4>. QED BY <1>1, <2>2, <4>1
    <3>2. CASE i # 1
      <4>1. i - 1 \in 1 .. Len(main') /\ main'[i - 1] = main[i]
        BY <1>1, <1>2, <3>2
      <4>. QED BY <2>4, <4>1
    <3>. QED BY <3>1, <3>2
  <2>. QED BY <1>1, <2>1, <2>3, <2>4 DEF OnItsView
<1>6. markers' \subseteq markers \cup UNION {data[k] : k \in Kinds}
  BY <1>1, <1>4
<1>. QED BY <1>1, <1>3, <1>5, <1>6, QuietStep

\* A request is sent when nothing is left of the answer before.
LEMMA AskingNow ==
    ASSUME TypeOK, NEW kind \in Kinds, NEW isNear \in BOOLEAN, NEW relay \in BOOLEAN,
           PerformNetworkTask(kind, isNear, relay),
           requests = {}, background' = {}, OnlyAdds(main'), Cleared',
           kind = "crime" => isCrime'
    PROVE  \E r \in Request : Asking(r)'
<1>1. PICK r : r = [id |-> sent + 1, kind |-> kind, near |-> isNear, relay |-> relay]
  OBVIOUS
<1>2. r \in Request /\ r.id = sent + 1 /\ r.kind = kind
  BY <1>1 DEF TypeOK, Request
<1>3. sent' = sent + 1 /\ requests' = {r}
  BY <1>1 DEF PerformNetworkTask
<1>4. Asking(r)'
  BY <1>2, <1>3 DEF Asking
<1>. QED BY <1>2, <1>4

\* The steps that take a request on to its next stage.
LEMMA RequestSteps ==
    ASSUME TypeOK, InStages, patient,
           \/ DidUpdateLocations
           \/ RunEmptyArrays
           \/ \E r \in requests : StoreResponse(r) \/ RequestFails(r)
    PROVE  InStages'
<1>1. CASE DidUpdateLocations
  <2>1. Fresh /\ isDataRequestSent'
    BY <1>1 DEF DidUpdateLocations, InStages
  <2>2. UNCHANGED <<data, weights, markers, main, background, isCrime>>
    BY <1>1 DEF DidUpdateLocations, dataVars, screenVars, segmentVars
  <2>3. Cleared' /\ OnlyAdds(main') /\ background' = {} /\ requests = {}
    BY <2>1, <2>2 DEF Fresh, Cleared, Unweighed, NoTask
  <2>4. PerformNetworkTask("house", TRUE, TRUE)
    BY <1>1 DEF DidUpdateLocations
  <2>5. \E r \in Request : Asking(r)'
    BY <2>3, <2>4, AskingNow DEF Kinds
  <2>. QED BY <2>1, <2>5 DEF InStages
<1>2. CASE RunEmptyArrays
  <2>1. /\ main # <<>> /\ Head(main).op = "emptyArrays" /\ main' = Tail(main)
        /\ UNCHANGED <<isCrime, background, isDataRequestSent>>
    BY <1>2 DEF RunEmptyArrays, RunBlock, segmentVars
  <2>2. PICK b : b = Head(main)
    OBVIOUS
  <2>3. isDataRequestSent /\ b \in Block /\ OnlyAdds(main') /\ Emptying(b)
    BY <2>1, <2>2, FrontTellsStage DEF Drawing
  <2>4. b.kind \in Kinds /\ b.near \in BOOLEAN /\ b.relay \in BOOLEAN
    BY <2>3 DEF Block
  <2>5. PerformNetworkTask(b.kind, b.near, b.relay)
    BY <1>2, <2>2 DEF RunEmptyArrays
  <2>6. Cleared'
    BY <1>2 DEF RunEmptyArrays, ClearMap, Cleared, Unweighed
  <2>7. requests = {} /\ background' = {} /\ (b.kind = "crime" => isCrime')
    BY <2>1, <2>3 DEF Emptying, NoTask
  <2>8. \E r \in Request : Asking(r)'
    BY <2>3, <2>4, <2>5, <2>6, <2>7, AskingNow
  <2>. QED BY <2>1, <2>3, <2>8 DEF InStages
<1>3. ASSUME NEW r \in requests, StoreResponse(r) \/ RequestFails(r)
      PROVE  InStages'
  <2>1. r \in Request /\ isDataRequestSent /\ Asking(r)
    BY DEF TypeOK, InStages, Fresh, Emptying, Answered, Drawing, Settled, Failed, NoTask, Asking
  <2>2. r.kind \in Kinds
    BY <2>1 DEF Request
  <2>3. UNCHANGED <<isCrime, weights, markers, main, sent, isDataRequestSent>>
    BY <1>3 DEF StoreResponse, RequestFails, segmentVars, screenVars, dataVars
  <2>4. CASE StoreResponse(r)
    <3>1. requests' = {} /\ background' = {r} /\ data' = [data EXCEPT ![r.kind] = {r}]
      BY <2>1, <2>4 DEF StoreResponse, Asking
    <3>2. Stored(r)'
      BY <2>1, <2>2, <2>3, <3>1 DEF Stored, Asking, Cleared, TypeOK
    <3>3. Answered(r)'
      BY <2>1, <2>3, <3>1, <3>2 DEF Answered, Asking, Cleared, Unweighed
    <3>. QED BY <2>1, <2>3, <3>3 DEF InStages
  <2>5. CASE RequestFails(r)
    <3>1. requests' = {} /\ background' = {} /\ data' = data /\ r.kind \in Failing
      BY <2>1, <2>5 DEF RequestFails, Asking, dataVars
    <3>2. {KindOf(isCrime'), "house"} \cap Failing # {}
      BY <2>1, <2>2, <2>3, <3>1 DEF Asking, KindOf, Kinds
    <3>3. Failed'
      BY <2>1, <2>3, <3>1, <3>2 DEF Failed, Asking, Cleared, Unweighed, NoTask
    <3>. QED BY <2>1, <2>3, <3>3 DEF InStages
  <2>. QED BY <1>3, <2>4, <2>5
<1>. QED BY <1>1, <1>2, <1>3

\* The steps that draw an answer.
LEMMA DrawingSteps ==
    ASSUME TypeOK, InStages, patient,
           RunRelay \/ RunDeploy \/ \E r \in background : CallCompletion(r)
    PROVE  InStages'
<1>0. PICK add \in Block : add.op = "addMarkers"
  BY KindsOf DEF BlockOf, Kinds
<1>1. ASSUME NEW r \in background, CallCompletion(r)
      PROVE  InStages'
  <2>1. r \in Request /\ isDataRequestSent /\ Answered(r)
    BY DEF TypeOK, InStages, Fresh, Emptying, Answered, Drawing, Settled, Failed, NoTask, Asking
  <2>2. PICK b : b = BlockOf(IF r.relay THEN "relay" ELSE "deploy", r.kind)
    OBVIOUS
  <2>3. b \in Block /\ b.op \in {"relay", "deploy"} /\ b.kind = r.kind
    BY <2>1, <2>2, KindsOf DEF BlockOf, Request
  <2>4. /\ background' = {} /\ main' = Async(main, b)
        /\ UNCHANGED <<data, weights, markers, requests, sent, isDataRequestSent>>
    BY <1>1, <2>2 DEF CallCompletion, dataVars, screenVars
  <2>5. OneOther(main', b)
    BY <1>0, <2>1, <2>3, <2>4, QueueShapes DEF Answered, TypeOK
  <2>6. Drawing(r, b)'
    BY <2>1, <2>3, <2>4, <2>5 DEF Drawing, Answered, Stored, Unweighed, NoTask
  <2>. QED BY <2>1, <2>3, <2>4, <2>6 DEF InStages
<1>2. ASSUME RunRelay \/ RunDeploy
      PROVE  /\ isDataRequestSent /\ isDataRequestSent'
             /\ UNCHANGED <<isCrime, data, requests, background, sent>>
             /\ Head(main) \in Block /\ OnlyAdds(Tail(main)) /\ Tail(main) \in Seq(Block)
             /\ \E r \in Request : Drawing(r, Head(main))
  <2>1. main # <<>> /\ Head(main).op \in {"relay", "deploy"}
    BY <1>2 DEF RunRelay, RunDeploy, RunBlock
  <2>2. /\ UNCHANGED <<isCrime, data, requests, background, sent, isDataRequestSent>>
    BY <1>2 DEF RunRelay, RunDeploy, segmentVars, dataVars, networkVars
  <2>3. Tail(main) \in Seq(Block)
    BY <2>1, Queue DEF TypeOK
  <2>. QED BY <2>1, <2>2, <2>3, FrontTellsStage DEF Emptying
<1>3. CASE RunRelay
  <2>1. PICK r \in Request : Drawing(r, Head(main))
    BY <1>2, <1>3
  <2>2. PICK b : b = BlockOf("deploy", Head(main).kind)
    OBVIOUS
  <2>3. b \in Block /\ b.op = "deploy" /\ b.kind = r.kind
    BY <1>2, <1>3, <2>1, <2>2, KindsOf DEF BlockOf, Drawing, Block
  <2>4. main' = Async(Tail(main), b) /\ UNCHANGED <<weights, markers>>
    BY <1>3, <2>2 DEF RunRelay, dataVars, screenVars
  <2>5. OneOther(main', b)
    BY <1>0, <1>2, <1>3, <2>3, <2>4, QueueShapes
  <2>6. Drawing(r, b)'
    BY <1>2, <1>3, <2>1, <2>3, <2>4, <2>5 DEF Drawing, Stored, Unweighed, NoTask
  <2>. QED BY <1>2, <1>3, <2>3, <2>6 DEF InStages
<1>4. CASE RunDeploy
  <2>1. PICK r \in Request : Drawing(r, Head(main))
    BY <1>2, <1>4
  <2>2. /\ Head(main).kind = r.kind /\ r.kind \in Kinds /\ r.id \in Nat
        /\ data[r.kind] = {r} /\ markers \subseteq {r} /\ weights[r.kind] = <<>>
    BY <2>1 DEF Drawing, Stored, Unweighed, Request
  <2>3. SetToSeq({b.id : b \in data[r.kind]}) = <<r.id>>
    <3>1. {b.id : b \in data[r.kind]} = {r.id}
      BY <2>2
    <3>. QED BY <2>2, <3>1, IdOfBatch
  <2>4. weights' = [weights EXCEPT ![r.kind] = weights[r.kind] \o <<r.id>>]
    BY <1>4, <2>2, <2>3 DEF RunDeploy
  <2>5. <<>> \o <<r.id>> = <<r.id>>
    BY <2>2
  <2>6. \A k \in Kinds : weights'[k] = IF k = r.kind THEN <<r.id>> ELSE <<>>
    BY <2>1, <2>2, <2>4, <2>5 DEF TypeOK, Drawing, Unweighed
  <2>7. markers' = {r} /\ main' = Tail(main)
    BY <1>4, <2>2 DEF RunDeploy
  <2>8. r.kind = "house" => heat'.weightedData = <<r.id>>
    <3>1. r.kind = "house" => heat' = [heat EXCEPT !.weightedData = weights'[r.kind]]
      BY <1>4, <2>2 DEF RunDeploy
    <3>2. weights'[r.kind] = <<r.id>>
      BY <2>2, <2>6
    <3>3. heat \in [on : BOOLEAN, weightedData : Seq(Nat)]
      BY DEF TypeOK
    <3>. QED BY <3>1, <3>2, <3>3
  <2>9. Settled(r)'
    <3>1. NoTask' /\ OnlyAdds(main')
      BY <1>2, <1>4, <2>1, <2>7 DEF Drawing, NoTask
    <3>2. Stored(r)'
      BY <1>2, <1>4, <2>1, <2>7 DEF Drawing, Stored
    <3>3. OnItsView(r)'
      BY <2>7, <2>8 DEF OnItsView
    <3>. QED BY <2>6, <3>1, <3>2, <3>3 DEF Settled
  <2>. QED BY <1>2, <1>4, <2>9 DEF InStages
<1>. QED BY <1>1, <1>3, <1>4

\* With a user who waits, each request ends with its answer stored, weighed once and
\* drawn alone, or failed with nothing left of the answer before (refreshTapped and
\* the toggles, emptyArrays, deployMarkerAndHeatmap).
THEOREM LoneAnswerShownInvariant == Spec => []LoneAnswerShown
<1>1. Init => InStages
  <2>1. Init => OnlyAdds(main) /\ NoTask /\ Cleared
    BY DEF Init, OnlyAdds, NoTask, Cleared, Unweighed
  <2>. QED BY <2>1 DEF Init, InStages, Fresh
<1>2. TypeOK /\ InStages /\ [Next]_vars => InStages'
  <2>. SUFFICES ASSUME TypeOK, InStages, [Next]_vars, patient'
                PROVE  InStages'
    BY DEF InStages
  <2>1. patient
    BY DEF Next, User, MainQueue, Callbacks, RefreshTapped, ToggleDataTapped, ToggleViewTapped,
       PlacePicked, MarkerTapped, RunEmptyArrays, RunRelay, RunDeploy, RunAddMarkers,
       StoreResponse, CallCompletion, RequestFails, DidUpdateLocations, vars
  <2>2. CASE (\E m \in markers : MarkerTapped(m)) \/ UNCHANGED vars
    <3>1. UNCHANGED <<segmentVars, dataVars, screenVars, networkVars, isDataRequestSent, main,
                      patient>>
      BY <2>2 DEF MarkerTapped, vars
    <3>2. /\ UNCHANGED <<isCrime, dataVars, networkVars, isDataRequestSent, patient>>
          /\ UNCHANGED <<markers, main, viewSegment, heat>>
      BY <3>1 DEF segmentVars, screenVars
    <3>3. \A r \in Request : Settled(r) => OnItsView(r)'
      BY <3>2 DEF Settled, OnItsView, KindOf
    <3>4. /\ OnlyAdds(main) => OnlyAdds(main')
          /\ \A b \in Block : b.op # "addMarkers" /\ OneOther(main, b) => OneOther(main', b)
      BY <3>2
    <3>5. markers' \subseteq markers \cup UNION {data[k] : k \in Kinds}
      BY <3>2
    <3>. QED BY <2>1, <3>2, <3>3, <3>4, <3>5, QuietStep
  <2>. QED BY <2>1, <2>2, RequestingStep, ToggleViewStep, AddMarkersStep, RequestSteps, DrawingSteps
       DEF Next, User, MainQueue, Callbacks
<1>3. TypeOK /\ InStages => LoneAnswerShown
  <2>. SUFFICES ASSUME TypeOK, InStages, patient, Idle, sent > 0
                PROVE  LoneAnswerShown
    BY DEF LoneAnswerShown
  <2>1. isDataRequestSent
    BY DEF InStages, Fresh
  <2>2. main = <<>> /\ NoTask
    BY DEF Idle, NoTask
  <2>3. \A b \in Block : ~OneOther(main, b)
    BY <2>2 DEF OneOther
  <2>4. (\E r \in Request : Settled(r)) \/ Failed
    BY <2>1, <2>2, <2>3 DEF InStages, Emptying, Asking, Answered, Drawing, NoTask
  <2>5. ASSUME NEW r \in Request, Settled(r)
        PROVE  LoneAnswerShown
    <3>1. r.kind \in Kinds
      BY DEF Request
    <3>2. /\ r.id = sent
          /\ \A k \in Kinds : data[k] = IF k = r.kind THEN {r} ELSE {}
          /\ \A k \in Kinds : weights[k] = IF k = r.kind THEN <<r.id>> ELSE <<>>
          /\ markers \subseteq {r}
          /\ viewSegment = 0 /\ r.kind = KindOf(isCrime) => markers = {r}
          /\ viewSegment = 1 /\ r.kind = "house" /\ ~isCrime => heat.weightedData = <<r.id>>
      <4>1. Stored(r) /\ OnItsView(r)
        BY <2>5 DEF Settled
      <4>2. \A k \in Kinds : weights[k] = IF k = r.kind THEN <<r.id>> ELSE <<>>
        BY <2>5 DEF Settled
      <4>3. ~ \E i \in 1 .. Len(main) : main[i] = BlockOf("addMarkers", r.kind)
        BY <2>2
      <4>4. /\ r.id = sent /\ markers \subseteq {r}
            /\ \A k \in Kinds : data[k] = IF k = r.kind THEN {r} ELSE {}
        BY <4>1 DEF Stored
      <4>5. viewSegment = 0 /\ r.kind = KindOf(isCrime) => markers = {r}
        BY <4>1, <4>3, Zenon DEF OnItsView
      <4>6. r.kind = "house" /\ ~isCrime => heat.weightedData = <<r.id>>
        BY <4>1, Zenon DEF OnItsView
      <4>. QED BY <4>2, <4>4, <4>5, <4>6, Zenon
    <3>3. r \in data[r.kind]
      BY <3>1, <3>2
    <3>4. \E kind \in Kinds : \E b \in data[kind] :
            /\ b.id = sent
            /\ \A k \in Kinds : data[k] = IF k = kind THEN {b} ELSE {}
            /\ \A k \in Kinds : weights[k] = IF k = kind THEN <<b.id>> ELSE <<>>
            /\ markers \subseteq {b}
            /\ viewSegment = 0 /\ kind = KindOf(isCrime) => markers = {b}
            /\ viewSegment = 1 /\ kind = "house" /\ ~isCrime => heat.weightedData = <<b.id>>
      BY <3>1, <3>2, <3>3, Zenon
    <3>. QED BY <3>4 DEF LoneAnswerShown
  <2>6. CASE Failed
    BY <2>6 DEF LoneAnswerShown, Failed, Cleared, Unweighed
  <2>. QED BY <2>4, <2>5, <2>6
<1>. QED BY <1>1, <1>2, <1>3, TypeCorrect, PTL DEF Spec

-----------------------------------------------------------------------------
(* What the indicator and a stored answer wait for, whoever the user is.   *)

\* The blocks of the queue after one is added, or taken off the front.
LEMMA RangeOfQueue ==
    ASSUME NEW q \in Seq(Block)
    PROVE  /\ \A b \in Block : Range(Async(q, b)) = Range(q) \cup {b}
           /\ q # <<>> => Range(q) = {Head(q)} \cup Range(Tail(q))
<1>1. \A s \in Seq(Block) : Range(s) = {s[i] : i \in 1 .. Len(s)}
  BY DEF Range
<1>2. PICK n \in Nat : n = Len(q)
  OBVIOUS
<1>3. ASSUME NEW b \in Block
      PROVE  Range(Async(q, b)) = Range(q) \cup {b}
  <2>1. PICK a : a = Append(q, b)
    OBVIOUS
  <2>2. /\ a \in Seq(Block) /\ Len(a) = n + 1
        /\ a[n + 1] = b /\ \A i \in 1 .. n : a[i] = q[i]
    BY <1>2, <2>1
  <2>3. \A i \in 1 .. n + 1 : i = n + 1 \/ i \in 1 .. n
    OBVIOUS
  <2>4. \A i \in 1 .. n : i \in 1 .. n + 1
    OBVIOUS
  <2>5. Range(a) = {a[i] : i \in 1 .. n + 1} /\ Range(q) = {q[i] : i \in 1 .. n}
    BY <1>1, <1>2, <2>2
  <2>6. Range(a) \subseteq Range(q) \cup {b}
    BY <2>2, <2>3, <2>5
  <2>7. Range(q) \cup {b} \subseteq Range(a)
    <3>1. b \in Range(a)
      BY <2>2, <2>5
    <3>2. Range(q) \subseteq Range(a)
      BY <2>2, <2>4, <2>5
    <3>. QED BY <3>1, <3>2
  <2>. QED BY <2>1, <2>6, <2>7 DEF Async
<1>4. ASSUME q # <<>>
      PROVE  Range(q) = {Head(q)} \cup Range(Tail(q))
  <2>1. PICK t \in Seq(Block) : t = Tail(q)
    <3>1. Tail(q) \in Seq(Block)
      BY <1>4, Queue
    <3>. QED BY <3>1
  <2>2. /\ Head(q) = q[1] /\ n >= 1 /\ Len(t) = n - 1
        /\ \A i \in 1 .. n - 1 : t[i] = q[i + 1]
    BY <1>2, <1>4, <2>1
  <2>3. Range(t) = {t[i] : i \in 1 .. n - 1} /\ Range(q) = {q[i] : i \in 1 .. n}
    BY <1>1, <1>2, <2>2
  <2>4. ASSUME NEW i \in 1 .. n, i # 1
        PROVE  \E j \in 1 .. n - 1 : t[j] = q[i]
    <3>1. i - 1 \in 1 .. n - 1 /\ (i - 1) + 1 = i
      BY <2>4
    <3>. QED BY <2>2, <3>1
  <2>5. \A i \in 1 .. n - 1 : i + 1 \in 1 .. n /\ t[i] = q[i + 1]
    BY <2>2
  <2>6. Range(q) \subseteq {Head(q)} \cup Range(t)
    <3>1. \A i \in 1 .. n : q[i] \in {Head(q)} \cup Range(t)
      BY <2>2, <2>3, <2>4
    <3>. QED BY <2>3, <3>1
  <2>7. {Head(q)} \cup Range(t) \subseteq Range(q)
    <3>1. Head(q) \in Range(q)
      BY <2>2, <2>3
    <3>2. Range(t) \subseteq Range(q)
      BY <2>3, <2>5
    <3>. QED BY <3>1, <3>2
  <2>. QED BY <2>1, <2>6, <2>7
<1>. QED BY <1>3, <1>4

\* Every step adds blocks to the queue, or takes the block it runs off its front.
LEMMA RangeOfStep ==
    ASSUME TypeOK
    PROVE  /\ User \/ Callbacks \/ DidUpdateLocations => Range(main) \subseteq Range(main')
           /\ MainQueue => /\ main # <<>> /\ Head(main) \in Block
                           /\ Range(main) \subseteq {Head(main)} \cup Range(main')
<1>0. main \in Seq(Block)
  BY DEF TypeOK
<1>1. ASSUME NEW b \in Block, main' = Async(main, b)
      PROVE  Range(main) \subseteq Range(main')
  <2>1. Range(Async(main, b)) = Range(main) \cup {b}
    BY <1>0, RangeOfQueue
  <2>. QED BY <1>1, <2>1
<1>3. ASSUME User \/ Callbacks \/ DidUpdateLocations
      PROVE  Range(main) \subseteq Range(main')
  <2>1. \A c \in BOOLEAN : KindOf(c) \in Kinds
    BY KindsOf
  <2>2. isCrime \in BOOLEAN /\ isCrime' \in BOOLEAN
    <3>1. isCrime \in BOOLEAN
      BY DEF TypeOK
    <3>2. isCrime' = isCrime \/ isCrime' = (dataSegment' = 1)
      BY <1>3 DEF User, Callbacks, RefreshTapped, ToggleDataTapped, ToggleViewTapped, PlacePicked,
         MarkerTapped, StoreResponse, CallCompletion, RequestFails, DidUpdateLocations, segmentVars
    <3>. QED BY <3>1, <3>2
  <2>3. ASSUME NEW isNear \in BOOLEAN, RefreshTapped(isNear) \/ ToggleDataTapped(isNear)
        PROVE  \E b \in Block : main' = Async(main, b)
    BY <2>1, <2>2, <2>3, KindsOf DEF RefreshTapped, ToggleDataTapped, EmptyArrays
  <2>4. ASSUME PlacePicked
        PROVE  \E b \in Block : main' = Async(main, b)
    BY <2>4, KindsOf DEF PlacePicked, EmptyArrays, Kinds
  <2>5. ASSUME ToggleViewTapped, main' # main
        PROVE  \E b \in Block : main' = Async(main, b)
    BY <2>1, <2>2, <2>5, KindsOf DEF ToggleViewTapped
  <2>6. ASSUME NEW r \in background, CallCompletion(r)
        PROVE  \E b \in Block : main' = Async(main, b)
    <3>1. r.kind \in Kinds
      BY DEF TypeOK, Request
    <3>. QED BY <2>6, <3>1, KindsOf DEF CallCompletion
  <2>7. main' = main \/ \E b \in Block : main' = Async(main, b)
    BY <1>3, <2>3, <2>4, <2>5, <2>6
       DEF User, Callbacks, MarkerTapped, StoreResponse, RequestFails, DidUpdateLocations
  <2>. QED BY <1>1, <2>7
<1>4. ASSUME MainQueue
      PROVE  /\ main # <<>> /\ Head(main) \in Block
             /\ Range(main) \subseteq {Head(main)} \cup Range(main')
  <2>1. RunEmptyArrays \/ RunRelay \/ RunDeploy \/ RunAddMarkers
    BY <1>4 DEF MainQueue
  <2>2. main # <<>>
    BY <2>1 DEF RunEmptyArrays, RunRelay, RunDeploy, RunAddMarkers, RunBlock
  <2>3. Head(main) \in Block /\ Tail(main) \in Seq(Block)
    BY <1>0, <2>2
  <2>4. Range(main) = {Head(main)} \cup Range(Tail(main))
    BY <1>0, <2>2, RangeOfQueue
  <2>5. Range(Tail(main)) \subseteq Range(main')
    <3>1. BlockOf("deploy", Head(main).kind) \in Block
      BY <2>3, KindsOf DEF Block
    <3>2. Range(Tail(main)) \subseteq Range(Async(Tail(main), BlockOf("deploy", Head(main).kind)))
      <4>1. PICK t \in Seq(Block), b \in Block :
                t = Tail(main) /\ b = BlockOf("deploy", Head(main).kind)
        BY <2>3, <3>1
      <4>2. Range(Async(t, b)) = Range(t) \cup {b}
        BY RangeOfQueue
      <4>. QED BY <4>1, <4>2
    <3>3. main' = Tail(main) \/ main' = Async(Tail(main), BlockOf("deploy", Head(main).kind))
      BY <2>1 DEF RunEmptyArrays, RunRelay, RunDeploy, RunAddMarkers
    <3>. QED BY <3>2, <3>3
  <2>. QED BY <2>2, <2>3, <2>4, <2>5
<1>. QED BY <1>3, <1>4

\* The blocks that a step leaves behind it.
LEMMA BlocksAdded ==
    ASSUME TypeOK
    PROVE  /\ \A isNear \in BOOLEAN :
                RefreshTapped(isNear) \/ ToggleDataTapped(isNear) \/ PlacePicked =>
                    \E b \in Range(main') : b.op = "emptyArrays"
           /\ \A r \in background :
                CallCompletion(r) =>
                    \E b \in Range(main') : b.op \in {"relay", "deploy"} /\ b.kind = r.kind
           /\ RunRelay => \E b \in Range(main') : b.op = "deploy" /\ b.kind = Head(main).kind
<1>0. main \in Seq(Block)
  BY DEF TypeOK
<1>1. ASSUME NEW q \in Seq(Block), NEW b \in Block, main' = Async(q, b)
      PROVE  b \in Range(main')
  <2>1. Range(Async(q, b)) = Range(q) \cup {b}
    BY RangeOfQueue
  <2>. QED BY <1>1, <2>1
<1>2. ASSUME NEW isNear \in BOOLEAN,
             RefreshTapped(isNear) \/ ToggleDataTapped(isNear) \/ PlacePicked
      PROVE  \E b \in Range(main') : b.op = "emptyArrays"
  <2>1. isCrime \in BOOLEAN /\ (ToggleDataTapped(isNear) => isCrime' \in BOOLEAN)
    BY DEF TypeOK, ToggleDataTapped
  <2>2. PICK kind \in Kinds, n \in BOOLEAN, relay \in BOOLEAN :
            main' = Async(main, [op |-> "emptyArrays", kind |-> kind, near |-> n, relay |-> relay])
    <3>1. CASE RefreshTapped(isNear)
      BY <2>1, <3>1, KindsOf DEF RefreshTapped, EmptyArrays
    <3>2. CASE ToggleDataTapped(isNear)
      BY <2>1, <3>2, KindsOf DEF ToggleDataTapped, EmptyArrays
    <3>3. CASE PlacePicked
      BY <3>3 DEF PlacePicked, EmptyArrays, Kinds
    <3>. QED BY <1>2, <3>1, <3>2, <3>3
  <2>3. PICK b \in Block : b.op = "emptyArrays" /\ main' = Async(main, b)
    BY <2>2, KindsOf
  <2>. QED BY <1>0, <1>1, <2>3
<1>3. ASSUME NEW r \in background, CallCompletion(r)
      PROVE  \E b \in Range(main') : b.op \in {"relay", "deploy"} /\ b.kind = r.kind
  <2>1. r.kind \in Kinds
    BY DEF TypeOK, Request
  <2>2. PICK op \in {"relay", "deploy"} : main' = Async(main, BlockOf(op, r.kind))
    BY <1>3 DEF CallCompletion
  <2>3. PICK b \in Block : b = BlockOf(op, r.kind)
    BY <2>1, KindsOf
  <2>4. b.op = op /\ b.kind = r.kind
    BY <2>3 DEF BlockOf
  <2>. QED BY <1>0, <1>1, <2>2, <2>3, <2>4
<1>4. ASSUME RunRelay
      PROVE  \E b \in Range(main') : b.op = "deploy" /\ b.kind = Head(main).kind
  <2>1. main # <<>>
    BY <1>4 DEF RunRelay, RunBlock
  <2>2. PICK h \in Block, t \in Seq(Block) : h = Head(main) /\ t = Tail(main)
    BY <1>0, <2>1, Queue
  <2>3. h.kind \in Kinds
    BY DEF Block
  <2>4. PICK b \in Block : b = BlockOf("deploy", h.kind)
    BY <2>3, KindsOf
  <2>5. main' = Async(t, b)
    BY <1>4, <2>2, <2>4 DEF RunRelay
  <2>6. b.op = "deploy" /\ b.kind = h.kind
    BY <2>4 DEF BlockOf
  <2>. QED BY <1>1, <2>2, <2>5, <2>6
<1>. QED BY <1>2, <1>3, <1>4

\* While the indicator turns there is a request, an answer or a block of one to wait
\* for, if no property request fails (prepareViewForUpdate, deployMarkerAndHeatmap,
\* toggleViewTapped): the safety half of SpinnerStops.
THEOREM SpinnerHasCauseInvariant == Spec => []SpinnerHasCause
<1>1. Init => SpinnerHasCause
  BY DEF Init, SpinnerHasCause
<1>2. TypeOK /\ SpinnerHasCause /\ [Next]_vars => SpinnerHasCause'
  <2>. SUFFICES ASSUME TypeOK, SpinnerHasCause, [Next]_vars,
                       isDataRequestSent', spinner', "house" \notin Failing
                PROVE  \/ requests' # {}
                       \/ background' # {}
                       \/ \E b \in Range(main') : b.op # "addMarkers"
    BY DEF SpinnerHasCause
  <2>1. CASE UNCHANGED vars \/ \E m \in markers : MarkerTapped(m)
    BY <2>1 DEF SpinnerHasCause, MarkerTapped, vars, screenVars, networkVars
  <2>2. ASSUME NEW isNear \in BOOLEAN,
               RefreshTapped(isNear) \/ ToggleDataTapped(isNear) \/ PlacePicked
        PROVE  \E b \in Range(main') : b.op # "addMarkers"
    BY <2>2, BlocksAdded
  <2>3. ~ToggleViewTapped /\ ~RunDeploy
    BY DEF ToggleViewTapped, RunDeploy
  <2>4. CASE DidUpdateLocations \/ RunEmptyArrays
    BY <2>4 DEF DidUpdateLocations, RunEmptyArrays, PerformNetworkTask
  <2>5. CASE RunRelay
    BY <2>5, BlocksAdded
  <2>6. CASE RunAddMarkers
    <3>1. Head(main).op = "addMarkers" /\ main # <<>>
      BY <2>6 DEF RunAddMarkers, RunBlock
    <3>2. Range(main) = {Head(main)} \cup Range(main')
      BY <2>6, <3>1, RangeOfQueue DEF RunAddMarkers, TypeOK
    <3>. QED BY <2>6, <3>1, <3>2 DEF SpinnerHasCause, RunAddMarkers, networkVars
  <2>7. ASSUME NEW r \in requests, StoreResponse(r)
        PROVE  background' # {}
    BY <2>7 DEF StoreResponse
  <2>8. ASSUME NEW r \in background, CallCompletion(r)
        PROVE  \E b \in Range(main') : b.op # "addMarkers"
    BY <2>8, BlocksAdded
  <2>9. ASSUME NEW r \in requests
        PROVE  ~RequestFails(r)
    BY DEF RequestFails
  <2>. QED
    BY <2>1, <2>2, <2>3, <2>4, <2>5, <2>6, <2>7, <2>8, <2>9 DEF Next, User, MainQueue, Callbacks
<1>. QED BY <1>1, <1>2, TypeCorrect, PTL DEF Spec

\* An answer that is stored has been weighed, or a completion or a block that will
\* weigh and draw it is still to come, whatever taps and answers come between
\* (deployMarkerAndHeatmapForProperty and -ForCrime): the safety half of StoredIsDrawn.
THEOREM StoredOnItsWayInvariant == Spec => []StoredOnItsWay
<1>. DEFINE OneAnswer == \A p, q \in background : p = q
<1>1. Init => StoredOnItsWay /\ OneAnswer
  BY DEF Init, StoredOnItsWay
<1>2. OneAnswer /\ [Next]_vars => OneAnswer'
  BY DEF Next, User, MainQueue, Callbacks, RefreshTapped, ToggleDataTapped, ToggleViewTapped,
     PlacePicked, MarkerTapped, RunEmptyArrays, RunRelay, RunDeploy, RunAddMarkers,
     StoreResponse, CallCompletion, RequestFails, DidUpdateLocations, vars, networkVars
<1>3. TypeOK /\ OneAnswer /\ StoredOnItsWay /\ [Next]_vars => StoredOnItsWay'
  <2>. SUFFICES ASSUME TypeOK, OneAnswer, StoredOnItsWay, [Next]_vars,
                       NEW k \in Kinds, NEW b \in data'[k]
                PROVE  \/ b \in background'
                       \/ \E c \in Range(main') : c.op \in {"relay", "deploy"} /\ c.kind = k
                       \/ b.id \in Range(weights'[k])
    BY DEF StoredOnItsWay
  <2>0. b \in data[k] =>
           \/ b \in background
           \/ \E c \in Range(main) : c.op \in {"relay", "deploy"} /\ c.kind = k
           \/ b.id \in Range(weights[k])
    BY DEF StoredOnItsWay
  <2>1. CASE /\ UNCHANGED <<data, weights>> /\ background \subseteq background'
             /\ Range(main) \subseteq Range(main')
    BY <2>0, <2>1
  <2>2. CASE RunEmptyArrays
    BY <2>2 DEF RunEmptyArrays
  <2>3. CASE RunRelay
    <3>1. UNCHANGED <<data, weights, background>>
      BY <2>3 DEF RunRelay, dataVars, networkVars
    <3>2. Range(main) \subseteq {Head(main)} \cup Range(main')
      BY <2>3, RangeOfStep DEF MainQueue
    <3>3. \E c \in Range(main') : c.op = "deploy" /\ c.kind = Head(main).kind
      BY <2>3, BlocksAdded
    <3>. QED BY <2>0, <3>1, <3>2, <3>3
  <2>4. CASE RunAddMarkers
    <3>1. UNCHANGED <<data, weights, background>> /\ Head(main).op = "addMarkers"
      BY <2>4 DEF RunAddMarkers, RunBlock, dataVars, networkVars
    <3>2. Range(main) \subseteq {Head(main)} \cup Range(main')
      BY <2>4, RangeOfStep DEF MainQueue
    <3>. QED BY <2>0, <3>1, <3>2
  <2>5. CASE RunDeploy
    <3>1. data' = data /\ background' = background /\ Head(main).op = "deploy"
      BY <2>5 DEF RunDeploy, RunBlock, networkVars
    <3>2. Range(main) \subseteq {Head(main)} \cup Range(main')
      BY <2>5, RangeOfStep DEF MainQueue
    <3>3. Head(main).kind \in Kinds
      BY <2>5, RangeOfStep DEF MainQueue, Block
    <3>4. CASE k = Head(main).kind
      <4>1. weights'[k] = weights[k] \o SetToSeq({c.id : c \in data[k]})
        BY <2>5, <3>4 DEF RunDeploy, TypeOK
      <4>2. data[k] = {b} /\ b.id \in Nat
        BY <3>1 DEF TypeOK, Request
      <4>3. {c.id : c \in data[k]} = {b.id}
        BY <4>2
      <4>4. SetToSeq({b.id}) = <<b.id>>
        BY <4>2, IdOfBatch
      <4>5. PICK w \in Seq(Nat), n \in Nat : w = weights[k] /\ n = b.id
        BY <4>2 DEF TypeOK
      <4>6. weights'[k] = w \o <<n>>
        BY <4>1, <4>3, <4>4, <4>5
      <4>7. n \in Range(w \o <<n>>)
        <5>1. (w \o <<n>>)[Len(w) + 1] = n /\ Len(w) + 1 \in DOMAIN (w \o <<n>>)
          OBVIOUS
        <5>. QED BY <5>1 DEF Range
      <4>. QED BY <4>5, <4>6, <4>7
    <3>5. CASE k # Head(main).kind
      <4>1. weights'[k] = weights[k]
        BY <2>5, <3>5 DEF RunDeploy, TypeOK
      <4>. QED BY <2>0, <3>1, <3>2, <3>5, <4>1
    <3>. QED BY <3>4, <3>5
  <2>6. ASSUME NEW r \in requests, StoreResponse(r)
        PROVE  \/ b \in background'
               \/ \E c \in Range(main') : c.op \in {"relay", "deploy"} /\ c.kind = k
               \/ b.id \in Range(weights'[k])
    <3>1. /\ data' = [data EXCEPT ![r.kind] = {r}]
          /\ background = {} /\ background' = {r}
          /\ UNCHANGED <<weights, main>>
      BY <2>6 DEF StoreResponse
    <3>2. CASE k = r.kind
      BY <3>1, <3>2 DEF TypeOK
    <3>3. CASE k # r.kind
      BY <2>0, <3>1, <3>3 DEF TypeOK
    <3>. QED BY <3>2, <3>3
  <2>7. ASSUME NEW r \in background, CallCompletion(r)
        PROVE  \/ \E c \in Range(main') : c.op \in {"relay", "deploy"} /\ c.kind = k
               \/ b.id \in Range(weights'[k])
    <3>1. UNCHANGED <<data, weights>>
      BY <2>7 DEF CallCompletion, dataVars
    <3>2. \E c \in Range(main') : c.op \in {"relay", "deploy"} /\ c.kind = r.kind
      BY <2>7, BlocksAdded
    <3>3. b \in background => r.kind = k
      BY <3>1 DEF TypeOK
    <3>4. Range(main) \subseteq Range(main')
      BY <2>7, RangeOfStep DEF Callbacks
    <3>. QED BY <2>0, <3>1, <3>2, <3>3, <3>4
  <2>8. CASE UNCHANGED vars
    BY <2>0, <2>8 DEF vars, dataVars, networkVars
  <2>9. CASE User \/ DidUpdateLocations \/ \E r \in requests : RequestFails(r)
    <3>1. UNCHANGED <<data, weights, background>>
      BY <2>9 DEF User, RefreshTapped, ToggleDataTapped, ToggleViewTapped, PlacePicked,
         MarkerTapped, DidUpdateLocations, RequestFails, dataVars, networkVars
    <3>2. Range(main) \subseteq Range(main')
      BY <2>9, RangeOfStep DEF Callbacks
    <3>. QED BY <2>1, <3>1, <3>2
  <2>. QED BY <2>2, <2>3, <2>4, <2>5, <2>6, <2>7, <2>8, <2>9 DEF Next, MainQueue, Callbacks
<1>. QED BY <1>1, <1>2, <1>3, TypeCorrect, PTL DEF Spec

=============================================================================
