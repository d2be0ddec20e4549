--------------------------- MODULE MapClient_proofs ---------------------------
(***************************************************************************)
(* Proofs about MapClient, for any features, viewports and bounds.         *)
(***************************************************************************)
EXTENDS MapClient, SequenceTheorems, TLAPS

(* Nothing is drawn for a feature in heatmap mode or with items off.       *)
NoLayersUnlessDrawing ==
  ~(items /\ mode = "cluster") => \A k \in Ids : layers[k] = Gone

(* The first frame of a connection will be a snapshot.                     *)
FirstIsSnapshot ==
  /\ pending # "no" => asked # NoRequest
  /\ ~begun => downlink = << >>
  /\ ~begun /\ asked # NoRequest => pending = "snapshot"

(* The inductive invariant.                                                *)
IInv ==
  /\ TypeOK
  /\ NoLayersUnlessDrawing
  /\ LayersUnlessGhosts
  /\ HeatShowsStore
  /\ FirstIsSnapshot
  /\ StoreFollowsServer

----------------------------------------------------------------------------
(* The operators have the types of the variables they are assigned to.     *)
LEMMA ListingType ==
  ASSUME TypeOK, NEW request \in Requests
  PROVE  Listing(request) \in FeatureMaps
BY DEF TypeOK, Listing, FeatureMaps, Features, Requests

LEMMA FrameTypes ==
  ASSUME NEW old \in FeatureMaps, NEW new \in FeatureMaps
  PROVE  Snapshot(new) \in Frames /\ Delta(old, new) \in Frames
<1>1. Snapshot(new) \in Frames
  BY DEF Snapshot, Frames
<1>2. [k \in Ids |-> IF new[k] = old[k] THEN Gone ELSE new[k]] \in FeatureMaps
  BY DEF FeatureMaps
<1>3. Delta(old, new) \in Frames
  BY <1>2 DEF Delta, Frames
<1>4. QED
  BY <1>1, <1>3

LEMMA HeatOfType ==
  ASSUME NEW features \in FeatureMaps
  PROVE  HeatOf(features) \in HeatMaps
BY DEF FeatureMaps, HeatMaps, HeatOf, Features

LEMMA HeatedType ==
  ASSUME NEW old \in HeatMaps, NEW frame \in Frames
  PROVE  Heated(old, frame) \in HeatMaps
<1>1. frame.put \in FeatureMaps
  BY DEF Frames
<1>2. QED
  BY <1>1 DEF FeatureMaps, HeatMaps, Heated, Features

LEMMA AppliedType ==
  ASSUME NEW features \in FeatureMaps, NEW frame \in Frames
  PROVE  Applied(features, frame) \in FeatureMaps
<1>1. frame.put \in FeatureMaps
  BY DEF Frames
<1>2. QED
  BY <1>1 DEF FeatureMaps, Applied

LEMMA LayerTypes ==
  ASSUME NEW lay \in FeatureMaps, NEW features \in FeatureMaps,
         NEW frame \in Frames, NEW drawing, NEW bounds
  PROVE  /\ Synced(drawing, lay, features, bounds) \in FeatureMaps
         /\ Patched(drawing, lay, frame, bounds) \in FeatureMaps
<1>1. frame.put \in FeatureMaps
  BY DEF Frames
<1>2. Synced(drawing, lay, features, bounds) \in FeatureMaps
  BY DEF FeatureMaps, Synced
<1>3. Patched(drawing, lay, frame, bounds) \in FeatureMaps
  BY <1>1 DEF FeatureMaps, Patched
<1>4. QED
  BY <1>2, <1>3

LEMMA NowhereType == Nowhere \in FeatureMaps /\ Nowhere \in HeatMaps
BY DEF Nowhere, FeatureMaps, HeatMaps

LEMMA WantedType == TypeOK => Wanted \in Requests
BY DEF TypeOK, Wanted, Requests

(* A request that is sent, or held back, leaves the uplink well typed.     *)
LEMMA SendType ==
  ASSUME TypeOK, NEW request \in Requests, NEW force,
         SendViewportNow(request, force)
  PROVE  uplink' \in Seq(Requests) /\ lastSent' \in Requests \cup {NoRequest}
BY DEF TypeOK, SendViewportNow

(* What syncVisibleLayers leaves is right, except for wrong layers.        *)
LEMMA SyncedIsRight ==
  ASSUME NEW drawing \in BOOLEAN, NEW lay, NEW features, NEW bounds,
         NEW k \in Ids,
         k \notin Wrong(Synced(drawing, lay, features, bounds), features)
  PROVE  Synced(drawing, lay, features, bounds)[k] =
           IF drawing /\ k \in Frustum[bounds] THEN features[k] ELSE Gone
BY DEF Wrong, Synced

(* Heat points that are patched as the store is are the store's.           *)
LEMMA HeatedIsHeatOfApplied ==
  ASSUME NEW features \in FeatureMaps, NEW frame \in Frames, frame.kind = "d"
  PROVE  Heated(HeatOf(features), frame) = HeatOf(Applied(features, frame))
<1>1. frame.put \in FeatureMaps
  BY DEF Frames
<1>2. \A f \in Features : f # Gone
  BY GoneAssumption
<1>3. \A k \in Ids : Heated(HeatOf(features), frame)[k]
                    = HeatOf(Applied(features, frame))[k]
  BY <1>1, <1>2 DEF Heated, HeatOf, Applied
<1>4. QED
  BY <1>3 DEF Heated, HeatOf

----------------------------------------------------------------------------
LEMMA InitIInv == Init => IInv
<1> SUFFICES ASSUME Init PROVE IInv
  OBVIOUS
<1>1. TypeOK
  <2>1. uplink \in Seq(Requests) /\ downlink \in Seq(Frames)
    BY DEF Init
  <2>2. /\ last \in FeatureMaps /\ store \in FeatureMaps
        /\ layers \in FeatureMaps
        /\ heat \in HeatMaps /\ drawn \in HeatMaps
    BY NowhereType DEF Init
  <2>3. /\ changes \in 0 .. MaxChanges /\ actions \in 0 .. MaxActions
        /\ drops \in 0 .. MaxDrops
    BY BoundsAssumption DEF Init
  <2>4. /\ world \in [Ids -> Contents \cup {Gone}]
        /\ asked \in Requests \cup {NoRequest}
        /\ lastSent \in Requests \cup {NoRequest}
        /\ pending \in {"no", "delta", "snapshot"}
        /\ view \in Viewports /\ mode \in Modes
        /\ connected \in BOOLEAN /\ begun \in BOOLEAN
        /\ items \in BOOLEAN /\ debounce \in BOOLEAN /\ heatOn \in BOOLEAN
        /\ ghosts \in SUBSET Ids
    BY DEF Init, Modes
  <2>5. QED
    BY <2>1, <2>2, <2>3, <2>4 DEF TypeOK
<1>2. NoLayersUnlessDrawing /\ LayersUnlessGhosts
  BY DEF Init, NoLayersUnlessDrawing, LayersUnlessGhosts, Nowhere
<1>3. HeatShowsStore /\ FirstIsSnapshot /\ StoreFollowsServer
  BY DEF Init, HeatShowsStore, FirstIsSnapshot, StoreFollowsServer
<1>4. QED
  BY <1>1, <1>2, <1>3 DEF IInv

(* Every step keeps the variables in their types.                          *)
LEMMA TypeStep == TypeOK /\ FirstIsSnapshot /\ [Next]_vars => TypeOK'
<1> SUFFICES ASSUME TypeOK, FirstIsSnapshot, [Next]_vars PROVE TypeOK'
  OBVIOUS
<1> USE BoundsAssumption DEF server, link, inputs, screen, counts
<1>1. ASSUME NEW k \in Ids, NEW content \in Contents \cup {Gone},
             Change(k, content)
      PROVE  TypeOK'
  BY <1>1 DEF TypeOK, Change
<1>2. CASE Take
  <2>1. Head(uplink) \in Requests /\ Tail(uplink) \in Seq(Requests)
    BY <1>2 DEF TypeOK, Take
  <2>2. pending' \in {"no", "delta", "snapshot"}
    BY <1>2 DEF Take
  <2>3. QED
    BY <1>2, <2>1, <2>2 DEF TypeOK, Take
<1>3. CASE Emit
  <2> DEFINE new == Listing(asked)
             frame == IF pending = "snapshot" THEN Snapshot(new)
                      ELSE Delta(last, new)
  <2>1. last \in FeatureMaps /\ downlink \in Seq(Frames)
    BY DEF TypeOK
  <2>2. new \in FeatureMaps
    BY <1>3, ListingType DEF TypeOK, FirstIsSnapshot, Emit
  <2>3. frame \in Frames
    BY <2>1, <2>2, FrameTypes
  <2>4. downlink' = Append(downlink, frame) /\ last' = new
    BY <1>3 DEF Emit
  <2> HIDE DEF new, frame
  <2>5. downlink' \in Seq(Frames)
    BY <2>1, <2>3, <2>4
  <2>6. QED
    BY <1>3, <2>2, <2>4, <2>5 DEF TypeOK, Emit
<1>4. CASE Open
  <2>1. Wanted \in Requests
    BY WantedType
  <2>2. <<Wanted>> \in Seq(Requests)
    BY <2>1
  <2>3. QED
    BY <1>4, <2>1, <2>2 DEF TypeOK, Open
<1>5. CASE Drop
  <2>1. uplink' \in Seq(Requests) /\ downlink' \in Seq(Frames)
    BY <1>5 DEF Drop
  <2>2. last' \in FeatureMaps
    BY <1>5, NowhereType DEF Drop
  <2>3. /\ drops' \in 0 .. MaxDrops
        /\ asked' = NoRequest /\ pending' = "no"
        /\ connected' = FALSE /\ begun' = FALSE
        /\ UNCHANGED <<world, inputs, screen, changes, actions>>
    BY <1>5 DEF TypeOK, Drop
  <2>4. QED
    BY <2>1, <2>2, <2>3 DEF TypeOK
<1>6. CASE Receive
  <2> DEFINE frame == Head(downlink)
             old   == IF frame.kind = "s" THEN layers
                      ELSE Patched(items, layers, frame, view)
  <2>1. /\ frame \in Frames /\ Tail(downlink) \in Seq(Frames)
        /\ store \in FeatureMaps /\ layers \in FeatureMaps
        /\ heat \in HeatMaps /\ drawn \in HeatMaps
    BY <1>6 DEF TypeOK, Receive
  <2>2. store' = Applied(store, frame) /\ downlink' = Tail(downlink)
    BY <1>6 DEF Receive
  <2>3. store' \in FeatureMaps
    BY <2>1, <2>2, AppliedType
  <2>4. old \in FeatureMaps
    BY <2>1, LayerTypes
  <2>5. layers' \in {Nowhere, layers, Synced(items, old, store', view)}
    BY <1>6 DEF Receive
  <2>6. layers' \in FeatureMaps
    BY <2>1, <2>3, <2>4, <2>5, LayerTypes, NowhereType
  <2>7. heat' \in {HeatOf(store'), Heated(heat, frame), heat}
    BY <1>6 DEF Receive
  <2>8. heat' \in HeatMaps
    BY <2>1, <2>3, <2>7, HeatOfType, HeatedType
  <2>9. drawn' \in HeatMaps /\ heatOn' \in BOOLEAN
    BY <1>6, <2>1, <2>8 DEF Receive, TypeOK
  <2>10. ghosts' \in SUBSET Ids
    BY <1>6 DEF Receive, Wrong
  <2> HIDE DEF frame, old
  <2>11. UNCHANGED <<world, asked, pending, last, connected, uplink, begun,
                    view, mode, items, lastSent, debounce, changes, actions,
                    drops>>
    BY <1>6 DEF Receive
  <2>12. QED
    BY <2>1, <2>2, <2>3, <2>6, <2>8, <2>9, <2>10, <2>11 DEF TypeOK
<1>7. ASSUME NEW v \in Viewports, Move(v) PROVE TypeOK'
  <2>1. layers' \in FeatureMaps
    BY <1>7 DEF TypeOK, Move, Synced, FeatureMaps
  <2>2. ghosts' \in SUBSET Ids
    BY <1>7 DEF TypeOK, Move
  <2>3. QED
    BY <1>7, <2>1, <2>2 DEF TypeOK, Move, Act
<1>8. CASE Debounced
  <2>1. uplink' \in Seq(Requests) /\ lastSent' \in Requests \cup {NoRequest}
    BY <1>8, SendType, WantedType DEF Debounced
  <2>2. QED
    BY <1>8, <2>1 DEF TypeOK, Debounced
<1>9. CASE ToggleMode
  <2>1. mode' \in Modes /\ view \in Viewports
    BY <1>9 DEF TypeOK, ToggleMode, Modes
  <2>2. [viewport |-> view, mode |-> mode'] \in Requests
    BY <2>1 DEF Requests
  <2>3. uplink' \in Seq(Requests) /\ lastSent' \in Requests \cup {NoRequest}
    BY <1>9, <2>2, SendType DEF ToggleMode
  <2>4. layers' \in {Nowhere, Synced(items, layers, store, view)}
    BY <1>9 DEF ToggleMode
  <2>5. layers' \in FeatureMaps
    BY <2>4, NowhereType DEF TypeOK, Synced, FeatureMaps
  <2>6. heat' \in {HeatOf(store), heat} /\ drawn' \in {heat', drawn}
    BY <1>9 DEF ToggleMode
  <2>7. heat' \in HeatMaps /\ drawn' \in HeatMaps
    BY <2>6, HeatOfType DEF TypeOK
  <2>8. heatOn' \in BOOLEAN /\ ghosts' \in SUBSET Ids
    BY <1>9 DEF TypeOK, ToggleMode
  <2>9. /\ debounce' = FALSE /\ actions' \in 0 .. MaxActions
        /\ UNCHANGED <<world, asked, pending, last, connected, downlink, begun,
                       view, items, store, changes, drops>>
    BY <1>9 DEF TypeOK, ToggleMode, Act
  <2>10. QED
    BY <2>1, <2>3, <2>5, <2>7, <2>8, <2>9 DEF TypeOK
<1>10. CASE ToggleItems
  <2>1. layers' \in {layers, Synced(items', layers, store, view)}
    BY <1>10 DEF ToggleItems
  <2>2. layers' \in FeatureMaps
    BY <2>1 DEF TypeOK, Synced, FeatureMaps
  <2>3. drawn' \in {heat, drawn} /\ heatOn' \in BOOLEAN /\ items' \in BOOLEAN
    BY <1>10 DEF TypeOK, ToggleItems
  <2>4. ghosts' \in SUBSET Ids
    BY <1>10 DEF TypeOK, ToggleItems
  <2>5. QED
    BY <1>10, <2>2, <2>3, <2>4 DEF TypeOK, ToggleItems, Act
<1>11. CASE UNCHANGED vars
  BY <1>11 DEF TypeOK, vars
<1>12. QED
  BY <1>1, <1>2, <1>3, <1>4, <1>5, <1>6, <1>7, <1>8, <1>9, <1>10, <1>11
     DEF Next

(* The first frame of a connection stays a snapshot.                       *)
LEMMA FirstStep == TypeOK /\ FirstIsSnapshot /\ [Next]_vars => FirstIsSnapshot'
<1> SUFFICES ASSUME TypeOK, FirstIsSnapshot, [Next]_vars
             PROVE  FirstIsSnapshot'
  OBVIOUS
<1> USE DEF server, link, inputs, screen, counts
<1>1. ASSUME NEW k \in Ids, NEW content \in Contents \cup {Gone},
             Change(k, content)
      PROVE  FirstIsSnapshot'
  BY <1>1 DEF FirstIsSnapshot, Change
<1>2. CASE Take
  <2>1. asked' \in Requests
    BY <1>2 DEF TypeOK, Take
  <2>2. asked' # NoRequest
    BY <2>1, ModesAssumption
  <2>3. asked = NoRequest \/ pending = "snapshot" => pending' = "snapshot"
    BY <1>2 DEF Take
  <2>4. begun' = begun /\ downlink' = downlink
    BY <1>2 DEF Take
  <2>5. QED
    BY <2>2, <2>3, <2>4 DEF FirstIsSnapshot
<1>3. CASE Emit
  BY <1>3 DEF FirstIsSnapshot, Emit
<1>4. CASE Drop
  BY <1>4 DEF FirstIsSnapshot, Drop
<1>5. CASE Receive
  <2>1. begun
    BY <1>5 DEF FirstIsSnapshot, Receive
  <2>2. QED
    BY <1>5, <2>1 DEF FirstIsSnapshot, Receive
<1>6. CASE UNCHANGED <<server, downlink, begun>>
  BY <1>6 DEF FirstIsSnapshot
<1>7. Open \/ (\E v \in Viewports : Move(v)) \/ Debounced \/ ToggleMode
        \/ ToggleItems \/ UNCHANGED vars
      => UNCHANGED <<server, downlink, begun>>
  BY DEF Open, Move, Debounced, ToggleMode, ToggleItems, vars
<1>8. QED
  BY <1>1, <1>2, <1>3, <1>4, <1>5, <1>6, <1>7 DEF Next

----------------------------------------------------------------------------
(* A delta says what has changed, and nothing of what has not.             *)
LEMMA DeltaTells ==
  ASSUME NEW old \in FeatureMaps, NEW new \in FeatureMaps, NEW k \in Ids
  PROVE  IF Tells(Delta(old, new), k) THEN Delta(old, new).put[k] = new[k]
                                      ELSE new[k] = old[k]
BY DEF Tells, Delta

(* A snapshot says everything.                                             *)
LEMMA SnapshotTells ==
  ASSUME NEW new, NEW k \in Ids
  PROVE  Tells(Snapshot(new), k) /\ Snapshot(new).put[k] = new[k]
BY DEF Tells, Snapshot

(* A frame that is received decides of what it says and of nothing else.   *)
LEMMA AppliedTells ==
  ASSUME NEW features \in FeatureMaps, NEW frame \in Frames, NEW k \in Ids
  PROVE  Applied(features, frame)[k] =
           IF Tells(frame, k) THEN frame.put[k] ELSE features[k]
BY DEF Tells, Applied, Frames

(* Store and frames stay what the server takes them to be.                 *)
LEMMA StoreStep ==
  TypeOK /\ FirstIsSnapshot /\ StoreFollowsServer /\ [Next]_vars
    => StoreFollowsServer'
<1> SUFFICES ASSUME TypeOK, FirstIsSnapshot, StoreFollowsServer, [Next]_vars
             PROVE  StoreFollowsServer'
  OBVIOUS
<1> USE DEF server, link, inputs, screen, counts
<1>1. CASE Emit
  <2> DEFINE new   == Listing(asked)
             frame == IF pending = "snapshot" THEN Snapshot(new)
                      ELSE Delta(last, new)
             n     == Len(downlink)
  <2>1. /\ last \in FeatureMaps /\ downlink \in Seq(Frames) /\ n \in Nat
        /\ new \in FeatureMaps
    BY <1>1, ListingType DEF TypeOK, FirstIsSnapshot, Emit
  <2>2. downlink' = Append(downlink, frame) /\ last' = new /\ store' = store
    BY <1>1 DEF Emit
  <2>3. ASSUME NEW k \in Ids, Tells(frame, k) PROVE frame.put[k] = new[k]
    BY <2>1, <2>3, DeltaTells, SnapshotTells
  <2>4. ASSUME NEW k \in Ids, ~Tells(frame, k)
        PROVE  begun /\ new[k] = last[k]
    <3>1. pending # "snapshot"
      BY <2>4, SnapshotTells
    <3>2. begun
      BY <1>1, <3>1 DEF FirstIsSnapshot, Emit
    <3>3. QED
      BY <2>1, <2>4, <3>1, <3>2, DeltaTells
  <2> HIDE DEF new, frame
  <2>5. /\ Len(downlink') = n + 1
        /\ downlink'[n + 1] = frame
        /\ \A i \in 1 .. n : downlink'[i] = downlink[i]
    BY <2>1, <2>2
  <2> SUFFICES ASSUME NEW k \in Ids
               PROVE  /\ (\A i \in 1 .. n + 1 : ~Tells(downlink'[i], k))
                           => store[k] = new[k]
                      /\ \A i \in 1 .. n + 1 :
                           Tells(downlink'[i], k)
                             /\ (\A j \in i + 1 .. n + 1 : ~Tells(downlink'[j], k))
                           => downlink'[i].put[k] = new[k]
    BY <2>2, <2>5 DEF StoreFollowsServer, Tells
  <2>6. CASE Tells(frame, k)
    <3>1. n + 1 \in 1 .. n + 1
          /\ \A i \in 1 .. n : n + 1 \in i + 1 .. n + 1
      BY <2>1
    <3>2. \A i \in 1 .. n + 1 : i \in 1 .. n \/ i = n + 1
      BY <2>1
    <3>3. QED
      BY <2>3, <2>5, <2>6, <3>1, <3>2
  <2>7. CASE ~Tells(frame, k)
    <3>1. \A i \in 1 .. n : i \in 1 .. n + 1
      BY <2>1
    <3>2. \A i \in 1 .. n + 1 : i \in 1 .. n \/ i = n + 1
      BY <2>1
    <3>3. \A i \in 1 .. n : \A j \in i + 1 .. n :
            j \in i + 1 .. n + 1 /\ j \in 1 .. n
      BY <2>1
    <3>4. begun /\ new[k] = last[k]
      BY <2>4, <2>7
    <3>5. (\A i \in 1 .. n : ~Tells(downlink[i], k)) => store[k] = new[k]
      BY <3>4 DEF StoreFollowsServer
    <3>6. ASSUME NEW i \in 1 .. n, Tells(downlink[i], k),
                 \A j \in i + 1 .. n : ~Tells(downlink[j], k)
          PROVE  downlink[i].put[k] = new[k]
      BY <3>4, <3>6 DEF StoreFollowsServer
    <3>7. QED
      BY <2>5, <2>7, <3>1, <3>2, <3>3, <3>5, <3>6
  <2>8. QED
    BY <2>6, <2>7
<1>2. CASE Receive
  <2> DEFINE frame == Head(downlink)
             n     == Len(downlink)
  <2>1. /\ begun /\ begun' = begun /\ last' = last
        /\ downlink \in Seq(Frames) /\ n \in Nat /\ n >= 1
        /\ store \in FeatureMaps
    BY <1>2 DEF TypeOK, FirstIsSnapshot, Receive
  <2>2. /\ frame \in Frames /\ frame = downlink[1]
        /\ downlink' = Tail(downlink) /\ store' = Applied(store, frame)
    BY <1>2, <2>1 DEF Receive
  <2>3. /\ Len(downlink') = n - 1
        /\ \A i \in 1 .. n - 1 : downlink'[i] = downlink[i + 1]
    BY <2>1, <2>2
  <2>4. ASSUME NEW k \in Ids
        PROVE  store'[k] = IF Tells(frame, k) THEN frame.put[k] ELSE store[k]
    BY <2>1, <2>2, AppliedTells
  <2> HIDE DEF frame, n
  <2> SUFFICES ASSUME NEW k \in Ids
               PROVE  /\ (\A i \in 1 .. n - 1 : ~Tells(downlink'[i], k))
                           => store'[k] = last[k]
                      /\ \A i \in 1 .. n - 1 :
                           Tells(downlink'[i], k)
                             /\ (\A j \in i + 1 .. n - 1 : ~Tells(downlink'[j], k))
                           => downlink'[i].put[k] = last[k]
    BY <2>1, <2>3 DEF StoreFollowsServer, Tells
  <2>5. ASSUME \A i \in 1 .. n - 1 : ~Tells(downlink'[i], k)
        PROVE  store'[k] = last[k]
    <3>1. \A j \in 2 .. n : j - 1 \in 1 .. n - 1 /\ (j - 1) + 1 = j
      BY <2>1
    <3>2. \A j \in 2 .. n : ~Tells(downlink[j], k)
      BY <2>3, <2>5, <3>1
    <3>3. 1 \in 1 .. n /\ \A i \in 1 .. n : i = 1 \/ i \in 2 .. n
      BY <2>1
    <3>4. CASE Tells(frame, k)
      <4>1. \A j \in 1 + 1 .. n : ~Tells(downlink[j], k)
        BY <3>2
      <4>2. downlink[1].put[k] = last[k]
        BY <2>1, <2>2, <3>3, <3>4, <4>1 DEF StoreFollowsServer, n
      <4>3. QED
        BY <2>2, <2>4, <3>4, <4>2
    <3>5. CASE ~Tells(frame, k)
      BY <2>1, <2>2, <2>4, <3>2, <3>3, <3>5 DEF StoreFollowsServer, n
    <3>6. QED
      BY <3>4, <3>5
  <2>6. ASSUME NEW i \in 1 .. n - 1, Tells(downlink'[i], k),
               \A j \in i + 1 .. n - 1 : ~Tells(downlink'[j], k)
        PROVE  downlink'[i].put[k] = last[k]
    <3>1. i + 1 \in 1 .. n /\ downlink'[i] = downlink[i + 1]
      BY <2>1, <2>3
    <3>2. \A j \in (i + 1) + 1 .. n : j - 1 \in i + 1 .. n - 1
                                        /\ j - 1 \in 1 .. n - 1
                                        /\ (j - 1) + 1 = j
      BY <2>1
    <3>3. \A j \in (i + 1) + 1 .. n : ~Tells(downlink[j], k)
      BY <2>3, <2>6, <3>2
    <3>4. QED
      BY <2>1, <2>6, <3>1, <3>3 DEF StoreFollowsServer, n
  <2>7. QED
    BY <2>5, <2>6
<1>3. CASE Drop
  BY <1>3 DEF StoreFollowsServer, Drop
<1>4. CASE UNCHANGED <<begun, downlink, store, last>>
  BY <1>4 DEF StoreFollowsServer
<1>5. (\E k \in Ids, content \in Contents \cup {Gone} : Change(k, content))
        \/ Take \/ Open \/ (\E v \in Viewports : Move(v)) \/ Debounced
        \/ ToggleMode \/ ToggleItems \/ UNCHANGED vars
      => UNCHANGED <<begun, downlink, store, last>>
  BY DEF Change, Take, Open, Move, Debounced, ToggleMode, ToggleItems, vars
<1>6. QED
  BY <1>1, <1>2, <1>3, <1>4, <1>5 DEF Next

----------------------------------------------------------------------------
Drawing == items /\ mode = "cluster"

(***************************************************************************)
(* A step that leaves the layers as syncVisibleLayers does, or removes     *)
(* them all when none may be drawn, and forgets the ghosts that it         *)
(* repaired, keeps the layers right except for ghosts.                     *)
(***************************************************************************)
LEMMA SyncedStep ==
  ASSUME NEW lay, Drawing' \in BOOLEAN,
         \/ layers' = Synced(Drawing', lay, store', view')
         \/ ~Drawing' /\ layers' = Nowhere,
         Wrong(layers', store') \subseteq ghosts'
  PROVE  NoLayersUnlessDrawing' /\ LayersUnlessGhosts'
<1>1. NoLayersUnlessDrawing'
  BY DEF NoLayersUnlessDrawing, Synced, Nowhere, Drawing
<1>2. CASE layers' = Synced(Drawing', lay, store', view')
  <2>1. \A k \in Ids \ ghosts' :
          layers'[k] = IF Drawing' /\ k \in Frustum[view'] THEN store'[k]
                                                           ELSE Gone
    BY <1>2, SyncedIsRight
  <2>2. QED
    BY <1>1, <2>1 DEF LayersUnlessGhosts, Drawing
<1>3. CASE ~Drawing' /\ layers' = Nowhere
  BY <1>1, <1>3 DEF LayersUnlessGhosts, Nowhere, Drawing
<1>4. QED
  BY <1>2, <1>3

(* A wrong layer where there was none that was wrong outside the ghosts.   *)
LEMMA SyncedGhosts ==
  ASSUME LayersUnlessGhosts, NoLayersUnlessDrawing, NEW drawing \in BOOLEAN,
         NEW bounds,
         NEW k \in Wrong(Synced(drawing, layers, store, bounds), store)
  PROVE  k \in ghosts
BY DEF LayersUnlessGhosts, NoLayersUnlessDrawing, Wrong, Synced

LEMMA PatchedGhosts ==
  ASSUME LayersUnlessGhosts, NoLayersUnlessDrawing, NEW drawing \in BOOLEAN,
         NEW bounds, NEW frame \in Frames, frame.kind = "d",
         NEW k \in Wrong(Synced(drawing, Patched(drawing, layers, frame, bounds),
                                Applied(store, frame), bounds),
                         Applied(store, frame))
  PROVE  k \in ghosts
<1>1. k \in Ids
  BY DEF Wrong
<1>2. CASE frame.put[k] # Gone
  BY <1>1, <1>2 DEF Wrong, Synced, Patched, Applied
<1>3. CASE frame.put[k] = Gone /\ k \in frame.removed
  BY <1>1, <1>3 DEF Wrong, Synced, Patched, Applied
<1>4. CASE frame.put[k] = Gone /\ k \notin frame.removed
  <2>1. Applied(store, frame)[k] = store[k]
    BY <1>1, <1>4 DEF Applied
  <2>2. Patched(drawing, layers, frame, bounds)[k] = layers[k]
    BY <1>1, <1>4 DEF Patched
  <2>3. layers[k] # Gone /\ layers[k] # store[k]
    BY <1>1, <2>1, <2>2 DEF Wrong, Synced
  <2>4. QED
    BY <1>1, <2>3 DEF LayersUnlessGhosts
<1>5. QED
  BY <1>2, <1>3, <1>4

(* The layers stay right except for ghosts.                                *)
LEMMA LayersStep ==
  /\ TypeOK /\ TypeOK'
  /\ NoLayersUnlessDrawing /\ LayersUnlessGhosts
  /\ [Next]_vars
  => NoLayersUnlessDrawing' /\ LayersUnlessGhosts'
<1> SUFFICES ASSUME TypeOK, TypeOK', NoLayersUnlessDrawing, LayersUnlessGhosts,
                    [Next]_vars
             PROVE  NoLayersUnlessDrawing' /\ LayersUnlessGhosts'
  OBVIOUS
<1> USE DEF server, link, inputs, screen, counts
<1>1. Drawing \in BOOLEAN /\ Drawing' \in BOOLEAN
  BY DEF TypeOK, Drawing
<1>2. CASE Receive
  <2> DEFINE frame == Head(downlink)
             old   == IF frame.kind = "s" THEN layers
                      ELSE Patched(items, layers, frame, view)
  <2>1. frame \in Frames /\ frame.kind \in {"s", "d"}
    <3>1. frame \in Frames
      BY <1>2 DEF TypeOK, Receive
    <3>2. QED
      BY <3>1 DEF Frames
  <2>2. /\ store' = Applied(store, frame)
        /\ items' = items /\ mode' = mode /\ view' = view
        /\ ghosts' = Wrong(layers', store')
                     \cap (IF frame.kind = "s" THEN Ids ELSE ghosts)
    BY <1>2 DEF Receive
  <2>3. CASE mode = "heatmap"
    <3>1. layers' \in {Nowhere, layers}
      BY <1>2, <2>3 DEF Receive
    <3>2. layers = Nowhere
      <4>1. \A k \in Ids : layers[k] = Gone
        BY <2>3 DEF NoLayersUnlessDrawing
      <4>2. QED
        BY <4>1 DEF Nowhere, TypeOK, FeatureMaps
    <3>3. ~Drawing' /\ layers' = Nowhere
      BY <2>2, <2>3, <3>1, <3>2 DEF Drawing
    <3>4. Wrong(layers', store') \subseteq ghosts'
      BY <3>3 DEF Wrong, Nowhere
    <3>5. QED
      BY <1>1, <3>3, <3>4, SyncedStep
  <2>4. CASE mode = "cluster"
    <3>1. /\ layers' = Synced(items, old, store', view)
          /\ Drawing' = items /\ items \in BOOLEAN
      BY <1>2, <2>2, <2>4 DEF Receive, Drawing, TypeOK
    <3>2. Wrong(layers', store') \subseteq ghosts'
      <4>1. CASE frame.kind = "s"
        BY <2>2, <4>1 DEF Wrong
      <4>2. CASE frame.kind = "d"
        <5>1. old = Patched(items, layers, frame, view)
          BY <4>2
        <5>2. \A k \in Wrong(layers', store') : k \in ghosts
          BY <2>1, <2>2, <3>1, <4>2, <5>1, PatchedGhosts
        <5>3. QED
          BY <2>2, <4>2, <5>2
      <4>3. QED
        BY <2>1, <4>1, <4>2
    <3> HIDE DEF old
    <3>3. layers' = Synced(Drawing', old, store', view')
      BY <2>2, <3>1
    <3>4. QED
      BY <1>1, <3>2, <3>3, SyncedStep
  <2>5. QED
    BY <2>3, <2>4 DEF TypeOK, Modes
<1>3. ASSUME NEW v \in Viewports, Move(v)
      PROVE  NoLayersUnlessDrawing' /\ LayersUnlessGhosts'
  <2>1. /\ layers' = Synced(Drawing', layers, store', view')
        /\ layers' = Synced(Drawing, layers, store, v)
        /\ ghosts' = ghosts \cap Wrong(layers', store)
        /\ store' = store
    BY <1>3 DEF Move, Drawing
  <2>2. Wrong(layers', store') \subseteq ghosts'
    <3>1. \A k \in Wrong(Synced(Drawing, layers, store, v), store) : k \in ghosts
      BY <1>1, SyncedGhosts
    <3>2. QED
      BY <2>1, <3>1
  <2>3. layers' = Synced(Drawing', layers, store', view')
    BY <2>1
  <2>4. QED
    BY <1>1, <2>2, <2>3, SyncedStep
<1>4. CASE ToggleMode
  <2>1. /\ store' = store /\ items' = items /\ view' = view
        /\ ghosts' = ghosts \cap Wrong(layers', store)
        /\ items \in BOOLEAN
    BY <1>4 DEF TypeOK, ToggleMode
  <2>2. CASE mode' = "heatmap"
    <3>1. ~Drawing' /\ layers' = Nowhere
      BY <1>4, <2>2 DEF ToggleMode, Drawing
    <3>2. Wrong(layers', store') \subseteq ghosts'
      BY <3>1 DEF Wrong, Nowhere
    <3>3. QED
      BY <1>1, <3>1, <3>2, SyncedStep
  <2>3. CASE mode' # "heatmap"
    <3>1. /\ Drawing' = items
          /\ layers' = Synced(items, layers, store, view)
      BY <1>4, <2>1, <2>3 DEF TypeOK, ToggleMode, Drawing, Modes
    <3>2. Wrong(layers', store') \subseteq ghosts'
      BY <2>1, <3>1, SyncedGhosts
    <3>3. QED
      BY <1>1, <2>1, <3>1, <3>2, SyncedStep
  <2>4. QED
    BY <2>2, <2>3
<1>5. CASE ToggleItems
  <2>1. /\ store' = store /\ mode' = mode /\ view' = view
        /\ ghosts' = ghosts \cap Wrong(layers', store)
        /\ items' \in BOOLEAN
    BY <1>5 DEF TypeOK, ToggleItems
  <2>2. CASE mode = "heatmap"
    <3>1. layers' = layers
      BY <1>5, <2>2 DEF ToggleItems
    <3>2. \A k \in Ids : layers[k] = Gone
      BY <2>2 DEF NoLayersUnlessDrawing
    <3>3. layers' = Nowhere
      BY <3>1, <3>2 DEF Nowhere, TypeOK, FeatureMaps
    <3>4. ~Drawing'
      BY <2>1, <2>2 DEF Drawing
    <3>5. Wrong(layers', store') \subseteq ghosts'
      BY <3>3 DEF Wrong, Nowhere
    <3>6. QED
      BY <1>1, <3>3, <3>4, <3>5, SyncedStep
  <2>3. CASE mode # "heatmap"
    <3>1. /\ Drawing' = items'
          /\ layers' = Synced(items', layers, store, view)
      BY <1>5, <2>1, <2>3 DEF TypeOK, ToggleItems, Drawing, Modes
    <3>2. Wrong(layers', store') \subseteq ghosts'
      BY <2>1, <3>1, SyncedGhosts
    <3>3. QED
      BY <1>1, <2>1, <3>1, <3>2, SyncedStep
  <2>4. QED
    BY <2>2, <2>3
<1>6. CASE UNCHANGED <<items, mode, view, store, layers, ghosts>>
  BY <1>6 DEF NoLayersUnlessDrawing, LayersUnlessGhosts
<1>7. (\E k \in Ids, content \in Contents \cup {Gone} : Change(k, content))
        \/ Take \/ Emit \/ Open \/ Drop \/ Debounced \/ UNCHANGED vars
      => UNCHANGED <<items, mode, view, store, layers, ghosts>>
  BY DEF Change, Take, Emit, Open, Drop, Debounced, vars
<1>8. QED
  BY <1>2, <1>3, <1>4, <1>5, <1>6, <1>7 DEF Next

----------------------------------------------------------------------------
(* The heat layer keeps showing the store.                                 *)
LEMMA HeatStep ==
  TypeOK /\ HeatShowsStore /\ [Next]_vars => HeatShowsStore'
<1> SUFFICES ASSUME TypeOK, HeatShowsStore, [Next]_vars PROVE HeatShowsStore'
  OBVIOUS
<1> USE DEF server, link, inputs, screen, counts
<1>1. CASE Receive
  <2> DEFINE frame == Head(downlink)
  <2>1. frame \in Frames /\ frame.kind \in {"s", "d"} /\ store \in FeatureMaps
    <3>1. frame \in Frames /\ store \in FeatureMaps
      BY <1>1 DEF TypeOK, Receive
    <3>2. QED
      BY <3>1 DEF Frames
  <2>2. store' = Applied(store, frame) /\ items' = items /\ mode' = mode
    BY <1>1 DEF Receive
  <2>3. CASE mode = "heatmap"
    <3>1. /\ heat' = IF frame.kind = "s" THEN HeatOf(store')
                                         ELSE Heated(heat, frame)
          /\ drawn' = heat' /\ heatOn' = items
      BY <1>1, <2>3 DEF Receive
    <3>2. heat = HeatOf(store)
      BY <2>3 DEF HeatShowsStore
    <3>3. heat' = HeatOf(store')
      BY <2>1, <2>2, <3>1, <3>2, HeatedIsHeatOfApplied
    <3>4. QED
      BY <2>2, <2>3, <3>1, <3>3 DEF HeatShowsStore
  <2>4. CASE mode # "heatmap"
    BY <1>1, <2>2, <2>4 DEF Receive, HeatShowsStore
  <2>5. QED
    BY <2>3, <2>4
<1>2. CASE ToggleMode
  <2>1. items' = items /\ store' = store
    BY <1>2 DEF ToggleMode
  <2>2. CASE mode' = "heatmap"
    BY <1>2, <2>1, <2>2 DEF ToggleMode, HeatShowsStore
  <2>3. CASE mode' # "heatmap"
    BY <1>2, <2>3 DEF ToggleMode, HeatShowsStore
  <2>4. QED
    BY <2>2, <2>3
<1>3. CASE ToggleItems
  BY <1>3 DEF TypeOK, ToggleItems, HeatShowsStore
<1>4. CASE UNCHANGED <<items, mode, store, heat, drawn, heatOn>>
  BY <1>4 DEF HeatShowsStore, HeatOf
<1>5. (\E k \in Ids, content \in Contents \cup {Gone} : Change(k, content))
        \/ Take \/ Emit \/ Open \/ Drop \/ (\E v \in Viewports : Move(v))
        \/ Debounced \/ UNCHANGED vars
      => UNCHANGED <<items, mode, store, heat, drawn, heatOn>>
  BY DEF Change, Take, Emit, Open, Drop, Move, Debounced, vars
<1>6. QED
  BY <1>1, <1>2, <1>3, <1>4, <1>5 DEF Next

----------------------------------------------------------------------------
(***************************************************************************)
(* The modes of what is on its way.  The store counts as frame 0; frames   *)
(* with no snapshot between them are of one mode, and so is the next       *)
(* delta, because a new mode calls for a snapshot.                         *)
(***************************************************************************)
SameMode(f, g) ==
  \A j, k \in Ids : f[j] # Gone /\ g[k] # Gone => f[j].mode = g[k].mode

Put(features, frames, i) == IF i = 0 THEN features ELSE frames[i].put

Unbroken(frames, i, j) == \A l \in i + 1 .. j : frames[l].kind = "d"

FlightOfOneMode ==
  \A i, j \in 0 .. Len(downlink) :
    i <= j /\ Unbroken(downlink, i, j) =>
      SameMode(Put(store, downlink, i), Put(store, downlink, j))

IsOfMode(f, m) == \A k \in Ids : f[k] # Gone => f[k].mode = m

NextDeltaFits ==
  begun /\ pending # "snapshot" =>
    \A i \in 0 .. Len(downlink) :
      Unbroken(downlink, i, Len(downlink)) =>
        IsOfMode(Put(store, downlink, i), asked.mode)

ModesInOrder == FlightOfOneMode /\ NextDeltaFits

(* A delta is of the mode of what it is added to, a snapshot starts anew.  *)
LEMMA EmitModes ==
  ASSUME TypeOK, FirstIsSnapshot, ModesInOrder, Emit
  PROVE  ModesInOrder'
<1> DEFINE new   == Listing(asked)
           frame == IF pending = "snapshot" THEN Snapshot(new)
                    ELSE Delta(last, new)
           n     == Len(downlink)
<1>1. /\ downlink \in Seq(Frames) /\ n \in Nat
      /\ downlink' = Append(downlink, frame) /\ store' = store
      /\ asked' = asked
  BY DEF TypeOK, Emit, screen
<1>2. IsOfMode(frame.put, asked.mode)
  BY DEF IsOfMode, Snapshot, Delta, Listing
<1>3. pending # "snapshot" => begun
  BY DEF Emit, FirstIsSnapshot
<1>4. pending = "snapshot" => frame.kind = "s"
  BY DEF Snapshot
<1> HIDE DEF new, frame
<1>5. /\ Len(downlink') = n + 1
      /\ downlink'[n + 1] = frame
      /\ \A l \in 1 .. n : downlink'[l] = downlink[l]
  BY <1>1
<1>6. /\ Put(store', downlink', n + 1) = frame.put
      /\ \A i \in 0 .. n : Put(store', downlink', i) = Put(store, downlink, i)
  <2>1. n + 1 # 0 /\ \A i \in 0 .. n : i = 0 \/ i \in 1 .. n
    BY <1>1
  <2>2. QED
    BY <1>1, <1>5, <2>1 DEF Put
<1>7. \A i, j \in 0 .. n : Unbroken(downlink', i, j) => Unbroken(downlink, i, j)
  BY <1>1, <1>5 DEF Unbroken
<1>8. ASSUME NEW i \in 0 .. n, Unbroken(downlink', i, n + 1)
      PROVE  IsOfMode(Put(store, downlink, i), asked.mode)
  <2>1. n + 1 \in i + 1 .. n + 1 /\ n \in 0 .. n
        /\ \A l \in i + 1 .. n : l \in i + 1 .. n + 1 /\ l \in 1 .. n
    BY <1>1
  <2>2. frame.kind = "d" /\ Unbroken(downlink, i, n)
    BY <1>5, <1>8, <2>1 DEF Unbroken
  <2>3. begun /\ pending # "snapshot"
    BY <1>3, <1>4, <2>2
  <2>4. QED
    BY <2>2, <2>3 DEF ModesInOrder, NextDeltaFits
<1>9. \A i \in 0 .. n + 1 : i \in 0 .. n \/ i = n + 1
  BY <1>1
<1>10. FlightOfOneMode'
  <2> SUFFICES ASSUME NEW i \in 0 .. n + 1, NEW j \in 0 .. n + 1,
                      i <= j, Unbroken(downlink', i, j)
               PROVE  SameMode(Put(store', downlink', i),
                               Put(store', downlink', j))
    BY <1>5 DEF FlightOfOneMode
  <2>1. CASE j \in 0 .. n
    <3>1. i \in 0 .. n
      BY <1>1, <2>1
    <3>2. SameMode(Put(store, downlink, i), Put(store, downlink, j))
      BY <1>7, <2>1, <3>1 DEF ModesInOrder, FlightOfOneMode
    <3>3. QED
      BY <1>6, <2>1, <3>1, <3>2
  <2>2. CASE i \in 0 .. n /\ j = n + 1
    BY <1>2, <1>6, <1>8, <2>2 DEF SameMode, IsOfMode
  <2>3. CASE i = n + 1 /\ j = n + 1
    BY <1>2, <1>6, <2>3 DEF SameMode, IsOfMode
  <2>4. QED
    BY <1>1, <1>9, <2>1, <2>2, <2>3
<1>11. NextDeltaFits'
  <2> SUFFICES ASSUME NEW i \in 0 .. n + 1, Unbroken(downlink', i, n + 1)
               PROVE  IsOfMode(Put(store', downlink', i), asked.mode)
    BY <1>1, <1>5 DEF NextDeltaFits
  <2>1. CASE i \in 0 .. n
    BY <1>6, <1>8, <2>1
  <2>2. CASE i = n + 1
    BY <1>2, <1>6, <2>2
  <2>3. QED
    BY <1>9, <2>1, <2>2
<1>12. QED
  BY <1>10, <1>11 DEF ModesInOrder

(* The store becomes a mix of itself and the first frame, or that frame.   *)
LEMMA ReceiveModes ==
  ASSUME TypeOK, FirstIsSnapshot, ModesInOrder, Receive
  PROVE  ModesInOrder'
<1> DEFINE frame == Head(downlink)
           n     == Len(downlink)
<1>1. /\ downlink \in Seq(Frames) /\ n \in Nat /\ n >= 1
      /\ downlink' = Tail(downlink) /\ frame = downlink[1] /\ frame \in Frames
      /\ store \in FeatureMaps /\ store' = Applied(store, frame)
      /\ UNCHANGED <<begun, pending, asked>>
  BY DEF TypeOK, Receive, server
<1> HIDE DEF frame
<1>2. /\ Len(downlink') = n - 1
      /\ \A l \in 1 .. n - 1 : downlink'[l] = downlink[l + 1]
  BY <1>1
<1>3. \A i \in 1 .. n - 1 :
        Put(store', downlink', i) = Put(store, downlink, i + 1)
  <2>1. \A i \in 1 .. n - 1 : i # 0 /\ i + 1 # 0
    BY <1>1
  <2>2. QED
    BY <1>2, <2>1 DEF Put
<1>4. \A i, j \in 0 .. n - 1 :
        Unbroken(downlink', i, j) => Unbroken(downlink, i + 1, j + 1)
  <2>1. ASSUME NEW i \in 0 .. n - 1, NEW j \in 0 .. n - 1,
               Unbroken(downlink', i, j), NEW l \in (i + 1) + 1 .. j + 1
        PROVE  downlink[l].kind = "d"
    <3>1. /\ l - 1 \in i + 1 .. j /\ l - 1 \in 1 .. n - 1
          /\ (l - 1) + 1 = l
      BY <1>1
    <3>2. QED
      BY <1>2, <2>1, <3>1 DEF Unbroken
  <2>2. QED
    BY <2>1 DEF Unbroken
<1>5. \A k \in Ids : \/ store'[k] = Put(store, downlink, 1)[k]
                     \/ frame.kind = "d" /\ store'[k] = store[k]
  <2>1. frame.kind \in {"s", "d"} /\ Put(store, downlink, 1) = frame.put
    BY <1>1 DEF Frames, Put
  <2>2. QED
    BY <1>1, <2>1 DEF Applied
<1>6. \A j \in 0 .. n - 1 :
        frame.kind = "d" /\ Unbroken(downlink, 1, j + 1) =>
          Unbroken(downlink, 0, j + 1)
  <2>1. \A j \in 0 .. n - 1 : \A l \in 1 .. j + 1 : l = 1 \/ l \in 2 .. j + 1
    BY <1>1
  <2>2. QED
    BY <1>1, <2>1 DEF Unbroken
<1>7. \A i \in 0 .. n - 1 : i + 1 \in 0 .. n /\ (i = 0 \/ i \in 1 .. n - 1)
  BY <1>1
<1>8. 0 \in 0 .. n /\ 1 \in 0 .. n /\ Put(store, downlink, 0) = store
      /\ Put(store', downlink', 0) = store'
  BY <1>1 DEF Put
<1>9. ASSUME NEW j \in 0 .. n - 1, Unbroken(downlink', 0, j)
      PROVE  /\ SameMode(Put(store, downlink, 1), Put(store, downlink, j + 1))
             /\ frame.kind = "d" => SameMode(store, Put(store, downlink, j + 1))
             /\ SameMode(store', Put(store, downlink, j + 1))
  <2>1. Unbroken(downlink, 1, j + 1) /\ j + 1 \in 0 .. n /\ 1 <= j + 1
    BY <1>1, <1>4, <1>7, <1>9
  <2>2. SameMode(Put(store, downlink, 1), Put(store, downlink, j + 1))
    BY <1>8, <2>1 DEF ModesInOrder, FlightOfOneMode
  <2>3. frame.kind = "d" => SameMode(store, Put(store, downlink, j + 1))
    <3>1. frame.kind = "d" => Unbroken(downlink, 0, j + 1)
      BY <1>6, <2>1
    <3>2. 0 <= j + 1
      BY <2>1
    <3>3. QED
      BY <1>8, <2>1, <3>1, <3>2 DEF ModesInOrder, FlightOfOneMode
  <2>4. QED
    BY <1>5, <2>2, <2>3 DEF SameMode
<1>10. FlightOfOneMode'
  <2> SUFFICES ASSUME NEW i \in 0 .. n - 1, NEW j \in 0 .. n - 1,
                      i <= j, Unbroken(downlink', i, j)
               PROVE  SameMode(Put(store', downlink', i),
                               Put(store', downlink', j))
    BY <1>2 DEF FlightOfOneMode
  <2>1. CASE i \in 1 .. n - 1
    <3>1. j \in 1 .. n - 1 /\ i + 1 <= j + 1
      BY <1>1, <2>1
    <3>2. SameMode(Put(store, downlink, i + 1), Put(store, downlink, j + 1))
      BY <1>4, <1>7, <3>1 DEF ModesInOrder, FlightOfOneMode
    <3>3. QED
      BY <1>3, <2>1, <3>1, <3>2
  <2>2. CASE i = 0 /\ j \in 1 .. n - 1
    BY <1>3, <1>8, <1>9, <2>2
  <2>3. CASE i = 0 /\ j = 0
    <3>1. /\ SameMode(store', Put(store, downlink, 1))
          /\ frame.kind = "d" => SameMode(store, store)
      <4>1. Unbroken(downlink, 0, 0)
        BY DEF Unbroken
      <4>2. SameMode(store, store)
        BY <1>8, <4>1 DEF ModesInOrder, FlightOfOneMode
      <4>3. QED
        BY <1>9, <2>3, <4>2
    <3>2. frame.kind = "d" => SameMode(store, Put(store, downlink, 1))
      BY <1>9, <2>3
    <3>3. SameMode(store', store')
      BY <1>5, <3>1, <3>2 DEF SameMode
    <3>4. QED
      BY <1>8, <2>3, <3>3
  <2>4. QED
    BY <1>7, <2>1, <2>2, <2>3
<1>11. NextDeltaFits'
  <2> SUFFICES ASSUME begun, pending # "snapshot",
                      NEW i \in 0 .. n - 1, Unbroken(downlink', i, n - 1)
               PROVE  IsOfMode(Put(store', downlink', i), asked.mode)
    BY <1>1, <1>2 DEF NextDeltaFits
  <2>1. /\ n - 1 \in 0 .. n - 1 /\ (n - 1) + 1 = n /\ i + 1 \in 0 .. n
        /\ Unbroken(downlink, i + 1, n)
    <3>1. n - 1 \in 0 .. n - 1 /\ (n - 1) + 1 = n
      BY <1>1
    <3>2. QED
      BY <1>4, <1>7, <3>1
  <2>2. IsOfMode(Put(store, downlink, i + 1), asked.mode)
    BY <2>1 DEF ModesInOrder, NextDeltaFits
  <2>3. CASE i \in 1 .. n - 1
    BY <1>3, <2>2, <2>3
  <2>4. CASE i = 0
    <3>1. frame.kind = "d" => IsOfMode(store, asked.mode)
      BY <1>6, <1>8, <2>1, <2>4 DEF ModesInOrder, NextDeltaFits
    <3>2. QED
      BY <1>5, <1>8, <2>2, <2>4, <3>1 DEF IsOfMode
  <2>5. QED
    BY <1>7, <2>3, <2>4
<1>12. QED
  BY <1>10, <1>11 DEF ModesInOrder

(* A message that names another mode makes the next frame a snapshot.      *)
LEMMA TakeModes ==
  ASSUME TypeOK, FirstIsSnapshot, ModesInOrder, Take
  PROVE  ModesInOrder'
<1>1. UNCHANGED <<begun, downlink, store>>
  BY DEF Take, screen
<1>2. FlightOfOneMode'
  BY <1>1 DEF ModesInOrder, FlightOfOneMode
<1>3. pending' # "snapshot" => pending # "snapshot" /\ asked'.mode = asked.mode
  BY DEF Take
<1>4. NextDeltaFits'
  BY <1>1, <1>3 DEF ModesInOrder, NextDeltaFits
<1>5. QED
  BY <1>2, <1>4 DEF ModesInOrder

(* No step mixes the modes.                                                *)
LEMMA ModesStep ==
  ASSUME TypeOK, FirstIsSnapshot, ModesInOrder, [Next]_vars
  PROVE  ModesInOrder'
<1> USE DEF server, link, inputs, screen, counts
<1>1. ASSUME NEW k \in Ids, NEW content \in Contents \cup {Gone},
             Change(k, content)
      PROVE  ModesInOrder'
  <2>1. UNCHANGED <<begun, downlink, store, asked>>
        /\ pending' \in {pending, "delta"}
        /\ (pending' # pending => pending = "no")
    BY <1>1 DEF Change
  <2>2. QED
    BY <2>1 DEF ModesInOrder, FlightOfOneMode, NextDeltaFits
<1>2. CASE Drop
  <2>1. downlink' = << >> /\ ~begun' /\ store' = store
    BY <1>2 DEF Drop
  <2>2. \A i, j \in 0 .. 0 : i = 0 /\ j = 0
    OBVIOUS
  <2>3. SameMode(store, store)
    <3>1. Len(downlink) \in Nat
      BY DEF TypeOK
    <3>2. 0 \in 0 .. Len(downlink) /\ Put(store, downlink, 0) = store
          /\ Unbroken(downlink, 0, 0)
      BY <3>1 DEF Put, Unbroken
    <3>3. QED
      BY <3>2 DEF ModesInOrder, FlightOfOneMode
  <2>4. QED
    BY <2>1, <2>2, <2>3 DEF ModesInOrder, FlightOfOneMode, NextDeltaFits, Put
<1>3. CASE Open \/ (\E v \in Viewports : Move(v)) \/ Debounced \/ ToggleMode
           \/ ToggleItems \/ UNCHANGED vars
  <2>1. UNCHANGED <<begun, downlink, store, asked, pending>>
    BY <1>3 DEF Open, Move, Debounced, ToggleMode, ToggleItems, vars
  <2>2. QED
    BY <2>1 DEF ModesInOrder, FlightOfOneMode, NextDeltaFits
<1>4. QED
  BY <1>1, <1>2, <1>3, TakeModes, EmitModes, ReceiveModes DEF Next

----------------------------------------------------------------------------
LEMMA Inductive == Safety => []IInv
<1>1. IInv /\ [Next]_vars => IInv'
  BY TypeStep, FirstStep, StoreStep, LayersStep, HeatStep DEF IInv
<1>2. QED
  BY InitIInv, <1>1, PTL DEF Safety

(***************************************************************************)
(* Stream, connection and client have their types in every reachable       *)
(* state: ViewportStream's refs in App.tsx, stream's locals in handler.go. *)
(***************************************************************************)
THEOREM TypeCorrect == Safety => []TypeOK
BY Inductive, PTL DEF IInv

(***************************************************************************)
(* The deltas of sendViewport are computed against what the client has:    *)
(* through any loss of the connection, the store with the frames on their  *)
(* way is the server's lastFeatures.                                       *)
(***************************************************************************)
THEOREM StoreIsServers == Safety => []StoreFollowsServer
BY Inductive, PTL DEF IInv

(***************************************************************************)
(* Whatever is toggled and moved between frames, the layers are those of   *)
(* the features in sight, but for the ones that a snapshot left behind.    *)
(***************************************************************************)
THEOREM LayersAreOfStore == Safety => []LayersUnlessGhosts
BY Inductive, PTL DEF IInv

(***************************************************************************)
(* heatPointsRef, patched by deltas in heatmap mode and left alone in      *)
(* cluster mode, is that of the store whenever the heat layer is drawn.    *)
(***************************************************************************)
THEOREM HeatIsOfStore == Safety => []HeatShowsStore
BY Inductive, PTL DEF IInv

(***************************************************************************)
(* However the mode is toggled while frames are on their way, and however  *)
(* often the connection is lost, the store never mixes the two modes.      *)
(***************************************************************************)
THEOREM StoreKeepsOneMode == Safety => []StoreOfOneMode
<1>1. Init => ModesInOrder
  <2> SUFFICES ASSUME Init PROVE ModesInOrder
    OBVIOUS
  <2>1. downlink = << >> /\ ~begun /\ \A k \in Ids : store[k] = Gone
    BY DEF Init, Nowhere
  <2>2. \A i, j \in 0 .. 0 : i = 0 /\ j = 0
    OBVIOUS
  <2>3. QED
    BY <2>1, <2>2
       DEF ModesInOrder, FlightOfOneMode, NextDeltaFits, SameMode, Put
<1>2. IInv /\ ModesInOrder /\ [Next]_vars => ModesInOrder'
  BY ModesStep DEF IInv
<1>3. IInv /\ ModesInOrder => StoreOfOneMode
  <2> SUFFICES ASSUME IInv, ModesInOrder PROVE StoreOfOneMode
    OBVIOUS
  <2>1. Len(downlink) \in Nat
    BY DEF IInv, TypeOK
  <2>2. 0 \in 0 .. Len(downlink) /\ Put(store, downlink, 0) = store
        /\ Unbroken(downlink, 0, 0)
    BY <2>1 DEF Put, Unbroken
  <2>3. SameMode(store, store)
    BY <2>2 DEF ModesInOrder, FlightOfOneMode
  <2>4. QED
    BY <2>3 DEF SameMode, StoreOfOneMode
<1>4. QED
  BY <1>1, <1>2, <1>3, Inductive, PTL DEF Safety

----------------------------------------------------------------------------
(* What the client rests with: the safety half of StoreCatchesUp.          *)

(* A stream that has nothing to emit has emitted what it was asked for.    *)
AskedIsAnswered ==
  asked # NoRequest /\ pending = "no" => begun /\ last = Listing(asked)

(* The request that the client takes as sent is the last that arrives.     *)
LastSentArrives ==
  connected =>
    /\ lastSent \in Requests
    /\ IF uplink = << >> THEN asked = lastSent
       ELSE uplink[Len(uplink)] = lastSent

(* A viewport is not left out as already sent unless it has been.          *)
WantedIsSent == connected /\ ~debounce => lastSent = Wanted

RequestsArrive == AskedIsAnswered /\ LastSentArrives /\ WantedIsSent

(* What is emitted is the listing, and a change makes another due.         *)
LEMMA AnsweredStep ==
  ASSUME TypeOK, FirstIsSnapshot, AskedIsAnswered, [Next]_vars
  PROVE  AskedIsAnswered'
<1> USE DEF server, link, inputs, screen, counts
<1>1. ASSUME NEW k \in Ids, NEW content \in Contents \cup {Gone},
             Change(k, content)
      PROVE  AskedIsAnswered'
  <2>1. asked' # NoRequest => pending' # "no"
    BY <1>1 DEF Change
  <2>2. QED
    BY <2>1 DEF AskedIsAnswered
<1>2. CASE Take
  BY <1>2 DEF Take, AskedIsAnswered
<1>3. CASE Emit
  <2>1. begun' /\ last' = Listing(asked) /\ asked' = asked /\ world' = world
    BY <1>3 DEF Emit
  <2>2. Listing(asked)' = Listing(asked)
    BY <2>1 DEF Listing
  <2>3. QED
    BY <2>1, <2>2 DEF AskedIsAnswered
<1>4. CASE Drop
  BY <1>4 DEF Drop, AskedIsAnswered
<1>5. CASE UNCHANGED <<world, asked, pending, last, begun>>
  <2>1. Listing(asked)' = Listing(asked)
    BY <1>5 DEF Listing
  <2>2. QED
    BY <1>5, <2>1 DEF AskedIsAnswered
<1>6. Open \/ Receive \/ (\E v \in Viewports : Move(v)) \/ Debounced
        \/ ToggleMode \/ ToggleItems \/ UNCHANGED vars
      => UNCHANGED <<world, asked, pending, last, begun>>
  BY DEF Open, Receive, Move, Debounced, ToggleMode, ToggleItems, vars
<1>7. QED
  BY <1>1, <1>2, <1>3, <1>4, <1>5, <1>6 DEF Next

(* A request that is sent is the last on its way.                          *)
LEMMA SentArrives ==
  ASSUME TypeOK, LastSentArrives, NEW request \in Requests, NEW force,
         SendViewportNow(request, force),
         UNCHANGED <<connected, asked>>
  PROVE  LastSentArrives'
<1>1. CASE connected /\ (force \/ request # lastSent)
  <2>1. /\ uplink \in Seq(Requests)
        /\ uplink' = Append(uplink, request) /\ lastSent' = request
    BY <1>1 DEF TypeOK, SendViewportNow
  <2>2. /\ uplink' # << >> /\ uplink'[Len(uplink')] = request
    BY <2>1
  <2>3. QED
    BY <2>1, <2>2 DEF LastSentArrives
<1>2. CASE ~(connected /\ (force \/ request # lastSent))
  BY <1>2 DEF SendViewportNow, LastSentArrives
<1>3. QED
  BY <1>1, <1>2

(* Messages are taken in order, so the last sent is the last taken.        *)
LEMMA ArrivalStep ==
  ASSUME TypeOK, LastSentArrives, [Next]_vars
  PROVE  LastSentArrives'
<1> USE DEF server, link, inputs, screen, counts
<1>1. CASE Take
  <2>1. /\ uplink \in Seq(Requests) /\ uplink # << >>
        /\ uplink' = Tail(uplink) /\ asked' = Head(uplink)
        /\ UNCHANGED <<connected, lastSent>>
    BY <1>1 DEF TypeOK, Take
  <2>2. CASE Len(uplink) = 1
    BY <2>1, <2>2 DEF LastSentArrives
  <2>3. CASE Len(uplink) # 1
    <3>1. /\ Len(uplink) \in Nat /\ Len(uplink) >= 2
          /\ Len(uplink') = Len(uplink) - 1
          /\ \A i \in 1 .. Len(uplink) - 1 : uplink'[i] = uplink[i + 1]
      <4>1. Len(uplink) \in Nat \ {0}
        BY <2>1, EmptySeq
      <4>2. /\ Len(Tail(uplink)) = Len(uplink) - 1
            /\ \A i \in 1 .. Len(Tail(uplink)) :
                 Tail(uplink)[i] = uplink[i + 1]
        BY <2>1, HeadTailProperties
      <4>3. QED
        BY <2>1, <2>3, <4>1, <4>2
    <3>2. /\ Len(uplink') \in 1 .. Len(uplink) - 1
          /\ (Len(uplink) - 1) + 1 = Len(uplink)
      BY <3>1
    <3>3. uplink'[Len(uplink')] = uplink[Len(uplink)]
      BY <3>1, <3>2
    <3>4. uplink' # << >>
      BY <3>2
    <3>5. QED
      BY <2>1, <3>3, <3>4 DEF LastSentArrives
  <2>4. QED
    BY <2>2, <2>3
<1>2. CASE Open
  <2>1. Wanted \in Requests
    BY WantedType
  <2>2. uplink' = <<Wanted>> /\ lastSent' = Wanted
    BY <1>2 DEF Open
  <2>3. uplink' # << >> /\ uplink'[Len(uplink')] = Wanted
    BY <2>2
  <2>4. QED
    BY <2>1, <2>2, <2>3 DEF LastSentArrives
<1>3. CASE Drop
  BY <1>3 DEF Drop, LastSentArrives
<1>4. CASE Debounced
  BY <1>4, SentArrives, WantedType DEF Debounced
<1>5. CASE ToggleMode
  <2>1. mode' \in Modes /\ view \in Viewports
    BY <1>5 DEF TypeOK, ToggleMode, Modes
  <2>2. [viewport |-> view, mode |-> mode'] \in Requests
    BY <2>1 DEF Requests
  <2>3. QED
    BY <1>5, <2>2, SentArrives DEF ToggleMode
<1>6. CASE UNCHANGED <<connected, uplink, asked, lastSent>>
  BY <1>6 DEF LastSentArrives
<1>7. (\E k \in Ids, content \in Contents \cup {Gone} : Change(k, content))
        \/ Emit \/ Receive \/ (\E v \in Viewports : Move(v)) \/ ToggleItems
        \/ UNCHANGED vars
      => UNCHANGED <<connected, uplink, asked, lastSent>>
  BY DEF Change, Emit, Receive, Move, ToggleItems, vars
<1>8. QED
  BY <1>1, <1>2, <1>3, <1>4, <1>5, <1>6, <1>7 DEF Next

(* What the map shows is asked for, unless the debounce is to do it.       *)
LEMMA WantedStep ==
  ASSUME WantedIsSent, [Next]_vars
  PROVE  WantedIsSent'
<1> USE DEF server, link, inputs, screen, counts
<1>1. CASE Open
  BY <1>1 DEF Open, WantedIsSent, Wanted
<1>2. CASE Drop
  BY <1>2 DEF Drop, WantedIsSent
<1>3. ASSUME NEW v \in Viewports, Move(v) PROVE WantedIsSent'
  BY <1>3 DEF Move, WantedIsSent
<1>4. CASE Debounced
  <2>1. Wanted' = Wanted /\ connected' = connected
    BY <1>4 DEF Debounced, Wanted
  <2>2. connected => lastSent' = Wanted
    BY <1>4 DEF Debounced, SendViewportNow
  <2>3. QED
    BY <2>1, <2>2 DEF WantedIsSent
<1>5. CASE ToggleMode
  <2>1. /\ Wanted' = [viewport |-> view, mode |-> mode']
        /\ connected' = connected
    BY <1>5 DEF ToggleMode, Wanted
  <2>2. connected => lastSent' = Wanted'
    BY <1>5, <2>1 DEF ToggleMode, SendViewportNow
  <2>3. QED
    BY <2>1, <2>2 DEF WantedIsSent
<1>6. CASE UNCHANGED <<connected, debounce, lastSent, view, mode>>
  BY <1>6 DEF WantedIsSent, Wanted
<1>7. (\E k \in Ids, content \in Contents \cup {Gone} : Change(k, content))
        \/ Take \/ Emit \/ Receive \/ ToggleItems \/ UNCHANGED vars
      => UNCHANGED <<connected, debounce, lastSent, view, mode>>
  BY DEF Change, Take, Emit, Receive, ToggleItems, vars
<1>8. QED
  BY <1>1, <1>2, <1>3, <1>4, <1>5, <1>6, <1>7 DEF Next

(* Nothing is under way between the map, the stream and the store.         *)
AtRest ==
  /\ connected /\ ~debounce
  /\ uplink = << >> /\ downlink = << >>
  /\ pending = "no"

(***************************************************************************)
(* A client and a stream that rest have come to the same: the store holds  *)
(* what the server lists for the map's viewport and mode, whatever was     *)
(* moved, left out as already sent or lost with a connection before.  With *)
(* fairness this is StoreCatchesUp.                                        *)
(***************************************************************************)
THEOREM RestingStoreIsCurrent ==
  Safety => [](AtRest => store = Listing(Wanted))
<1>1. Init => RequestsArrive
  BY DEF Init, RequestsArrive, AskedIsAnswered, LastSentArrives, WantedIsSent
<1>2. IInv /\ RequestsArrive /\ [Next]_vars => RequestsArrive'
  BY AnsweredStep, ArrivalStep, WantedStep DEF IInv, RequestsArrive
<1>3. IInv /\ RequestsArrive => (AtRest => store = Listing(Wanted))
  <2> SUFFICES ASSUME IInv, RequestsArrive, AtRest
               PROVE  store = Listing(Wanted)
    OBVIOUS
  <2>1. asked = Wanted /\ asked \in Requests
    BY DEF AtRest, RequestsArrive, LastSentArrives, WantedIsSent
  <2>2. begun /\ last = Listing(Wanted)
    BY <2>1, ModesAssumption DEF AtRest, RequestsArrive, AskedIsAnswered
  <2>3. \A i \in 1 .. Len(downlink) : FALSE
    BY DEF AtRest
  <2>4. \A k \in Ids : store[k] = last[k]
    BY <2>2, <2>3 DEF IInv, StoreFollowsServer
  <2>5. store \in FeatureMaps /\ last \in FeatureMaps
    BY DEF IInv, TypeOK
  <2>6. store = last
    BY <2>4, <2>5 DEF FeatureMaps
  <2>7. QED
    BY <2>2, <2>6
<1>4. QED
  BY <1>1, <1>2, <1>3, Inductive, PTL DEF Safety

(* What the user is shown of the features that the server lists.           *)
ShowsListing ==
  LET listed == Listing(Wanted)
  IN  /\ mode = "cluster" =>
           \A k \in Ids \ ghosts :
             layers[k] = IF items /\ k \in Frustum[view] THEN listed[k]
                                                        ELSE Gone
      /\ mode = "heatmap" => drawn = HeatOf(listed) /\ (heatOn <=> items)

(***************************************************************************)
(* So the map comes to show what the server lists: in cluster mode the     *)
(* symbols in sight, but for those that a snapshot left behind, in heatmap *)
(* mode the heat of all of them.                                           *)
(***************************************************************************)
THEOREM RestingMapShowsListing == Safety => [](AtRest => ShowsListing)
<1>1. ASSUME IInv, store = Listing(Wanted) PROVE ShowsListing
  <2>1. ASSUME mode = "cluster", NEW k \in Ids \ ghosts
        PROVE  layers[k] = IF items /\ k \in Frustum[view]
                           THEN Listing(Wanted)[k] ELSE Gone
    BY <1>1, <2>1 DEF IInv, LayersUnlessGhosts
  <2>2. ASSUME mode = "heatmap"
        PROVE  drawn = HeatOf(Listing(Wanted)) /\ (heatOn <=> items)
    BY <1>1, <2>2 DEF IInv, HeatShowsStore
  <2>3. QED
    BY <2>1, <2>2 DEF ShowsListing
<1>2. IInv /\ (AtRest => store = Listing(Wanted)) => (AtRest => ShowsListing)
  BY <1>1
<1>3. QED
  BY <1>2, Inductive, RestingStoreIsCurrent, PTL

----------------------------------------------------------------------------
(* The steps that Fairness makes happen, and what is left of them.         *)
Settling == Take \/ Emit \/ Open \/ Receive \/ Debounced

(* A request that is debounced is sent, taken, answered and received.      *)
Work ==
  3 * Len(uplink) + Len(downlink) + (IF pending = "no" THEN 0 ELSE 2)
    + (IF debounce THEN 4 ELSE 0) + (IF connected THEN 0 ELSE 4)

LEMMA WorkTypes ==
  ASSUME TypeOK
  PROVE  Len(uplink) \in Nat /\ Len(downlink) \in Nat
BY DEF TypeOK

LEMMA WorkStep ==
  ASSUME TypeOK, Settling
  PROVE  Work' < Work
<1> USE DEF server, link, inputs, screen, counts
<1>1. Len(uplink) \in Nat /\ Len(downlink) \in Nat
  BY WorkTypes
<1>2. CASE Take
  <2>1. Len(uplink') = Len(uplink) - 1
    BY <1>2, EmptySeq, HeadTailProperties DEF TypeOK, Take
  <2>2. /\ pending' # "no"
        /\ UNCHANGED <<downlink, debounce, connected>>
    BY <1>2 DEF Take
  <2>3. QED
    BY <1>1, <2>1, <2>2 DEF Work
<1>3. CASE Emit
  <2>1. Len(downlink') = Len(downlink) + 1
    BY <1>3 DEF TypeOK, Emit
  <2>2. /\ pending # "no" /\ pending' = "no"
        /\ UNCHANGED <<uplink, debounce, connected>>
    BY <1>3 DEF Emit
  <2>3. QED
    BY <1>1, <2>1, <2>2 DEF Work
<1>4. CASE Open
  <2>1. Len(uplink') = 1
    BY <1>4 DEF Open
  <2>2. /\ ~connected /\ connected' /\ ~debounce'
        /\ UNCHANGED <<downlink, pending>>
    BY <1>4 DEF Open
  <2>3. QED
    BY <1>1, <2>1, <2>2 DEF Work
<1>5. CASE Receive
  <2>1. Len(downlink') = Len(downlink) - 1
    BY <1>5, EmptySeq, HeadTailProperties DEF TypeOK, Receive
  <2>2. UNCHANGED <<uplink, pending, debounce, connected>>
    BY <1>5 DEF Receive
  <2>3. QED
    BY <1>1, <2>1, <2>2 DEF Work
<1>6. CASE Debounced
  <2>1. uplink' = uplink \/ Len(uplink') = Len(uplink) + 1
    BY <1>6 DEF TypeOK, Debounced, SendViewportNow
  <2>2. /\ debounce /\ ~debounce'
        /\ UNCHANGED <<downlink, pending, connected>>
    BY <1>6 DEF Debounced
  <2>3. QED
    BY <1>1, <2>1, <2>2 DEF Work
<1>7. QED
  BY <1>2, <1>3, <1>4, <1>5, <1>6 DEF Settling

(***************************************************************************)
(* The rest of StoreCatchesUp but for the fairness: client and stream come *)
(* to rest.  Each step that they make of themselves lowers a natural       *)
(* number that is 0 only at rest, and only the user, a change of the map   *)
(* or a lost connection can raise it.                                      *)
(***************************************************************************)
THEOREM SettlingRunsOut ==
  Safety => /\ [](Work \in Nat /\ (Work = 0 <=> AtRest))
            /\ [][Settling => Work' < Work]_vars
<1>1. ASSUME TypeOK PROVE Work \in Nat /\ (Work = 0 <=> AtRest)
  <2>1. /\ Len(uplink) \in Nat /\ Len(downlink) \in Nat
        /\ uplink = << >> <=> Len(uplink) = 0
        /\ downlink = << >> <=> Len(downlink) = 0
    <3>1. \A q \in Seq(Requests) \cup Seq(Frames) : q = << >> <=> Len(q) = 0
      BY EmptySeq
    <3>2. QED
      BY <1>1, <3>1, WorkTypes DEF TypeOK
  <2>2. connected \in BOOLEAN /\ debounce \in BOOLEAN
    BY <1>1 DEF TypeOK
  <2>3. QED
    BY <2>1, <2>2 DEF Work, AtRest
<1>2. IInv => Work \in Nat /\ (Work = 0 <=> AtRest)
  BY <1>1 DEF IInv
<1>3. IInv => [Settling => Work' < Work]_vars
  BY WorkStep DEF IInv
<1>4. QED
  BY <1>2, <1>3, Inductive, PTL DEF Safety
=============================================================================
