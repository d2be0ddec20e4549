------------------------------ MODULE MapClient ------------------------------
(***************************************************************************)
(* The web client's copy of the map: ViewportStream of                     *)
(* frontend/src/App.tsx against the snapshots and deltas that sendViewport *)
(* of backend/internal/httpapi/handler.go computes.                        *)
(*                                                                         *)
(* The client keeps the features of the stream in a store and draws from   *)
(* it: a Leaflet layer for each feature in sight in cluster mode, one heat *)
(* layer in heatmap mode.  It asks for its viewport and mode when the      *)
(* socket opens and when the mode changes, and some time after the map has *)
(* moved; when the connection is lost it connects again.                   *)
(*                                                                         *)
(* An event handler of the browser runs to its end, so each is one action. *)
(* An emission of the server is one action too: UpdateStream takes it      *)
(* apart and shows that no change that comes in its middle is lost.        *)
(***************************************************************************)
EXTENDS Naturals, Sequences

CONSTANTS
  Ids,         \* ids of features
  Contents,    \* what a feature of one id can be: its count
  Gone,        \* an id without a feature
  Viewports,   \* what the map can show: a bounding box and a zoom
  Box,         \* the ids that the server lists for each viewport
  Frustum,     \* the ids that the client draws there: the padded bounds
  NoRequest,   \* a stream that has been sent no viewport
  MaxChanges,  \* how often the features change (a bound)
  MaxActions,  \* how often the user does something (a bound)
  MaxDrops,    \* how often the connection is lost (a bound)
  MaxFlight    \* how many frames are on their way (a bound)

Modes    == {"cluster", "heatmap"}
Requests == [viewport : Viewports, mode : Modes]
Features == [content : Contents, mode : Modes]

ASSUME GoneAssumption    == Gone \notin Features /\ Gone \notin Contents
ASSUME ModesAssumption   == NoRequest \notin Requests
ASSUME BoxesAssumption   == /\ Box \in [Viewports -> SUBSET Ids]
                            /\ Frustum \in [Viewports -> SUBSET Ids]
ASSUME BoundsAssumption  == /\ MaxChanges \in Nat /\ MaxActions \in Nat
                            /\ MaxDrops \in Nat /\ MaxFlight \in Nat

VARIABLES
  world,      \* the features there are, as map_feature_clusters has them
  \* the stream of the server
  asked,      \* currentViewport and currentMode
  pending,    \* pendingEmit and pendingInitial
  last,       \* lastFeatures
  \* the connection
  connected,  \* the socket is open
  uplink,     \* requests on their way
  downlink,   \* frames on their way
  begun,      \* history: a frame has been sent on this connection
  \* the client
  view,       \* what the map shows
  mode,       \* visualizationModeRef
  items,      \* showMapItemsRef
  lastSent,   \* lastViewportPayloadRef
  debounce,   \* viewportSendTimerRef is running
  store,      \* featureStoreRef
  layers,     \* featureLayersRef: the feature that each layer was made from
  heat,       \* heatPointsRef
  drawn,      \* the points of the heat layer
  heatOn,     \* the heat layer is on the map
  ghosts,     \* history: layers that a snapshot has left behind
  \* the bounds
  changes, actions, drops

server == <<asked, pending, last>>
link   == <<connected, uplink, downlink, begun>>
inputs == <<view, mode, items, lastSent, debounce>>
screen == <<store, layers, heat, drawn, heatOn, ghosts>>
counts == <<changes, actions, drops>>
vars   == <<world, server, link, inputs, screen, counts>>

FeatureMaps == [Ids -> Features \cup {Gone}]
HeatMaps    == [Ids -> Contents \cup {Gone}]
Frames      == [kind : {"s", "d"}, put : FeatureMaps, removed : SUBSET Ids]

Nowhere == [k \in Ids |-> Gone]

TypeOK ==
  /\ world \in [Ids -> Contents \cup {Gone}]
  /\ asked \in Requests \cup {NoRequest}
  /\ pending \in {"no", "delta", "snapshot"}
  /\ last \in FeatureMaps
  /\ connected \in BOOLEAN
  /\ uplink \in Seq(Requests)
  /\ downlink \in Seq(Frames)
  /\ begun \in BOOLEAN
  /\ view \in Viewports
  /\ mode \in Modes
  /\ items \in BOOLEAN
  /\ lastSent \in Requests \cup {NoRequest}
  /\ debounce \in BOOLEAN
  /\ store \in FeatureMaps
  /\ layers \in FeatureMaps
  /\ heat \in HeatMaps
  /\ drawn \in HeatMaps
  /\ heatOn \in BOOLEAN
  /\ ghosts \in SUBSET Ids
  /\ changes \in 0 .. MaxChanges
  /\ actions \in 0 .. MaxActions
  /\ drops \in 0 .. MaxDrops

Init ==
  /\ world \in [Ids -> Contents \cup {Gone}]
  /\ asked = NoRequest /\ pending = "no" /\ last = Nowhere
  /\ connected = FALSE /\ uplink = << >> /\ downlink = << >> /\ begun = FALSE
  /\ view \in Viewports /\ mode = "cluster" /\ items = TRUE
  /\ lastSent = NoRequest /\ debounce = FALSE
  /\ store = Nowhere /\ layers = Nowhere
  /\ heat = Nowhere /\ drawn = Nowhere /\ heatOn = FALSE
  /\ ghosts = {}
  /\ changes = 0 /\ actions = 0 /\ drops = 0

----------------------------------------------------------------------------
(* The server.                                                             *)

(* What ListViewportFeatures answers; the properties depend on the mode.   *)
Listing(request) ==
  [k \in Ids |-> IF k \in Box[request.viewport] /\ world[k] # Gone
                 THEN [content |-> world[k], mode |-> request.mode]
                 ELSE Gone]

Snapshot(new) == [kind |-> "s", put |-> new, removed |-> {}]

(* A delta that leaves out the features that are no longer there.          *)
DeltaWithoutRemoved(old, new) ==
  [kind    |-> "d",
   put     |-> [k \in Ids |-> IF new[k] = old[k] THEN Gone ELSE new[k]],
   removed |-> {}]

(* Added and updated features are put; the client handles them alike.      *)
Delta(old, new) ==
  [kind    |-> "d",
   put     |-> [k \in Ids |-> IF new[k] = old[k] THEN Gone ELSE new[k]],
   removed |-> {k \in Ids : old[k] # Gone /\ new[k] = Gone}]

(* A mutation has committed, swept the cache and notified the stream.      *)
Change(k, content) ==
  /\ changes < MaxChanges
  /\ changes' = changes + 1
  /\ world' = [world EXCEPT ![k] = content]
  /\ pending' = IF pending = "no" /\ asked # NoRequest THEN "delta"
                ELSE pending
  /\ UNCHANGED <<asked, last, link, inputs, screen, actions, drops>>

(* A message that decides on its own what the next frame will be.          *)
TakeLastKind ==
  /\ uplink # << >>
  /\ LET request == Head(uplink)
     IN  /\ asked' = request
         /\ pending' = IF asked = NoRequest THEN "snapshot"
                       ELSE IF request.mode # asked.mode THEN "snapshot"
                       ELSE "delta"
  /\ uplink' = Tail(uplink)
  /\ UNCHANGED <<world, last, connected, downlink, begun, inputs, screen,
                 counts>>

(* The stream takes a viewport message; a new mode calls for a snapshot.   *)
Take ==
  /\ uplink # << >>
  /\ LET request == Head(uplink)
     IN  /\ asked' = request
         /\ pending' = IF pending = "snapshot" \/ asked = NoRequest
                          THEN "snapshot"
                       ELSE IF request.mode # asked.mode THEN "snapshot"
                       ELSE "delta"
  /\ uplink' = Tail(uplink)
  /\ UNCHANGED <<world, last, connected, downlink, begun, inputs, screen,
                 counts>>

(* sendViewport.                                                           *)
Emit ==
  /\ pending # "no"
  /\ Len(downlink) < MaxFlight
  /\ LET new == Listing(asked)
     IN  /\ downlink' = Append(downlink, IF pending = "snapshot"
                                         THEN Snapshot(new)
                                         ELSE Delta(last, new))
         /\ last' = new
  /\ pending' = "no"
  /\ begun' = TRUE
  /\ UNCHANGED <<world, asked, connected, uplink, inputs, screen, counts>>

----------------------------------------------------------------------------
(* The socket.                                                             *)

Wanted == [viewport |-> view, mode |-> mode]

(* sendViewportNow: unless forced, a request is not sent twice in a row.   *)
SendViewportNow(request, force) ==
  IF connected /\ (force \/ request # lastSent)
  THEN /\ uplink' = Append(uplink, request)
       /\ lastSent' = request
  ELSE UNCHANGED <<uplink, lastSent>>

(* An onopen that sends the viewport as a move of the map would.           *)
OpenUnforced ==
  /\ ~connected
  /\ connected' = TRUE
  /\ debounce' = FALSE
  /\ uplink' = IF Wanted # lastSent THEN <<Wanted>> ELSE << >>
  /\ lastSent' = Wanted
  /\ UNCHANGED <<world, server, downlink, begun, view, mode, items, screen,
                 counts>>

(* connect, at first or 800 ms after the connection was lost, and onopen.  *)
Open ==
  /\ ~connected
  /\ connected' = TRUE
  /\ debounce' = FALSE
  /\ uplink' = <<Wanted>>
  /\ lastSent' = Wanted
  /\ UNCHANGED <<world, server, downlink, begun, view, mode, items, screen,
                 counts>>

(* The connection is lost, with what was on its way, and the server's      *)
(* stream ends.  The client keeps what it has: onclose only reconnects.    *)
Drop ==
  /\ connected
  /\ drops < MaxDrops
  /\ drops' = drops + 1
  /\ connected' = FALSE /\ begun' = FALSE
  /\ uplink' = << >> /\ downlink' = << >>
  /\ asked' = NoRequest /\ pending' = "no" /\ last' = Nowhere
  /\ UNCHANGED <<world, inputs, screen, changes, actions>>

----------------------------------------------------------------------------
(* What the client draws.                                                  *)

(* A rebuild that keeps the features themselves, not their points.         *)
HeatOfFeatures(features) == features

(* rebuildHeatPoints and toHeatPoint: a count weighs like an intensity.    *)
HeatOf(features) ==
  [k \in Ids |-> IF features[k] = Gone THEN Gone ELSE features[k].content]

(***************************************************************************)
(* syncVisibleLayers: without items or in heatmap mode there are no        *)
(* layers; otherwise each feature of the store gets its layer, or loses    *)
(* it, and one that has a layer keeps it.                                  *)
(***************************************************************************)
Synced(drawing, kept, features, bounds) ==
  [k \in Ids |->
     IF ~drawing THEN Gone
     ELSE IF features[k] = Gone THEN kept[k]
     ELSE IF k \notin Frustum[bounds] THEN Gone
     ELSE IF kept[k] # Gone THEN kept[k]
     ELSE features[k]]

(* Layers that are not of the feature in the store.                        *)
Wrong(lay, features) == {k \in Ids : lay[k] # Gone /\ lay[k] # features[k]}

(* A delta that draws new features and leaves the layers of the others.    *)
PatchedAddingOnly(drawing, old, frame, bounds) ==
  [k \in Ids |->
     IF frame.put[k] # Gone /\ old[k] = Gone
       THEN IF drawing /\ k \in Frustum[bounds] THEN frame.put[k] ELSE Gone
     ELSE old[k]]

(* applyDelta, layer by layer: upsertFeatureLayer and removeFeatureLayer.  *)
Patched(drawing, old, frame, bounds) ==
  [k \in Ids |->
     IF frame.put[k] # Gone
       THEN IF drawing /\ k \in Frustum[bounds] THEN frame.put[k] ELSE Gone
     ELSE IF k \in frame.removed THEN Gone
     ELSE old[k]]

(* applyDelta, heat point by heat point.                                   *)
Heated(old, frame) ==
  [k \in Ids |-> IF frame.put[k] # Gone THEN frame.put[k].content
                 ELSE IF k \in frame.removed THEN Gone
                 ELSE old[k]]

(* The store after a frame: applySnapshot replaces it.                     *)
Applied(features, frame) ==
  [k \in Ids |-> IF frame.put[k] # Gone THEN frame.put[k]
                 ELSE IF frame.kind = "s" \/ k \in frame.removed THEN Gone
                 ELSE features[k]]

(* applySnapshot and applyDelta.                                           *)
Receive ==
  /\ downlink # << >>
  /\ LET frame == Head(downlink)
         old   == IF frame.kind = "s" THEN layers
                  ELSE Patched(items, layers, frame, view)
     IN  /\ store' = Applied(store, frame)
         /\ IF mode = "heatmap"
            THEN /\ layers' = IF frame.kind = "s" THEN Nowhere ELSE layers
                 /\ heat' = IF frame.kind = "s" THEN HeatOf(store')
                                                ELSE Heated(heat, frame)
                 /\ drawn' = heat'
                 /\ heatOn' = items
            ELSE /\ layers' = Synced(items, old, store', view)
                 /\ heatOn' = FALSE
                 /\ UNCHANGED <<heat, drawn>>
         /\ ghosts' = Wrong(layers', store')
                      \cap (IF frame.kind = "s" THEN Ids ELSE ghosts)
  /\ downlink' = Tail(downlink)
  /\ UNCHANGED <<world, server, connected, uplink, begun, inputs, counts>>

----------------------------------------------------------------------------
(* The user.                                                               *)

Act == actions < MaxActions /\ actions' = actions + 1

(* The moveend handler: the viewport is sent VIEWPORT_SEND_DEBOUNCE_MS on. *)
Move(v) ==
  /\ Act
  /\ view' = v
  /\ layers' = Synced(items /\ mode = "cluster", layers, store, v)
  /\ ghosts' = ghosts \cap Wrong(layers', store)
  /\ debounce' = TRUE
  /\ UNCHANGED <<world, server, link, mode, items, lastSent, store, heat, drawn,
                 heatOn, changes, drops>>

Debounced ==
  /\ debounce
  /\ debounce' = FALSE
  /\ SendViewportNow(Wanted, FALSE)
  /\ UNCHANGED <<world, server, connected, downlink, begun, view, mode, items,
                 screen, counts>>

(* A change of mode that shows the heat points as they were.               *)
ToggleModeWithoutRebuild ==
  /\ Act
  /\ mode' = IF mode = "cluster" THEN "heatmap" ELSE "cluster"
  /\ debounce' = FALSE
  /\ SendViewportNow([viewport |-> view, mode |-> mode'], TRUE)
  /\ IF mode' = "heatmap"
     THEN /\ layers' = Nowhere
          /\ drawn' = heat
          /\ heatOn' = items
     ELSE /\ layers' = Synced(items, layers, store, view)
          /\ heatOn' = FALSE
          /\ UNCHANGED drawn
  /\ ghosts' = ghosts \cap Wrong(layers', store)
  /\ UNCHANGED <<world, server, connected, downlink, begun, view, items, store,
                 heat, changes, drops>>

(* The effect of visualizationMode.                                        *)
ToggleMode ==
  /\ Act
  /\ mode' = IF mode = "cluster" THEN "heatmap" ELSE "cluster"
  /\ debounce' = FALSE
  /\ SendViewportNow([viewport |-> view, mode |-> mode'], TRUE)
  /\ IF mode' = "heatmap"
     THEN /\ layers' = Nowhere
          /\ heat' = HeatOf(store)
          /\ drawn' = heat'
          /\ heatOn' = items
     ELSE /\ layers' = Synced(items, layers, store, view)
          /\ heatOn' = FALSE
          /\ UNCHANGED <<heat, drawn>>
  /\ ghosts' = ghosts \cap Wrong(layers', store)
  /\ UNCHANGED <<world, server, connected, downlink, begun, view, items, store,
                 changes, drops>>

(* The effect of showMapItems.                                             *)
ToggleItems ==
  /\ Act
  /\ items' = ~items
  /\ IF mode = "heatmap"
     THEN /\ drawn' = heat
          /\ heatOn' = items'
          /\ UNCHANGED layers
     ELSE /\ layers' = Synced(items', layers, store, view)
          /\ heatOn' = (heatOn /\ items')
          /\ UNCHANGED drawn
  /\ ghosts' = ghosts \cap Wrong(layers', store)
  /\ UNCHANGED <<world, server, link, view, mode, lastSent, debounce, store,
                 heat, changes, drops>>

----------------------------------------------------------------------------
Next ==
  \/ \E k \in Ids, content \in Contents \cup {Gone} : Change(k, content)
  \/ Take \/ Emit
  \/ Open \/ Drop \/ Receive
  \/ \E v \in Viewports : Move(v)
  \/ Debounced \/ ToggleMode \/ ToggleItems

(***************************************************************************)
(* The stream answers and the browser's timers fire and events are         *)
(* handled.  Nothing makes the user act or the connection fail.            *)
(***************************************************************************)
Fairness ==
  /\ WF_vars(Take) /\ WF_vars(Emit)
  /\ WF_vars(Open) /\ WF_vars(Receive) /\ WF_vars(Debounced)

Safety == Init /\ [][Next]_vars
Spec   == Safety /\ Fairness

----------------------------------------------------------------------------
(* A frame says what the client is to have under an id.                    *)
Tells(frame, k) ==
  frame.kind = "s" \/ frame.put[k] # Gone \/ k \in frame.removed

(***************************************************************************)
(* The client's store, with the frames on their way to it, is what the     *)
(* server takes it to be, since deltas are computed from that: under each  *)
(* id the last frame that says something of it decides, else the store.    *)
(***************************************************************************)
StoreFollowsServer ==
  begun => \A k \in Ids :
    /\ (\A i \in 1 .. Len(downlink) : ~Tells(downlink[i], k))
         => store[k] = last[k]
    /\ \A i \in 1 .. Len(downlink) :
         Tells(downlink[i], k)
           /\ (\A j \in i + 1 .. Len(downlink) : ~Tells(downlink[j], k))
         => downlink[i].put[k] = last[k]

(***************************************************************************)
(* The store never holds features of both modes, however the mode is       *)
(* toggled while frames are on their way.                                  *)
(***************************************************************************)
StoreOfOneMode ==
  \A j, k \in Ids :
    store[j] # Gone /\ store[k] # Gone => store[j].mode = store[k].mode

(***************************************************************************)
(* Layers are those of the features in sight, and none in heatmap mode or  *)
(* with items off; only a snapshot that finds other layers on the map      *)
(* leaves a wrong one.                                                     *)
(***************************************************************************)
LayersUnlessGhosts ==
  LET drawing == items /\ mode = "cluster"
  IN  \A k \in Ids \ ghosts :
        layers[k] = IF drawing /\ k \in Frustum[view] THEN store[k] ELSE Gone

(***************************************************************************)
(* The heat layer shows the store in heatmap mode, whichever handlers ran  *)
(* while it was off the map, and is off the map in cluster mode.           *)
(***************************************************************************)
HeatShowsStore ==
  /\ heatOn <=> items /\ mode = "heatmap"
  /\ mode = "heatmap" => drawn = HeatOf(store) /\ heat = drawn

(***************************************************************************)
(* When the user rests and the features stay as they are, the store holds  *)
(* what the server lists for the map's viewport and mode, whatever was     *)
(* debounced, left out as already sent, or lost with a connection.         *)
(***************************************************************************)
StoreCatchesUp == <>[](store = Listing(Wanted))

(***************************************************************************)
(* README.md:11, "Renders MIL-STD-2525 symbols in the React Leaflet client *)
(* ... with a heatmap view built from the same viewport data": the symbols *)
(* on the map become those of the viewport's features.                     *)
(***************************************************************************)
SymbolsAreOfViewport ==
  <>[](items /\ mode = "cluster" =>
         \A k \in Ids :
           layers[k] = IF k \in Frustum[view] THEN store[k] ELSE Gone)
============================================================================
