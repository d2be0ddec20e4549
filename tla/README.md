# A TLA+ model of map-cluster

map-cluster serves a clustered point map: a Go API in front of PostgreSQL/PostGIS
and Redis, and a React client fed by a websocket. This directory holds TLA+
modules for the server, the client and the stream benchmark, TLC configurations
that model-check them on small instances, and proofs that hold for every instance.

    tlc -workers 2 -config ClusterTables.cfg MCClusterTables     # check
    tlapm ClusterTables_proofs.tla                               # prove

Paths below are relative to the repository.

## 1. The system

| part | code | state | operations |
|---|---|---|---|
| schema, seed, refresh | `backend/internal/db/postgres.go` | tables `map_features`, `map_feature_clusters` | `EnsureSchema` at boot; `RefreshClusters` = `TRUNCATE`, then `INSERT ... SELECT` |
| repository | `backend/internal/repository/map_repository.go` | the same tables | `PopulateRandomPoints`, `InsertPoints`, `ClearAllPoints`, `ListViewportFeatures` |
| service | `backend/internal/service/map_service.go` | map of listeners, one channel of capacity 1 each | cache-aside `ViewportFeatures`; mutations = repository, then `invalidateViewportCache`, then `notifyDataChanged`; `SubscribeUpdates` |
| cache | `backend/internal/cache/redis.go` | keys `viewport:...` with a time to live | `Get`, `Set`, `DeleteByPrefix` (SCAN and DEL) |
| stream | `backend/internal/httpapi/handler.go`, `stream` | per connection: current viewport, mode and format, pending flags, coalescing timer, last features, channels `incoming`, `updates`, `readErr` | reader goroutine; `select` loop; `scheduleEmit`; `sendViewport` |
| REST endpoints | `handler.go` | none | features, random points, bulk items, McDonald's, clear |
| start and stop | `backend/cmd/api/main.go` | the process | `EnsureSchema`, then `ListenAndServe`; `Shutdown` |
| web client | `frontend/src/App.tsx` | feature store, layers, socket, timers | snapshot, delta, reconnect, viewport send |
| benchmark | `backend/cmd/wsbench/main.go` | two goroutines and a connection | write a viewport, move on at each tick, count frames, close |
| configuration, scripts | `config.go`, `*.sh`, `docker-compose.yml` | none that is shared | - |

How they interact:

    client --HTTP--> handler --> service --> repository --> map_features
                                   |             `--> RefreshClusters --> map_feature_clusters
                                   |--> Redis (sweep "viewport:*")
                                   `--> listeners (one token each)
                                             |
    client <--websocket-- stream <-----------'
    wsbench                 `--> service.ViewportFeatures --> Redis, else map_feature_clusters

What is hard in it:

* Nothing is transactional. A mutation is three or four SQL statements, then a
  sweep, then a notification; concurrent requests interleave at every gap, a
  client that goes away cancels the context in the middle, and a crash leaves
  whatever has been done. Redis outlives the server and nobody flushes it.
* A read is a get, a query and a set. The set can come after a sweep that ought
  to have removed it.
* A stream merges messages, updates and time: a change announced during an
  emission, a mode toggled twice in one window, a timer that fires while an
  event is taken, a reader stuck on a full channel.
* The client patches what it has. Deltas are only right for the store they were
  computed for, and the map, the mode and the connection change under frames
  that are on their way.
* Three programs write the same message under different keys, and two of the
  goroutines that write to a socket also have to read from it.

What makes each part correct: the cluster table is always that of stored points
and converges to all of them (tables); a stale entry is on its way out (cache);
what a request is answered is what is stored (API); no announced change is lost
and each delta has a base (stream); a client ends up seeing every finished
mutation (the whole); store, layers and heat points agree with each other and
with the server (client); a message means what its sender meant (wire); the level
that is asked for exists (policy). The hazards behind each are listed, each at its
line, in `PROJECT.json`.

## 2. The modules

| module | models | composed of |
|---|---|---|
| `ClusterTables` | the two tables, statement by statement, and the server's life | |
| `ViewportCache` | cache-aside reads against sweeping mutations | |
| `ServedMap` | the REST API: handlers over tables and cache, across restarts | extends `ClusterTables`, instantiates `ViewportCache` |
| `LiveView` | abstract: what a stream promises its client | |
| `UpdateStream` | listeners and the two goroutines of a stream | implements `LiveView` |
| `MapCluster` | streams and REST callers that read through the cache | extends `ViewportCache`, instantiates `UpdateStream`; implements `ViewportCache` |
| `StreamWire` | messages and formats on bounded sockets; app, hand-made client, wsbench | |
| `MapClient` | the client's copy of the map, its socket and the frames between | |
| `ViewportPolicy` | normalised viewport, effective zoom, cell sizes | |
| `MC*` | the constants of the instances TLC checks | |
| `*_proofs` | the theorems | |

A few definitions are variants of the code that contain a bug (a lock that is not
taken, a timer that is not reset ...). They stand directly before the definition
they vary, no specification uses them, and `PROJECT.json` ("mutants") says which
property each of them breaks: a property that no such bug breaks would say
nothing about the code.

### ClusterTables

`features` is `map_features`. A set of cluster rows is represented by the set of
points it was computed from (`clusters`): the grouping is a function of that set,
and from zoom 15 up every point has a row of its own, so that two sets of rows
violate `UNIQUE (zoom_level, feature_id)` exactly when the sets meet. `pc[p]` is
the statement that request `p` (or `Boot`, `EnsureSchema`) sends next.

| action | code |
|---|---|
| `InsertPoints` | the INSERT of `PopulateRandomPoints` and `InsertPoints` |
| `ClearCount`, `ClearTruncate` | the COUNT and the TRUNCATE of `ClearAllPoints` |
| `Truncate`, `RebuildBegin`, `RebuildCommit`, `RebuildConflict` | `RefreshClusters`; the INSERT ... SELECT has a beginning (its snapshot) and an end (commit, or an error on the UNIQUE constraint, also as the victim of two INSERTs that wait for each other) |
| `Start`, `BootCount`, `BootSeed`, `Serve` | `main` and `EnsureSchema` |
| `Shutdown`, `ShutdownDone` | SIGTERM: no new requests, those under way are answered, then the process ends |
| `Abandon` | a statement fails or its context is cancelled |
| `Crash` | the process ends between two statements, also because `Shutdown` has waited for 15 seconds |

`TRUNCATE` needs an ACCESS EXCLUSIVE lock and waits for every running
INSERT ... SELECT: `TablesUnlocked`. `owed` is a history variable: a refresh was
abandoned and no TRUNCATE has started another.

### ViewportCache

`version` counts the changes of what a viewport query returns (the TRUNCATE and
the INSERT of a refresh are two); an entry, a result and a writer's last change
are versions. `SweepBegin` takes the keys that SCAN must return: those that are
there from its start to its end. Keys set meanwhile may be returned or not:
`Sweep` may take any key, `SweepEnd` needs only the obligations done. Calls fail
(`GetFails` counts as a miss, `SetFails` and `SweepFails` are logged,
`QueryFails` and `FailMutation` are returned), and keys expire at any time or
never (`CACHE_TTL=0`).

`late` is a history variable: the keys that hold old features and that no sweep
still has to reach - filled after the sweep (`IsLate`), or left behind by a sweep
or a mutation that failed. The properties state precisely what holds up to these
keys. That such keys exist is a finding, see section 4.

### ServedMap

The REST API from the request to the tables and the cache. `Accept` is a handler
up to its first statement: the method and the body decide (`IsAccepted`:
`RandomIsValid`, `BatchIsValid`), an accepted request starts with `InsertPoints`
of as many points as it asks for, or with `ClearCount`; a refused one changes
nothing and so is no step. `Rewrite` joins each change of the clusters to a change
of the cache's version and records in `contents` which points that version shows.
A mutation whose refresh loses the UNIQUE race (`LoseRace`) or fails (`GiveUp`)
returns without a sweep; `Invalidate` and `Succeed` are the other ending.

A crash (`ServedCrash`) takes the requests of both kinds with it and leaves Redis
alone; what was still to be swept is never swept and its keys are late. So are the
entries that a boot finds when it seeds, or repairs an abandoned refresh
(`Repair`): it sweeps nothing. A boot without either leaves the tables with the
content they had, so that the entries of the former process stay right, and
`ShownIsStored` counts on that. A boot is one change of the version, because
nobody can read while it is under way.

### UpdateStream and LiveView

One action for each case of the `select` (`TakeMessage`, `TakeUpdate`,
`TakeTimer`, `TakeReadErr`), the reader goroutine (`ReadMessage`, `ReadFails`:
`incoming` holds one buffered message and the one the reader is stuck on), and
`sendViewport` in two steps, `Query` and `WriteFrame`, so that changes and
messages come between them. `token` is the channel of capacity 1.
`FailMutation` is a mutation that has changed points and returns an error without
notifying. A view is the version and the request (viewport and mode) that
`lastFeatures` holds. `ctx.Done()` behaves as a reader error does. The reader does
not know whether the loop runs: after `EmitFails` it still reads what has arrived,
and once it holds one message more than the channel takes it is stuck for ever. The
model has this leak of a goroutine; no text of the repository excludes it.
`StuckReadersGoOn` says that while the loop runs no reader stays stuck.

`LiveView` is the promise, without goroutines, channels and timers: what is shown
is always what was asked for last, never older than before, and catches up with
what was announced. `ImplementsLiveView` is the refinement: `open` is the set of
subscribed streams, `asked` is `current`, `shown` is `view`.

### MapCluster

The joint steps of the two components: a mutation changes the tables (`Mutate`),
sweeps (`Invalidate`), and notifies as it finishes (`Announce`); a stream's query
is a call of `ViewportFeatures` (`Ask`, `Lookup`, `Receive`). Callers of
`GET /api/v1/features` fill and hit the same keys. Each step is a step of
`ViewportCache` or leaves it alone.

### StreamWire

The messages of `/ws/stream` as records with the keys they carry: `AppMessage`
(`sendViewportNow` of `App.tsx`), `ManualMessage` (a client written from
README.md), `BenchMessage` (`viewportRequest` of wsbench, whose struct has `json`
tags only: msgpack writes the names of its fields). `Field`, `ModeNamed` and
`Merge` are `decodeStreamRequest` and the first case of the `select`. The sockets
hold `Room` messages in each direction and a write to a full one waits. The main
goroutine of wsbench is `main`, from its first `WriteViewport` to `Report`; its
reader is `Receive` and `ReceiveFails`. The loop of the stream is that of
`UpdateStream` reduced to what it does to the socket, a frame being the session
(viewport, mode, format) that it answers. The server's reader ends here with its
connection: what it would still read changes nothing that is answered.

### MapClient

`ViewportStream` of `App.tsx` with the other end of its socket. The browser runs
one event handler at a time, so each handler or effect is one action; frames and
requests are queues, lost with the connection.

| action | code |
|---|---|
| `Take`, `Emit`, `Change` | a viewport message, an emission, and an announced change at the server; `Emit` computes the `Snapshot` or the `Delta` of `sendViewport` |
| `Receive` | `applySnapshot` and `applyDelta`, which end in `syncVisibleLayers` (`Synced`) or `refreshHeatLayer` |
| `Open`, `Drop` | `connect` and `onopen`, which sends by force; `onclose` |
| `Move`, `Debounced` | `moveend`, and the viewport send 120 ms later, left out if it is the last one sent |
| `ToggleMode`, `ToggleItems` | the effects of the two buttons |

A feature is its content and the mode it was listed for (in heatmap mode it has an
intensity and neither symbol nor cluster flag). `Box` is what the
server lists for a viewport, `Frustum` what lies in the padded bounds in which the
client draws. `ghosts` is a history variable: the layers that a snapshot found on
the map and left there although they are not the store's. `begun` says that this
connection has carried a frame. An emission is one step here; `UpdateStream` has
it in two and shows that a change in its middle is not lost.

### ViewportPolicy

`normalizeViewport`, the two CASE expressions of `ListViewportFeatures`,
`clusterZoomForCount` (the Go copy that the unit test exercises) and the cell
sizes of `RefreshClusters`. Coordinates are integers; only their order and the
all-zero box matter.

## 3. The runs

| run | instance | shows | states, time |
|---|---|---|---|
| `ClusterTables` | 2 mutations, 4 points (1 seeded), 3 faults | safety of the tables, `ServesRefreshed`, `StopLeavesRefreshed`, `SuccessIsVisible`, `MutationsFinish`, `ServerRecovers` | 34 k, 24 s |
| `ClusterTablesSucceed` | 2 mutations, no fault | **violated**: `MutationsSucceed` | - |
| `ViewportCache` | 2 mutations, 2 reads, 2 keys, 3 changes, 1 fault, symmetry | `StaleIsPending`, `ReadAfterWrite` | 2.4 M, 44 s |
| `ServedMap` | 2 mutations, 1 read, 1 key, 3 points (1 seeded), 4 changes, 1 fault, 9 kinds of request | `ShownIsStored` | 3.4 M, 73 s |
| `UpdateStream` | 1 stream, 2 writers, 2 viewports and modes, 2 changes, 3 messages | `NoLostUpdate`, `DeltaHasBase`, `TimerMeansPending`, `Settles`, `DeadPeerUnsubscribes`, `StuckReadersGoOn`, `ImplementsLiveView` | 198 k, 86 s |
| `MapCluster` | 1 stream, 1 caller, 1 mutation of up to 2 changes, 1 message, 1 fault | `WakeupUnlessLate`, `CallIsForCurrent`, `SettlesUnlessLate` | 419 k, 78 s |
| `MapClusterStale` | the same, 1 change, no fault | **violated**: `StreamsAsTheMapChanges` | - |
| `StreamWire` | 2 boxes, 2 zooms (one of them 0), sockets of 1, 4 messages, 1 change | `AnsweredAsAsked`, `BenchmarkEnds` | 1.7 M, 48 s |
| `StreamWireFormat` | the same, 3 messages | **violated**: `BenchFormatIsHonoured` | - |
| `MapClient` | 2 features, 2 viewports, 1 change, 3 moves and toggles, 1 lost connection, 2 frames in flight | `StoreFollowsServer`, `StoreOfOneMode`, `LayersUnlessGhosts`, `HeatShowsStore`, `StoreCatchesUp` | 350 k, 25 s |
| `MapClientSymbols` | 2 toggles, no change, no lost connection | **violated**: `SymbolsAreOfViewport` | - |
| `ViewportPolicy` | zooms -1..24, corners -1, 0, 2, both sides of each threshold | `SqlAgreesWithGo`, `LevelIsStored`, `NormalBoxIsBox`, `CrowdsAreCoarser` | 27 k, 3 s |

Bounds. Each hazard needs few actors. Two requests conflict in their refreshes;
each may return and start again, so a third mutation comes between when there are
faults and points for it. A fill races one sweep, and a second writer overtakes the
first. Two messages toggle the mode and back; with the one that the loop has
taken, three fill the buffer and block the reader. One change before and one
during an emission. A toggle and its way back with a move between or after, on
both sides of a reconnection. In `ServedMap` four changes are two for a boot and
a refresh on top of it, or a mutation before a restart and one after. `Room = 1`
makes every write wait. `MaxVersion`, `MaxMessages`, `MaxSends`, `MaxUpdates`,
`MaxActions`, `MaxChanges`, `MaxDrops`, `MaxFlight` and `MaxFaults` only bound
counters. One stream is enough: streams share `version` and `announced`, which no
stream writes, and, in `MapCluster`, the cache, where the caller takes the part of
the other stream. The bounds stay small where liveness is checked in the same
run; the safety properties of every run are proved for any value of the
constants. Symmetry is used in a run without liveness only.
`CHECK_DEADLOCK FALSE` stands in the runs of streams, client and API: when the
bounds are used up, or a closed connection is not opened again, the model stops,
as a server without requests does.

Fairness. Go runs a goroutine that can run and chooses at random among the ready
cases of a `select`: strong fairness of each case in `UpdateStream` and
`MapCluster`. An emission that has begun ends (weak fairness of the query, the
write or their failure). A reader need not read or fail.
Timers fire - weak fairness of `TimerFires`, which resets disable; this is
justified because the bounds make events stop, and the code does let events less
than `viewportCoalesceWindow` apart put an emission off for ever. Clients and
writers need not do anything. In `ClusterTables`, a statement that can run does
run, and TRUNCATE and its lock request are not overtaken for ever because
PostgreSQL's lock queue is first come, first served: strong fairness. The server
is restarted, by somebody: `docker-compose.yml` has no restart policy. In `StreamWire`, weak fairness of the goroutines of wsbench and of
the server's steps; a write waits for room without end, because neither side sets
a write deadline. In `MapClient` weak fairness of the stream, of
the socket's events, of the debounce and of the reconnection after 800 ms:
`onclose` always schedules one. The user, the failures and `SIGTERM` are free.

## 4. Findings

1. **An overlapping refresh makes a mutation fail although it is done.**
   `RefreshClusters` (postgres.go:104-177) truncates and inserts without a
   transaction. Two requests that both truncate and then both insert meet on
   `UNIQUE (zoom_level, feature_id)`; the loser answers 500 with its points
   stored, and neither sweeps the cache nor notifies. README.md:32 promises that
   the endpoint "inserts 1,000 random points and rebuilds clusters". The safety
   runs show the damage ends there: the tables converge, and the winner, whose
   statement commits when the loser's fails or before, still sweeps.
2. **A late fill leaves a stream on the old map.** A request that missed the
   cache and queried before a mutation sets its key after the sweep
   (map_service.go:79-90); the stream that is then notified reads the old entry.
   Nothing makes it read again when the entry expires. README.md:10 promises
   updates "as the map changes".
3. **A change of mode leaves wrong symbols.** On the way back from the heatmap the
   effect calls `syncVisibleLayers` at once, which draws the store's heatmap
   features as symbols; when the cluster snapshot arrives, a key that has a layer
   keeps it (App.tsx:326), and a key that has left the store is not visited at
   all. Clusters stay drawn as single default symbols until the map moves them out
   of sight or a delta mentions them; the same happens to features that went away
   while the connection was lost. README.md:11 promises symbols and a heatmap
   "built from the same viewport data". `LayersUnlessGhosts` says that this is the
   only way to a wrong layer.
4. **wsbench does not measure what its flags say.** With `-format msgpack`, the
   default, `msgpack.Marshal` writes the keys `BBox`, `Zoom`, `Mode`, `Fmt`, since
   `viewportRequest` has `json` tags only (wsbench/main.go:19-24);
   `decodeStreamRequest` finds none of its keys. The server takes an empty
   message: the whole world at zoom 0 in cluster mode, answered in JSON, whatever
   `-bbox`, `-zoom` and `-mode` were. `AnsweredAsAsked` shows that the other three
   ways of asking are understood.

## 5. The proofs

All of it is for any number of requests, streams, points, keys, versions and
faults; the assumptions are the named `ASSUME`s of the modules (the boot is not a
request; there is a seed and it is made of points; "no request", "nothing" and
garbage are none of the values; the streams' requests are the cache's keys; the
bounds are natural numbers).

* **Tables** (`ClusterTables_proofs`): `TypeCorrect`, `ClustersAreOfStoredPoints`,
  `OldClustersAreQueued`, `BlankMapIsBrief`, `OldSnapshotsAreTruncated`,
  `StopsCleanly`, `RefreshConverges`, `BootRepairs`,
  `SuccessfulMutationsAreVisible`. That clusters are of stored points is not
  inductive: a running INSERT ... SELECT commits what it read earlier. The
  inductive invariant adds that every running snapshot is of points still stored -
  kept because a clear waits for it - and that clusters or snapshots that differ
  from the points are covered by a queued TRUNCATE (`BehindIsQueued`,
  `OldSnapshotIsDoomed`) unless a refresh is owed. While the server is booting or
  down, no request is under way, which gives `ServesRefreshed`; and when `Shutdown`
  has waited for every request no TRUNCATE is queued and no refresh under way, so
  that `BehindIsQueued` and `BlankIsBrief` give `StopLeavesRefreshed`.
  `BootsGoThrough` is the safety half of `ServerRecovers`: a server that boots has
  the tables for itself and inserts into an empty one, so that no statement of
  `EnsureSchema` waits or fails on the UNIQUE constraint. `MutationsRunOut` is
  `MutationsFinish` but for the fairness: a request waits only for an INSERT, which
  waits for nobody, and has at most three statements to go, fewer after each; that
  a TRUNCATE is not overtaken for ever in the lock's queue is what remains.
* **Cache** (`ViewportCache_proofs`): `TypeCorrect`, `StaleEntriesArePending`,
  `ReadsFollowWrites`, `QuietCachesAreFresh`. The strengthening: only a sweep has
  keys to do; entries that are not late are no older than the last completed
  mutation (what `Finish` needs of `StaleIsPending`); a call's floor is completed;
  the current version is some writer's.
* **API** (`ServedMap_proofs`): `ServedTypeCorrect`, `WhatIsShownIsStored`,
  `ServedTablesConverge`, `RestartsAnswerCurrent`, `ServedSuccessIsVisible`,
  `AnswersFollowMutations`. Every step is a step of `ClusterTables`, or a failed
  call that the tables only count, so that their invariant holds under the
  handlers. The cache's invariant is stated again and weaker, because a mutation
  that loses the UNIQUE race returns without a sweep. Which mutation sweeps in its
  place is the point of the joint invariant: an entry that does not show the
  clusters is late, or a mutation will sweep it that has committed its INSERT or
  may still lose only against another that will (`OldIsSwept`, `WillSweep`: while
  the clusters are empty nobody can have lost yet); a fill with old features comes
  late or meets such a mutation of a newer version (`OldFillIsSwept`). While no
  server listens and no refresh is owed, what Redis keeps shows the stored points
  (`KeptIsStored`), from which `RestartsAnswerCurrent` follows.
* **Stream** (`UpdateStream_proofs`): `TypeCorrect`, `WakeupsAreKept`,
  `DeltasHaveTheirBase`, `TimersArePending`, and `StreamKeepsItsPromise`, which is
  the safety part of the refinement of `LiveView`, step by step. The invariant
  couples phase, flags and timer, and says that what is being written is for the
  current request and no older than the view. `UnsettledStreamsMove` and
  `LoopsRunOut` are `Settles` and `DeadPeerUnsubscribes` but for the fairness: a
  stream that has something to show always has a step to make, and each step of
  its loop, one that puts the emission off included, lowers a natural number that
  only a message, a notification or a new connection raises.
* **The whole** (`MapCluster_proofs`): `MapImplementsCache` - every step of
  `MapCluster` is a step of `ViewportCache` or a stutter, so that the cache's
  invariant holds in the server and `ServerReadsFollowWrites` follows -,
  `WakeupsSurviveTheCache` and `CallsAreForCurrent`. `WakeupUnlessLate` is
  inductive only with what happens during a call: a mutation that finishes while a
  stream's call is under way has left the stream its token (`OvertakenHasToken`),
  and a call that nothing overtook returns a version no older than its floor
  unless the key was late, which is what the cache's `ReadAfterWrite` says. The
  stream's own invariants hold over the cache as well (`ServerDeltasHaveTheirBase`,
  `ServerTimersArePending`), and `IdleStreamsAreCurrent` is the safety half of
  `SettlesUnlessLate`: a stream with nothing to do shows the last request and all
  finished mutations.
* **Client** (`MapClient_proofs`): `TypeCorrect`, `StoreIsServers`,
  `LayersAreOfStore`, `HeatIsOfStore`, `StoreKeepsOneMode`. The first frame of a
  connection is a snapshot (`FirstIsSnapshot`), which makes the agreement of
  store, frames and `lastFeatures` inductive: stated key by key, for the last
  frame that mentions the key, it needs no induction on the queue. That no layers
  exist while none may be drawn (`NoLayersUnlessDrawing`) is what the layers need.
  For the one mode, any two frames with only deltas between them put features of
  the same mode (`FlightOfOneMode`), and a delta that is still to be sent fits
  those (`NextDeltaFits`). `StoreCatchesUp` but for the fairness: at rest the store
  is what the server lists (`RestingStoreIsCurrent`) and the map shows it
  (`RestingMapShowsListing`), and every step of client and stream lowers a number
  that is 0 exactly at rest (`SettlingRunsOut`). `RequestsArrive` follows a request
  for that: the viewport that was sent last is under way or is the session, and
  what the map wants is sent, being debounced, or sent when the socket opens.
* **Wire** (`StreamWire_proofs`): `MessagesSayWhatIsAsked` - what `Merge` makes of
  the three honest messages, for every box, zoom and mode -,
  `ClientsAreAnsweredAsAsked` and `TypeCorrect`. The invariant follows the last
  message from the socket through the reader's channel into the session
  (`LastIsAsked`) and the session into the last frame (`LastIsAnswer`).
  `BenchmarkEnds` but for the fairness: while wsbench is blocked on a write its
  reader or the server can go on (`BlockedWritesAreServed`), and only finitely
  often before there is room (`ServersWorkRunsOut`).
* **Policy** (`ViewportPolicy_proofs`): the SQL and the Go function agree for all
  integers; the level is stored; a normalised box is a box; the cell size is
  monotone in the number of clusters.

Liveness itself stays with TLC, because the prover does not reason about `ENABLED`
and so not about fairness. For seven of the properties only that step remains: the
theorems show that what has come to rest is right, or that something can move
while it is not, and most also that the steps run out. `StuckReadersGoOn`
and the liveness half of `ImplementsLiveView` have no such theorem of their own
(a stuck reader makes its stream one of `UnsettledStreamsMove`).

## 6. Not modelled

* Of the client: two sockets at once (the double mount of React's StrictMode, in
  development builds only) and the reconnect timer that outlives its component,
  the status texts, base maps, the buttons that call the mutations and the drawing
  itself.
* Of the server: the DDL of `EnsureSchema`, which runs before anything else and
  changes no rows; configuration; CORS headers and compression; the encodings
  (JSON, MessagePack) beyond the keys of the messages, and the signature by which
  two versions of a feature are compared. Status codes: `bulk-items` answers 400
  also when the refresh fails, after the points have been stored.
* Of PostgreSQL: a statement of a process that was killed and that commits after
  the next process has booted. `Crash` ends the statement in or before the crash.
  `MaxOpenConns` and a database that comes and goes are covered by `Abandon`.
* Of the benchmark: the figures it prints and the script that starts it. Styles,
  containers and development scripts have no state that matters here.

Two texts of the repository differ from the code without a run of their own: README.md:34
says that `bulk-items` "inserts all valid points" while `normalizePoints` refuses
the whole batch for one bad item, and README.md:71-97 shows frames with the long
names `type`, `viewport` and `added` where the handler writes short ones.

## 7. Possible extensions

The client's second socket, which can only bring frames of the same viewport a second
time as long as the component stays mounted.
