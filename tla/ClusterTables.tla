--------------------------- MODULE ClusterTables ---------------------------
(***************************************************************************)
(* The two PostgreSQL tables of MapCluster and every statement that writes *)
(* them: backend/internal/db/postgres.go (EnsureSchema, RefreshClusters)   *)
(* and the writing half of backend/internal/repository/map_repository.go   *)
(* (PopulateRandomPoints, InsertPoints, ClearAllPoints).                   *)
(*                                                                         *)
(* map_features is the source of truth.  map_feature_clusters is derived   *)
(* from it by RefreshClusters: a TRUNCATE followed by an INSERT ... SELECT *)
(* over the whole of map_features.  No transaction spans the statements of *)
(* a mutation, so the statements of concurrent requests interleave, and a  *)
(* request that stops half way leaves what it has already done.            *)
(*                                                                         *)
(* A point is a row of map_features (its id).  A set of cluster rows is    *)
(* represented by the set of points it was computed from: the grouping of  *)
(* the points into cells is a function of that set, and for every zoom     *)
(* from 15 up each point is a row of its own ('point:' || id), so two      *)
(* groupings share a (zoom_level, feature_id) key when the sets meet.      *)
(***************************************************************************)
EXTENDS Naturals

CONSTANTS
  Writers,      \* HTTP requests that change the points
  Boot,         \* the goroutine that runs EnsureSchema when the server starts
  Points,       \* the rows that map_features can hold
  SeedPoints,   \* the demo rows that EnsureSchema inserts in an empty table
  MaxFaults     \* how many statements fail and servers crash (a bound)

ASSUME BootAssumption   == Boot \notin Writers
ASSUME SeedAssumption   == SeedPoints \subseteq Points /\ SeedPoints # {}
ASSUME FaultsAssumption == MaxFaults \in Nat

VARIABLES
  server,     \* "down", "booting" (EnsureSchema), "up" (ListenAndServe) or
              \* "stopping" (Shutdown)
  features,   \* map_features
  clusters,   \* the points that the rows of map_feature_clusters stand for
  pc,         \* the statement each actor sends next, or how it ended
  snap,       \* what the SELECT of an actor's INSERT ... SELECT has read
  owed,       \* history: a refresh was abandoned and none has begun since
  faults      \* how many faults have happened

tables == <<features, clusters>>
vars   == <<server, features, clusters, pc, snap, owed, faults>>

Actors == Writers \cup {Boot}

(***************************************************************************)
(* "truncate" and "rebuild" are the two statements of RefreshClusters not  *)
(* yet begun, "inserting" is its INSERT ... SELECT while it runs.  "seed"  *)
(* is the seed INSERT of EnsureSchema, "clear" the TRUNCATE of             *)
(* ClearAllPoints; "count" and "clear" are on either side of a COUNT.      *)
(***************************************************************************)
Refreshing == {"truncate", "rebuild", "inserting"}
Resting    == {"idle", "done", "failed"}
Phases     == Refreshing \cup Resting \cup {"count", "seed", "clear"}

TypeOK ==
  /\ server \in {"down", "booting", "up", "stopping"}
  /\ features \in SUBSET Points
  /\ clusters \in SUBSET Points
  /\ pc \in [Actors -> Phases]
  /\ snap \in [Actors -> SUBSET Points]
  /\ owed \in BOOLEAN
  /\ faults \in 0 .. MaxFaults

Init ==
  /\ server = "down"
  /\ features = {}
  /\ clusters = {}
  /\ pc = [p \in Actors |-> "idle"]
  /\ snap = [p \in Actors |-> {}]
  /\ owed = FALSE
  /\ faults = 0

Goto(p, phase) == pc' = [pc EXCEPT ![p] = phase]

(***************************************************************************)
(* An INSERT holds a ROW EXCLUSIVE lock on map_feature_clusters and an     *)
(* ACCESS SHARE lock on map_features until it ends; TRUNCATE needs ACCESS  *)
(* EXCLUSIVE, so it waits for every INSERT ... SELECT to end.              *)
(***************************************************************************)
TablesUnlocked == \A p \in Actors : pc[p] # "inserting"

----------------------------------------------------------------------------
(* RefreshClusters, one statement at a time.                               *)

(* A refresh that drops the TRUNCATE's exclusive lock (a DELETE would).    *)
TruncateWithoutLock(p) ==
  /\ pc[p] = "truncate"
  /\ clusters' = {}
  /\ owed' = FALSE
  /\ Goto(p, "rebuild")
  /\ UNCHANGED <<server, features, snap, faults>>

Truncate(p) ==
  /\ pc[p] = "truncate"
  /\ TablesUnlocked
  /\ clusters' = {}
  /\ owed' = FALSE
  /\ Goto(p, "rebuild")
  /\ UNCHANGED <<server, features, snap, faults>>

(* The SELECT reads one snapshot of map_features, taken as it begins.      *)
RebuildBegin(p) ==
  /\ pc[p] = "rebuild"
  /\ snap' = [snap EXCEPT ![p] = features]
  /\ Goto(p, "inserting")
  /\ UNCHANGED <<server, tables, owed, faults>>

(* Rows of this INSERT meet committed rows, or rows another INSERT holds.  *)
Collides(p) ==
  \/ clusters \cap snap[p] # {}
  \/ \E q \in Actors \ {p} : pc[q] = "inserting" /\ snap[q] \cap snap[p] # {}

RebuildCommit(p) ==
  /\ pc[p] = "inserting"
  /\ clusters \cap snap[p] = {}
  /\ clusters' = clusters \cup snap[p]
  /\ snap' = [snap EXCEPT ![p] = {}]
  /\ Goto(p, "done")
  /\ UNCHANGED <<server, features, owed, faults>>

(* An INSERT that waits for the rows it meets even if they are committed.  *)
RebuildConflictOnlyRunning(p) ==
  /\ pc[p] = "inserting"
  /\ \E q \in Actors \ {p} : pc[q] = "inserting" /\ snap[q] \cap snap[p] # {}
  /\ snap' = [snap EXCEPT ![p] = {}]
  /\ Goto(p, "failed")
  /\ UNCHANGED <<server, tables, owed, faults>>

(***************************************************************************)
(* UNIQUE (zoom_level, feature_id): an INSERT that meets committed rows    *)
(* fails, and so does the victim when two INSERTs wait for each other's    *)
(* rows.  RefreshClusters returns the error, the mutation returns it too.  *)
(***************************************************************************)
RebuildConflict(p) ==
  /\ pc[p] = "inserting"
  /\ Collides(p)
  /\ snap' = [snap EXCEPT ![p] = {}]
  /\ Goto(p, "failed")
  /\ UNCHANGED <<server, tables, owed, faults>>

----------------------------------------------------------------------------
(* The mutations of the repository.                                        *)

(* A mutation that forgets to refresh the clusters once it has inserted.   *)
InsertPointsWithoutRefresh(w, S) ==
  /\ server = "up"
  /\ pc[w] \in Resting
  /\ S # {}
  /\ features' = features \cup S
  /\ Goto(w, "done")
  /\ UNCHANGED <<server, clusters, snap, owed, faults>>

(***************************************************************************)
(* PopulateRandomPoints and InsertPoints: a non-empty batch of fresh rows  *)
(* is inserted by one statement, then the clusters are refreshed.          *)
(***************************************************************************)
InsertPoints(w, S) ==
  /\ server = "up"
  /\ pc[w] \in Resting
  /\ S # {}
  /\ features' = features \cup S
  /\ Goto(w, "truncate")
  /\ UNCHANGED <<server, clusters, snap, owed, faults>>

(* ClearAllPoints counts the points with a statement of its own first.     *)
ClearCount(w) ==
  /\ server = "up"
  /\ pc[w] \in Resting
  /\ Goto(w, "clear")
  /\ UNCHANGED <<server, tables, snap, owed, faults>>

(* A clear that does not wait for a running INSERT ... SELECT.             *)
ClearTruncateWithoutLock(w) ==
  /\ pc[w] = "clear"
  /\ features' = {}
  /\ clusters' = {}
  /\ owed' = FALSE
  /\ Goto(w, "done")
  /\ UNCHANGED <<server, snap, faults>>

ClearTruncate(w) ==
  /\ pc[w] = "clear"
  /\ TablesUnlocked
  /\ features' = {}
  /\ clusters' = {}
  /\ owed' = FALSE
  /\ Goto(w, "done")
  /\ UNCHANGED <<server, snap, faults>>

----------------------------------------------------------------------------
(* EnsureSchema, before the server listens.                                *)

Start ==
  /\ server = "down"
  /\ server' = "booting"
  /\ Goto(Boot, "count")
  /\ UNCHANGED <<tables, snap, owed, faults>>

(* A boot that takes existing clusters to be good and skips the refresh.   *)
BootCountTrustingClusters ==
  /\ pc[Boot] = "count"
  /\ Goto(Boot, IF features # {} THEN "done" ELSE "seed")
  /\ UNCHANGED <<server, tables, snap, owed, faults>>

(* A boot that refuses a database whose refresh was left half done.        *)
BootCountRefusingBlank ==
  /\ pc[Boot] = "count"
  /\ Goto(Boot, IF features = {} THEN "seed"
                ELSE IF clusters = {} THEN "failed" ELSE "truncate")
  /\ UNCHANGED <<server, tables, snap, owed, faults>>

BootCount ==
  /\ pc[Boot] = "count"
  /\ Goto(Boot, IF features # {} THEN "truncate" ELSE "seed")
  /\ UNCHANGED <<server, tables, snap, owed, faults>>

BootSeed ==
  /\ pc[Boot] = "seed"
  /\ features' = features \cup SeedPoints
  /\ Goto(Boot, "truncate")
  /\ UNCHANGED <<server, clusters, snap, owed, faults>>

(* EnsureSchema has returned nil: main goes on to ListenAndServe.          *)
Serve ==
  /\ server = "booting"
  /\ pc[Boot] = "done"
  /\ server' = "up"
  /\ Goto(Boot, "idle")
  /\ UNCHANGED <<tables, snap, owed, faults>>

----------------------------------------------------------------------------
(* The end of the server.                                                  *)

(* SIGTERM while the server listens: Shutdown accepts no more requests.    *)
Shutdown ==
  /\ server = "up"
  /\ server' = "stopping"
  /\ UNCHANGED <<tables, pc, snap, owed, faults>>

(* A server that is closed without waiting for the requests under way.     *)
CloseAtOnce ==
  /\ server = "stopping"
  /\ server' = "down"
  /\ pc' = [p \in Actors |-> "idle"]
  /\ snap' = [p \in Actors |-> {}]
  /\ UNCHANGED <<tables, owed, faults>>

(* Shutdown returns once every request has been answered; main returns.    *)
ShutdownDone ==
  /\ server = "stopping"
  /\ \A w \in Writers : pc[w] \in Resting
  /\ server' = "down"
  /\ pc' = [p \in Actors |-> "idle"]
  /\ UNCHANGED <<tables, snap, owed, faults>>

----------------------------------------------------------------------------
(* Faults.                                                                 *)

(* A cancelled request that ends in a way nobody accounts for.             *)
AbandonAsCancelled(w) ==
  /\ pc[w] \in Refreshing \cup {"clear"}
  /\ faults < MaxFaults
  /\ faults' = faults + 1
  /\ owed' = (owed \/ pc[w] \in Refreshing)
  /\ snap' = [snap EXCEPT ![w] = {}]
  /\ Goto(w, "cancelled")
  /\ UNCHANGED <<server, tables>>

(***************************************************************************)
(* A statement of a request fails, or is never sent: the request's context *)
(* is cancelled when its client goes away, the connection is lost, the     *)
(* database refuses it.  The statement is rolled back, the request ends    *)
(* with an error, and nothing undoes the statements before it.             *)
(***************************************************************************)
Abandon(w) ==
  /\ pc[w] \in Refreshing \cup {"clear"}
  /\ faults < MaxFaults
  /\ faults' = faults + 1
  /\ owed' = (owed \/ pc[w] \in Refreshing)
  /\ snap' = [snap EXCEPT ![w] = {}]
  /\ Goto(w, "failed")
  /\ UNCHANGED <<server, tables>>

(***************************************************************************)
(* The process ends in the middle of whatever it was doing: it is killed,  *)
(* EnsureSchema returns an error (SIGTERM cancels its context) and main    *)
(* gives up, or Shutdown has waited 15 seconds for a request.              *)
(***************************************************************************)
Crash ==
  /\ server # "down"
  /\ faults < MaxFaults
  /\ faults' = faults + 1
  /\ server' = "down"
  /\ owed' = (owed \/ \E p \in Actors : pc[p] \in Refreshing)
  /\ pc' = [p \in Actors |-> "idle"]
  /\ snap' = [p \in Actors |-> {}]
  /\ UNCHANGED tables

----------------------------------------------------------------------------
RefreshStep(p) ==
  Truncate(p) \/ RebuildBegin(p) \/ RebuildCommit(p) \/ RebuildConflict(p)

WriterStep(w) ==
  \/ \E S \in SUBSET (Points \ features) : InsertPoints(w, S)
  \/ ClearCount(w)
  \/ ClearTruncate(w)
  \/ RefreshStep(w)

BootStep == Start \/ BootCount \/ BootSeed \/ RefreshStep(Boot) \/ Serve

StopStep == Shutdown \/ ShutdownDone

Operate == BootStep \/ StopStep \/ \E w \in Writers : WriterStep(w)

Fault == Crash \/ \E w \in Writers : Abandon(w)

Next == Operate \/ Fault

(***************************************************************************)
(* The server is restarted, and a statement that can run does run.  The    *)
(* lock queue of PostgreSQL is first come first served, so a TRUNCATE is   *)
(* not overtaken for ever by INSERTs: strong fairness.  Nothing makes a    *)
(* client send another request.                                            *)
(***************************************************************************)
Fairness ==
  /\ WF_vars(Start \/ BootCount \/ BootSeed \/ Serve)
  /\ \A p \in Actors :
       /\ SF_vars(Truncate(p))
       /\ WF_vars(RebuildBegin(p))
       /\ WF_vars(RebuildCommit(p) \/ RebuildConflict(p))
  /\ \A w \in Writers : SF_vars(ClearTruncate(w))

Safety == Init /\ [][Next]_vars
Spec   == Safety /\ Fairness

(* The same program when no statement fails and no server crashes.         *)
FaultFreeSpec == Init /\ [][Operate]_vars /\ Fairness

----------------------------------------------------------------------------
(* Safety.                                                                 *)

(***************************************************************************)
(* Every cluster row stands for points that are still in map_features:     *)
(* after ClearAllPoints no refresh that was under way brings back clusters *)
(* of points that are gone.                                                *)
(***************************************************************************)
NoPhantomClusters == clusters \subseteq features

(***************************************************************************)
(* Cluster rows of an older set of points are only ever served while a     *)
(* refresh that has yet to truncate them is queued, or after a refresh was *)
(* abandoned.  A refresh that loses the UNIQUE race is not one of those:   *)
(* whoever won it, or a refresh still queued, covers its points.           *)
(***************************************************************************)
BehindIsQueued ==
  clusters \notin {{}, features} =>
    owed \/ \E p \in Actors : pc[p] = "truncate"

(***************************************************************************)
(* The map is blank while points exist only in the middle of a refresh:    *)
(* between its TRUNCATE and its INSERT, or before the first one.           *)
(***************************************************************************)
BlankIsBrief ==
  clusters = {} /\ features # {} =>
    owed \/ \E p \in Actors : pc[p] \in Refreshing

(***************************************************************************)
(* A running INSERT ... SELECT that read an old snapshot will be truncated *)
(* away: the mutation that made the snapshot old still has its TRUNCATE to *)
(* send, and waits for this INSERT to end.                                 *)
(***************************************************************************)
OldSnapshotIsDoomed ==
  \A p \in Actors :
    pc[p] = "inserting" /\ snap[p] # features
      => owed \/ \E q \in Actors : pc[q] = "truncate"

AtRest == \A p \in Actors : pc[p] \notin Refreshing

(***************************************************************************)
(* README: clusters are precomputed so that viewport requests need no      *)
(* aggregation.  Whatever the interleaving of the mutations, and whichever *)
(* of them failed on the UNIQUE constraint, once no refresh is under way   *)
(* the cluster table is the one computed from the current points, unless a *)
(* refresh was abandoned.                                                  *)
(***************************************************************************)
RefreshedAtRest == AtRest /\ ~owed => clusters = features

(***************************************************************************)
(* main ends only when Shutdown has returned: a server that is stopped in  *)
(* the middle of mutations leaves the clusters of the stored points behind *)
(* it, though some of those mutations lose the UNIQUE race.  A refresh     *)
(* abandoned before the stop, or a wait that is given up, is not its doing. *)
(***************************************************************************)
StopLeavesRefreshed ==
  [][server = "stopping" /\ server' = "down" /\ faults' = faults =>
       owed \/ clusters' = features']_vars

(***************************************************************************)
(* EnsureSchema repairs what a crash or an abandoned refresh left behind:  *)
(* the server never starts to listen on clusters that are not those of the *)
(* stored points.                                                          *)
(***************************************************************************)
ServesRefreshed ==
  [][server = "booting" /\ server' = "up" => clusters' = features']_vars

(***************************************************************************)
(* A mutation that reports success after its refresh leaves no point       *)
(* unclustered, unless the refresh of a later mutation is still queued to  *)
(* do it (or one was abandoned meanwhile).                                 *)
(***************************************************************************)
SuccessIsVisible ==
  [][\A w \in Writers :
       pc[w] = "inserting" /\ pc'[w] = "done" =>
         \/ clusters' = features'
         \/ owed'
         \/ \E q \in Actors : pc'[q] = "truncate"]_vars

----------------------------------------------------------------------------
(* Liveness.                                                               *)

(***************************************************************************)
(* No request waits for ever on the locks of the two tables, whatever the  *)
(* other requests do.                                                      *)
(***************************************************************************)
MutationsFinish ==
  \A w \in Writers : pc[w] \notin Resting ~> pc[w] \in Resting

(***************************************************************************)
(* A server that has gone down comes up again and listens.                 *)
(***************************************************************************)
ServerRecovers == server = "down" ~> server = "up"

----------------------------------------------------------------------------
(* What the documents say and the code does not do.                        *)

(***************************************************************************)
(* README.md:32 says that random-points "inserts 1,000 random points and   *)
(* rebuilds clusters": with nothing going wrong, no mutation fails.        *)
(***************************************************************************)
MutationsSucceed == \A w \in Writers : pc[w] # "failed"

============================================================================
