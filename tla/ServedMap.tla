------------------------------ MODULE ServedMap ------------------------------
(***************************************************************************)
(* The REST API from the request to the tables and the cache: the handlers *)
(* of backend/internal/httpapi/handler.go and the mutations of             *)
(* backend/internal/service/map_service.go over ClusterTables and          *)
(* ViewportCache, with a Redis that outlives the server.                   *)
(*                                                                         *)
(* ViewportCache knows features by the number of changes of the tables;    *)
(* `contents` says which points the clusters stood for after each change,  *)
(* so that what a viewport request is answered can be compared with what   *)
(* is stored.  A change of the tables is a change of the cache's version   *)
(* in the same step; the sweep follows a mutation that succeeded.          *)
(***************************************************************************)
EXTENDS ClusterTables, FiniteSets, Sequences

CONSTANTS
  Readers,       \* requests for GET /api/v1/features
  Keys,          \* cache keys
  Nothing,       \* a key that is not set, a count that is not given
  MaxVersion,    \* how many changes are made (a bound)
  DefaultCount,  \* how many random points a request that names no count adds
  EmbeddedCount, \* how many points mcdonalds_points.json has
  Posts          \* the requests that clients send, of the set Requests

ASSUME ChangesAssumption == MaxVersion \in Nat

VARIABLES
  version, wphase, mine, todo, completed, entry, late, rphase, key, result,
  trusted, floor,
  contents    \* history: the points that the clusters of each version show

Cache == INSTANCE ViewportCache

cacheWrites ==
  <<version, wphase, mine, todo, completed, entry, late, contents>>
cacheReads  == <<rphase, key, result, trusted, floor>>
servedVars  == <<vars, cacheWrites, cacheReads>>

(***************************************************************************)
(* A request to a mutating endpoint.  Its body is JSON, no JSON or empty;  *)
(* a bbox is known by how many numbers it has, an item of a batch by what  *)
(* is wrong with it.                                                       *)
(***************************************************************************)
Requests ==
  [path : {"random-points", "mcdonalds", "bulk-items", "clear-points"},
   method : {"POST", "GET"}, body : {"json", "broken", "empty"},
   count : Nat \cup {Nothing}, bbox : Nat,
   items : Seq({"valid", "nameless", "off the map"})]

ServedTypeOK ==
  /\ TypeOK
  /\ Cache!TypeOK
  /\ contents \in [0 .. MaxVersion -> SUBSET Points]

ServedInit ==
  /\ Init
  /\ Cache!Init
  /\ contents = [v \in 0 .. MaxVersion |-> {}]

----------------------------------------------------------------------------
(* What the handlers make of a request.                                    *)

Count(request) ==
  IF request.count = Nothing THEN DefaultCount ELSE request.count

(* populateRandomPoints: an empty body asks for the defaults.              *)
RandomIsValid(request) ==
  \/ request.body = "empty"
  \/ request.body = "json" /\ Count(request) > 0 /\ request.bbox \in {0, 4}

(* normalizePoints: one bad item refuses the whole batch.                  *)
BatchIsValid(request) ==
  /\ request.body = "json"
  /\ request.items # << >>
  /\ \A i \in DOMAIN request.items : request.items[i] = "valid"

(* The others are answered 405 or 400 and change nothing.                  *)
IsAccepted(request) ==
  /\ request.method = "POST"
  /\ request.path = "random-points" => RandomIsValid(request)
  /\ request.path = "bulk-items" => BatchIsValid(request)

(* How many points a request that inserts points adds.                     *)
BatchSize(request) ==
  CASE request.path = "random-points" ->
         IF request.body = "empty" THEN DefaultCount ELSE Count(request)
    [] request.path = "mcdonalds" -> EmbeddedCount
    [] request.path = "bulk-items" -> Len(request.items)

----------------------------------------------------------------------------
(* Mutations.                                                              *)

Idle(w) == pc[w] \in Resting /\ wphase[w] = "idle"

Accept(w, request) ==
  /\ Idle(w)
  /\ IsAccepted(request)
  /\ IF request.path = "clear-points" THEN ClearCount(w)
     ELSE \E S \in SUBSET (Points \ features) :
            Cardinality(S) = BatchSize(request) /\ InsertPoints(w, S)
  /\ UNCHANGED <<cacheWrites, cacheReads>>

(* A statement that changes the clusters, seen as a change by the cache.   *)
Rewrite(w) ==
  /\ Truncate(w) \/ RebuildCommit(w) \/ ClearTruncate(w)
  /\ Cache!Change(w)
  /\ contents' = [contents EXCEPT ![version + 1] = clusters']
  /\ UNCHANGED cacheReads

BeginRebuild(w) ==
  RebuildBegin(w) /\ UNCHANGED <<cacheWrites, cacheReads>>

(* A winner of the UNIQUE race that leaves the sweep to the loser.         *)
InvalidateUnlessRacing(w) ==
  /\ pc[w] = "done"
  /\ IF \E q \in Writers \ {w} : pc[q] = "inserting"
     THEN /\ wphase[w] = "changed"
          /\ wphase' = [wphase EXCEPT ![w] = "swept"]
          /\ UNCHANGED <<version, mine, todo, completed, entry, late,
                         cacheReads, faults>>
     ELSE Cache!Invalidation(w)
  /\ UNCHANGED <<server, tables, pc, snap, owed, contents>>

(* invalidateViewportCache, when the repository has returned no error.     *)
Invalidate(w) ==
  /\ pc[w] = "done"
  /\ Cache!Invalidation(w)
  /\ UNCHANGED <<server, tables, pc, snap, owed, contents>>

Succeed(w) ==
  /\ Cache!Finish(w)
  /\ UNCHANGED <<vars, contents>>

(* The UNIQUE race is lost: the error is returned and nothing is swept.    *)
LoseRace(w) ==
  /\ RebuildConflict(w)
  /\ wphase' = [wphase EXCEPT ![w] = "idle"]
  /\ UNCHANGED <<version, mine, todo, completed, entry, late, contents,
                 cacheReads>>

(* A statement fails, or is cancelled with its request.                    *)
GiveUp(w) ==
  /\ Abandon(w)
  /\ IF wphase[w] = "changed" THEN Cache!FailMutation(w)
     ELSE UNCHANGED <<version, wphase, mine, todo, completed, entry, late,
                      cacheReads>>
  /\ UNCHANGED contents

----------------------------------------------------------------------------
(* GET /api/v1/features.                                                   *)

(* A zoom or a bbox that cannot be parsed is answered 400 and reads        *)
(* nothing; ViewportFeatures is called with the others.                    *)
Get(r, k) ==
  /\ server = "up"
  /\ Cache!Request(r, k)
  /\ UNCHANGED <<vars, contents>>

Read(r) ==
  /\ Cache!Call(r) \/ Cache!QueryFails(r) \/ Cache!Return(r)
  /\ UNCHANGED <<server, tables, pc, snap, owed, contents>>

Expire(k) == Cache!Expire(k) /\ UNCHANGED <<vars, contents>>

----------------------------------------------------------------------------
(* The server.  Nobody reads while it boots, so a boot is one change.      *)

ServedBoot ==
  /\ Start \/ BootCount \/ RebuildBegin(Boot) \/ Serve
  /\ UNCHANGED <<cacheWrites, cacheReads>>

(***************************************************************************)
(* A seed, and the refresh that makes up for an abandoned one, change the   *)
(* map under the entries that a former process has left.                   *)
(***************************************************************************)
Repair ==
  /\ BootSeed \/ Truncate(Boot)
  /\ late' = IF owed \/ pc[Boot] = "seed" THEN late \cup Cache!Present
             ELSE late
  /\ UNCHANGED <<version, wphase, mine, todo, completed, entry, contents,
                 cacheReads>>

BootRebuilds ==
  /\ RebuildCommit(Boot)
  /\ version < MaxVersion
  /\ version' = version + 1
  /\ contents' = [contents EXCEPT ![version + 1] = clusters']
  /\ UNCHANGED <<wphase, mine, todo, completed, entry, late, cacheReads>>

(* Shutdown waits for the requests of both kinds.                          *)
ServedStop ==
  /\ \/ Shutdown
     \/ /\ ShutdownDone
        /\ \A w \in Writers : wphase[w] = "idle"
        /\ \A r \in Readers : rphase[r] = "idle"
  /\ UNCHANGED <<cacheWrites, cacheReads>>

(* What a mutation that dies was still to sweep is never swept.            *)
Unswept(w) ==
  IF wphase[w] = "changed" THEN Cache!Present ELSE todo[w]

(* A crash whose calls go on without their local variables.                *)
DropLocals ==
  /\ key' = [r \in Readers |-> Nothing]
  /\ result' = [r \in Readers |-> 0]
  /\ trusted' = [r \in Readers |-> TRUE]
  /\ floor' = [r \in Readers |-> 0]
  /\ UNCHANGED rphase

(* The calls of ViewportFeatures end with the process.                     *)
DropReads ==
  /\ rphase' = [r \in Readers |-> "idle"]
  /\ key' = [r \in Readers |-> Nothing]
  /\ result' = [r \in Readers |-> 0]
  /\ trusted' = [r \in Readers |-> TRUE]
  /\ floor' = [r \in Readers |-> 0]

(* The requests go with the process, what it left in Redis stays.          *)
ServedCrash ==
  /\ Crash
  /\ late' = late \cup UNION {Unswept(w) : w \in Writers}
  /\ wphase' = [w \in Writers |-> "idle"]
  /\ todo' = [w \in Writers |-> {}]
  /\ DropReads
  /\ UNCHANGED <<version, mine, completed, entry, contents>>

----------------------------------------------------------------------------
ServedNext ==
  \/ \E w \in Writers :
       \/ \E request \in Posts : Accept(w, request)
       \/ Rewrite(w) \/ BeginRebuild(w) \/ Invalidate(w) \/ Succeed(w)
       \/ LoseRace(w) \/ GiveUp(w)
  \/ \E r \in Readers : (\E k \in Keys : Get(r, k)) \/ Read(r)
  \/ \E k \in Keys : Expire(k)
  \/ ServedBoot \/ Repair \/ BootRebuilds
  \/ ServedStop \/ ServedCrash

ServedSpec == ServedInit /\ [][ServedNext]_servedVars

----------------------------------------------------------------------------
(* What a request for a key is answered now.                               *)
Shown(k) == IF entry[k] = Nothing THEN clusters ELSE contents[entry[k]]

Quiet == server = "up" /\ \A w \in Writers : Idle(w)

(***************************************************************************)
(* When no mutation is under way, every viewport request is answered with  *)
(* the stored points, whether the cache or the tables answer it.  Neither  *)
(* a mutation that lost the UNIQUE race and swept nothing, nor a server    *)
(* that was stopped, crashed and started again over a cache that nobody    *)
(* flushed, leaves the map blank or old; only a refresh that was abandoned *)
(* does, or a late key: a fill that came late, a mutation, sweep or server *)
(* that failed half way, or a boot that seeded or repaired the tables.     *)
(***************************************************************************)
ShownIsStored == Quiet /\ ~owed => \A k \in Keys \ late : Shown(k) = features
=============================================================================
