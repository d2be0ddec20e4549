---------------------------- MODULE ViewportCache ----------------------------
(***************************************************************************)
(* The cache of viewport responses in Redis: ViewportFeatures and          *)
(* invalidateViewportCache of backend/internal/service/map_service.go with *)
(* Get, Set and DeleteByPrefix of backend/internal/cache/redis.go.         *)
(*                                                                         *)
(* A read looks its key up, and on a miss queries the tables and then sets *)
(* the key: three calls with nothing to hold them together.  A mutation    *)
(* changes the tables, then sweeps every key with SCAN and DEL, and only   *)
(* then returns.  Features are represented by the number of changes the    *)
(* tables had seen when they were read: each statement of a mutation that  *)
(* changes what a viewport query returns (the TRUNCATE and the INSERT of a *)
(* refresh) counts as one.                                                 *)
(***************************************************************************)
EXTENDS Naturals

CONSTANTS
  Writers,      \* HTTP requests that change the points
  Readers,      \* HTTP requests and streams that call ViewportFeatures
  Keys,         \* cache keys: a rounded bounding box, a zoom and a mode
  Nothing,      \* what Get finds under a key that is not set; no key
  MaxVersion,   \* how many changes are made (a bound)
  MaxFaults     \* how many calls to Redis or PostgreSQL fail (a bound)

ASSUME NothingAssumption == Nothing \notin Nat \cup Keys
ASSUME BoundsAssumption  == MaxVersion \in Nat /\ MaxFaults \in Nat

VARIABLES
  version,    \* how many changes the tables have seen
  wphase,     \* where each mutation is
  mine,       \* the version of a writer's last change
  todo,       \* the keys that a writer's SCAN is still bound to return
  completed,  \* the latest change of a mutation that has returned
  entry,      \* the version of the features under each key, or Nothing
  late,       \* history: keys that no sweep will reach though they are old
  rphase,     \* where each call of ViewportFeatures is
  key,        \* its key, or Nothing
  result,     \* the version of the features it has
  trusted,    \* history: they did not come from a late key
  floor,      \* history: `completed` when the call began
  faults      \* how many calls have failed

writers == <<wphase, mine, todo, completed>>
redis   == <<entry, late>>
readers == <<rphase, key, result, trusted, floor>>
vars    == <<version, writers, redis, readers, faults>>

TypeOK ==
  /\ version \in 0 .. MaxVersion
  /\ wphase \in [Writers -> {"idle", "changed", "sweeping", "swept"}]
  /\ mine \in [Writers -> 0 .. version]
  /\ todo \in [Writers -> SUBSET Keys]
  /\ completed \in 0 .. version
  /\ entry \in [Keys -> Nat \cup {Nothing}]
  /\ late \in SUBSET Keys
  /\ rphase \in [Readers -> {"idle", "get", "query", "set", "return"}]
  /\ key \in [Readers -> Keys \cup {Nothing}]
  /\ \A r \in Readers : rphase[r] # "idle" => key[r] \in Keys
  /\ result \in [Readers -> 0 .. version]
  /\ trusted \in [Readers -> BOOLEAN]
  /\ floor \in [Readers -> 0 .. version]
  /\ faults \in 0 .. MaxFaults

Init ==
  /\ version = 0
  /\ wphase = [w \in Writers |-> "idle"]
  /\ mine = [w \in Writers |-> 0]
  /\ todo = [w \in Writers |-> {}]
  /\ completed = 0
  /\ entry = [k \in Keys |-> Nothing]
  /\ late = {}
  /\ rphase = [r \in Readers |-> "idle"]
  /\ key = [r \in Readers |-> Nothing]
  /\ result = [r \in Readers |-> 0]
  /\ trusted = [r \in Readers |-> TRUE]
  /\ floor = [r \in Readers |-> 0]
  /\ faults = 0

Present == {k \in Keys : entry[k] # Nothing}

Fault == faults < MaxFaults /\ faults' = faults + 1

----------------------------------------------------------------------------
(* Mutations.                                                              *)

(* A statement that is rolled back, and its error overlooked.              *)
ChangeUncommitted(w) ==
  /\ wphase[w] \in {"idle", "changed"}
  /\ version < MaxVersion
  /\ mine' = [mine EXCEPT ![w] = version + 1]
  /\ wphase' = [wphase EXCEPT ![w] = "changed"]
  /\ UNCHANGED <<version, todo, completed, redis, readers, faults>>

(* One statement of a mutation; a refresh is two of them.                  *)
Change(w) ==
  /\ wphase[w] \in {"idle", "changed"}
  /\ version < MaxVersion
  /\ version' = version + 1
  /\ mine' = [mine EXCEPT ![w] = version + 1]
  /\ wphase' = [wphase EXCEPT ![w] = "changed"]
  /\ UNCHANGED <<todo, completed, redis, readers, faults>>

(* An invalidation that sweeps only the keys of one viewport.              *)
SweepBeginOneKey(w) ==
  /\ wphase[w] = "changed"
  /\ wphase' = [wphase EXCEPT ![w] = "sweeping"]
  /\ \E K \in SUBSET Present :
       /\ \A k, l \in K : k = l
       /\ todo' = [todo EXCEPT ![w] = K]
  /\ UNCHANGED <<version, mine, completed, redis, readers, faults>>

(***************************************************************************)
(* DeleteByPrefix: a SCAN returns every key that is there from its start   *)
(* to its end; one that is set meanwhile it may return or miss.            *)
(***************************************************************************)
SweepBegin(w) ==
  /\ wphase[w] = "changed"
  /\ wphase' = [wphase EXCEPT ![w] = "sweeping"]
  /\ todo' = [todo EXCEPT ![w] = Present]
  /\ UNCHANGED <<version, mine, completed, redis, readers, faults>>

(* A key is gone: no SCAN under way is bound to return it any more.        *)
Remove(k) ==
  /\ entry' = [entry EXCEPT ![k] = Nothing]
  /\ late' = late \ {k}
  /\ todo' = [v \in Writers |-> todo[v] \ {k}]

(* DEL of a key that the SCAN has returned.                                *)
Sweep(w, k) ==
  /\ wphase[w] = "sweeping"
  /\ k \in Present
  /\ Remove(k)
  /\ UNCHANGED <<version, wphase, mine, completed, readers, faults>>

(* The cursor has come back to 0.                                          *)
SweepEnd(w) ==
  /\ wphase[w] = "sweeping"
  /\ todo[w] = {}
  /\ wphase' = [wphase EXCEPT ![w] = "swept"]
  /\ UNCHANGED <<version, mine, todo, completed, redis, readers, faults>>

(* SCAN or DEL fails: it is logged, and the keys that are left stay.       *)
SweepFails(w) ==
  /\ wphase[w] \in {"changed", "sweeping"}
  /\ Fault
  /\ late' = late \cup (IF wphase[w] = "changed" THEN Present ELSE todo[w])
  /\ todo' = [todo EXCEPT ![w] = {}]
  /\ wphase' = [wphase EXCEPT ![w] = "swept"]
  /\ UNCHANGED <<version, mine, completed, entry, readers>>

(* A mutation that returns while its invalidation runs in the background.  *)
FinishUnswept(w) ==
  /\ wphase[w] = "changed"
  /\ wphase' = [wphase EXCEPT ![w] = "idle"]
  /\ completed' = IF mine[w] > completed THEN mine[w] ELSE completed
  /\ UNCHANGED <<version, mine, todo, redis, readers, faults>>

(* notifyDataChanged, and the mutation returns.                            *)
Finish(w) ==
  /\ wphase[w] = "swept"
  /\ wphase' = [wphase EXCEPT ![w] = "idle"]
  /\ completed' = IF mine[w] > completed THEN mine[w] ELSE completed
  /\ UNCHANGED <<version, mine, todo, redis, readers, faults>>

(***************************************************************************)
(* The repository returns an error when some of its statements have run    *)
(* already: the mutation returns it without any invalidation.              *)
(***************************************************************************)
FailMutation(w) ==
  /\ wphase[w] = "changed"
  /\ Fault
  /\ late' = late \cup Present
  /\ wphase' = [wphase EXCEPT ![w] = "idle"]
  /\ UNCHANGED <<version, mine, todo, completed, entry, readers>>

----------------------------------------------------------------------------
(* ViewportFeatures.                                                       *)

Request(r, k) ==
  /\ rphase[r] = "idle"
  /\ rphase' = [rphase EXCEPT ![r] = "get"]
  /\ key' = [key EXCEPT ![r] = k]
  /\ floor' = [floor EXCEPT ![r] = completed]
  /\ UNCHANGED <<version, writers, redis, result, trusted, faults>>

Hit(r) ==
  /\ rphase[r] = "get"
  /\ entry[key[r]] # Nothing
  /\ result' = [result EXCEPT ![r] = entry[key[r]]]
  /\ trusted' = [trusted EXCEPT ![r] = key[r] \notin late]
  /\ rphase' = [rphase EXCEPT ![r] = "return"]
  /\ UNCHANGED <<version, writers, redis, key, floor, faults>>

Miss(r) ==
  /\ rphase[r] = "get"
  /\ entry[key[r]] = Nothing
  /\ rphase' = [rphase EXCEPT ![r] = "query"]
  /\ UNCHANGED <<version, writers, redis, key, result, trusted, floor, faults>>

(* An error of Get is treated as a miss.                                   *)
GetFails(r) ==
  /\ rphase[r] = "get"
  /\ Fault
  /\ rphase' = [rphase EXCEPT ![r] = "query"]
  /\ UNCHANGED <<version, writers, redis, key, result, trusted, floor>>

(* ListViewportFeatures reads one snapshot of map_feature_clusters.        *)
Query(r) ==
  /\ rphase[r] = "query"
  /\ result' = [result EXCEPT ![r] = version]
  /\ trusted' = [trusted EXCEPT ![r] = TRUE]
  /\ rphase' = [rphase EXCEPT ![r] = "set"]
  /\ UNCHANGED <<version, writers, redis, key, floor, faults>>

(* The call is over, and its local variables with it.                      *)
Leave(r) ==
  /\ rphase' = [rphase EXCEPT ![r] = "idle"]
  /\ key' = [key EXCEPT ![r] = Nothing]
  /\ result' = [result EXCEPT ![r] = 0]
  /\ trusted' = [trusted EXCEPT ![r] = TRUE]
  /\ floor' = [floor EXCEPT ![r] = 0]

(* An error of the query is returned to the caller.                        *)
QueryFails(r) ==
  /\ rphase[r] = "query"
  /\ Fault
  /\ Leave(r)
  /\ UNCHANGED <<version, writers, redis>>

(***************************************************************************)
(* A fill comes late when a change that it has missed was made by a        *)
(* mutation that has returned, or whose sweep has begun and does not have  *)
(* to return this key.                                                     *)
(***************************************************************************)
IsLate(r) ==
  \/ result[r] < completed
  \/ \E w \in Writers :
       /\ mine[w] > result[r]
       /\ wphase[w] # "changed"
       /\ key[r] \notin todo[w]

Set(r) ==
  /\ rphase[r] = "set"
  /\ entry' = [entry EXCEPT ![key[r]] = result[r]]
  /\ late' = IF IsLate(r) THEN late \cup {key[r]} ELSE late \ {key[r]}
  /\ rphase' = [rphase EXCEPT ![r] = "return"]
  /\ UNCHANGED <<version, writers, key, result, trusted, floor, faults>>

(* An error of Set is logged.                                              *)
SetFails(r) ==
  /\ rphase[r] = "set"
  /\ Fault
  /\ rphase' = [rphase EXCEPT ![r] = "return"]
  /\ UNCHANGED <<version, writers, redis, key, result, trusted, floor>>

Return(r) ==
  /\ rphase[r] = "return"
  /\ Leave(r)
  /\ UNCHANGED <<version, writers, redis, faults>>

(* The time to live of a key, CACHE_TTL, has passed.                       *)
Expire(k) ==
  /\ k \in Present
  /\ Remove(k)
  /\ UNCHANGED <<version, wphase, mine, completed, readers, faults>>

----------------------------------------------------------------------------
Invalidation(w) ==
  \/ SweepBegin(w)
  \/ \E k \in Keys : Sweep(w, k)
  \/ SweepEnd(w)
  \/ SweepFails(w)

Call(r) ==
  Hit(r) \/ Miss(r) \/ GetFails(r) \/ Query(r) \/ Set(r) \/ SetFails(r)

Next ==
  \/ \E w \in Writers :
       Change(w) \/ Invalidation(w) \/ Finish(w) \/ FailMutation(w)
  \/ \E r \in Readers :
       \/ \E k \in Keys : Request(r, k)
       \/ Call(r)
       \/ QueryFails(r)
       \/ Return(r)
  \/ \E k \in Keys : Expire(k)

Spec == Init /\ [][Next]_vars

----------------------------------------------------------------------------
(***************************************************************************)
(* An entry that misses a change is one that the mutation that made the    *)
(* change has yet to sweep, unless it was written by a fill that came late *)
(* or left by a mutation or a sweep that failed.  Each mutation answers    *)
(* for its own changes, however many sweep at once.                        *)
(***************************************************************************)
StaleIsPending ==
  \A k \in Present \ late, w \in Writers :
    entry[k] < mine[w] => wphase[w] = "changed" \/ k \in todo[w]

(***************************************************************************)
(* A viewport request that begins when a mutation has returned shows what  *)
(* the mutation did, unless it hits such a late entry.                     *)
(***************************************************************************)
ReadAfterWrite ==
  \A r \in Readers :
    rphase[r] \in {"set", "return"} /\ trusted[r] => result[r] >= floor[r]
============================================================================
