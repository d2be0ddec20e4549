------------------------- MODULE ViewportCache_proofs -------------------------
(***************************************************************************)
(* Proofs about ViewportCache, for any number of mutations, reads, keys,   *)
(* changes and faults.                                                     *)
(***************************************************************************)
EXTENDS ViewportCache, TLAPS

(* Only a sweep that is under way has keys left to do.                     *)
TodoWhileSweeping ==
  \A w \in Writers : wphase[w] # "sweeping" => todo[w] = {}

(* The current version is some writer's.                                   *)
VersionIsMine == version = 0 \/ \E w \in Writers : mine[w] = version

(* What is cached was committed, and no mutation has returned that it has  *)
(* missed, but for the late keys.                                          *)
EntriesInRange ==
  /\ \A k \in Present : entry[k] <= version
  /\ \A k \in Present \ late : entry[k] >= completed

(* A call began at a time when what had been completed still is.           *)
FloorIsCompleted == \A r \in Readers : floor[r] <= completed

(* The inductive invariant.                                                *)
IInv ==
  /\ TypeOK
  /\ TodoWhileSweeping
  /\ VersionIsMine
  /\ EntriesInRange
  /\ FloorIsCompleted
  /\ StaleIsPending
  /\ ReadAfterWrite

----------------------------------------------------------------------------
(* An empty cache and no request satisfy the invariant.                    *)
LEMMA InitIInv == Init => IInv
<1> SUFFICES ASSUME Init PROVE IInv
  OBVIOUS
<1>1. TypeOK
  <2>1. /\ todo \in [Writers -> SUBSET Keys]
        /\ wphase \in [Writers -> {"idle", "changed", "sweeping", "swept"}]
        /\ mine \in [Writers -> 0 .. version]
    BY DEF Init
  <2>2. /\ entry \in [Keys -> Nat \cup {Nothing}]
        /\ rphase \in [Readers -> {"idle", "get", "query", "set", "return"}]
    BY DEF Init
  <2>3. /\ result \in [Readers -> 0 .. version]
        /\ floor \in [Readers -> 0 .. version]
        /\ trusted \in [Readers -> BOOLEAN]
    BY DEF Init
  <2>4. version \in 0 .. MaxVersion /\ completed \in 0 .. version
        /\ faults \in 0 .. MaxFaults /\ late \in SUBSET Keys
    BY BoundsAssumption DEF Init
  <2>5. QED
    BY <2>1, <2>2, <2>3, <2>4 DEF Init, TypeOK
<1>2. Present = {}
  BY DEF Init, Present
<1>3. TodoWhileSweeping /\ VersionIsMine /\ FloorIsCompleted /\ ReadAfterWrite
  BY DEF Init, TodoWhileSweeping, VersionIsMine, FloorIsCompleted,
         ReadAfterWrite
<1>4. EntriesInRange /\ StaleIsPending
  BY <1>2 DEF EntriesInRange, StaleIsPending
<1>5. QED
  BY <1>1, <1>3, <1>4 DEF IInv

(* A change of the tables.                                                 *)
LEMMA ChangeStep ==
  ASSUME IInv, NEW w \in Writers, Change(w)
  PROVE  IInv'
<1> USE DEF writers, redis, readers
<1>1. /\ version \in 0 .. MaxVersion /\ version' = version + 1
      /\ version' \in 0 .. MaxVersion
      /\ mine' = [mine EXCEPT ![w] = version + 1]
      /\ wphase' = [wphase EXCEPT ![w] = "changed"]
      /\ UNCHANGED <<todo, completed, redis, readers, faults>>
  BY BoundsAssumption DEF Change, IInv, TypeOK
<1>2. TypeOK'
  <2>1. mine' \in [Writers -> 0 .. version']
    BY <1>1 DEF IInv, TypeOK
  <2>2. /\ result' \in [Readers -> 0 .. version']
        /\ floor' \in [Readers -> 0 .. version']
    BY <1>1 DEF IInv, TypeOK
  <2>3. QED
    BY <1>1, <2>1, <2>2 DEF IInv, TypeOK
<1>3. TodoWhileSweeping'
  BY <1>1 DEF Change, IInv, TypeOK, TodoWhileSweeping
<1>4. VersionIsMine'
  BY <1>1 DEF IInv, TypeOK, VersionIsMine
<1>5. EntriesInRange' /\ FloorIsCompleted' /\ ReadAfterWrite'
  BY <1>1 DEF IInv, TypeOK, EntriesInRange, FloorIsCompleted, ReadAfterWrite,
              Present
<1>6. StaleIsPending'
  BY <1>1 DEF IInv, TypeOK, StaleIsPending, Present
<1>7. QED
  BY <1>2, <1>3, <1>4, <1>5, <1>6 DEF IInv

(* A key that goes away takes its obligations along.                       *)
LEMMA RemoveStep ==
  ASSUME IInv, NEW k \in Keys, k \in Present, Remove(k),
         UNCHANGED <<version, wphase, mine, completed, readers, faults>>
  PROVE  IInv'
<1> USE DEF readers
<1>1. Present' = Present \ {k}
  BY DEF Remove, Present, IInv, TypeOK
<1>2. \A l \in Present' :
        entry'[l] = entry[l] /\ (l \notin late' => l \notin late)
  BY <1>1 DEF Remove, Present, IInv, TypeOK
<1>3. \A w \in Writers : todo'[w] = todo[w] \ {k}
  BY DEF Remove
<1>4. TypeOK'
  <2>1. entry' \in [Keys -> Nat \cup {Nothing}] /\ late' \in SUBSET Keys
    BY DEF Remove, IInv, TypeOK
  <2>2. todo' \in [Writers -> SUBSET Keys]
    BY DEF Remove, IInv, TypeOK
  <2>3. QED
    BY <2>1, <2>2 DEF IInv, TypeOK
<1>5. TodoWhileSweeping'
  BY <1>3 DEF IInv, TodoWhileSweeping
<1>6. VersionIsMine' /\ FloorIsCompleted' /\ ReadAfterWrite'
  BY DEF IInv, VersionIsMine, FloorIsCompleted, ReadAfterWrite
<1>7. EntriesInRange'
  BY <1>1, <1>2 DEF IInv, EntriesInRange
<1>8. StaleIsPending'
  BY <1>1, <1>2, <1>3 DEF IInv, StaleIsPending
<1>9. QED
  BY <1>4, <1>5, <1>6, <1>7, <1>8 DEF IInv

(* The rest of a mutation.                                                 *)
LEMMA WriterStep ==
  ASSUME IInv, NEW w \in Writers,
         Invalidation(w) \/ Finish(w) \/ FailMutation(w)
  PROVE  IInv'
<1> USE DEF writers, redis, readers, IInv, TypeOK
<1>1. CASE SweepBegin(w)
  <2>1. TypeOK' /\ TodoWhileSweeping' /\ VersionIsMine' /\ FloorIsCompleted'
        /\ ReadAfterWrite' /\ EntriesInRange'
    BY <1>1 DEF SweepBegin, TodoWhileSweeping, VersionIsMine, FloorIsCompleted,
                ReadAfterWrite, EntriesInRange, Present
  <2>2. StaleIsPending'
    BY <1>1 DEF SweepBegin, StaleIsPending, Present
  <2>3. QED
    BY <2>1, <2>2
<1>2. ASSUME NEW k \in Keys, Sweep(w, k) PROVE IInv'
  BY <1>2, RemoveStep DEF Sweep
<1>3. CASE SweepEnd(w)
  <2>1. TypeOK' /\ TodoWhileSweeping' /\ VersionIsMine' /\ FloorIsCompleted'
        /\ ReadAfterWrite' /\ EntriesInRange'
    BY <1>3 DEF SweepEnd, TodoWhileSweeping, VersionIsMine, FloorIsCompleted,
                ReadAfterWrite, EntriesInRange, Present
  <2>2. StaleIsPending'
    BY <1>3 DEF SweepEnd, StaleIsPending, Present
  <2>3. QED
    BY <2>1, <2>2
<1>4. CASE SweepFails(w)
  <2>1. /\ Present' = Present
        /\ \A l \in Present' \ late' :
             l \in Present \ late /\ wphase[w] = "sweeping" /\ l \notin todo[w]
    BY <1>4 DEF SweepFails, Present
  <2>2. faults' \in 0 .. MaxFaults
    BY <1>4, BoundsAssumption DEF SweepFails, Fault
  <2>3. TypeOK'
    BY <1>4, <2>2 DEF SweepFails, Present
  <2>4. TodoWhileSweeping' /\ VersionIsMine' /\ FloorIsCompleted'
        /\ ReadAfterWrite'
    BY <1>4 DEF SweepFails, TodoWhileSweeping, VersionIsMine, FloorIsCompleted,
                ReadAfterWrite
  <2>5. EntriesInRange'
    BY <1>4, <2>1 DEF SweepFails, EntriesInRange
  <2>6. StaleIsPending'
    BY <1>4, <2>1 DEF SweepFails, StaleIsPending
  <2>7. QED
    BY <2>3, <2>4, <2>5, <2>6
<1>5. CASE Finish(w)
  <2>1. \A k \in Present \ late : entry[k] >= mine[w]
    BY <1>5 DEF Finish, TodoWhileSweeping, StaleIsPending, Present
  <2>2. /\ completed' \in 0 .. version /\ completed <= completed'
        /\ completed' \in {completed, mine[w]}
    BY <1>5 DEF Finish
  <2>3. TypeOK' /\ TodoWhileSweeping' /\ VersionIsMine'
    BY <1>5, <2>2 DEF Finish, TodoWhileSweeping, VersionIsMine
  <2>4. FloorIsCompleted' /\ ReadAfterWrite'
    BY <1>5, <2>2 DEF Finish, FloorIsCompleted, ReadAfterWrite
  <2>5. EntriesInRange'
    BY <1>5, <2>1, <2>2 DEF Finish, EntriesInRange, Present
  <2>6. StaleIsPending'
    BY <1>5 DEF Finish, StaleIsPending, Present
  <2>7. QED
    BY <2>3, <2>4, <2>5, <2>6
<1>6. CASE FailMutation(w)
  <2>1. Present' \ late' = {} /\ Present' = Present
    BY <1>6 DEF FailMutation, Present
  <2>2. faults' \in 0 .. MaxFaults
    BY <1>6, BoundsAssumption DEF FailMutation, Fault
  <2>3. TypeOK' /\ TodoWhileSweeping' /\ VersionIsMine' /\ FloorIsCompleted'
        /\ ReadAfterWrite'
    BY <1>6, <2>2 DEF FailMutation, Present, TodoWhileSweeping, VersionIsMine,
                      FloorIsCompleted, ReadAfterWrite
  <2>4. EntriesInRange' /\ StaleIsPending'
    BY <1>6, <2>1 DEF FailMutation, EntriesInRange, StaleIsPending
  <2>5. QED
    BY <2>3, <2>4
<1>7. QED
  BY <1>1, <1>2, <1>3, <1>4, <1>5, <1>6 DEF Invalidation

(* A call of ViewportFeatures: all but its Set leave the cache alone.      *)
LEMMA ReaderStep ==
  ASSUME IInv, NEW r \in Readers,
         \/ \E k \in Keys : Request(r, k)
         \/ Hit(r) \/ Miss(r) \/ GetFails(r) \/ Query(r) \/ SetFails(r)
         \/ QueryFails(r) \/ Return(r)
  PROVE  IInv'
<1> USE DEF writers, redis, readers
<1>1. UNCHANGED <<version, writers, redis>>
  BY DEF Request, Hit, Miss, GetFails, Query, SetFails, QueryFails, Return
<1>2. TodoWhileSweeping' /\ VersionIsMine' /\ EntriesInRange' /\ StaleIsPending'
  BY <1>1 DEF IInv, TodoWhileSweeping, VersionIsMine, EntriesInRange,
              StaleIsPending, Present
<1>3. faults' \in 0 .. MaxFaults
  BY BoundsAssumption
     DEF IInv, TypeOK, Fault, Request, Hit, Miss, GetFails, Query, SetFails,
         QueryFails, Return
<1> DEFINE Calls == TypeOK /\ FloorIsCompleted /\ ReadAfterWrite
<1> USE DEF IInv, TypeOK, FloorIsCompleted, ReadAfterWrite
<1>4. ASSUME NEW k \in Keys, Request(r, k) PROVE Calls'
  BY <1>4 DEF Request
<1>5. ASSUME Hit(r) PROVE Calls'
  <2>1. /\ entry[key[r]] \in 0 .. version
        /\ key[r] \notin late => entry[key[r]] >= floor[r]
    BY <1>5 DEF Hit, EntriesInRange, Present
  <2>2. QED
    BY <1>5, <2>1 DEF Hit
<1>6. ASSUME Miss(r) \/ GetFails(r) PROVE Calls'
  BY <1>1, <1>3, <1>6 DEF Miss, GetFails
<1>7. ASSUME Query(r) PROVE Calls'
  BY <1>7 DEF Query
<1>8. ASSUME SetFails(r) PROVE Calls'
  BY <1>1, <1>3, <1>8 DEF SetFails
<1>9. ASSUME QueryFails(r) \/ Return(r) PROVE Calls'
  <2>1. /\ rphase' = [rphase EXCEPT ![r] = "idle"]
        /\ result' = [result EXCEPT ![r] = 0]
        /\ trusted' = [trusted EXCEPT ![r] = TRUE]
        /\ floor' = [floor EXCEPT ![r] = 0]
        /\ key' = [key EXCEPT ![r] = Nothing]
    BY <1>9 DEF QueryFails, Return, Leave
  <2>2. TypeOK'
    BY <1>1, <1>3, <2>1
  <2>3. FloorIsCompleted' /\ ReadAfterWrite'
    BY <1>1, <2>1
  <2>4. QED
    BY <2>2, <2>3
<1>10. Calls'
  BY <1>4, <1>5, <1>6, <1>7, <1>8, <1>9
<1>11. QED
  BY <1>2, <1>10

(* A fill that is not late has missed nothing that is not still to sweep.  *)
LEMMA SetStep ==
  ASSUME IInv, NEW r \in Readers, Set(r)
  PROVE  IInv'
<1> USE DEF writers, redis, readers
<1> DEFINE k == key[r]
<1>1. /\ k \in Keys /\ result[r] \in 0 .. version
      /\ entry' = [entry EXCEPT ![k] = result[r]]
      /\ UNCHANGED <<version, writers, key, result, trusted, floor, faults>>
  BY DEF Set, IInv, TypeOK
<1>2. /\ entry'[k] = result[r]
      /\ \A l \in Keys \ {k} :
           entry'[l] = entry[l] /\ (l \in late' <=> l \in late)
  BY <1>1 DEF Set, IInv, TypeOK
<1>3. k \notin late' => ~IsLate(r)
  BY DEF Set
<1>4. Present' = Present \cup {k}
  BY <1>1, <1>2, NothingAssumption DEF Present
<1>5. TypeOK'
  <2>1. entry' \in [Keys -> Nat \cup {Nothing}] /\ late' \in SUBSET Keys
    BY <1>1 DEF Set, IInv, TypeOK
  <2>2. rphase' \in [Readers -> {"idle", "get", "query", "set", "return"}]
    BY DEF Set, IInv, TypeOK
  <2>3. \A q \in Readers : rphase'[q] # "idle" => key'[q] \in Keys
    BY <1>1 DEF Set, IInv, TypeOK
  <2>4. QED
    BY <1>1, <2>1, <2>2, <2>3 DEF IInv, TypeOK
<1>6. TodoWhileSweeping' /\ VersionIsMine' /\ FloorIsCompleted' /\ ReadAfterWrite'
  BY <1>1 DEF Set, IInv, TypeOK, TodoWhileSweeping, VersionIsMine,
              FloorIsCompleted, ReadAfterWrite
<1>7. EntriesInRange'
  <2>1. \A l \in Present' : entry'[l] <= version'
    BY <1>1, <1>2, <1>4 DEF IInv, TypeOK, EntriesInRange, Present
  <2>2. \A l \in Present' \ late' : entry'[l] >= completed'
    BY <1>1, <1>2, <1>3, <1>4
       DEF IInv, TypeOK, EntriesInRange, IsLate, Present
  <2>3. QED
    BY <2>1, <2>2 DEF EntriesInRange
<1>8. StaleIsPending'
  <2> SUFFICES ASSUME NEW l \in Present' \ late', NEW w \in Writers,
                      entry'[l] < mine'[w]
               PROVE  wphase'[w] = "changed" \/ l \in todo'[w]
    BY DEF StaleIsPending
  <2>1. CASE l = k
    BY <1>1, <1>2, <1>3, <2>1 DEF IInv, TypeOK, IsLate
  <2>2. CASE l # k
    BY <1>1, <1>2, <1>4, <2>2 DEF IInv, StaleIsPending, Present
  <2>3. QED
    BY <2>1, <2>2
<1>9. QED
  BY <1>5, <1>6, <1>7, <1>8 DEF IInv

(* Every step keeps the invariant.                                         *)
LEMMA CacheInvariantStep == IInv /\ [Next]_vars => IInv'
<1> SUFFICES ASSUME IInv, [Next]_vars PROVE IInv'
  OBVIOUS
<1>1. ASSUME NEW k \in Keys, Expire(k) PROVE IInv'
  BY <1>1, RemoveStep DEF Expire
<1>2. CASE UNCHANGED vars
  BY <1>2 DEF vars, writers, redis, readers, IInv, TypeOK, TodoWhileSweeping,
              VersionIsMine, EntriesInRange, FloorIsCompleted,
              StaleIsPending, ReadAfterWrite, Present
<1>3. QED
  BY <1>1, <1>2, ChangeStep, WriterStep, ReaderStep, SetStep DEF Next, Call

(* The invariant holds in every reachable state.                           *)
THEOREM Invariance == Spec => []IInv
BY InitIInv, CacheInvariantStep, PTL DEF Spec

----------------------------------------------------------------------------
(* The mutations, the reads and the cache have their types.                *)
THEOREM TypeCorrect == Spec => []TypeOK
<1>1. IInv => TypeOK
  BY DEF IInv
<1>2. QED
  BY <1>1, Invariance, PTL

(***************************************************************************)
(* Whatever fills, sweeps and expiry do to each other, an entry that is    *)
(* not late and misses a change is still to be swept for that change.      *)
(***************************************************************************)
THEOREM StaleEntriesArePending == Spec => []StaleIsPending
<1>1. IInv => StaleIsPending
  BY DEF IInv
<1>2. QED
  BY <1>1, Invariance, PTL

(* A read that begins after a mutation has returned shows it.              *)
THEOREM ReadsFollowWrites == Spec => []ReadAfterWrite
<1>1. IInv => ReadAfterWrite
  BY DEF IInv
<1>2. QED
  BY <1>1, Invariance, PTL

(* What the cache holds when no mutation is under way.                     *)
QuietCacheIsFresh ==
  (\A w \in Writers : wphase[w] = "idle") =>
    \A k \in Present \ late : entry[k] = version

(* A cache that no mutation is sweeping is current, but for late entries.  *)
THEOREM QuietCachesAreFresh == Spec => []QuietCacheIsFresh
<1>1. IInv => QuietCacheIsFresh
  <2> SUFFICES ASSUME IInv, \A w \in Writers : wphase[w] = "idle",
                      NEW k \in Present \ late
               PROVE  entry[k] = version
    BY DEF QuietCacheIsFresh
  <2>1. entry[k] \in Nat /\ entry[k] <= version
    BY DEF IInv, TypeOK, EntriesInRange, Present
  <2>2. ASSUME NEW w \in Writers PROVE entry[k] >= mine[w]
    <3>1. wphase[w] # "changed" /\ k \notin todo[w] /\ mine[w] \in Nat
      BY DEF IInv, TypeOK, TodoWhileSweeping
    <3>2. ~(entry[k] < mine[w])
      BY <3>1 DEF IInv, StaleIsPending
    <3>3. QED
      BY <2>1, <3>1, <3>2
  <2>3. QED
    BY <2>1, <2>2 DEF IInv, TypeOK, VersionIsMine
<1>2. QED
  BY <1>1, Invariance, PTL
=============================================================================
