--------------------------- MODULE ServedMap_proofs ---------------------------
(***************************************************************************)
(* Proofs about ServedMap, for every set of mutations, reads, keys and     *)
(* points, any requests, and any number of changes and faults.             *)
(*                                                                         *)
(* What is proved of ClusterTables is used by extending its proofs; the    *)
(* invariant of ViewportCache is stated and proved again, weaker, because  *)
(* a mutation that loses the UNIQUE race ends without a sweep.             *)
(***************************************************************************)
EXTENDS ServedMap, ClusterTables_proofs

Listening == server \in {"up", "stopping"}

(* A mutation that has not yet swept the key k, and is bound to.           *)
Pending(w, k) == wphase[w] = "changed" \/ k \in todo[w]

(***************************************************************************)
(* A mutation that will sweep k.  One that has not committed its INSERT    *)
(* may lose the UNIQUE race, but not while the clusters are empty and no   *)
(* other INSERT runs.                                                      *)
(***************************************************************************)
WillSweep(w, k) == Pending(w, k) /\ (clusters # {} => pc[w] = "done")

(* The cache hears of a mutation when its first statement has changed the  *)
(* clusters, and its sweep follows its last statement.                     *)
SweepFollowsStatements ==
  \A w \in Writers :
    /\ pc[w] \in {"rebuild", "inserting"} => wphase[w] = "changed"
    /\ wphase[w] # "idle" => pc[w] \in {"rebuild", "inserting", "done"}
    /\ wphase[w] \in {"sweeping", "swept"} => pc[w] = "done"
    /\ wphase[w] # "sweeping" => todo[w] = {}

ReadsEndWithServer == ~Listening => \A r \in Readers : rphase[r] = "idle"

(* The history of the contents ends with what is in the table.             *)
ContentsAreClusters ==
  Listening \/ pc[Boot] = "done" => contents[version] = clusters

EntriesCommitted == \A k \in Cache!Present : entry[k] <= version

(* An entry that does not show the clusters will be swept, or is late.     *)
OldIsSwept ==
  Listening =>
    \A k \in Cache!Present \ late :
      contents[entry[k]] # clusters => \E w \in Writers : WillSweep(w, k)

(* A read about to set its key to what is not in the table comes late, or  *)
(* a mutation that changed the table since will sweep the key.             *)
OldFillIsSwept ==
  \A r \in Readers :
    rphase[r] = "set" /\ contents[result[r]] # clusters =>
      \/ Cache!IsLate(r)
      \/ \E w \in Writers : mine[w] > result[r] /\ WillSweep(w, key[r])

(* What outlives a server whose refreshes are done shows the stored points. *)
KeptIsStored ==
  ~Listening /\ ~owed =>
    \A k \in Cache!Present \ late : contents[entry[k]] = features

(* A sweep that has begun leaves no entry older than its mutation.         *)
SweptIsNew ==
  \A k \in Cache!Present \ late, w \in Writers :
    wphase[w] \in {"sweeping", "swept"} /\ entry[k] < mine[w] => k \in todo[w]

NewerThanCompleted == \A k \in Cache!Present \ late : entry[k] >= completed

FloorIsCompleted == \A r \in Readers : floor[r] <= completed

(* What concerns the cache alone.                                          *)
CacheInv ==
  /\ Cache!TypeOK
  /\ contents \in [0 .. MaxVersion -> SUBSET Points]
  /\ EntriesCommitted
  /\ SweptIsNew
  /\ NewerThanCompleted
  /\ FloorIsCompleted
  /\ Cache!ReadAfterWrite

(* What ties the cache to the tables.                                      *)
JointInv ==
  /\ SweepFollowsStatements
  /\ ReadsEndWithServer
  /\ ContentsAreClusters
  /\ OldIsSwept
  /\ OldFillIsSwept
  /\ KeptIsStored

(* The inductive invariant.                                                *)
ServedInv == IInv /\ CacheInv /\ JointInv

----------------------------------------------------------------------------
(* An empty database, an empty cache and no request.                       *)
LEMMA InitServedInv == ServedInit => ServedInv
<1> SUFFICES ASSUME ServedInit PROVE ServedInv
  OBVIOUS
<1>1. IInv
  BY InitIInv DEF ServedInit
<1>2. Cache!Present = {}
  BY DEF ServedInit, Cache!Init, Cache!Present
<1>3. Cache!TypeOK
  <2>1. /\ todo \in [Writers -> SUBSET Keys]
        /\ wphase \in [Writers -> {"idle", "changed", "sweeping", "swept"}]
        /\ mine \in [Writers -> 0 .. version]
    BY DEF ServedInit, Cache!Init
  <2>2. /\ entry \in [Keys -> Nat \cup {Nothing}]
        /\ rphase \in [Readers -> {"idle", "get", "query", "set", "return"}]
        /\ key \in [Readers -> Keys \cup {Nothing}]
        /\ \A r \in Readers : rphase[r] # "idle" => key[r] \in Keys
    BY DEF ServedInit, Cache!Init
  <2>3. /\ result \in [Readers -> 0 .. version]
        /\ floor \in [Readers -> 0 .. version]
        /\ trusted \in [Readers -> BOOLEAN]
    BY DEF ServedInit, Cache!Init
  <2>4. /\ version \in 0 .. MaxVersion /\ completed \in 0 .. version
        /\ faults \in 0 .. MaxFaults /\ late \in SUBSET Keys
    BY ChangesAssumption, FaultsAssumption DEF ServedInit, Cache!Init
  <2>5. QED
    BY <2>1, <2>2, <2>3, <2>4 DEF Cache!TypeOK
<1>4. contents \in [0 .. MaxVersion -> SUBSET Points]
  BY DEF ServedInit
<1>5. /\ EntriesCommitted /\ SweptIsNew /\ NewerThanCompleted
      /\ OldIsSwept /\ KeptIsStored
  BY <1>2 DEF EntriesCommitted, SweptIsNew, NewerThanCompleted, OldIsSwept,
              KeptIsStored
<1>6. FloorIsCompleted /\ Cache!ReadAfterWrite /\ OldFillIsSwept
  BY DEF ServedInit, Cache!Init, FloorIsCompleted, Cache!ReadAfterWrite,
         OldFillIsSwept
<1>7. /\ SweepFollowsStatements /\ ReadsEndWithServer /\ ContentsAreClusters
  BY DEF ServedInit, Init, Cache!Init, SweepFollowsStatements, Actors,
         ReadsEndWithServer, ContentsAreClusters, Listening
<1>8. QED
  BY <1>1, <1>3, <1>4, <1>5, <1>6, <1>7 DEF ServedInv, CacheInv, JointInv

(***************************************************************************)
(* Every step is a step of ClusterTables, but for a call to Redis, or a    *)
(* query of the clusters, that fails: the tables only count it.            *)
(***************************************************************************)
LEMMA TablesStep ==
  ServedNext => [Next]_vars \/ (Cache!Fault /\ UNCHANGED <<server, tables,
                                                           pc, snap, owed>>)
<1> SUFFICES ASSUME ServedNext
             PROVE  \/ [Next]_vars
                    \/ Cache!Fault
                       /\ UNCHANGED <<server, tables, pc, snap, owed>>
  OBVIOUS
<1> USE DEF Next, Operate, Fault
<1>1. ASSUME NEW w \in Writers, NEW request \in Posts, Accept(w, request)
      PROVE  Next
  BY <1>1 DEF Accept, WriterStep
<1>2. ASSUME NEW w \in Writers,
             Rewrite(w) \/ BeginRebuild(w) \/ LoseRace(w)
      PROVE  Next
  BY <1>2 DEF Rewrite, BeginRebuild, LoseRace, WriterStep, RefreshStep
<1>3. ASSUME NEW w \in Writers, GiveUp(w) PROVE Next
  BY <1>3 DEF GiveUp
<1>4. ASSUME NEW w \in Writers, Invalidate(w)
      PROVE  \/ UNCHANGED vars
             \/ Cache!Fault /\ UNCHANGED <<server, tables, pc, snap, owed>>
  BY <1>4 DEF Invalidate, Cache!Invalidation, Cache!SweepBegin, Cache!Sweep,
              Cache!SweepEnd, Cache!SweepFails, vars, tables
<1>5. ASSUME NEW r \in Readers, Read(r)
      PROVE  \/ UNCHANGED vars
             \/ Cache!Fault /\ UNCHANGED <<server, tables, pc, snap, owed>>
  BY <1>5 DEF Read, Cache!Call, Cache!Hit, Cache!Miss, Cache!GetFails,
              Cache!Query, Cache!Set, Cache!SetFails, Cache!QueryFails,
              Cache!Return, vars, tables
<1>6. ASSUME NEW w \in Writers, Succeed(w) PROVE UNCHANGED vars
  BY <1>6 DEF Succeed
<1>7. ASSUME NEW r \in Readers, NEW k \in Keys, Get(r, k)
      PROVE  UNCHANGED vars
  BY <1>7 DEF Get
<1>8. ASSUME NEW k \in Keys, Expire(k) PROVE UNCHANGED vars
  BY <1>8 DEF Expire
<1>9. CASE ServedBoot \/ Repair \/ BootRebuilds
  BY <1>9 DEF ServedBoot, Repair, BootRebuilds, BootStep, RefreshStep
<1>10. CASE ServedStop \/ ServedCrash
  BY <1>10 DEF ServedStop, ServedCrash, StopStep
<1>11. QED
  BY <1>1, <1>2, <1>3, <1>4, <1>5, <1>6, <1>7, <1>8, <1>9, <1>10
     DEF ServedNext

(* So the invariant of the tables holds under the cache as well.           *)
LEMMA TablesInvStep == IInv /\ [ServedNext]_servedVars => IInv'
<1> SUFFICES ASSUME IInv, [ServedNext]_servedVars PROVE IInv'
  OBVIOUS
<1>1. CASE [Next]_vars
  BY <1>1, IInvStep
<1>2. CASE Cache!Fault /\ UNCHANGED <<server, tables, pc, snap, owed>>
  <2>1. faults \in 0 .. MaxFaults /\ faults' = faults + 1
        /\ faults' \in 0 .. MaxFaults
    BY <1>2, FaultsAssumption DEF Cache!Fault, IInv, TypeOK
  <2>2. TypeOK'
    BY <1>2, <2>1 DEF IInv, TypeOK, tables
  <2>3. QED
    BY <1>2, <2>2
       DEF IInv, BootIsAlone, SnapshotsStored, BootOwesNothing,
           NoPhantomClusters, BehindIsQueued, BlankIsBrief,
           OldSnapshotIsDoomed, tables
<1>3. QED
  BY <1>1, <1>2, TablesStep DEF servedVars

(* A statement of a mutation that changes the clusters.                    *)
LEMMA RewriteStep ==
  ASSUME ServedInv, IInv', NEW w \in Writers, Rewrite(w)
  PROVE  CacheInv' /\ JointInv'
<1> USE DEF ServedInv, CacheInv, JointInv
<1>1. /\ version \in Nat /\ version' = version + 1
      /\ version' \in 0 .. MaxVersion
      /\ mine' = [mine EXCEPT ![w] = version + 1]
      /\ wphase[w] \in {"idle", "changed"}
      /\ wphase' = [wphase EXCEPT ![w] = "changed"]
      /\ contents' = [contents EXCEPT ![version + 1] = clusters']
      /\ UNCHANGED <<todo, completed, entry, late>>
      /\ UNCHANGED <<rphase, key, result, trusted, floor>>
  BY ChangesAssumption
     DEF Rewrite, Cache!Change, Cache!TypeOK, Cache!redis, Cache!readers,
         cacheReads
<1>2. /\ pc[w] \in {"truncate", "inserting", "clear"}
      /\ pc'[w] \in {"rebuild", "done"}
      /\ clusters' # {} => pc'[w] = "done"
      /\ \A v \in Actors \ {w} : pc'[v] = pc[v]
      /\ server' = server
  BY DEF Rewrite, Truncate, RebuildCommit, ClearTruncate, Goto, IInv, TypeOK,
         Actors
<1>3. Listening /\ Listening'
  BY <1>2 DEF IInv, BootIsAlone, Listening
<1>4. /\ \A v \in 0 .. version : contents'[v] = contents[v]
      /\ contents'[version'] = clusters'
  <2>1. contents \in [0 .. MaxVersion -> SUBSET Points]
    OBVIOUS
  <2>2. QED
    BY <1>1, <2>1, ChangesAssumption
<1>5. CacheInv'
  <2>1. Cache!TypeOK'
    <3>1. mine' \in [Writers -> 0 .. version']
      BY <1>1 DEF Cache!TypeOK
    <3>2. /\ result' \in [Readers -> 0 .. version']
          /\ floor' \in [Readers -> 0 .. version']
          /\ completed' \in 0 .. version'
      BY <1>1 DEF Cache!TypeOK
    <3>3. faults' \in 0 .. MaxFaults
      BY DEF IInv, TypeOK
    <3>4. wphase' \in [Writers -> {"idle", "changed", "sweeping", "swept"}]
      BY <1>1 DEF Cache!TypeOK
    <3>5. QED
      BY <1>1, <3>1, <3>2, <3>3, <3>4 DEF Cache!TypeOK
  <2>2. contents' \in [0 .. MaxVersion -> SUBSET Points]
    BY <1>1 DEF IInv, TypeOK
  <2>3. EntriesCommitted'
    BY <1>1 DEF Cache!TypeOK, EntriesCommitted, Cache!Present
  <2>4. SweptIsNew'
    BY <1>1 DEF Cache!TypeOK, SweptIsNew, Cache!Present
  <2>5. NewerThanCompleted' /\ FloorIsCompleted' /\ Cache!ReadAfterWrite'
    BY <1>1 DEF NewerThanCompleted, FloorIsCompleted, Cache!ReadAfterWrite,
                Cache!Present
  <2>6. QED
    BY <2>1, <2>2, <2>3, <2>4, <2>5
<1>6. \A k \in Keys : WillSweep(w, k)'
  BY <1>1, <1>2 DEF WillSweep, Pending, Cache!TypeOK
<1>7. SweepFollowsStatements'
  BY <1>1, <1>2 DEF SweepFollowsStatements, Cache!TypeOK, Actors
<1>8. OldIsSwept'
  BY <1>6 DEF OldIsSwept, Cache!Present
<1>9. OldFillIsSwept'
  <2> SUFFICES ASSUME NEW r \in Readers, rphase'[r] = "set"
               PROVE  \E v \in Writers :
                        mine'[v] > result'[r] /\ WillSweep(v, key[r])'
    BY <1>1 DEF OldFillIsSwept
  <2>1. key[r] \in Keys /\ result'[r] \in 0 .. version
    BY <1>1 DEF Cache!TypeOK
  <2>2. mine'[w] > result'[r]
    BY <1>1, <2>1 DEF Cache!TypeOK
  <2>3. QED
    BY <1>1, <1>6, <2>1, <2>2 DEF WillSweep, Pending
<1>10. ReadsEndWithServer' /\ ContentsAreClusters' /\ KeptIsStored'
  BY <1>3, <1>4 DEF ReadsEndWithServer, ContentsAreClusters, KeptIsStored
<1>11. QED
  BY <1>5, <1>7, <1>8, <1>9, <1>10

(***************************************************************************)
(* While the clusters stay as they are, an old fill stays swept: a         *)
(* mutation that need no longer sweep its key has made it late.            *)
(***************************************************************************)
LEMMA OldFillStaysSwept ==
  ASSUME ServedInv, NEW r \in Readers, rphase[r] = "set",
         UNCHANGED <<clusters, contents, version, mine>>,
         key'[r] = key[r], result'[r] = result[r],
         completed' \in Nat, completed' >= completed,
         \A w \in Writers :
           wphase'[w] = "changed" \/ key[r] \in todo'[w] =>
             Pending(w, key[r]) /\ (pc[w] = "done" => pc'[w] = "done"),
         contents'[result'[r]] # clusters'
  PROVE  \/ Cache!IsLate(r)'
         \/ \E w \in Writers : mine'[w] > result'[r] /\ WillSweep(w, key[r])'
<1> USE DEF Pending, WillSweep
<1>0. completed \in Nat /\ result[r] \in Nat
  BY DEF ServedInv, CacheInv, Cache!TypeOK
<1>1. CASE Cache!IsLate(r)
  BY <1>0, <1>1 DEF Cache!IsLate
<1>2. ASSUME NEW w \in Writers, mine[w] > result[r], WillSweep(w, key[r])
      PROVE  \/ Cache!IsLate(r)'
             \/ mine'[w] > result'[r] /\ WillSweep(w, key[r])'
  BY <1>2 DEF Cache!IsLate
<1>3. \/ Cache!IsLate(r)
      \/ \E w \in Writers : mine[w] > result[r] /\ WillSweep(w, key[r])
  BY DEF ServedInv, JointInv, OldFillIsSwept
<1>4. QED
  BY <1>1, <1>2, <1>3

(* A key that expires or is swept takes its obligations along.             *)
LEMMA RemoveStep ==
  ASSUME ServedInv, IInv', NEW k \in Keys, Cache!Remove(k),
         UNCHANGED <<server, features, clusters, pc, owed, contents>>,
         UNCHANGED <<version, wphase, mine, completed>>,
         UNCHANGED <<rphase, key, result, trusted, floor>>
  PROVE  CacheInv' /\ JointInv'
<1> USE DEF ServedInv, CacheInv, JointInv
<1>1. Cache!Present' = Cache!Present \ {k}
  BY DEF Cache!Remove, Cache!Present, Cache!TypeOK
<1>2. \A l \in Cache!Present' :
        entry'[l] = entry[l] /\ (l \notin late' => l \notin late)
  BY <1>1 DEF Cache!Remove, Cache!Present, Cache!TypeOK
<1>3. \A w \in Writers : todo'[w] = todo[w] \ {k}
  BY DEF Cache!Remove
<1>4. Cache!TypeOK'
  <2>1. entry' \in [Keys -> Nat \cup {Nothing}] /\ late' \in SUBSET Keys
    BY DEF Cache!Remove, Cache!TypeOK
  <2>2. todo' \in [Writers -> SUBSET Keys]
    BY DEF Cache!Remove, Cache!TypeOK
  <2>3. faults' \in 0 .. MaxFaults
    BY DEF IInv, TypeOK
  <2>4. QED
    BY <2>1, <2>2, <2>3 DEF Cache!TypeOK
<1>5. EntriesCommitted' /\ NewerThanCompleted' /\ SweptIsNew'
  BY <1>1, <1>2, <1>3 DEF EntriesCommitted, NewerThanCompleted, SweptIsNew
<1>6. /\ FloorIsCompleted' /\ Cache!ReadAfterWrite'
      /\ ReadsEndWithServer' /\ ContentsAreClusters'
  BY DEF FloorIsCompleted, Cache!ReadAfterWrite, ReadsEndWithServer,
         ContentsAreClusters, Listening
<1>7. SweepFollowsStatements'
  BY <1>3 DEF SweepFollowsStatements
<1>8. OldIsSwept'
  BY <1>1, <1>2, <1>3 DEF OldIsSwept, Listening, WillSweep, Pending
<1>9. OldFillIsSwept'
  <2> SUFFICES ASSUME NEW r \in Readers, rphase'[r] = "set",
                      contents'[result'[r]] # clusters'
               PROVE  \/ Cache!IsLate(r)'
                      \/ \E w \in Writers :
                           mine'[w] > result'[r] /\ WillSweep(w, key[r])'
    BY DEF OldFillIsSwept
  <2>1. completed' \in Nat /\ completed' >= completed
    BY DEF Cache!TypeOK
  <2>2. \A w \in Writers :
          wphase'[w] = "changed" \/ key[r] \in todo'[w] =>
            Pending(w, key[r]) /\ (pc[w] = "done" => pc'[w] = "done")
    BY <1>3 DEF Pending
  <2>3. QED
    BY <2>1, <2>2, OldFillStaysSwept
<1>10. KeptIsStored'
  BY <1>1, <1>2 DEF KeptIsStored, Listening
<1>11. QED
  BY <1>4, <1>5, <1>6, <1>7, <1>8, <1>9, <1>10

(* The invalidation of a mutation whose statements are done.               *)
LEMMA InvalidateStep ==
  ASSUME ServedInv, IInv', NEW w \in Writers, Invalidate(w)
  PROVE  CacheInv' /\ JointInv'
<1> USE DEF ServedInv, CacheInv, JointInv
<1>1. ASSUME NEW k \in Keys, Cache!Sweep(w, k)
      PROVE  CacheInv' /\ JointInv'
  BY <1>1, RemoveStep DEF Invalidate, Cache!Sweep, Cache!readers, tables
<1>2. CASE \/ Cache!SweepBegin(w) \/ Cache!SweepEnd(w) \/ Cache!SweepFails(w)
  <2>1. /\ pc[w] = "done"
        /\ wphase[w] \in {"changed", "sweeping"}
        /\ wphase' = [wphase EXCEPT ![w] = IF Cache!SweepBegin(w)
                                           THEN "sweeping" ELSE "swept"]
        /\ todo' = [todo EXCEPT ![w] = IF Cache!SweepBegin(w)
                                       THEN Cache!Present ELSE {}]
        /\ UNCHANGED <<server, features, clusters, pc, owed, contents>>
        /\ UNCHANGED <<version, mine, completed, entry>>
        /\ UNCHANGED <<rphase, key, result, trusted, floor>>
    <3>1. Cache!SweepEnd(w) => todo' = [todo EXCEPT ![w] = {}]
      BY DEF Cache!SweepEnd, Cache!TypeOK
    <3>2. Cache!SweepBegin(w) => wphase'[w] = "sweeping"
      BY DEF Cache!SweepBegin, Cache!TypeOK
    <3>3. Cache!SweepEnd(w) \/ Cache!SweepFails(w) => wphase'[w] = "swept"
      BY DEF Cache!SweepEnd, Cache!SweepFails, Cache!TypeOK
    <3>4. Cache!SweepEnd(w) \/ Cache!SweepFails(w) => ~Cache!SweepBegin(w)
      BY <3>2, <3>3
    <3>5. CASE Cache!SweepBegin(w)
      BY <3>5 DEF Cache!SweepBegin, Cache!redis, Cache!readers, Invalidate,
                  tables
    <3>6. CASE Cache!SweepEnd(w)
      BY <3>1, <3>4, <3>6 DEF Cache!SweepEnd, Cache!redis, Cache!readers,
                              Invalidate, tables
    <3>7. CASE Cache!SweepFails(w)
      BY <3>4, <3>7 DEF Cache!SweepFails, Cache!readers, Invalidate, tables
    <3>8. QED
      BY <1>2, <3>5, <3>6, <3>7
  <2>2. /\ late \subseteq late' /\ late' \in SUBSET Keys
        /\ \A k \in Cache!Present \ late' :
             Pending(w, k) => Cache!SweepBegin(w)
    BY <1>2 DEF Cache!SweepBegin, Cache!SweepEnd, Cache!SweepFails, Pending,
                Cache!redis, Cache!Present, Cache!TypeOK
  <2>3. Cache!Present' = Cache!Present
    BY <2>1 DEF Cache!Present
  <2>4. Cache!TypeOK'
    <3>1. /\ wphase' \in [Writers -> {"idle", "changed", "sweeping", "swept"}]
          /\ todo' \in [Writers -> SUBSET Keys]
      BY <2>1 DEF Cache!TypeOK, Cache!Present
    <3>2. faults' \in 0 .. MaxFaults
      BY DEF IInv, TypeOK
    <3>3. QED
      BY <2>1, <2>2, <3>1, <3>2 DEF Cache!TypeOK
  <2>5. SweptIsNew'
    <3> SUFFICES ASSUME NEW k \in Cache!Present \ late', NEW v \in Writers,
                        wphase'[v] \in {"sweeping", "swept"},
                        entry[k] < mine[v]
                 PROVE  k \in todo'[v]
      BY <2>1, <2>3 DEF SweptIsNew
    <3>1. CASE v # w
      BY <2>1, <2>2, <3>1 DEF SweptIsNew, Cache!TypeOK
    <3>2. CASE v = w
      <4>1. Pending(w, k)
        BY <2>1, <2>2, <3>2 DEF SweptIsNew, Pending
      <4>2. QED
        BY <2>1, <2>2, <3>2, <4>1 DEF Cache!TypeOK
    <3>3. QED
      BY <3>1, <3>2
  <2>6. EntriesCommitted' /\ NewerThanCompleted'
    BY <2>1, <2>2, <2>3 DEF EntriesCommitted, NewerThanCompleted
  <2>7. /\ FloorIsCompleted' /\ Cache!ReadAfterWrite'
        /\ ReadsEndWithServer' /\ ContentsAreClusters'
    BY <2>1 DEF FloorIsCompleted, Cache!ReadAfterWrite, ReadsEndWithServer,
                ContentsAreClusters, Listening
  <2>8. SweepFollowsStatements'
    BY <2>1 DEF SweepFollowsStatements, Cache!TypeOK
  <2>9. OldIsSwept'
    <3> SUFFICES ASSUME Listening, NEW k \in Cache!Present \ late',
                        contents[entry[k]] # clusters
                 PROVE  \E v \in Writers : WillSweep(v, k)'
      BY <2>1, <2>3 DEF OldIsSwept, Listening
    <3>1. PICK v \in Writers : WillSweep(v, k)
      BY <2>2 DEF OldIsSwept
    <3>2. WillSweep(v, k)'
      <4>1. CASE v # w
        BY <2>1, <3>1, <4>1 DEF WillSweep, Pending, Cache!TypeOK
      <4>2. CASE v = w
        BY <2>1, <2>2, <3>1, <4>2 DEF WillSweep, Pending, Cache!TypeOK
      <4>3. QED
        BY <4>1, <4>2
    <3>3. QED
      BY <3>2
  <2>10. OldFillIsSwept'
    <3> SUFFICES ASSUME NEW r \in Readers, rphase[r] = "set",
                        contents'[result'[r]] # clusters'
                 PROVE  \/ Cache!IsLate(r)'
                        \/ \E v \in Writers :
                             mine'[v] > result'[r] /\ WillSweep(v, key[r])'
      BY <2>1 DEF OldFillIsSwept
    <3>1. completed' \in Nat /\ completed' >= completed
      BY <2>1 DEF Cache!TypeOK
    <3>2. \A v \in Writers :
            wphase'[v] = "changed" \/ key[r] \in todo'[v] =>
              Pending(v, key[r]) /\ (pc[v] = "done" => pc'[v] = "done")
      <4>1. Cache!SweepBegin(w) => wphase[w] = "changed"
        BY DEF Cache!SweepBegin
      <4>2. QED
        BY <2>1, <4>1 DEF Pending, Cache!TypeOK
    <3>3. QED
      BY <2>1, <3>1, <3>2, OldFillStaysSwept
  <2>11. KeptIsStored'
    BY <2>1, <2>2, <2>3 DEF KeptIsStored, Listening
  <2>12. QED
    BY <2>1, <2>4, <2>5, <2>6, <2>7, <2>8, <2>9, <2>10, <2>11
<1>3. QED
  BY <1>1, <1>2 DEF Invalidate, Cache!Invalidation

(***************************************************************************)
(* A step of the tables that the cache does not see: a statement of a      *)
(* mutation that has changed nothing yet, the SELECT of a refresh, or      *)
(* Shutdown.                                                               *)
(***************************************************************************)
LEMMA UnseenStep ==
  ASSUME ServedInv, IInv', UNCHANGED <<cacheWrites, cacheReads, clusters>>,
         Listening, Listening',
         \A w \in Writers :
           \/ pc'[w] = pc[w]
           \/ wphase[w] = "idle" /\ pc'[w] \notin {"rebuild", "inserting"}
           \/ pc[w] = "rebuild" /\ pc'[w] = "inserting"
  PROVE  CacheInv' /\ JointInv'
<1> USE DEF ServedInv, CacheInv, JointInv
<1>1. /\ UNCHANGED <<version, wphase, mine, todo, completed, entry, late>>
      /\ UNCHANGED <<contents, rphase, key, result, trusted, floor>>
  BY DEF cacheWrites, cacheReads
<1>2. faults' \in 0 .. MaxFaults
  BY DEF IInv, TypeOK
<1>3. CacheInv'
  <2>1. Cache!TypeOK'
    BY <1>1, <1>2 DEF Cache!TypeOK
  <2>2. QED
    BY <1>1, <2>1 DEF EntriesCommitted, SweptIsNew, NewerThanCompleted,
                      FloorIsCompleted, Cache!ReadAfterWrite, Cache!Present
<1>4. SweepFollowsStatements'
  BY <1>1 DEF SweepFollowsStatements
<1>5. ReadsEndWithServer' /\ ContentsAreClusters' /\ KeptIsStored'
  BY <1>1 DEF ReadsEndWithServer, ContentsAreClusters, KeptIsStored
<1>6. \A w \in Writers, k \in Keys :
        Pending(w, k) /\ pc[w] = "done" => pc'[w] = "done"
  BY DEF SweepFollowsStatements, Pending
<1>7. OldIsSwept'
  BY <1>1, <1>6 DEF OldIsSwept, WillSweep, Pending, Cache!Present
<1>8. OldFillIsSwept'
  <2> SUFFICES ASSUME NEW r \in Readers, rphase[r] = "set",
                      contents'[result'[r]] # clusters'
               PROVE  \/ Cache!IsLate(r)'
                      \/ \E v \in Writers :
                           mine'[v] > result'[r] /\ WillSweep(v, key[r])'
    BY <1>1 DEF OldFillIsSwept
  <2>1. completed' \in Nat /\ completed' >= completed /\ key[r] \in Keys
    BY <1>1 DEF Cache!TypeOK
  <2>2. \A v \in Writers :
          wphase'[v] = "changed" \/ key[r] \in todo'[v] =>
            Pending(v, key[r]) /\ (pc[v] = "done" => pc'[v] = "done")
    BY <1>1, <1>6, <2>1 DEF Pending
  <2>3. QED
    BY <1>1, <2>1, <2>2, OldFillStaysSwept
<1>9. QED
  BY <1>3, <1>4, <1>5, <1>7, <1>8

(* A mutation is let in only when the last one of its goroutine is over.   *)
LEMMA StatementStep ==
  ASSUME ServedInv, IInv', NEW w \in Writers,
         \/ \E request \in Posts : Accept(w, request)
         \/ BeginRebuild(w)
         \/ GiveUp(w) /\ wphase[w] # "changed"
  PROVE  CacheInv' /\ JointInv'
<1>1. /\ UNCHANGED <<cacheWrites, cacheReads, clusters, server>>
      /\ \A v \in Actors \ {w} : pc'[v] = pc[v]
  BY DEF Accept, BeginRebuild, GiveUp, ClearCount, InsertPoints,
         RebuildBegin, Abandon, Goto, tables, cacheWrites, cacheReads,
         ServedInv, IInv, TypeOK, Actors
<1>2. \/ wphase[w] = "idle" /\ pc'[w] \notin {"rebuild", "inserting"}
      \/ pc[w] = "rebuild" /\ pc'[w] = "inserting"
  <2>1. ASSUME NEW request \in Posts, Accept(w, request)
        PROVE  wphase[w] = "idle" /\ pc'[w] \notin {"rebuild", "inserting"}
    BY <2>1 DEF Accept, Idle, ClearCount, InsertPoints, Goto, ServedInv, IInv,
                TypeOK, Actors
  <2>2. CASE BeginRebuild(w)
    BY <2>2 DEF BeginRebuild, RebuildBegin, Goto, ServedInv, IInv, TypeOK,
                Actors
  <2>3. CASE GiveUp(w) /\ wphase[w] # "changed"
    <3>1. /\ pc[w] \in {"truncate", "rebuild", "inserting", "clear"}
          /\ pc'[w] = "failed"
      BY <2>3 DEF GiveUp, Abandon, Goto, Refreshing, ServedInv, IInv, TypeOK,
                  Actors
    <3>2. wphase[w] = "idle"
      BY <2>3, <3>1 DEF ServedInv, JointInv, SweepFollowsStatements
    <3>3. QED
      BY <3>1, <3>2
  <2>4. QED
    BY <2>1, <2>2, <2>3
<1>3. Listening /\ Listening'
  <2>1. server = "up" \/ pc[w] # "idle"
    BY DEF Accept, BeginRebuild, GiveUp, ClearCount, InsertPoints,
           RebuildBegin, Abandon, Refreshing
  <2>2. QED
    BY <1>1, <2>1 DEF ServedInv, IInv, BootIsAlone, Listening
<1>4. QED
  BY <1>1, <1>2, <1>3, UnseenStep DEF Actors

(* Shutdown lets the mutations and the reads under way go on.              *)
LEMMA ShutdownStep ==
  ASSUME ServedInv, IInv', Shutdown, UNCHANGED <<cacheWrites, cacheReads>>
  PROVE  CacheInv' /\ JointInv'
BY UnseenStep DEF Shutdown, Listening, tables

(***************************************************************************)
(* A mutation ends: it has swept, or it has lost the race to one that will *)
(* sweep, or it has failed and all that is in Redis is late.               *)
(***************************************************************************)
LEMMA EndStep ==
  ASSUME ServedInv, IInv', NEW w \in Writers,
         wphase' = [wphase EXCEPT ![w] = "idle"],
         completed' \in 0 .. version, completed' >= completed,
         late \subseteq late', late' \in SUBSET Keys,
         UNCHANGED <<server, clusters, version, mine, todo, entry, contents>>,
         UNCHANGED <<rphase, key, result, trusted, floor>>,
         \A v \in Writers \ {w} : pc'[v] = pc[v],
         pc'[w] \notin {"rebuild", "inserting"},
         todo[w] = {}, Listening,
         \A k \in Cache!Present \ late' :
           /\ entry[k] >= completed'
           /\ wphase[w] = "changed" /\ contents[entry[k]] # clusters =>
                \E v \in Writers \ {w} : WillSweep(v, k)
  PROVE  CacheInv' /\ JointInv'
<1> USE DEF ServedInv, CacheInv, JointInv
<1>1. /\ Cache!Present' = Cache!Present /\ Listening'
      /\ wphase'[w] = "idle" /\ \A v \in Writers \ {w} : wphase'[v] = wphase[v]
  BY DEF Cache!Present, Listening, Cache!TypeOK
<1>2. Cache!TypeOK'
  <2>1. faults' \in 0 .. MaxFaults
    BY DEF IInv, TypeOK
  <2>2. QED
    BY <2>1 DEF Cache!TypeOK
<1>3. EntriesCommitted' /\ NewerThanCompleted'
  BY <1>1 DEF EntriesCommitted, NewerThanCompleted
<1>4. SweptIsNew'
  BY <1>1 DEF SweptIsNew
<1>5. FloorIsCompleted'
  BY DEF FloorIsCompleted, Cache!TypeOK
<1>6. /\ Cache!ReadAfterWrite' /\ ReadsEndWithServer' /\ ContentsAreClusters'
      /\ KeptIsStored'
  BY <1>1 DEF Cache!ReadAfterWrite, ReadsEndWithServer, ContentsAreClusters,
              KeptIsStored
<1>7. SweepFollowsStatements'
  BY <1>1 DEF SweepFollowsStatements
<1>8. OldIsSwept'
  <2> SUFFICES ASSUME NEW k \in Cache!Present \ late',
                      contents[entry[k]] # clusters
               PROVE  \E v \in Writers : WillSweep(v, k)'
    BY <1>1 DEF OldIsSwept
  <2>1. PICK v \in Writers \ {w} : WillSweep(v, k)
    <3>1. CASE wphase[w] = "changed"
      BY <3>1
    <3>2. CASE wphase[w] # "changed"
      BY <3>2 DEF OldIsSwept, WillSweep, Pending
    <3>3. QED
      BY <3>1, <3>2
  <2>2. WillSweep(v, k)'
    BY <1>1, <2>1 DEF WillSweep, Pending
  <2>3. QED
    BY <2>2
<1>9. OldFillIsSwept'
  <2> SUFFICES ASSUME NEW r \in Readers, rphase[r] = "set",
                      contents'[result'[r]] # clusters'
               PROVE  \/ Cache!IsLate(r)'
                      \/ \E v \in Writers :
                           mine'[v] > result'[r] /\ WillSweep(v, key[r])'
    BY DEF OldFillIsSwept
  <2>1. completed' \in Nat
    BY DEF Cache!TypeOK
  <2>2. \A v \in Writers :
          wphase'[v] = "changed" \/ key[r] \in todo'[v] =>
            Pending(v, key[r]) /\ (pc[v] = "done" => pc'[v] = "done")
    BY <1>1 DEF Pending
  <2>3. QED
    BY <2>1, <2>2, OldFillStaysSwept
<1>10. QED
  BY <1>2, <1>3, <1>4, <1>5, <1>6, <1>7, <1>8, <1>9

(* What a mutation has swept is no older than the mutation.                *)
LEMMA SucceedStep ==
  ASSUME ServedInv, IInv', NEW w \in Writers, Succeed(w)
  PROVE  CacheInv' /\ JointInv'
<1>1. /\ wphase[w] = "swept" /\ wphase' = [wphase EXCEPT ![w] = "idle"]
      /\ completed' = IF mine[w] > completed THEN mine[w] ELSE completed
      /\ UNCHANGED <<server, clusters, pc, contents>>
      /\ UNCHANGED <<version, mine, todo, entry, late>>
      /\ UNCHANGED <<rphase, key, result, trusted, floor>>
  BY DEF Succeed, Cache!Finish, Cache!redis, Cache!readers, vars, tables
<1>2. pc[w] = "done" /\ todo[w] = {}
  BY <1>1 DEF ServedInv, JointInv, SweepFollowsStatements
<1>3. Listening
  BY <1>2 DEF ServedInv, IInv, BootIsAlone, Listening
<1>4. completed' \in 0 .. version /\ completed' >= completed
  BY <1>1 DEF ServedInv, CacheInv, Cache!TypeOK
<1>5. ASSUME NEW k \in Cache!Present \ late PROVE entry[k] >= completed'
  <2>1. entry[k] >= completed
    BY DEF ServedInv, CacheInv, NewerThanCompleted
  <2>2. ~(entry[k] < mine[w])
    BY <1>1, <1>2 DEF ServedInv, CacheInv, SweptIsNew
  <2>3. entry[k] \in 0 .. version /\ mine[w] \in 0 .. version
    <3>1. entry[k] <= version
      BY DEF ServedInv, CacheInv, EntriesCommitted
    <3>2. entry[k] \in Nat /\ mine[w] \in 0 .. version /\ version \in Nat
      BY DEF ServedInv, CacheInv, Cache!TypeOK, Cache!Present
    <3>3. QED
      BY <3>1, <3>2
  <2>4. QED
    BY <1>1, <2>1, <2>2, <2>3
<1>6. late \in SUBSET Keys
  BY DEF ServedInv, CacheInv, Cache!TypeOK
<1>7. QED
  BY <1>1, <1>2, <1>3, <1>4, <1>5, <1>6, EndStep

(***************************************************************************)
(* Who loses the UNIQUE race leaves its sweep to somebody: either rows are *)
(* committed already, and who committed the last ones, or somebody after   *)
(* them, has yet to sweep; or another INSERT runs and will.                *)
(***************************************************************************)
LEMMA LoseRaceStep ==
  ASSUME ServedInv, IInv', NEW w \in Writers, LoseRace(w)
  PROVE  CacheInv' /\ JointInv'
<1>1. /\ pc[w] = "inserting" /\ Collides(w)
      /\ wphase' = [wphase EXCEPT ![w] = "idle"]
      /\ UNCHANGED <<server, clusters, contents>>
      /\ UNCHANGED <<version, mine, todo, completed, entry, late>>
      /\ UNCHANGED <<rphase, key, result, trusted, floor>>
  BY DEF LoseRace, RebuildConflict, cacheReads, tables
<1>2. pc'[w] = "failed" /\ \A v \in Writers \ {w} : pc'[v] = pc[v]
  BY DEF LoseRace, RebuildConflict, Goto, ServedInv, IInv, TypeOK, Actors
<1>3. Listening /\ pc[Boot] = "idle"
  BY <1>1 DEF ServedInv, IInv, BootIsAlone, Listening
<1>4. todo[w] = {}
  BY <1>1 DEF ServedInv, JointInv, SweepFollowsStatements
<1>5. ASSUME NEW k \in Cache!Present \ late, contents[entry[k]] # clusters
      PROVE  \E v \in Writers \ {w} : WillSweep(v, k)
  <2>1. PICK v \in Writers : WillSweep(v, k)
    BY <1>3, <1>5 DEF ServedInv, JointInv, OldIsSwept
  <2>2. CASE clusters # {}
    BY <1>1, <2>1, <2>2 DEF WillSweep
  <2>3. CASE clusters = {}
    <3>1. PICK q \in Actors \ {w} : pc[q] = "inserting"
      BY <1>1, <2>3 DEF Collides
    <3>2. q \in Writers \ {w} /\ wphase[q] = "changed"
      BY <1>3, <3>1
         DEF Actors, ServedInv, JointInv, SweepFollowsStatements
    <3>3. QED
      BY <2>3, <3>2 DEF WillSweep, Pending
  <2>4. QED
    BY <2>2, <2>3
<1>6. completed \in 0 .. version /\ completed >= completed
      /\ late \in SUBSET Keys
  BY DEF ServedInv, CacheInv, Cache!TypeOK
<1>7. \A k \in Cache!Present \ late : entry[k] >= completed
  BY DEF ServedInv, CacheInv, NewerThanCompleted
<1>8. QED
  BY <1>1, <1>2, <1>3, <1>4, <1>5, <1>6, <1>7, EndStep

(* A mutation that fails half way leaves nothing behind that is not late.  *)
LEMMA GiveUpStep ==
  ASSUME ServedInv, IInv', NEW w \in Writers, GiveUp(w)
  PROVE  CacheInv' /\ JointInv'
<1>1. CASE wphase[w] # "changed"
  BY <1>1, StatementStep
<1>2. CASE wphase[w] = "changed"
  <2>1. /\ wphase' = [wphase EXCEPT ![w] = "idle"]
        /\ late' = late \cup Cache!Present
        /\ UNCHANGED <<server, clusters, contents>>
        /\ UNCHANGED <<version, mine, todo, completed, entry>>
        /\ UNCHANGED <<rphase, key, result, trusted, floor>>
    BY <1>2 DEF GiveUp, Abandon, Cache!FailMutation, Cache!readers, tables
  <2>2. pc'[w] = "failed" /\ \A v \in Writers \ {w} : pc'[v] = pc[v]
    BY DEF GiveUp, Abandon, Goto, ServedInv, IInv, TypeOK, Actors
  <2>3. Listening
    <3>1. pc[w] # "idle"
      BY DEF GiveUp, Abandon, Refreshing
    <3>2. QED
      BY <3>1 DEF ServedInv, IInv, BootIsAlone, Listening
  <2>4. todo[w] = {}
    BY <1>2 DEF ServedInv, JointInv, SweepFollowsStatements
  <2>5. completed \in 0 .. version /\ completed >= completed
        /\ late' \in SUBSET Keys
    BY <2>1 DEF ServedInv, CacheInv, Cache!TypeOK, Cache!Present
  <2>6. Cache!Present \ late' = {}
    BY <2>1
  <2>7. QED
    BY <2>1, <2>2, <2>3, <2>4, <2>5, <2>6, EndStep
<1>3. QED
  BY <1>1, <1>2

----------------------------------------------------------------------------
(* A read, but for its Set, leaves the cache and the tables alone.         *)
LEMMA ReadStep ==
  ASSUME ServedInv, IInv', NEW r \in Readers,
         \/ \E k \in Keys : Get(r, k)
         \/ Read(r) /\ ~Cache!Set(r)
  PROVE  CacheInv' /\ JointInv'
<1> USE DEF ServedInv, CacheInv, JointInv
<1> DEFINE Call == \/ \E k \in Keys : Cache!Request(r, k)
                   \/ Cache!Hit(r) \/ Cache!Miss(r) \/ Cache!GetFails(r)
                   \/ Cache!Query(r) \/ Cache!SetFails(r)
                   \/ Cache!QueryFails(r) \/ Cache!Return(r)
<1>1. Call /\ UNCHANGED <<server, tables, pc, owed, contents>>
  BY DEF Get, Read, Cache!Call, vars, tables
<1>2. /\ UNCHANGED <<server, features, clusters, pc, owed, contents>>
      /\ UNCHANGED <<version, wphase, mine, todo, completed, entry, late>>
  BY <1>1 DEF Cache!Request, Cache!Hit, Cache!Miss, Cache!GetFails,
              Cache!Query, Cache!SetFails, Cache!QueryFails, Cache!Return,
              Cache!writers, Cache!redis, tables
<1>3. Listening /\ Listening'
  <2>1. server = "up" \/ rphase[r] # "idle"
    BY DEF Get, Read, Cache!Call, Cache!Hit, Cache!Miss, Cache!GetFails,
           Cache!Query, Cache!Set, Cache!SetFails, Cache!QueryFails,
           Cache!Return
  <2>2. QED
    BY <1>2, <2>1 DEF ReadsEndWithServer, Listening
<1>4. /\ \A q \in Readers \ {r} :
           /\ rphase'[q] = rphase[q] /\ key'[q] = key[q]
           /\ result'[q] = result[q] /\ trusted'[q] = trusted[q]
           /\ floor'[q] = floor[q]
      /\ rphase'[r] = "set" => result'[r] = version
  BY <1>1 DEF Cache!Request, Cache!Hit, Cache!Miss, Cache!GetFails,
              Cache!Query, Cache!SetFails, Cache!QueryFails, Cache!Return,
              Cache!Leave, Cache!readers, Cache!TypeOK
<1>5. CacheInv'
  <2>1. EntriesCommitted' /\ SweptIsNew' /\ NewerThanCompleted'
    BY <1>2 DEF EntriesCommitted, SweptIsNew, NewerThanCompleted,
                Cache!Present
  <2>2. faults' \in 0 .. MaxFaults
    BY DEF IInv, TypeOK
  <2> DEFINE Reads == Cache!TypeOK /\ FloorIsCompleted /\ Cache!ReadAfterWrite
  <2> USE DEF Cache!TypeOK, FloorIsCompleted, Cache!ReadAfterWrite,
              Cache!readers
  <2>3. ASSUME NEW k \in Keys, Cache!Request(r, k) PROVE Reads'
    BY <1>2, <2>2, <2>3 DEF Cache!Request
  <2>4. CASE Cache!Hit(r)
    <3>1. /\ entry[key[r]] \in 0 .. version
          /\ key[r] \notin late => entry[key[r]] >= floor[r]
      BY <2>4 DEF Cache!Hit, EntriesCommitted, NewerThanCompleted,
                  Cache!Present
    <3>2. Reads'
      BY <1>2, <2>2, <2>4, <3>1 DEF Cache!Hit
    <3>3. QED
      BY <1>2, <2>1, <3>2
  <2>5. CASE Cache!Miss(r) \/ Cache!GetFails(r) \/ Cache!SetFails(r)
    <3>1. Reads'
      BY <1>2, <2>2, <2>5 DEF Cache!Miss, Cache!GetFails, Cache!SetFails
    <3>2. QED
      BY <1>2, <2>1, <3>1
  <2>6. CASE Cache!Query(r)
    <3>1. Reads'
      BY <1>2, <2>2, <2>6 DEF Cache!Query
    <3>2. QED
      BY <1>2, <2>1, <3>1
  <2>7. CASE Cache!QueryFails(r) \/ Cache!Return(r)
    <3>1. /\ rphase' = [rphase EXCEPT ![r] = "idle"]
          /\ result' = [result EXCEPT ![r] = 0]
          /\ trusted' = [trusted EXCEPT ![r] = TRUE]
          /\ floor' = [floor EXCEPT ![r] = 0]
          /\ key' = [key EXCEPT ![r] = Nothing]
      BY <2>7 DEF Cache!QueryFails, Cache!Return, Cache!Leave
    <3>2. Cache!TypeOK'
      BY <1>2, <2>2, <3>1
    <3>3. FloorIsCompleted' /\ Cache!ReadAfterWrite'
      BY <1>2, <3>1
    <3>4. QED
      BY <1>2, <2>1, <3>2, <3>3
  <2>8. QED
    BY <1>1, <1>2, <2>1, <2>3, <2>4, <2>5, <2>6, <2>7
<1>6. SweepFollowsStatements' /\ OldIsSwept'
  BY <1>2 DEF SweepFollowsStatements, OldIsSwept, WillSweep, Pending,
              Listening, Cache!Present
<1>7. ReadsEndWithServer' /\ ContentsAreClusters' /\ KeptIsStored'
  BY <1>2, <1>3 DEF ReadsEndWithServer, ContentsAreClusters, KeptIsStored
<1>8. OldFillIsSwept'
  <2> SUFFICES ASSUME NEW q \in Readers, rphase'[q] = "set",
                      contents'[result'[q]] # clusters'
               PROVE  \/ Cache!IsLate(q)'
                      \/ \E v \in Writers :
                           mine'[v] > result'[q] /\ WillSweep(v, key[q])'
    BY DEF OldFillIsSwept
  <2>1. q # r
    BY <1>2, <1>3, <1>4 DEF ContentsAreClusters
  <2>2. rphase[q] = "set" /\ key'[q] = key[q] /\ result'[q] = result[q]
    BY <1>4, <2>1
  <2>3. completed' \in Nat /\ completed' >= completed
    BY <1>2 DEF Cache!TypeOK
  <2>4. \A v \in Writers :
          wphase'[v] = "changed" \/ key[q] \in todo'[v] =>
            Pending(v, key[q]) /\ (pc[v] = "done" => pc'[v] = "done")
    BY <1>2 DEF Pending
  <2>5. QED
    BY <1>2, <2>2, <2>3, <2>4, OldFillStaysSwept
<1>9. QED
  BY <1>5, <1>6, <1>7, <1>8

(***************************************************************************)
(* A fill that is not late shows the clusters, or a mutation that has      *)
(* changed them since is still to sweep its key.                           *)
(***************************************************************************)
LEMMA SetStep ==
  ASSUME ServedInv, IInv', NEW r \in Readers, Read(r), Cache!Set(r)
  PROVE  CacheInv' /\ JointInv'
<1> USE DEF ServedInv, CacheInv, JointInv
<1> DEFINE k == key[r]
<1>1. /\ k \in Keys /\ result[r] \in 0 .. version
      /\ rphase[r] = "set" /\ rphase' = [rphase EXCEPT ![r] = "return"]
      /\ entry' = [entry EXCEPT ![k] = result[r]]
      /\ UNCHANGED <<server, features, clusters, pc, owed, contents>>
      /\ UNCHANGED <<version, wphase, mine, todo, completed>>
      /\ UNCHANGED <<key, result, trusted, floor>>
  BY DEF Read, Cache!Set, Cache!TypeOK, Cache!writers, tables
<1>2. /\ entry'[k] = result[r]
      /\ \A l \in Keys \ {k} :
           entry'[l] = entry[l] /\ (l \in late' <=> l \in late)
  BY <1>1 DEF Cache!Set, Cache!TypeOK
<1>3. k \notin late' => ~Cache!IsLate(r)
  BY DEF Cache!Set
<1>4. Cache!Present' \subseteq Cache!Present \cup {k}
  BY <1>2 DEF Cache!Present
<1>5. Listening /\ Listening'
  BY <1>1 DEF ReadsEndWithServer, Listening
<1>6. CacheInv'
  <2>1. Cache!TypeOK'
    <3>1. entry' \in [Keys -> Nat \cup {Nothing}] /\ late' \in SUBSET Keys
      BY <1>1 DEF Cache!Set, Cache!TypeOK
    <3>2. /\ rphase' \in [Readers -> {"idle", "get", "query", "set", "return"}]
          /\ \A q \in Readers : rphase'[q] # "idle" => key'[q] \in Keys
      BY <1>1 DEF Cache!TypeOK
    <3>3. faults' \in 0 .. MaxFaults
      BY DEF IInv, TypeOK
    <3>4. QED
      BY <1>1, <3>1, <3>2, <3>3 DEF Cache!TypeOK
  <2>2. EntriesCommitted'
    BY <1>1, <1>2, <1>4 DEF EntriesCommitted, Cache!Present
  <2>3. NewerThanCompleted'
    BY <1>1, <1>2, <1>3, <1>4
       DEF NewerThanCompleted, Cache!IsLate, Cache!Present, Cache!TypeOK
  <2>4. SweptIsNew'
    <3> SUFFICES ASSUME NEW l \in Cache!Present' \ late', NEW w \in Writers,
                        wphase[w] \in {"sweeping", "swept"},
                        entry'[l] < mine[w]
                 PROVE  l \in todo[w]
      BY <1>1 DEF SweptIsNew
    <3>1. CASE l = k
      BY <1>1, <1>2, <1>3, <3>1 DEF Cache!IsLate, Cache!TypeOK
    <3>2. CASE l # k
      BY <1>1, <1>2, <1>4, <3>2 DEF SweptIsNew, Cache!Present
    <3>3. QED
      BY <3>1, <3>2
  <2>5. FloorIsCompleted' /\ Cache!ReadAfterWrite'
    BY <1>1 DEF FloorIsCompleted, Cache!ReadAfterWrite, Cache!TypeOK
  <2>6. QED
    BY <1>1, <2>1, <2>2, <2>3, <2>4, <2>5
<1>7. SweepFollowsStatements'
  BY <1>1 DEF SweepFollowsStatements
<1>8. OldIsSwept'
  <2> SUFFICES ASSUME NEW l \in Cache!Present' \ late',
                      contents[entry'[l]] # clusters
               PROVE  \E w \in Writers : WillSweep(w, l)'
    BY <1>1 DEF OldIsSwept
  <2>1. \E w \in Writers : WillSweep(w, l)
    <3>1. CASE l = k
      BY <1>1, <1>2, <1>3, <3>1 DEF OldFillIsSwept
    <3>2. CASE l # k
      BY <1>2, <1>4, <1>5, <3>2 DEF OldIsSwept, Cache!Present
    <3>3. QED
      BY <3>1, <3>2
  <2>2. QED
    BY <1>1, <2>1 DEF WillSweep, Pending
<1>9. OldFillIsSwept'
  <2> SUFFICES ASSUME NEW q \in Readers, rphase'[q] = "set",
                      contents'[result'[q]] # clusters'
               PROVE  \/ Cache!IsLate(q)'
                      \/ \E v \in Writers :
                           mine'[v] > result'[q] /\ WillSweep(v, key[q])'
    BY DEF OldFillIsSwept
  <2>1. rphase[q] = "set"
    BY <1>1 DEF Cache!TypeOK
  <2>2. completed' \in Nat /\ completed' >= completed
    BY <1>1 DEF Cache!TypeOK
  <2>3. \A v \in Writers :
          wphase'[v] = "changed" \/ key[q] \in todo'[v] =>
            Pending(v, key[q]) /\ (pc[v] = "done" => pc'[v] = "done")
    BY <1>1 DEF Pending
  <2>4. QED
    BY <1>1, <2>1, <2>2, <2>3, OldFillStaysSwept
<1>10. ReadsEndWithServer' /\ ContentsAreClusters' /\ KeptIsStored'
  BY <1>1, <1>5 DEF ReadsEndWithServer, ContentsAreClusters, KeptIsStored
<1>11. QED
  BY <1>6, <1>7, <1>8, <1>9, <1>10

----------------------------------------------------------------------------
(* While no server listens, nobody changes or reads anything.              *)
LEMMA NobodyCalls ==
  ASSUME ServedInv, ~Listening
  PROVE  /\ \A w \in Writers :
              pc[w] = "idle" /\ wphase[w] = "idle" /\ todo[w] = {}
         /\ \A r \in Readers : rphase[r] = "idle"
BY DEF ServedInv, IInv, JointInv, BootIsAlone, SweepFollowsStatements,
       ReadsEndWithServer, Listening

(* A step of a boot: what it must keep of the entries that it has found.   *)
LEMMA BootKeeps ==
  ASSUME ServedInv, IInv', ~Listening,
         UNCHANGED <<wphase, mine, todo, completed, entry>>,
         UNCHANGED <<rphase, key, result, trusted, floor>>,
         \A w \in Writers : pc'[w] = pc[w],
         version' \in version .. MaxVersion,
         late \subseteq late', late' \in SUBSET Keys,
         contents' \in [0 .. MaxVersion -> SUBSET Points],
         \A v \in 0 .. version : contents'[v] = contents[v],
         ContentsAreClusters',
         Listening' => \A k \in Cache!Present \ late' :
                         contents[entry[k]] = clusters',
         ~Listening' /\ ~owed' => \A k \in Cache!Present \ late' :
                                    contents[entry[k]] = features'
  PROVE  CacheInv' /\ JointInv'
<1> USE DEF ServedInv, CacheInv, JointInv
<1>1. /\ \A w \in Writers :
           pc[w] = "idle" /\ wphase[w] = "idle" /\ todo[w] = {}
      /\ \A r \in Readers : rphase[r] = "idle"
  BY NobodyCalls
<1>2. version \in Nat /\ version' \in Nat /\ version <= version'
      /\ version' \in 0 .. MaxVersion
  BY ChangesAssumption DEF Cache!TypeOK
<1>3. /\ Cache!Present' = Cache!Present
      /\ \A k \in Cache!Present : entry[k] \in 0 .. version
  <2>1. \A k \in Cache!Present : entry[k] \in Nat /\ entry[k] <= version
    BY DEF EntriesCommitted, Cache!Present, Cache!TypeOK
  <2>2. QED
    BY <1>2, <2>1 DEF Cache!Present
<1>4. Cache!TypeOK'
  <2>1. faults' \in 0 .. MaxFaults
    BY DEF IInv, TypeOK
  <2>2. /\ mine' \in [Writers -> 0 .. version']
        /\ completed' \in 0 .. version'
        /\ result' \in [Readers -> 0 .. version']
        /\ floor' \in [Readers -> 0 .. version']
    BY <1>2 DEF Cache!TypeOK
  <2>3. QED
    BY <1>2, <2>1, <2>2 DEF Cache!TypeOK
<1>5. EntriesCommitted' /\ NewerThanCompleted'
  BY <1>2, <1>3 DEF EntriesCommitted, NewerThanCompleted
<1>6. /\ SweptIsNew' /\ Cache!ReadAfterWrite' /\ OldFillIsSwept'
      /\ ReadsEndWithServer' /\ SweepFollowsStatements'
  BY <1>1 DEF SweptIsNew, Cache!ReadAfterWrite, OldFillIsSwept,
              ReadsEndWithServer, SweepFollowsStatements
<1>7. FloorIsCompleted'
  BY DEF FloorIsCompleted
<1>8. OldIsSwept' /\ KeptIsStored'
  BY <1>3 DEF OldIsSwept, KeptIsStored
<1>9. QED
  BY <1>4, <1>5, <1>6, <1>7, <1>8

(* A boot without a repair finds what the last server left, and keeps it.  *)
LEMMA ServedBootStep ==
  ASSUME ServedInv, IInv', ServedBoot
  PROVE  CacheInv' /\ JointInv'
<1> USE DEF ServedInv, CacheInv, JointInv
<1>1. /\ UNCHANGED <<wphase, mine, todo, completed, entry, version, late>>
      /\ UNCHANGED <<rphase, key, result, trusted, floor, contents>>
      /\ UNCHANGED <<features, clusters, owed>>
  BY DEF ServedBoot, cacheWrites, cacheReads, Start, BootCount, RebuildBegin,
         Serve, tables
<1>2. ~Listening
  BY DEF ServedBoot, Start, BootCount, RebuildBegin, Serve, IInv, BootIsAlone,
         Listening
<1>3. \A w \in Writers : pc'[w] = pc[w]
  BY BootAssumption DEF ServedBoot, Start, BootCount, RebuildBegin, Serve,
                        Goto, IInv, TypeOK, Actors
<1>4. /\ version' \in version .. MaxVersion /\ late' \in SUBSET Keys
      /\ contents' \in [0 .. MaxVersion -> SUBSET Points]
  BY <1>1 DEF Cache!TypeOK
<1>5. CASE Serve
  <2>1. pc[Boot] = "done" /\ ~owed /\ \A w \in Writers : pc[w] = "idle"
    BY <1>2, <1>5, NobodyCalls DEF Serve, IInv, BootOwesNothing
  <2>2. clusters = features
    BY <2>1 DEF IInv, BehindIsQueued, BlankIsBrief, Actors, Refreshing
  <2>3. \A k \in Cache!Present \ late' : contents[entry[k]] = clusters'
    BY <1>1, <1>2, <2>1, <2>2 DEF KeptIsStored
  <2>4. ContentsAreClusters' /\ Listening'
    BY <1>1, <1>5, <2>1 DEF ContentsAreClusters, Listening, Serve
  <2>5. QED
    BY <1>1, <1>2, <1>3, <1>4, <2>3, <2>4, BootKeeps
<1>6. CASE Start \/ BootCount \/ RebuildBegin(Boot)
  <2>1. ~Listening' /\ pc'[Boot] # "done"
    BY <1>2, <1>6 DEF Start, BootCount, RebuildBegin, Goto, Listening, IInv,
                      TypeOK, Actors
  <2>2. ContentsAreClusters'
    BY <2>1 DEF ContentsAreClusters
  <2>3. ~owed' => \A k \in Cache!Present \ late' :
                    contents[entry[k]] = features'
    BY <1>1, <1>2 DEF KeptIsStored
  <2>4. QED
    BY <1>1, <1>2, <1>3, <1>4, <2>1, <2>2, <2>3, BootKeeps
<1>7. QED
  BY <1>5, <1>6 DEF ServedBoot

(* A seed, or the refresh that pays a debt, makes all that is kept late.   *)
LEMMA RepairStep ==
  ASSUME ServedInv, IInv', Repair
  PROVE  CacheInv' /\ JointInv'
<1> USE DEF ServedInv, CacheInv, JointInv
<1>1. /\ UNCHANGED <<wphase, mine, todo, completed, entry, version>>
      /\ UNCHANGED <<rphase, key, result, trusted, floor, contents, server>>
      /\ late' = IF owed \/ pc[Boot] = "seed" THEN late \cup Cache!Present
                 ELSE late
  BY DEF Repair, cacheReads, BootSeed, Truncate
<1>2. ~Listening /\ ~Listening'
  BY <1>1 DEF Repair, BootSeed, Truncate, IInv, BootIsAlone, Listening
<1>3. (\A w \in Writers : pc'[w] = pc[w]) /\ pc'[Boot] # "done"
  BY BootAssumption
     DEF Repair, BootSeed, Truncate, Goto, IInv, TypeOK, Actors
<1>4. /\ version' \in version .. MaxVersion /\ late' \in SUBSET Keys
      /\ contents' \in [0 .. MaxVersion -> SUBSET Points]
  BY <1>1 DEF Cache!TypeOK, Cache!Present
<1>5. ContentsAreClusters'
  BY <1>2, <1>3 DEF ContentsAreClusters
<1>6. \A k \in Cache!Present \ late' : contents[entry[k]] = features'
  <2>1. CASE owed \/ pc[Boot] = "seed"
    BY <1>1, <2>1
  <2>2. CASE ~owed /\ pc[Boot] # "seed"
    <3>1. features' = features
      BY <2>2 DEF Repair, BootSeed, Truncate
    <3>2. QED
      BY <1>1, <1>2, <2>2, <3>1 DEF KeptIsStored
  <2>3. QED
    BY <2>1, <2>2
<1>7. QED
  BY <1>1, <1>2, <1>3, <1>4, <1>5, <1>6, BootKeeps

(* The INSERT of a boot is a change that nobody has seen before.           *)
LEMMA BootRebuildsStep ==
  ASSUME ServedInv, IInv', BootRebuilds
  PROVE  CacheInv' /\ JointInv'
<1> USE DEF ServedInv, CacheInv, JointInv
<1>1. /\ UNCHANGED <<wphase, mine, todo, completed, entry, late>>
      /\ UNCHANGED <<rphase, key, result, trusted, floor>>
      /\ UNCHANGED <<server, features, owed>>
      /\ version < MaxVersion /\ version' = version + 1
      /\ contents' = [contents EXCEPT ![version + 1] = clusters']
  BY DEF BootRebuilds, cacheReads, RebuildCommit
<1>2. ~Listening /\ ~Listening'
  BY <1>1 DEF BootRebuilds, RebuildCommit, IInv, BootIsAlone, Listening
<1>3. \A w \in Writers : pc'[w] = pc[w]
  BY BootAssumption
     DEF BootRebuilds, RebuildCommit, Goto, IInv, TypeOK, Actors
<1>4. /\ version \in Nat /\ version' \in version .. MaxVersion
      /\ version' \in 0 .. MaxVersion /\ late' \in SUBSET Keys
  BY <1>1, ChangesAssumption DEF Cache!TypeOK
<1>5. /\ contents' \in [0 .. MaxVersion -> SUBSET Points]
      /\ \A v \in 0 .. version : contents'[v] = contents[v]
      /\ contents'[version'] = clusters'
  <2>1. contents \in [0 .. MaxVersion -> SUBSET Points]
    OBVIOUS
  <2>2. clusters' \in SUBSET Points
    BY DEF IInv, TypeOK
  <2>3. QED
    BY <1>1, <1>4, <2>1, <2>2, ChangesAssumption
<1>6. ContentsAreClusters'
  BY <1>5 DEF ContentsAreClusters
<1>7. ~owed' => \A k \in Cache!Present \ late' :
                  contents[entry[k]] = features'
  BY <1>1, <1>2 DEF KeptIsStored
<1>8. QED
  BY <1>1, <1>2, <1>3, <1>4, <1>5, <1>6, <1>7, BootKeeps

(***************************************************************************)
(* A server ends.  If no refresh is left half done, the clusters are those *)
(* of the stored points, and so are the entries that nobody was to sweep.  *)
(***************************************************************************)
LEMMA EndOfServer ==
  ASSUME ServedInv, IInv', Cache!TypeOK', server' = "down",
         pc' = [p \in Actors |-> "idle"],
         UNCHANGED <<version, mine, completed, entry, contents, features>>,
         \A w \in Writers : wphase'[w] = "idle" /\ todo'[w] = {},
         \A r \in Readers : rphase'[r] = "idle" /\ floor'[r] <= completed,
         late \subseteq late', ~owed' => ~owed /\ AtRest,
         \A k \in Cache!Present \ late', w \in Writers : ~Pending(w, k)
  PROVE  CacheInv' /\ JointInv'
<1> USE DEF ServedInv, CacheInv, JointInv
<1>1. Cache!Present' = Cache!Present /\ ~Listening'
      /\ \A p \in Actors : pc'[p] = "idle"
  BY DEF Cache!Present, Listening
<1>2. EntriesCommitted' /\ NewerThanCompleted' /\ FloorIsCompleted'
  BY <1>1 DEF EntriesCommitted, NewerThanCompleted, FloorIsCompleted
<1>3. /\ SweptIsNew' /\ Cache!ReadAfterWrite' /\ OldIsSwept'
      /\ OldFillIsSwept' /\ ReadsEndWithServer'
  BY <1>1 DEF SweptIsNew, Cache!ReadAfterWrite, OldIsSwept, OldFillIsSwept,
              ReadsEndWithServer
<1>4. SweepFollowsStatements' /\ ContentsAreClusters'
  BY <1>1 DEF SweepFollowsStatements, ContentsAreClusters, Actors
<1>5. KeptIsStored'
  <2> SUFFICES ASSUME ~owed', NEW k \in Cache!Present \ late'
               PROVE  contents[entry[k]] = features
    BY <1>1 DEF KeptIsStored
  <2>1. CASE ~Listening
    BY <2>1 DEF KeptIsStored
  <2>2. CASE Listening
    <3>1. contents[entry[k]] = clusters
      BY <2>2 DEF OldIsSwept, WillSweep
    <3>2. clusters = features
      BY DEF AtRest, IInv, BehindIsQueued, BlankIsBrief, Refreshing
    <3>3. QED
      BY <3>1, <3>2
  <2>3. QED
    BY <2>1, <2>2
<1>6. contents' \in [0 .. MaxVersion -> SUBSET Points]
  OBVIOUS
<1>7. QED
  BY <1>2, <1>3, <1>4, <1>5, <1>6

(* Shutdown returns when every request of both kinds has been answered.    *)
LEMMA ShutdownDoneStep ==
  ASSUME ServedInv, IInv', ServedStop, ShutdownDone
  PROVE  CacheInv' /\ JointInv'
<1> USE DEF ServedInv, CacheInv, JointInv
<1>1. /\ server = "stopping" /\ server' = "down"
      /\ pc' = [p \in Actors |-> "idle"]
      /\ UNCHANGED <<version, wphase, mine, todo, completed, entry, late>>
      /\ UNCHANGED <<rphase, key, result, trusted, floor, contents>>
      /\ UNCHANGED <<features, clusters, owed>>
      /\ \A w \in Writers : pc[w] \in Resting
  BY DEF ServedStop, ShutdownDone, cacheWrites, cacheReads, tables
<1>2. /\ \A w \in Writers : wphase[w] = "idle"
      /\ \A r \in Readers : rphase[r] = "idle"
  BY <1>1 DEF ServedStop, Shutdown
<1>3. \A w \in Writers : todo[w] = {}
  BY <1>2 DEF SweepFollowsStatements
<1>4. AtRest
  BY <1>1 DEF AtRest, Actors, IInv, BootIsAlone, Resting, Refreshing
<1>5. Cache!TypeOK'
  <2>1. faults' \in 0 .. MaxFaults
    BY DEF IInv, TypeOK
  <2>2. QED
    BY <1>1, <2>1 DEF Cache!TypeOK
<1>6. QED
  BY <1>1, <1>2, <1>3, <1>4, <1>5, EndOfServer DEF FloorIsCompleted, Pending

(* What the mutations of a crashed server were to sweep is late.           *)
LEMMA ServedCrashStep ==
  ASSUME ServedInv, IInv', ServedCrash
  PROVE  CacheInv' /\ JointInv'
<1> USE DEF ServedInv, CacheInv, JointInv
<1>1. /\ server' = "down" /\ pc' = [p \in Actors |-> "idle"]
      /\ UNCHANGED <<version, mine, completed, entry, contents, features>>
      /\ late' = late \cup UNION {Unswept(w) : w \in Writers}
      /\ wphase' = [w \in Writers |-> "idle"]
      /\ todo' = [w \in Writers |-> {}]
      /\ DropReads
      /\ owed' = (owed \/ \E p \in Actors : pc[p] \in Refreshing)
  BY DEF ServedCrash, Crash, tables
<1>2. \A w \in Writers : Unswept(w) \in SUBSET Keys
  BY DEF Unswept, Cache!Present, Cache!TypeOK
<1>3. Cache!TypeOK'
  <2>1. faults' \in 0 .. MaxFaults
    BY DEF IInv, TypeOK
  <2>2. late' \in SUBSET Keys
    BY <1>1, <1>2 DEF Cache!TypeOK
  <2>3. /\ rphase' = [r \in Readers |-> "idle"]
        /\ key' = [r \in Readers |-> Nothing]
        /\ result' = [r \in Readers |-> 0]
        /\ trusted' = [r \in Readers |-> TRUE]
        /\ floor' = [r \in Readers |-> 0]
    BY <1>1 DEF DropReads
  <2>4. version \in Nat
    BY DEF Cache!TypeOK
  <2>5. /\ rphase' \in [Readers -> {"idle", "get", "query", "set", "return"}]
        /\ key' \in [Readers -> Keys \cup {Nothing}]
        /\ \A r \in Readers : rphase'[r] # "idle" => key'[r] \in Keys
        /\ result' \in [Readers -> 0 .. version]
        /\ trusted' \in [Readers -> BOOLEAN]
        /\ floor' \in [Readers -> 0 .. version]
    BY <2>3, <2>4
  <2>6. /\ wphase' \in [Writers -> {"idle", "changed", "sweeping", "swept"}]
        /\ todo' \in [Writers -> SUBSET Keys]
    BY <1>1
  <2>7. QED
    BY <1>1, <2>1, <2>2, <2>5, <2>6 DEF Cache!TypeOK
<1>4. \A k \in Cache!Present \ late', w \in Writers : ~Pending(w, k)
  BY <1>1 DEF Pending, Unswept
<1>5. \A r \in Readers : rphase'[r] = "idle" /\ floor'[r] <= completed
  BY <1>1 DEF DropReads, Cache!TypeOK
<1>6. /\ \A w \in Writers : wphase'[w] = "idle" /\ todo'[w] = {}
      /\ late \subseteq late'
      /\ ~owed' => ~owed /\ AtRest
  BY <1>1 DEF AtRest
<1>7. QED
  BY <1>1, <1>3, <1>4, <1>5, <1>6, EndOfServer

----------------------------------------------------------------------------
(* Every step of the API keeps the invariant.                              *)
LEMMA ServedInvStep == ServedInv /\ [ServedNext]_servedVars => ServedInv'
<1> SUFFICES ASSUME ServedInv, [ServedNext]_servedVars PROVE ServedInv'
  OBVIOUS
<1>0. IInv'
  BY TablesInvStep DEF ServedInv
<1> DEFINE Goal == CacheInv' /\ JointInv'
<1>1. ASSUME NEW w \in Writers,
             \/ \E request \in Posts : Accept(w, request)
             \/ BeginRebuild(w)
      PROVE  Goal
  BY <1>0, <1>1, StatementStep
<1>2. ASSUME NEW w \in Writers, Rewrite(w) PROVE Goal
  BY <1>0, <1>2, RewriteStep
<1>3. ASSUME NEW w \in Writers, Invalidate(w) PROVE Goal
  BY <1>0, <1>3, InvalidateStep
<1>4. ASSUME NEW w \in Writers, Succeed(w) PROVE Goal
  BY <1>0, <1>4, SucceedStep
<1>5. ASSUME NEW w \in Writers, LoseRace(w) PROVE Goal
  BY <1>0, <1>5, LoseRaceStep
<1>6. ASSUME NEW w \in Writers, GiveUp(w) PROVE Goal
  BY <1>0, <1>6, GiveUpStep
<1>7. ASSUME NEW r \in Readers, NEW k \in Keys, Get(r, k) PROVE Goal
  BY <1>0, <1>7, ReadStep
<1>8. ASSUME NEW r \in Readers, Read(r) PROVE Goal
  BY <1>0, <1>8, ReadStep, SetStep
<1>9. ASSUME NEW k \in Keys, Expire(k) PROVE Goal
  BY <1>0, <1>9, RemoveStep
     DEF Expire, Cache!Expire, Cache!readers, vars, tables
<1>10. ASSUME ServedBoot \/ Repair \/ BootRebuilds PROVE Goal
  BY <1>0, <1>10, ServedBootStep, RepairStep, BootRebuildsStep
<1>11. ASSUME ServedStop PROVE Goal
  BY <1>0, <1>11, ShutdownStep, ShutdownDoneStep DEF ServedStop
<1>12. ASSUME ServedCrash PROVE Goal
  BY <1>0, <1>12, ServedCrashStep
<1>13. ASSUME UNCHANGED servedVars PROVE Goal
  <2>1. /\ UNCHANGED <<server, features, clusters, pc, owed, faults>>
        /\ UNCHANGED <<version, wphase, mine, todo, completed, entry, late>>
        /\ UNCHANGED <<rphase, key, result, trusted, floor, contents>>
    BY <1>13 DEF servedVars, vars, cacheWrites, cacheReads
  <2> USE DEF ServedInv, CacheInv, JointInv
  <2>2. CacheInv'
    BY <2>1 DEF Cache!TypeOK, EntriesCommitted, SweptIsNew,
                NewerThanCompleted, FloorIsCompleted, Cache!ReadAfterWrite,
                Cache!Present
  <2>3. JointInv'
    BY <2>1 DEF SweepFollowsStatements, ReadsEndWithServer,
                ContentsAreClusters, OldIsSwept, OldFillIsSwept, KeptIsStored,
                Listening, WillSweep, Pending, Cache!IsLate, Cache!Present
  <2>4. QED
    BY <2>2, <2>3
<1>14. Goal
  BY <1>1, <1>2, <1>3, <1>4, <1>5, <1>6, <1>7, <1>8, <1>9, <1>10, <1>11,
     <1>12, <1>13 DEF ServedNext
<1>15. QED
  BY <1>0, <1>14 DEF ServedInv

(* The invariant holds in every reachable state, restarts included.        *)
THEOREM ServedInvariance == ServedSpec => []ServedInv
BY InitServedInv, ServedInvStep, PTL DEF ServedSpec

(* The variables of the API, the cache and the tables have their types.    *)
THEOREM ServedTypeCorrect == ServedSpec => []ServedTypeOK
<1>1. ServedInv => ServedTypeOK
  BY DEF ServedInv, IInv, CacheInv, ServedTypeOK
<1>2. QED
  BY <1>1, ServedInvariance, PTL

(***************************************************************************)
(* With no mutation under way, every viewport request is answered with the *)
(* stored points, from the cache as from the tables, unless a refresh was  *)
(* abandoned or the key is late.                                           *)
(***************************************************************************)
THEOREM WhatIsShownIsStored == ServedSpec => []ShownIsStored
<1>1. ServedInv => ShownIsStored
  <2> SUFFICES ASSUME ServedInv, Quiet, ~owed, NEW k \in Keys \ late
               PROVE  Shown(k) = features
    BY DEF ShownIsStored
  <2>1. /\ Listening
        /\ \A w \in Writers : pc[w] \in Resting /\ wphase[w] = "idle"
    BY DEF Quiet, Idle, Listening
  <2>2. \A w \in Writers : ~Pending(w, k)
    BY <2>1 DEF Pending, ServedInv, JointInv, SweepFollowsStatements
  <2>3. clusters = features
    <3>1. \A p \in Actors : pc[p] \notin Refreshing
      BY <2>1 DEF Quiet, ServedInv, IInv, BootIsAlone, Actors, Resting,
                  Refreshing
    <3>2. QED
      BY <3>1 DEF ServedInv, IInv, BehindIsQueued, BlankIsBrief, Refreshing
  <2>4. CASE entry[k] = Nothing
    BY <2>3, <2>4 DEF Shown
  <2>5. CASE entry[k] # Nothing
    <3>1. contents[entry[k]] = clusters
      BY <2>1, <2>2, <2>5
         DEF ServedInv, JointInv, OldIsSwept, WillSweep, Cache!Present
    <3>2. QED
      BY <2>3, <2>5, <3>1 DEF Shown
  <2>6. QED
    BY <2>4, <2>5
<1>2. QED
  BY <1>1, ServedInvariance, PTL


----------------------------------------------------------------------------
(* What the tables promise, they promise under the API as well.            *)

(***************************************************************************)
(* The interleavings of the requests that the handlers accept, and of the  *)
(* calls to Redis that fail between their statements, never put clusters   *)
(* of points that are gone on the map, and leave old or blank clusters     *)
(* only as long as a refresh is under way, or after one was abandoned.     *)
(***************************************************************************)
THEOREM ServedTablesConverge ==
  ServedSpec => [](NoPhantomClusters /\ BehindIsQueued /\ BlankIsBrief
                     /\ RefreshedAtRest)
<1>1. ServedInv => NoPhantomClusters /\ BehindIsQueued /\ BlankIsBrief
  BY DEF ServedInv, IInv
<1>2. ServedInv => RefreshedAtRest
  BY DEF ServedInv, IInv, BehindIsQueued, BlankIsBrief, RefreshedAtRest,
         AtRest, Refreshing
<1>3. QED
  BY <1>1, <1>2, ServedInvariance, PTL

(* What a viewport request for any key but the late ones is answered       *)
(* when the server begins to listen.                                       *)
FirstAnswersAreCurrent ==
  [][server = "booting" /\ server' = "up" =>
       \A k \in Keys \ late' : Shown(k)' = features']_servedVars

(***************************************************************************)
(* A server that begins to listen answers with the stored points from its  *)
(* first request on, over clusters that a crash has left half done and     *)
(* over a cache that a former process has filled and nobody has flushed.   *)
(***************************************************************************)
THEOREM RestartsAnswerCurrent == ServedSpec => FirstAnswersAreCurrent
<1> DEFINE A == server = "booting" /\ server' = "up" =>
                  \A k \in Keys \ late' : Shown(k)' = features'
<1>1. ServedInv /\ ServedInv' /\ [ServedNext]_servedVars => [A]_servedVars
  <2> SUFFICES ASSUME ServedInv, ServedInv', [ServedNext]_servedVars,
                      server = "booting", server' = "up",
                      NEW k \in Keys \ late'
               PROVE  Shown(k)' = features'
    BY DEF A
  <2>1. Serve
    <3>1. [Next]_vars
      BY TablesStep DEF servedVars, vars
    <3>2. QED
      BY <3>1
         DEF Next, Operate, BootStep, WriterStep, RefreshStep, Fault,
             Truncate, RebuildBegin, RebuildCommit, RebuildConflict,
             InsertPoints, ClearCount, ClearTruncate, Start, BootCount,
             BootSeed, Abandon, Crash, StopStep, Shutdown, ShutdownDone, vars
  <2>2. /\ \A w \in Writers :
             pc[w] = "idle" /\ wphase[w] = "idle" /\ todo[w] = {}
        /\ pc[Boot] = "done" /\ ~owed /\ ~owed'
    BY <2>1, NobodyCalls
       DEF Serve, Listening, ServedInv, IInv, BootOwesNothing
  <2>3. clusters' = features'
    BY <2>1, <2>2 DEF Serve, tables, ServedInv, IInv, BehindIsQueued,
                      BlankIsBrief, Actors, Refreshing
  <2>4. CASE entry'[k] = Nothing
    BY <2>3, <2>4 DEF Shown
  <2>5. CASE entry'[k] # Nothing
    <3>1. \A w \in Writers : ~Pending(w, k)'
      <4>1. \A w \in Writers : pc'[w] = "idle"
        BY <2>1, <2>2, BootAssumption
           DEF Serve, Goto, ServedInv, IInv, TypeOK, Actors
      <4>2. QED
        BY <4>1 DEF Pending, ServedInv, JointInv, SweepFollowsStatements
    <3>2. contents'[entry'[k]] = clusters'
      BY <2>5, <3>1 DEF ServedInv, JointInv, OldIsSwept, WillSweep,
                        Listening, Cache!Present
    <3>3. QED
      BY <2>3, <2>5, <3>2 DEF Shown
  <2>6. QED
    BY <2>4, <2>5
<1>2. QED
  BY <1>1, ServedInvariance, PTL DEF ServedSpec, FirstAnswersAreCurrent

(***************************************************************************)
(* A mutation that reports success after its refresh has put all points on *)
(* the map, or a later mutation that is queued will, whatever the handlers *)
(* and the cache do in between.                                            *)
(***************************************************************************)
THEOREM ServedSuccessIsVisible == ServedSpec => SuccessIsVisible
<1> DEFINE A == \A w \in Writers :
                  pc[w] = "inserting" /\ pc'[w] = "done" =>
                    \/ clusters' = features'
                    \/ owed'
                    \/ \E q \in Actors : pc'[q] = "truncate"
<1>1. ServedInv /\ [ServedNext]_servedVars => [A]_vars
  <2> SUFFICES ASSUME ServedInv, [ServedNext]_servedVars, NEW w \in Writers,
                      pc[w] = "inserting", pc'[w] = "done"
               PROVE  \/ clusters' = features'
                      \/ owed'
                      \/ \E q \in Actors : pc'[q] = "truncate"
    BY DEF A
  <2>1. [Next]_vars
    BY TablesStep DEF servedVars, vars
  <2>2. RebuildCommit(w)
    BY <2>1, BootAssumption
       DEF ServedInv, IInv, TypeOK, Next, Operate, BootStep, WriterStep,
           RefreshStep, Fault, Truncate, RebuildBegin, RebuildCommit,
           RebuildConflict, InsertPoints, ClearCount, ClearTruncate, Start,
           BootCount, BootSeed, Serve, Abandon, Crash, StopStep, Shutdown,
           ShutdownDone, vars, Goto, Actors, Resting
  <2>3. CASE snap[w] = features
    BY <2>2, <2>3 DEF RebuildCommit, ServedInv, IInv, NoPhantomClusters
  <2>4. CASE snap[w] # features
    BY <2>2, <2>4
       DEF RebuildCommit, ServedInv, IInv, TypeOK, OldSnapshotIsDoomed,
           Actors, Goto
  <2>5. QED
    BY <2>3, <2>4
<1>2. QED
  BY <1>1, ServedInvariance, PTL DEF ServedSpec, SuccessIsVisible

(***************************************************************************)
(* A viewport request that begins when a mutation has returned is answered *)
(* with what the mutation did, unless it hits a late key - also when other *)
(* mutations have lost the UNIQUE race and returned without a sweep.       *)
(***************************************************************************)
THEOREM AnswersFollowMutations == ServedSpec => []Cache!ReadAfterWrite
<1>1. ServedInv => Cache!ReadAfterWrite
  BY DEF ServedInv, CacheInv
<1>2. QED
  BY <1>1, ServedInvariance, PTL

=============================================================================
