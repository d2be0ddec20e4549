------------------------ MODULE ClusterTables_proofs ------------------------
(***************************************************************************)
(* Proofs about ClusterTables, for every set of requests, every set of     *)
(* points and any number of faults.                                        *)
(***************************************************************************)
EXTENDS ClusterTables, TLAPS

(* Only a booting server runs EnsureSchema, only one that listens, or that *)
(* waits for the last answers, a request.                                  *)
BootIsAlone ==
  /\ server # "booting" => pc[Boot] = "idle"
  /\ server \notin {"up", "stopping"} => \A w \in Writers : pc[w] = "idle"

(* An actor holds a snapshot only while its INSERT runs, of stored points. *)
SnapshotsStored ==
  \A p \in Actors :
    /\ snap[p] \subseteq features
    /\ pc[p] # "inserting" => snap[p] = {}

(* Nothing is abandoned between the TRUNCATE of a boot and its end.        *)
BootOwesNothing == pc[Boot] \in {"rebuild", "inserting", "done"} => ~owed

(* The inductive invariant.                                                *)
IInv ==
  /\ TypeOK
  /\ BootIsAlone
  /\ SnapshotsStored
  /\ BootOwesNothing
  /\ NoPhantomClusters
  /\ BehindIsQueued
  /\ BlankIsBrief
  /\ OldSnapshotIsDoomed

----------------------------------------------------------------------------
(* A fresh process on an empty database satisfies the invariant.           *)
LEMMA InitIInv == Init => IInv
<1> SUFFICES ASSUME Init PROVE IInv
  OBVIOUS
<1>1. TypeOK
  <2>1. pc \in [Actors -> Phases]
    BY DEF Init, Phases, Resting
  <2>2. snap \in [Actors -> SUBSET Points]
    BY DEF Init
  <2>3. faults \in 0 .. MaxFaults
    BY FaultsAssumption DEF Init
  <2>4. QED
    BY <2>1, <2>2, <2>3 DEF Init, TypeOK
<1>2. BootIsAlone /\ SnapshotsStored /\ BootOwesNothing
  BY DEF Init, BootIsAlone, SnapshotsStored, BootOwesNothing, Actors
<1>3. NoPhantomClusters /\ BehindIsQueued /\ BlankIsBrief
  BY DEF Init, NoPhantomClusters, BehindIsQueued, BlankIsBrief
<1>4. OldSnapshotIsDoomed
  BY DEF Init, OldSnapshotIsDoomed
<1>5. QED
  BY <1>1, <1>2, <1>3, <1>4 DEF IInv

(* Every statement keeps the variables in their types.                     *)
LEMMA TypeStep == TypeOK /\ [Next]_vars => TypeOK'
<1> SUFFICES ASSUME TypeOK, [Next]_vars PROVE TypeOK'
  OBVIOUS
<1> USE DEF TypeOK, Actors, Phases, Refreshing, Resting, Goto, tables
<1>1. ASSUME NEW p \in Actors, Truncate(p) PROVE TypeOK'
  BY <1>1 DEF Truncate
<1>2. ASSUME NEW p \in Actors, RebuildBegin(p) PROVE TypeOK'
  BY <1>2 DEF RebuildBegin
<1>3. ASSUME NEW p \in Actors, RebuildCommit(p) PROVE TypeOK'
  BY <1>3 DEF RebuildCommit
<1>4. ASSUME NEW p \in Actors, RebuildConflict(p) PROVE TypeOK'
  BY <1>4 DEF RebuildConflict
<1>5. ASSUME NEW w \in Writers, NEW S \in SUBSET (Points \ features),
             InsertPoints(w, S)
      PROVE  TypeOK'
  BY <1>5 DEF InsertPoints
<1>6. ASSUME NEW w \in Writers, ClearCount(w) PROVE TypeOK'
  BY <1>6 DEF ClearCount
<1>7. ASSUME NEW w \in Writers, ClearTruncate(w) PROVE TypeOK'
  BY <1>7 DEF ClearTruncate
<1>8. CASE Start
  BY <1>8 DEF Start
<1>9. CASE BootCount
  BY <1>9 DEF BootCount
<1>10. CASE BootSeed
  BY <1>10, SeedAssumption DEF BootSeed
<1>11. CASE Serve
  BY <1>11 DEF Serve
<1>12. ASSUME NEW w \in Writers, Abandon(w) PROVE TypeOK'
  BY <1>12, FaultsAssumption DEF Abandon
<1>13. CASE Crash
  BY <1>13, FaultsAssumption DEF Crash
<1>14. CASE StopStep
  BY <1>14 DEF StopStep, Shutdown, ShutdownDone
<1>15. CASE UNCHANGED vars
  BY <1>15 DEF vars
<1>16. QED
  BY <1>1, <1>2, <1>3, <1>4, <1>5, <1>6, <1>7, <1>8, <1>9, <1>10, <1>11,
     <1>12, <1>13, <1>14, <1>15
     DEF Next, Operate, BootStep, WriterStep, RefreshStep, Fault

(* Every statement keeps the relation between the tables and the actors.   *)
LEMMA IInvStep == IInv /\ [Next]_vars => IInv'
<1> SUFFICES ASSUME IInv, [Next]_vars PROVE IInv'
  OBVIOUS
<1>0. TypeOK'
  BY TypeStep DEF IInv
<1> DEFINE Control == BootIsAlone /\ SnapshotsStored /\ BootOwesNothing
           Tables  == /\ NoPhantomClusters
                      /\ BehindIsQueued
                      /\ BlankIsBrief
                      /\ OldSnapshotIsDoomed
<1>t. TypeOK /\ Control /\ Tables
  BY DEF IInv
<1> USE DEF Actors, Refreshing, Resting, Goto, tables
<1>1. ASSUME NEW p \in Actors, Truncate(p) PROVE Control' /\ Tables'
  <2>1. Control'
    BY <1>1, <1>t, BootAssumption
       DEF Truncate, TypeOK, BootIsAlone, SnapshotsStored, BootOwesNothing
  <2>2. NoPhantomClusters' /\ BehindIsQueued'
    BY <1>1 DEF Truncate, NoPhantomClusters, BehindIsQueued
  <2>3. BlankIsBrief'
    BY <1>1, <1>t DEF Truncate, TypeOK, BlankIsBrief
  <2>4. OldSnapshotIsDoomed'
    BY <1>1, <1>t DEF Truncate, TypeOK, TablesUnlocked, OldSnapshotIsDoomed
  <2>5. QED
    BY <2>1, <2>2, <2>3, <2>4
<1>2. ASSUME NEW p \in Actors, RebuildBegin(p) PROVE Control' /\ Tables'
  <2>1. Control'
    BY <1>2, <1>t, BootAssumption
       DEF RebuildBegin, TypeOK, BootIsAlone, SnapshotsStored, BootOwesNothing
  <2>2. \A q \in Actors : pc[q] = "truncate" => pc'[q] = "truncate"
    BY <1>2, <1>t DEF RebuildBegin, TypeOK
  <2>3. NoPhantomClusters' /\ BehindIsQueued'
    BY <1>2, <1>t, <2>2 DEF RebuildBegin, NoPhantomClusters, BehindIsQueued
  <2>4. BlankIsBrief'
    BY <1>2, <1>t DEF RebuildBegin, TypeOK, BlankIsBrief
  <2>5. OldSnapshotIsDoomed'
    BY <1>2, <1>t, <2>2 DEF RebuildBegin, TypeOK, OldSnapshotIsDoomed
  <2>6. QED
    BY <2>1, <2>3, <2>4, <2>5
<1>3. ASSUME NEW p \in Actors, RebuildCommit(p) PROVE Control' /\ Tables'
  <2>1. Control'
    BY <1>3, <1>t, BootAssumption
       DEF RebuildCommit, TypeOK, BootIsAlone, SnapshotsStored, BootOwesNothing
  <2>2. \A q \in Actors : pc[q] = "truncate" => pc'[q] = "truncate"
    BY <1>3, <1>t DEF RebuildCommit, TypeOK
  <2>3. NoPhantomClusters'
    BY <1>3, <1>t DEF RebuildCommit, NoPhantomClusters, SnapshotsStored
  <2>4. CASE snap[p] = features
    (* The committed rows met none of this INSERT's, so there were none.   *)
    <3>1. clusters' = features /\ features' = features
      BY <1>3, <1>t, <2>4 DEF RebuildCommit, NoPhantomClusters
    <3>2. OldSnapshotIsDoomed'
      BY <1>3, <1>t, <2>2 DEF RebuildCommit, TypeOK, OldSnapshotIsDoomed
    <3>3. QED
      BY <2>1, <2>3, <3>1, <3>2 DEF BehindIsQueued, BlankIsBrief
  <2>5. CASE snap[p] # features
    <3>1. owed' \/ \E q \in Actors : pc'[q] = "truncate"
      BY <1>3, <1>t, <2>2, <2>5 DEF RebuildCommit, OldSnapshotIsDoomed
    <3>2. QED
      BY <2>1, <2>3, <3>1
         DEF BehindIsQueued, BlankIsBrief, OldSnapshotIsDoomed
  <2>6. QED
    BY <2>4, <2>5
<1>4. ASSUME NEW p \in Actors, RebuildConflict(p) PROVE Control' /\ Tables'
  <2>1. Control'
    BY <1>4, <1>t, BootAssumption
       DEF RebuildConflict, TypeOK, BootIsAlone, SnapshotsStored,
           BootOwesNothing
  <2>2. \A q \in Actors \ {p} : pc'[q] = pc[q]
    BY <1>4, <1>t DEF RebuildConflict, TypeOK
  <2>3. \A q \in Actors : pc[q] = "truncate" => pc'[q] = "truncate"
    BY <1>4, <2>2 DEF RebuildConflict
  <2>4. NoPhantomClusters' /\ BehindIsQueued'
    BY <1>4, <1>t, <2>3 DEF RebuildConflict, NoPhantomClusters, BehindIsQueued
  <2>5. BlankIsBrief'
    BY <1>4, <2>2 DEF RebuildConflict, Collides, BlankIsBrief
  <2>6. OldSnapshotIsDoomed'
    BY <1>4, <1>t, <2>3 DEF RebuildConflict, TypeOK, OldSnapshotIsDoomed
  <2>7. QED
    BY <2>1, <2>4, <2>5, <2>6
<1>5. ASSUME NEW w \in Writers, NEW S \in SUBSET (Points \ features),
             InsertPoints(w, S)
      PROVE  Control' /\ Tables'
  <2>1. pc'[w] = "truncate"
    BY <1>5, <1>t DEF InsertPoints, TypeOK
  <2>2. BehindIsQueued' /\ BlankIsBrief' /\ OldSnapshotIsDoomed'
    BY <2>1 DEF BehindIsQueued, BlankIsBrief, OldSnapshotIsDoomed
  <2>3. NoPhantomClusters'
    BY <1>5, <1>t DEF InsertPoints, NoPhantomClusters
  <2>4. Control'
    BY <1>5, <1>t, BootAssumption
       DEF InsertPoints, TypeOK, BootIsAlone, SnapshotsStored, BootOwesNothing
  <2>5. QED
    BY <2>2, <2>3, <2>4
<1> USE BootAssumption, <1>t
    DEF TypeOK, BootIsAlone, SnapshotsStored, BootOwesNothing,
        NoPhantomClusters, BehindIsQueued, BlankIsBrief, OldSnapshotIsDoomed
<1>6. ASSUME NEW w \in Writers, ClearCount(w) PROVE Control' /\ Tables'
  BY <1>6 DEF ClearCount
<1>7. ASSUME NEW w \in Writers, ClearTruncate(w) PROVE Control' /\ Tables'
  BY <1>7 DEF ClearTruncate, TablesUnlocked
<1>8. CASE Start
  BY <1>0, <1>8 DEF Start, IInv
<1>9. CASE BootCount
  BY <1>0, <1>9 DEF BootCount, IInv
<1>10. CASE BootSeed
  BY <1>0, <1>10 DEF BootSeed, IInv
<1>11. CASE Serve
  BY <1>0, <1>11 DEF Serve, IInv
<1>12. ASSUME NEW w \in Writers, Abandon(w) PROVE Control' /\ Tables'
  BY <1>12 DEF Abandon
<1>13. CASE Crash
  BY <1>0, <1>13 DEF Crash, IInv
<1>14. CASE Shutdown
  BY <1>0, <1>14 DEF Shutdown, IInv
<1>15. CASE ShutdownDone
  (* Every request rests, so no snapshot is held and nothing is queued.    *)
  <2>1. /\ \A p \in Actors : pc[p] \in Resting /\ pc'[p] = "idle"
        /\ UNCHANGED <<tables, snap, owed, faults>> /\ server' = "down"
    BY <1>15 DEF ShutdownDone
  <2>2. clusters = features \/ owed
    BY <2>1
  <2>3. QED
    BY <1>0, <2>1, <2>2 DEF IInv
<1>16. CASE UNCHANGED vars
  BY <1>0, <1>16 DEF vars, IInv
<1>17. QED
  BY <1>0, <1>1, <1>2, <1>3, <1>4, <1>5, <1>6, <1>7, <1>8, <1>9, <1>10, <1>11,
     <1>12, <1>13, <1>14, <1>15, <1>16
     DEF StopStep, Next, Operate, BootStep, WriterStep, RefreshStep, Fault, IInv

(* The invariant holds in every reachable state, faults included.          *)
THEOREM Invariance == Safety => []IInv
BY InitIInv, IInvStep, PTL DEF Safety

(* The tables, the actors and the history have the types declared.         *)
THEOREM TypeCorrect == Safety => []TypeOK
<1>1. IInv => TypeOK
  BY DEF IInv
<1>2. QED
  BY <1>1, Invariance, PTL

----------------------------------------------------------------------------
(***************************************************************************)
(* No refresh, however it is interleaved with clears and inserts, puts     *)
(* clusters of points on the map that are not stored.                      *)
(***************************************************************************)
THEOREM ClustersAreOfStoredPoints == Safety => []NoPhantomClusters
<1>1. IInv => NoPhantomClusters
  BY DEF IInv
<1>2. QED
  BY <1>1, Invariance, PTL

(***************************************************************************)
(* Clusters of an older set of points are served only while a refresh that *)
(* will truncate them is queued, or one was abandoned.                     *)
(***************************************************************************)
THEOREM OldClustersAreQueued == Safety => []BehindIsQueued
<1>1. IInv => BehindIsQueued
  BY DEF IInv
<1>2. QED
  BY <1>1, Invariance, PTL

(***************************************************************************)
(* The map is blank while points exist only as long as a refresh runs, or  *)
(* after one was abandoned.                                                *)
(***************************************************************************)
THEOREM BlankMapIsBrief == Safety => []BlankIsBrief
<1>1. IInv => BlankIsBrief
  BY DEF IInv
<1>2. QED
  BY <1>1, Invariance, PTL

(***************************************************************************)
(* An INSERT that runs on an old snapshot has a TRUNCATE waiting for it.   *)
(***************************************************************************)
THEOREM OldSnapshotsAreTruncated == Safety => []OldSnapshotIsDoomed
<1>1. IInv => OldSnapshotIsDoomed
  BY DEF IInv
<1>2. QED
  BY <1>1, Invariance, PTL

(***************************************************************************)
(* A server that is stopped leaves the clusters of the stored points,      *)
(* however many mutations SIGTERM finds half way: Shutdown waits for them, *)
(* and those that finished or lost the UNIQUE race left nothing to do.     *)
(***************************************************************************)
THEOREM StopsCleanly == Safety => StopLeavesRefreshed
<1> DEFINE A == server = "stopping" /\ server' = "down" /\ faults' = faults =>
                  owed \/ clusters' = features'
<1>1. IInv /\ [Next]_vars => [A]_vars
  <2> SUFFICES ASSUME IInv, [Next]_vars, ~owed, faults' = faults,
                      server = "stopping", server' = "down"
               PROVE  clusters' = features'
    OBVIOUS
  <2>1. ~Crash
    BY FaultsAssumption DEF Crash, IInv, TypeOK
  <2>2. ShutdownDone
    BY <2>1 DEF Next, Operate, BootStep, WriterStep, RefreshStep, Fault,
                Truncate, RebuildBegin, RebuildCommit, RebuildConflict,
                InsertPoints, ClearCount, ClearTruncate, Start, BootCount,
                BootSeed, Serve, Abandon, StopStep, Shutdown, vars
  <2>3. \A p \in Actors : pc[p] \notin Refreshing
    BY <2>2 DEF ShutdownDone, IInv, BootIsAlone, Actors, Refreshing, Resting
  <2>4. clusters = features
    BY <2>3 DEF IInv, BehindIsQueued, BlankIsBrief, Refreshing
  <2>5. QED
    BY <2>2, <2>4 DEF ShutdownDone, tables
<1>2. QED
  BY <1>1, Invariance, PTL DEF Safety, StopLeavesRefreshed

(***************************************************************************)
(* Once no refresh is under way, and none was abandoned, the clusters are  *)
(* those of the stored points: losing the UNIQUE race costs a request its  *)
(* answer and never the map its clusters.                                  *)
(***************************************************************************)
THEOREM RefreshConverges == Safety => []RefreshedAtRest
<1>1. IInv => RefreshedAtRest
  BY DEF IInv, BehindIsQueued, BlankIsBrief, RefreshedAtRest, AtRest,
         Refreshing
<1>2. QED
  BY <1>1, Invariance, PTL

(***************************************************************************)
(* Whatever state a crash or an abandoned refresh left the tables in,      *)
(* EnsureSchema rebuilds the clusters before the server listens.           *)
(***************************************************************************)
THEOREM BootRepairs == Safety => ServesRefreshed
<1> DEFINE A == server = "booting" /\ server' = "up" => clusters' = features'
<1>1. IInv /\ [Next]_vars => [A]_vars
  <2> SUFFICES ASSUME IInv, [Next]_vars, server = "booting", server' = "up"
               PROVE  clusters' = features'
    OBVIOUS
  <2>1. Serve
    BY DEF Next, Operate, BootStep, WriterStep, RefreshStep, Fault, Truncate,
           RebuildBegin, RebuildCommit, RebuildConflict, InsertPoints,
           ClearCount, ClearTruncate, Start, BootCount, BootSeed, Abandon,
           Crash, StopStep, Shutdown, ShutdownDone, vars
  <2>2. pc[Boot] = "done" /\ ~owed /\ \A w \in Writers : pc[w] = "idle"
    BY <2>1 DEF Serve, IInv, BootIsAlone, BootOwesNothing
  <2>3. \A p \in Actors : pc[p] \notin Refreshing
    BY <2>2 DEF Actors, Refreshing
  <2>4. clusters = features
    BY <2>2, <2>3 DEF IInv, BehindIsQueued, BlankIsBrief, Refreshing
  <2>5. QED
    BY <2>1, <2>4 DEF Serve, tables
<1>2. QED
  BY <1>1, Invariance, PTL DEF Safety, ServesRefreshed

(***************************************************************************)
(* A mutation that ends its refresh with success leaves no stored point    *)
(* out of the clusters, unless a later mutation's refresh is queued or one *)
(* was abandoned.                                                          *)
(***************************************************************************)
THEOREM SuccessfulMutationsAreVisible == Safety => SuccessIsVisible
<1> DEFINE A == \A w \in Writers :
                  pc[w] = "inserting" /\ pc'[w] = "done" =>
                    \/ clusters' = features'
                    \/ owed'
                    \/ \E q \in Actors : pc'[q] = "truncate"
<1>1. IInv /\ IInv' /\ [Next]_vars => [A]_vars
  <2> SUFFICES ASSUME IInv, IInv', [Next]_vars, NEW w \in Writers,
                      pc[w] = "inserting", pc'[w] = "done"
               PROVE  \/ clusters' = features'
                      \/ owed'
                      \/ \E q \in Actors : pc'[q] = "truncate"
    BY DEF A
  <2>1. RebuildCommit(w)
    BY BootAssumption
       DEF IInv, TypeOK, Next, Operate, BootStep, WriterStep, RefreshStep,
           Fault, Truncate, RebuildBegin, RebuildCommit, RebuildConflict,
           InsertPoints, ClearCount, ClearTruncate, Start, BootCount,
           BootSeed, Serve, Abandon, Crash, StopStep, Shutdown,
           ShutdownDone, vars, Goto, Actors, Resting
  <2>2. CASE snap[w] = features
    BY <2>1, <2>2 DEF RebuildCommit, IInv, NoPhantomClusters
  <2>3. CASE snap[w] # features
    BY <2>1, <2>3
       DEF RebuildCommit, IInv, TypeOK, OldSnapshotIsDoomed, Actors, Goto
  <2>4. QED
    BY <2>2, <2>3
<1>2. QED
  BY <1>1, Invariance, PTL DEF Safety, SuccessIsVisible

----------------------------------------------------------------------------
(* The boot has the tables for itself, and what it inserts is new.         *)
BootIsUndisturbed ==
  /\ server = "booting" => pc[Boot] \in Refreshing \cup {"count", "seed", "done"}
  /\ pc[Boot] \in {"rebuild", "inserting"} => clusters = {}

(* A statement of EnsureSchema that has begun, or is next, goes through.   *)
BootGoesThrough ==
  server = "booting" =>
    \/ pc[Boot] \in {"count", "seed", "rebuild", "done"}
    \/ pc[Boot] = "truncate" /\ TablesUnlocked
    \/ pc[Boot] = "inserting" /\ ~Collides(Boot)

(* While the boot runs no request does.                                    *)
LEMMA BootHasTheTables ==
  ASSUME IInv, BootIsUndisturbed, pc[Boot] # "idle"
  PROVE  /\ server = "booting"
         /\ \A w \in Writers : pc[w] = "idle"
         /\ pc[Boot] = "inserting" => ~Collides(Boot)
<1>1. server = "booting" /\ \A w \in Writers : pc[w] = "idle"
  BY DEF IInv, BootIsAlone
<1>2. \A q \in Actors \ {Boot} : q \in Writers
  BY DEF Actors
<1>3. QED
  BY <1>1, <1>2 DEF BootIsUndisturbed, Collides

LEMMA UndisturbedStep ==
  IInv /\ BootIsUndisturbed /\ [Next]_vars => BootIsUndisturbed'
<1> SUFFICES ASSUME IInv, BootIsUndisturbed, [Next]_vars
             PROVE  BootIsUndisturbed'
  OBVIOUS
<1> USE BootAssumption DEF Goto, tables
<1>t. TypeOK /\ BootIsAlone
  BY DEF IInv
<1>b. Boot \in Actors /\ \A w \in Writers : w \in Actors /\ w # Boot
  BY DEF Actors
<1>1. ASSUME NEW w \in Writers, WriterStep(w) \/ Abandon(w)
      PROVE  BootIsUndisturbed'
  <2>1. pc'[Boot] = pc[Boot] /\ server' = server
    BY <1>1, <1>t, <1>b
       DEF TypeOK, WriterStep, InsertPoints, ClearCount, ClearTruncate,
           RefreshStep, Truncate, RebuildBegin, RebuildCommit,
           RebuildConflict, Abandon
  <2>2. server \in {"up", "stopping"}
    BY <1>1, <1>t
       DEF BootIsAlone, WriterStep, InsertPoints, ClearCount, ClearTruncate,
           RefreshStep, Truncate, RebuildBegin, RebuildCommit,
           RebuildConflict, Abandon, Refreshing
  <2>3. pc[Boot] = "idle"
    BY <2>2, <1>t DEF BootIsAlone
  <2>4. QED
    BY <2>1, <2>2, <2>3 DEF BootIsUndisturbed
<1>2. CASE Start \/ BootCount \/ BootSeed \/ Serve
  BY <1>2, <1>t, <1>b
     DEF Start, BootCount, BootSeed, Serve, TypeOK, BootIsUndisturbed,
         Refreshing
<1>3. CASE RefreshStep(Boot)
  <2>1. ~RebuildConflict(Boot)
    BY BootHasTheTables DEF RebuildConflict
  <2>2. Truncate(Boot) \/ RebuildBegin(Boot) => BootIsUndisturbed'
    BY <1>t, <1>b DEF Truncate, RebuildBegin, TypeOK, BootIsUndisturbed,
                      Refreshing
  <2>3. RebuildCommit(Boot) => BootIsUndisturbed'
    BY <1>t, <1>b DEF RebuildCommit, TypeOK, BootIsUndisturbed
  <2>4. QED
    BY <1>3, <2>1, <2>2, <2>3 DEF RefreshStep
<1>4. CASE StopStep \/ Crash
  BY <1>4, <1>t, <1>b
     DEF StopStep, Shutdown, ShutdownDone, Crash, BootIsAlone,
         BootIsUndisturbed
<1>5. CASE UNCHANGED vars
  BY <1>5 DEF vars, BootIsUndisturbed
<1>6. QED
  BY <1>1, <1>2, <1>3, <1>4, <1>5 DEF Next, Operate, BootStep, Fault

(***************************************************************************)
(* The safety half of ServerRecovers: whatever crashes and abandoned       *)
(* refreshes have left in the tables, no statement of EnsureSchema waits   *)
(* for a lock or fails on the UNIQUE constraint, because nothing runs      *)
(* beside it: a server that boots can only come up, or be killed.          *)
(***************************************************************************)
THEOREM BootsGoThrough == Safety => []BootGoesThrough
<1>1. Init => BootIsUndisturbed
  BY DEF Init, BootIsUndisturbed, Actors
<1>2. ASSUME IInv, BootIsUndisturbed PROVE BootGoesThrough
  <2> SUFFICES ASSUME server = "booting" PROVE BootGoesThrough
    BY DEF BootGoesThrough
  <2>1. pc[Boot] # "idle"
    BY <1>2 DEF BootIsUndisturbed, Refreshing
  <2>2. \A w \in Writers : pc[w] = "idle"
    BY <1>2, <2>1, BootHasTheTables
  <2>3. pc[Boot] = "truncate" => TablesUnlocked
    BY <2>2 DEF TablesUnlocked, Actors
  <2>4. pc[Boot] = "inserting" => ~Collides(Boot)
    BY <1>2, <2>1, BootHasTheTables
  <2>5. QED
    BY <1>2, <2>3, <2>4 DEF BootIsUndisturbed, BootGoesThrough, Refreshing
<1>3. IInv /\ BootIsUndisturbed => BootGoesThrough
  BY <1>2
<1>4. QED
  BY <1>1, <1>3, UndisturbedStep, Invariance, PTL DEF Safety
----------------------------------------------------------------------------
(* A request's next statement can be executed now: an INSERT that runs can *)
(* commit or fail, a TRUNCATE needs the tables to itself.                  *)
Executable(p) ==
  \/ pc[p] = "rebuild"
  \/ pc[p] = "inserting" /\ (clusters \cap snap[p] = {} \/ Collides(p))
  \/ pc[p] \in {"truncate", "clear"} /\ TablesUnlocked

(* How many statements a request is from its end at most.                  *)
StatementsLeft(w) ==
  IF pc[w] = "truncate" THEN 3
  ELSE IF pc[w] = "rebuild" THEN 2
  ELSE IF pc[w] \in {"inserting", "clear"} THEN 1 ELSE 0

(* Requests do not run the statements of EnsureSchema.                     *)
RequestPhases == \A w \in Writers : pc[w] \notin {"count", "seed"}

LEMMA RequestPhasesStep ==
  TypeOK /\ RequestPhases /\ [Next]_vars => RequestPhases'
<1> SUFFICES ASSUME TypeOK, RequestPhases, [Next]_vars, NEW w \in Writers
             PROVE  pc'[w] \notin {"count", "seed"}
  BY DEF RequestPhases
<1> USE DEF Goto
<1>b. /\ Boot \in Actors /\ w \in Actors /\ w # Boot
      /\ pc[w] \notin {"count", "seed"} /\ \A v \in Writers : v \in Actors
  BY BootAssumption DEF Actors, RequestPhases
<1>1. ASSUME NEW p \in Actors, RefreshStep(p)
      PROVE  pc'[w] \notin {"count", "seed"}
  BY <1>1, <1>b DEF TypeOK, RefreshStep, Truncate, RebuildBegin,
                    RebuildCommit, RebuildConflict
<1>2. ASSUME NEW v \in Writers, WriterStep(v) \/ Abandon(v)
      PROVE  pc'[w] \notin {"count", "seed"}
  BY <1>1, <1>2, <1>b DEF TypeOK, WriterStep, InsertPoints, ClearCount,
                          ClearTruncate, Abandon
<1>3. CASE BootStep
  BY <1>1, <1>3, <1>b DEF TypeOK, BootStep, Start, BootCount, BootSeed, Serve
<1>4. CASE StopStep \/ Crash
  BY <1>4, <1>b DEF StopStep, Shutdown, ShutdownDone, Crash
<1>5. CASE UNCHANGED vars
  BY <1>5, <1>b DEF vars
<1>6. QED
  BY <1>2, <1>3, <1>4, <1>5 DEF Next, Operate, Fault

(* A request that is under way goes on or ends, and never back.            *)
LEMMA StatementsLeftStep ==
  ASSUME TypeOK, RequestPhases, [Next]_vars, NEW w \in Writers,
         pc[w] \notin Resting, pc'[w] # pc[w]
  PROVE  StatementsLeft(w)' < StatementsLeft(w)
<1> USE DEF Goto
<1>b. Boot \in Actors /\ w # Boot /\ \A v \in Writers : v \in Actors
  BY BootAssumption DEF Actors
<1>p. pc[w] \in Refreshing \cup {"clear"}
  BY <1>b DEF TypeOK, RequestPhases, Phases
<1>1. ~BootStep
  BY <1>b DEF TypeOK, BootStep, Start, BootCount, BootSeed, Serve,
              RefreshStep, Truncate, RebuildBegin, RebuildCommit,
              RebuildConflict
<1>2. \A v \in Writers \ {w} : ~WriterStep(v) /\ ~Abandon(v)
  BY <1>b DEF TypeOK, WriterStep, InsertPoints, ClearCount, ClearTruncate,
              RefreshStep, Truncate, RebuildBegin, RebuildCommit,
              RebuildConflict, Abandon
<1>3. ~StopStep
  BY DEF StopStep, Shutdown, ShutdownDone
<1>4. CASE WriterStep(w)
  <2>1. \/ pc[w] = "truncate" /\ pc'[w] = "rebuild"
        \/ pc[w] = "rebuild" /\ pc'[w] = "inserting"
        \/ pc[w] \in {"inserting", "clear"} /\ pc'[w] \in {"done", "failed"}
    BY <1>4, <1>b DEF TypeOK, WriterStep, InsertPoints, ClearCount,
                      ClearTruncate, RefreshStep, Truncate, RebuildBegin,
                      RebuildCommit, RebuildConflict
  <2>2. QED
    BY <2>1 DEF StatementsLeft
<1>5. CASE Abandon(w) \/ Crash
  <2>1. pc'[w] \in {"idle", "failed"}
    BY <1>5, <1>b DEF TypeOK, Abandon, Crash
  <2>2. QED
    BY <2>1, <1>p DEF StatementsLeft, Refreshing
<1>6. QED
  BY <1>1, <1>2, <1>3, <1>4, <1>5 DEF Next, Operate, Fault, vars

(***************************************************************************)
(* MutationsFinish but for the fairness.  The locks make no circle: where  *)
(* a request cannot go on another's INSERT runs, which can end, and which  *)
(* waits for nobody.  And a request under way has at most three statements *)
(* to go, fewer after each, whatever the others do: only the queue for the *)
(* lock of a TRUNCATE remains, that it is not overtaken for ever.          *)
(***************************************************************************)
THEOREM MutationsRunOut ==
  Safety =>
    /\ [](\A w \in Writers :
            pc[w] \notin Resting /\ ~Executable(w) =>
              \E p \in Actors \ {w} : pc[p] = "inserting" /\ Executable(p))
    /\ [][\A w \in Writers :
            pc[w] \notin Resting /\ pc'[w] # pc[w] =>
              StatementsLeft(w)' < StatementsLeft(w)]_vars
<1>1. Init => RequestPhases
  BY DEF Init, RequestPhases, Actors
<1>2. ASSUME IInv, RequestPhases, NEW w \in Writers, pc[w] \notin Resting,
             ~Executable(w)
      PROVE  \E p \in Actors \ {w} : pc[p] = "inserting" /\ Executable(p)
  <2>1. ASSUME NEW p \in Actors, pc[p] = "inserting" PROVE Executable(p)
    BY <2>1 DEF Executable, Collides
  <2>2. w \in Actors /\ pc[w] \in {"truncate", "clear"} /\ ~TablesUnlocked
    BY <1>2, <2>1 DEF Executable, Actors, IInv, TypeOK, Phases, Refreshing,
                      RequestPhases
  <2>3. QED
    BY <2>1, <2>2 DEF TablesUnlocked
<1>3. IInv /\ RequestPhases =>
        \A w \in Writers :
          pc[w] \notin Resting /\ ~Executable(w) =>
            \E p \in Actors \ {w} : pc[p] = "inserting" /\ Executable(p)
  BY <1>2
<1>4. IInv => TypeOK
  BY DEF IInv
<1>5. TypeOK /\ RequestPhases /\ [Next]_vars =>
        [\A w \in Writers :
           pc[w] \notin Resting /\ pc'[w] # pc[w] =>
             StatementsLeft(w)' < StatementsLeft(w)]_vars
  BY StatementsLeftStep
<1>6. QED
  BY <1>1, <1>3, <1>4, <1>5, RequestPhasesStep, Invariance, PTL DEF Safety
============================================================================
