------------------------ MODULE ViewportPolicy_proofs ------------------------
(***************************************************************************)
(* Proofs about ViewportPolicy, for every zoom, box and count.             *)
(***************************************************************************)
EXTENDS ViewportPolicy, TLAPS

(* The inductive invariant: the request and the count are what they are.   *)
TypeOK == zoom \in Zooms /\ box \in Boxes /\ count \in Counts

(* The CASE of the SQL on the count is the first switch of the Go function.*)
LEMMA CountBackoffAgrees ==
  ASSUME NEW c \in Int
  PROVE  CountBackoff(c) =
           IF c > 1200 THEN 6 ELSE IF c > 700 THEN 5 ELSE IF c > 350 THEN 4
           ELSE IF c > 180 THEN 3 ELSE IF c > 90 THEN 2
           ELSE IF c > 40 THEN 1 ELSE 0
BY DEF CountBackoff

(* The CASE of the SQL on the zoom is the second switch.                   *)
LEMMA ZoomBackoffAgrees ==
  ASSUME NEW z \in Int
  PROVE  ZoomBackoff(z) =
           IF z <= 4 THEN 3 ELSE IF z <= 7 THEN 2 ELSE IF z <= 10 THEN 1 ELSE 0
BY DEF ZoomBackoff

(***************************************************************************)
(* The level that the SQL query chooses and the one clusterZoomForCount    *)
(* returns are the same, for every zoom and every count.                   *)
(***************************************************************************)
THEOREM QueryAgreesWithFunction ==
  ASSUME NEW z \in Int, NEW c \in Int
  PROVE  EffectiveZoom(z, c) = ClusterZoomForCount(z, c)
BY CountBackoffAgrees, ZoomBackoffAgrees
   DEF EffectiveZoom, ClusterZoomForCount, Higher, Lower

(* Whatever a client asks for, the level that answers it is a stored one.  *)
LEMMA LevelType ==
  ASSUME NEW z \in Int, NEW c \in Int
  PROVE  Level(z, c) \in StoredZooms
BY CountBackoffAgrees, ZoomBackoffAgrees
   DEF Level, NormalZoom, EffectiveZoom, StoredZooms, Higher, Lower

(* More clusters, a coarser level.                                         *)
LEMMA LevelIsAntitone ==
  ASSUME NEW z \in Int, NEW c \in Int, NEW d \in Int, c <= d
  PROVE  Level(z, d) <= Level(z, c)
<1>1. CountBackoff(c) \in 0 .. 6 /\ CountBackoff(d) \in 0 .. 6
  BY CountBackoffAgrees
<1>2. CountBackoff(c) <= CountBackoff(d)
  BY CountBackoffAgrees
<1>3. NormalZoom(z) \in Int /\ ZoomBackoff(NormalZoom(z)) \in 0 .. 3
  BY ZoomBackoffAgrees DEF NormalZoom, Higher, Lower
<1>4. QED
  BY <1>1, <1>2, <1>3 DEF Level, EffectiveZoom, Higher, Lower

(* A coarser level has larger cells, but for the points' own level.        *)
LEMMA CellSizeIsAntitone ==
  ASSUME NEW y \in Int, NEW z \in Int, y <= z
  PROVE  CellSize(y) >= CellSize(z)
<1>1. \A x \in Int : CellSize(x) =
        IF x >= 15 THEN 0 ELSE IF x >= 13 THEN 700 ELSE IF x >= 11 THEN 2200
        ELSE IF x >= 9 THEN 8000 ELSE IF x >= 7 THEN 30000
        ELSE IF x >= 5 THEN 85000 ELSE 180000
  BY DEF CellSize
<1>2. QED
  BY <1>1

----------------------------------------------------------------------------
(* Requests and counts stay in their sets.                                 *)
LEMMA TypeCorrect == Spec => []TypeOK
<1>1. Init => TypeOK
  BY DEF Init, TypeOK
<1>2. TypeOK /\ [Next]_vars => TypeOK'
  BY DEF TypeOK, Next, Zoom, Populate, Deplete, vars
<1>3. QED
  BY <1>1, <1>2, PTL DEF Spec

(* Whatever the client and the points do, query and function agree.        *)
THEOREM QueryAlwaysAgrees == Spec => []SqlAgreesWithGo
<1>1. TypeOK => SqlAgreesWithGo
  BY QueryAgreesWithFunction, ZoomsAssumption, CountsAssumption
     DEF TypeOK, SqlAgreesWithGo
<1>2. QED
  BY <1>1, TypeCorrect, PTL

(* No request is ever answered from a level that is not computed.          *)
THEOREM LevelsAreStored == Spec => []LevelIsStored
<1>1. TypeOK => LevelIsStored
  BY LevelType, ZoomsAssumption, CountsAssumption DEF TypeOK, LevelIsStored
<1>2. QED
  BY <1>1, TypeCorrect, PTL

(* The envelope of the query is a box, and is normal.                      *)
THEOREM EnvelopesAreBoxes == Spec => []NormalBoxIsBox
<1>1. TypeOK => NormalBoxIsBox
  <2> SUFFICES ASSUME TypeOK PROVE NormalBoxIsBox
    OBVIOUS
  <2> DEFINE b == NormalBox(box)
  <2>1. /\ box.west \in Int /\ box.south \in Int
        /\ box.east \in Int /\ box.north \in Int
        /\ DOMAIN box = {"west", "south", "east", "north"}
    BY CoordinatesAssumption DEF TypeOK, Boxes
  <2>2. CASE \A corner \in DOMAIN box : box[corner] = 0
    <3>1. b = World
      BY <2>2 DEF NormalBox
    <3>2. NormalBox(World) = World
      BY DEF NormalBox, World, Lower, Higher
    <3>3. QED
      BY <3>1, <3>2 DEF NormalBoxIsBox, World
  <2>3. CASE ~ \A corner \in DOMAIN box : box[corner] = 0
    <3>1. b = [west  |-> Lower(box.west, box.east),
               south |-> Lower(box.south, box.north),
               east  |-> Higher(box.west, box.east),
               north |-> Higher(box.south, box.north)]
      BY <2>3 DEF NormalBox
    <3>2. b.west <= b.east /\ b.south <= b.north
      BY <2>1, <3>1 DEF Lower, Higher
    <3>3. box.west # 0 \/ box.south # 0 \/ box.east # 0 \/ box.north # 0
      BY <2>1, <2>3
    <3>4. b.west # 0 \/ b.south # 0 \/ b.east # 0 \/ b.north # 0
      BY <2>1, <3>1, <3>3 DEF Lower, Higher
    <3>5. NormalBox(b) = b
      <4>1. b.west \in Int /\ b.south \in Int /\ b.east \in Int /\ b.north \in Int
        BY <2>1, <3>1 DEF Lower, Higher
      <4>2. ~ \A corner \in DOMAIN b : b[corner] = 0
        BY <3>1, <3>4
      <4>3. NormalBox(b) = [west  |-> Lower(b.west, b.east),
                            south |-> Lower(b.south, b.north),
                            east  |-> Higher(b.west, b.east),
                            north |-> Higher(b.south, b.north)]
        BY <4>2 DEF NormalBox
      <4>4. /\ Lower(b.west, b.east) = b.west
            /\ Lower(b.south, b.north) = b.south
            /\ Higher(b.west, b.east) = b.east
            /\ Higher(b.south, b.north) = b.north
        BY <3>2, <4>1 DEF Lower, Higher
      <4>5. QED
        BY <3>1, <4>3, <4>4
    <3>6. QED
      BY <3>2, <3>5 DEF NormalBoxIsBox
  <2>4. QED
    BY <2>2, <2>3
<1>2. QED
  BY <1>1, TypeCorrect, PTL

(* When clusters crowd a viewport, its cells do not get smaller.           *)
THEOREM CrowdsAreNeverFiner == Spec => CrowdsAreCoarser
<1> DEFINE A == zoom' = zoom /\ count' >= count =>
                  CellSize(Level(zoom', count')) >= CellSize(Level(zoom, count))
<1>1. TypeOK /\ TypeOK' => A
  <2> SUFFICES ASSUME TypeOK, TypeOK', zoom' = zoom, count' >= count
               PROVE  CellSize(Level(zoom, count'))
                        >= CellSize(Level(zoom, count))
    OBVIOUS
  <2>1. zoom \in Int /\ count \in Int /\ count' \in Int
    BY ZoomsAssumption, CountsAssumption DEF TypeOK
  <2>2. Level(zoom, count') <= Level(zoom, count)
    BY <2>1, LevelIsAntitone
  <2>3. Level(zoom, count') \in Int /\ Level(zoom, count) \in Int
    BY <2>1, LevelType DEF StoredZooms
  <2>4. QED
    BY <2>2, <2>3, CellSizeIsAntitone
<1>2. QED
  BY <1>1, TypeCorrect, PTL DEF Spec, CrowdsAreCoarser
============================================================================
