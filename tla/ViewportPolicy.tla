--------------------------- MODULE ViewportPolicy ---------------------------
(***************************************************************************)
(* Which stored clusters answer a viewport: normalizeViewport of           *)
(* backend/internal/service/map_service.go, the effective zoom that        *)
(* ListViewportFeatures of backend/internal/repository/map_repository.go   *)
(* computes in SQL, clusterZoomForCount, its copy in Go, and the cell      *)
(* sizes of RefreshClusters in backend/internal/db/postgres.go.            *)
(*                                                                         *)
(* A client pans and zooms and points come and go; `count` is the number   *)
(* of rows of the requested zoom level that are in the box.                *)
(***************************************************************************)
EXTENDS Integers

CONSTANTS
  Zooms,         \* the zooms that a client asks for
  Coordinates,   \* the coordinates of the corners of its box
  Counts         \* how many clusters a viewport holds

ASSUME ZoomsAssumption       == Zooms \subseteq Int
ASSUME CoordinatesAssumption == Coordinates \subseteq Int
ASSUME CountsAssumption      == Counts \subseteq Nat

VARIABLES
  zoom,    \* the zoom of the request
  box,     \* its bounding box: west, south, east, north
  count    \* how many clusters of that zoom are in the box

vars == <<zoom, box, count>>

Boxes == [west : Coordinates, south : Coordinates,
          east : Coordinates, north : Coordinates]

World == [west |-> -180, south |-> -90, east |-> 180, north |-> 90]

(* RefreshClusters: generate_series(0, 22).                                *)
StoredZooms == 0 .. 22

Lower(a, b)  == IF a < b THEN a ELSE b
Higher(a, b) == IF a > b THEN a ELSE b

----------------------------------------------------------------------------
(* normalizeViewport.                                                      *)

NormalZoom(z) == Higher(0, Lower(22, z))

(* The corners are swapped before an empty box is taken for the world.     *)
NormalBoxHalf(b) ==
  IF \A corner \in DOMAIN b : b[corner] = 0 THEN World
  ELSE [b EXCEPT !.west = Lower(b.west, b.east),
                 !.east = Higher(b.west, b.east)]

NormalBox(b) ==
  IF \A corner \in DOMAIN b : b[corner] = 0 THEN World
  ELSE [west  |-> Lower(b.west, b.east),   south |-> Lower(b.south, b.north),
        east  |-> Higher(b.west, b.east),  north |-> Higher(b.south, b.north)]

----------------------------------------------------------------------------
(* The effective zoom, in SQL and in Go.                                   *)

CountBackoffOffByOne(c) ==
  CASE c > 1200 -> 6
    [] c \in 701 .. 1200 -> 5
    [] c \in 351 .. 700 -> 4
    [] c \in 181 .. 350 -> 3
    [] c \in 91 .. 180 -> 2
    [] c \in 40 .. 90 -> 1
    [] c < 40 -> 0

(* CASE WHEN cnt > 1200 THEN 6 ... END.                                    *)
CountBackoff(c) ==
  CASE c > 1200 -> 6
    [] c \in 701 .. 1200 -> 5
    [] c \in 351 .. 700 -> 4
    [] c \in 181 .. 350 -> 3
    [] c \in 91 .. 180 -> 2
    [] c \in 41 .. 90 -> 1
    [] c <= 40 -> 0

(* CASE WHEN $5 <= 4 THEN 3 ... END.                                       *)
ZoomBackoff(z) ==
  CASE z <= 4 -> 3
    [] z \in 5 .. 7 -> 2
    [] z \in 8 .. 10 -> 1
    [] z > 10 -> 0

EffectiveZoomUnclamped(z, c) == z - (CountBackoff(c) + ZoomBackoff(z))

(* GREATEST(0, LEAST(22, $5 - (...))).                                     *)
EffectiveZoom(z, c) ==
  Higher(0, Lower(22, z - (CountBackoff(c) + ZoomBackoff(z))))

(* clusterZoomForCount: two switches that add up, then the bounds.         *)
ClusterZoomForCount(z, c) ==
  LET backoff ==
        (IF c > 1200 THEN 6 ELSE IF c > 700 THEN 5 ELSE IF c > 350 THEN 4
         ELSE IF c > 180 THEN 3 ELSE IF c > 90 THEN 2 ELSE IF c > 40 THEN 1
         ELSE 0)
        + (IF z <= 4 THEN 3 ELSE IF z <= 7 THEN 2 ELSE IF z <= 10 THEN 1
           ELSE 0)
  IN  IF z - backoff < 0 THEN 0
      ELSE IF z - backoff > 22 THEN 22 ELSE z - backoff

(* RefreshClusters: the side of a cell, in metres; 0 is a row per point.   *)
CellSizeMisordered(z) ==
  CASE z >= 15 -> 0
    [] z \in 13 .. 14 -> 700
    [] z \in 11 .. 12 -> 8000
    [] z \in 9 .. 10 -> 2200
    [] z \in 7 .. 8 -> 30000
    [] z \in 5 .. 6 -> 85000
    [] z < 5 -> 180000

CellSize(z) ==
  CASE z >= 15 -> 0
    [] z \in 13 .. 14 -> 700
    [] z \in 11 .. 12 -> 2200
    [] z \in 9 .. 10 -> 8000
    [] z \in 7 .. 8 -> 30000
    [] z \in 5 .. 6 -> 85000
    [] z < 5 -> 180000

Level(z, c) == EffectiveZoom(NormalZoom(z), c)

----------------------------------------------------------------------------
Init == zoom \in Zooms /\ box \in Boxes /\ count \in Counts

(* The client zooms, and finds as many clusters there, or other ones.      *)
Zoom     == zoom' \in Zooms /\ UNCHANGED <<box, count>>

(* Clusters appear in the viewport, or leave it.                           *)
Populate == count' \in {c \in Counts : c > count} /\ UNCHANGED <<zoom, box>>
Deplete  == count' \in {c \in Counts : c < count} /\ UNCHANGED <<zoom, box>>

Next == Zoom \/ Populate \/ Deplete

Spec == Init /\ [][Next]_vars

----------------------------------------------------------------------------
(***************************************************************************)
(* The query that is run and the function that the unit test exercises     *)
(* choose the same level: the test says something of the query.            *)
(***************************************************************************)
SqlAgreesWithGo ==
  EffectiveZoom(zoom, count) = ClusterZoomForCount(zoom, count)

(***************************************************************************)
(* Low zooms and crowded viewports take the level below 0 before it is     *)
(* bounded: the one that answers is always one that RefreshClusters has    *)
(* computed, or the map would be empty.                                    *)
(***************************************************************************)
LevelIsStored == Level(zoom, count) \in StoredZooms

(***************************************************************************)
(* The envelope of the query is a box, and normalising it again changes    *)
(* nothing: a viewport has one cache key however often it is normalised.   *)
(***************************************************************************)
NormalBoxIsBox ==
  LET b == NormalBox(box)
  IN  b.west <= b.east /\ b.south <= b.north /\ NormalBox(b) = b

(***************************************************************************)
(* More clusters in the same viewport never give finer cells, which would  *)
(* draw yet more of them: the backoff does not oscillate.                  *)
(***************************************************************************)
CrowdsAreCoarser ==
  [][zoom' = zoom /\ count' >= count =>
       CellSize(Level(zoom', count')) >= CellSize(Level(zoom, count))]_vars
============================================================================
