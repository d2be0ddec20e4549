-------------------------- MODULE MCViewportPolicy --------------------------
(***************************************************************************)
(* Instance of ViewportPolicy for TLC: every stored zoom and some out of   *)
(* range, both sides of every threshold of the backoff, and boxes with     *)
(* their corners in order, swapped, equal or zero.                         *)
(***************************************************************************)
EXTENDS ViewportPolicy

AnyZoom        == -1 .. 24
AnyCoordinate  == {-1, 0, 2}
EveryThreshold == {0, 40, 41, 90, 91, 180, 181, 350, 351, 700, 701, 1200, 1201}
============================================================================
