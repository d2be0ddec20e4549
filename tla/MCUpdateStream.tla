--------------------------- MODULE MCUpdateStream ---------------------------
(***************************************************************************)
(* Instance of UpdateStream for TLC: one stream, two writers, two          *)
(* viewports in both modes.                                                *)
(***************************************************************************)
EXTENDS UpdateStream

CONSTANTS w1, w2, s1, here, there

TwoWriters   == {w1, w2}
OneStream    == {s1}
TwoViewports == {here, there}
============================================================================
