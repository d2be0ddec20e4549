----------------------------- MODULE MCMapClient -----------------------------
(***************************************************************************)
(* Instance of MapClient for TLC: two viewports of which the second does   *)
(* not list what the first does, though both are near enough for the first *)
(* to draw what the second lists.                                          *)
(***************************************************************************)
EXTENDS MapClient

CONSTANTS a, b, here, there, one, many

TwoIds       == {a, b}
TwoContents  == {one, many}
TwoViewports == {here, there}
Boxes        == [v \in TwoViewports |-> IF v = here THEN {a} ELSE {b}]
Frustums     == [v \in TwoViewports |-> IF v = here THEN {a, b} ELSE {b}]
=============================================================================
