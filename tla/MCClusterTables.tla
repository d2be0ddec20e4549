-------------------------- MODULE MCClusterTables --------------------------
(***************************************************************************)
(* Instance of ClusterTables for TLC: two requests race each other and the *)
(* server's end over three or four rows, of which a fresh database is      *)
(* seeded with one.                                                        *)
(***************************************************************************)
EXTENDS ClusterTables

CONSTANTS w1, w2, p1, p2, p3, p4

TwoWriters  == {w1, w2}
ThreePoints == {p1, p2, p3}
FourPoints  == {p1, p2, p3, p4}
OneSeed     == {p1}
============================================================================
