---------------------------- MODULE MCMapCluster ----------------------------
(***************************************************************************)
(* Instance of MapCluster for TLC: one stream, one caller of the features  *)
(* endpoint, one mutation, one viewport in two modes.                      *)
(***************************************************************************)
EXTENDS MapCluster

CONSTANTS w1, s1, c1, here

OneWriter   == {w1}
OneStream   == {s1}
TwoReaders  == {s1, c1}
OneViewport == {here}
BothModes   == {[viewport |-> here, mode |-> mode] :
                  mode \in {"cluster", "heatmap"}}
OneKey      == {[viewport |-> here, mode |-> "cluster"]}
============================================================================
