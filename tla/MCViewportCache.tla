--------------------------- MODULE MCViewportCache ---------------------------
(***************************************************************************)
(* Instance of ViewportCache for TLC: two mutations of which one can make  *)
(* two changes, two calls that can ask for the same key, two keys.         *)
(***************************************************************************)
EXTENDS ViewportCache, TLC

CONSTANTS w1, w2, r1, r2, k1, k2

TwoWriters == {w1, w2}
TwoReaders == {r1, r2}
TwoKeys    == {k1, k2}

Symmetry == Permutations(TwoWriters) \cup Permutations(TwoReaders)
            \cup Permutations(TwoKeys)
============================================================================
