---------------------------- MODULE MCServedMap ----------------------------
(***************************************************************************)
(* Instance of ServedMap for TLC: two mutations and one reader of one key  *)
(* over three rows, one of them the seed; a request of every kind that the *)
(* handlers tell apart.                                                    *)
(***************************************************************************)
EXTENDS ServedMap

CONSTANTS w1, w2, r1, k1, p1, p2, p3

TwoWriters  == {w1, w2}
OneReader   == {r1}
OneKey      == {k1}
ThreePoints == {p1, p2, p3}
OneSeed     == {p1}

Request(path) ==
  [path |-> path, method |-> "POST", body |-> "json", count |-> Nothing,
   bbox |-> 0, items |-> << >>]

EveryPost ==
  {Request("clear-points"), Request("mcdonalds"), Request("random-points"),
   [Request("random-points") EXCEPT !.count = 0],
   [Request("random-points") EXCEPT !.bbox = 3],
   [Request("random-points") EXCEPT !.body = "empty"],
   [Request("clear-points") EXCEPT !.method = "GET"],
   [Request("bulk-items") EXCEPT !.items = <<"valid", "off the map">>],
   [Request("bulk-items") EXCEPT !.items = <<"valid">>]}
=============================================================================
