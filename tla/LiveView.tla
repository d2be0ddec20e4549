------------------------------ MODULE LiveView ------------------------------
(***************************************************************************)
(* What a websocket stream promises its client, whatever goroutines,       *)
(* channels and timers it takes: README.md:10, "Streams snapshot and delta *)
(* updates over websockets as the map changes".                            *)
(*                                                                         *)
(* The client of a stream asks for a view of the map (a viewport and a     *)
(* mode) and is shown it; the view it is shown is always one it asked for  *)
(* last, never goes back to older data, and catches up with every change   *)
(* that was announced.                                                     *)
(***************************************************************************)
EXTENDS Naturals

CONSTANTS
  Streams,    \* websocket connections
  Requests,   \* the views that a client can ask for
  NoRequest   \* a client that has not asked yet

VARIABLES
  version,    \* how many times the map has changed
  announced,  \* the latest version that the streams were told of
  open,       \* the connections that are served
  asked,      \* what the client of each stream asked for last
  shown       \* what the client of each stream sees: a request, at a version

vars == <<version, announced, open, asked, shown>>

Init ==
  /\ version = 0
  /\ announced = 0
  /\ open = {}
  /\ asked = [s \in Streams |-> NoRequest]
  /\ shown = [s \in Streams |-> [version |-> 0, request |-> NoRequest]]

Change ==
  /\ version' = version + 1
  /\ UNCHANGED <<announced, open, asked, shown>>

Announce ==
  /\ announced' = version
  /\ UNCHANGED <<version, open, asked, shown>>

Open(s) ==
  /\ open' = open \cup {s}
  /\ UNCHANGED <<version, announced, asked, shown>>

Ask(s) ==
  /\ s \in open
  /\ \E r \in Requests : asked' = [asked EXCEPT ![s] = r]
  /\ UNCHANGED <<version, announced, open, shown>>

(* The client is shown what it asked for last, no older than what it saw.  *)
Show(s, v) ==
  /\ s \in open
  /\ asked[s] \in Requests
  /\ shown' = [shown EXCEPT ![s] = [version |-> v, request |-> asked[s]]]
  /\ UNCHANGED <<version, announced, open, asked>>

Close(s) ==
  /\ open' = open \ {s}
  /\ UNCHANGED <<version, announced, asked, shown>>

Next ==
  \/ Change
  \/ Announce
  \/ \E s \in Streams :
       \/ Open(s)
       \/ Ask(s)
       \/ \E v \in shown[s].version .. version : Show(s, v)
       \/ Close(s)

(* A client that is behind is shown what it asked for, as announced.       *)
CatchUp(s) ==
  /\ shown[s].version < announced \/ shown[s].request # asked[s]
  /\ \E v \in announced .. version : Show(s, v)

Safety == Init /\ [][Next]_vars
Spec   == Safety /\ \A s \in Streams : WF_vars(CatchUp(s))
============================================================================
