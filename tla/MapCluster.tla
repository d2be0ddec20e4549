----------------------------- MODULE MapCluster -----------------------------
(***************************************************************************)
(* The API server as a whole: the streams of UpdateStream read through the *)
(* cache of ViewportCache, as do the callers of GET /api/v1/features, and  *)
(* the mutations sweep the cache before they notify the streams            *)
(* (backend/internal/service/map_service.go).                              *)
(***************************************************************************)
EXTENDS ViewportCache

CONSTANTS
  Streams,      \* websocket connections; the other Readers are callers of
                \* GET /api/v1/features
  Viewports,    \* bounding boxes and zooms
  NoRequest,    \* a stream whose client has sent no viewport yet
  MaxMessages,  \* how many messages each client sends (a bound)
  CallerKeys    \* what the callers ask for (a bound)

VARIABLES
  announced, writing, phase, token, incoming, reader, readErr, sent, current,
  pendingEmit, pendingInitial, timer, fetched, view,
  doubtful    \* history: streams whose last features came from a late key

Stream == INSTANCE UpdateStream

ASSUME StreamsAssumption   == Streams \subseteq Readers
ASSUME KeysAssumption      == Keys = Stream!Requests
ASSUME NoRequestAssumption == NoRequest \notin Keys
ASSUME CallersAssumption   == CallerKeys \subseteq Keys

cacheOnly  == <<writers, redis, readers, faults>>
streamOnly == <<announced, writing, phase, token, incoming, reader, readErr,
                sent, current, pendingEmit, pendingInitial, timer, fetched,
                view>>
mapVars    == <<vars, streamOnly, doubtful>>

MapInit == Init /\ Stream!Init /\ doubtful = {}

----------------------------------------------------------------------------
(* Mutations: change the tables, sweep the cache, notify the streams.      *)

Mutate(w) == Stream!Commit(w) /\ Change(w) /\ UNCHANGED doubtful

Invalidate(w) == Invalidation(w) /\ UNCHANGED <<streamOnly, doubtful>>

(* A mutation that notifies the streams and leaves the cache alone.        *)
AnnounceUnswept(w) ==
  /\ Stream!NotifyDataChanged(w)
  /\ wphase[w] = "changed"
  /\ wphase' = [wphase EXCEPT ![w] = "idle"]
  /\ completed' = version
  /\ UNCHANGED <<mine, todo, redis, readers, faults, doubtful>>

Announce(w) == Stream!NotifyDataChanged(w) /\ Finish(w) /\ UNCHANGED doubtful

GiveUp(w) == Stream!FailMutation(w) /\ FailMutation(w) /\ UNCHANGED doubtful

----------------------------------------------------------------------------
(* Reads.                                                                  *)

(* sendViewport calls ViewportFeatures for the stream's current view.      *)
Ask(s) ==
  /\ phase[s] = "query"
  /\ Request(s, current[s])
  /\ UNCHANGED <<streamOnly, doubtful>>

(* ViewportFeatures returns: its features are what the stream fetched.     *)
Receive(s) ==
  /\ Return(s)
  /\ Stream!Query(s, result[s])
  /\ doubtful' = IF trusted[s] THEN doubtful \ {s} ELSE doubtful \cup {s}

(* ViewportFeatures fails: sendViewport and the stream's loop return.      *)
AskFails(s) ==
  /\ QueryFails(s)
  /\ Stream!EmitFails(s)
  /\ UNCHANGED doubtful

(* A GET /api/v1/features.                                                 *)
CallerStep(c) ==
  /\ \/ \E k \in CallerKeys : Request(c, k)
     \/ QueryFails(c)
     \/ Return(c)
  /\ UNCHANGED <<streamOnly, doubtful>>

Lookup(r) == Call(r) /\ UNCHANGED <<streamOnly, doubtful>>

Evict(k) == Expire(k) /\ UNCHANGED <<streamOnly, doubtful>>

(* The write of a frame fails, or succeeds.                                *)
Deliver(s) ==
  /\ phase[s] = "write"
  /\ Stream!WriteFrame(s) \/ Stream!EmitFails(s)
  /\ UNCHANGED <<cacheOnly, doubtful>>

(* What a stream does without the service.                                 *)
Coalesce(s) ==
  /\ \/ Stream!Connect(s)
     \/ Stream!ReaderStep(s)
     \/ Stream!Select(s)
     \/ Stream!TimerFires(s)
  /\ UNCHANGED <<cacheOnly, doubtful>>

----------------------------------------------------------------------------
MapNext ==
  \/ \E w \in Writers : Mutate(w) \/ Invalidate(w) \/ Announce(w) \/ GiveUp(w)
  \/ \E s \in Streams :
       Ask(s) \/ Receive(s) \/ AskFails(s) \/ Deliver(s) \/ Coalesce(s)
  \/ \E c \in Readers \ Streams : CallerStep(c)
  \/ \E r \in Readers : Lookup(r)
  \/ \E k \in Keys : Evict(k)

(* As in UpdateStream; a call of ViewportFeatures runs to its end.         *)
MapFairness ==
  \A s \in Streams :
    /\ SF_mapVars(Stream!TakeMessage(s) /\ UNCHANGED <<cacheOnly, doubtful>>)
    /\ SF_mapVars(Stream!TakeUpdate(s) /\ UNCHANGED <<cacheOnly, doubtful>>)
    /\ SF_mapVars(Stream!TakeTimer(s) /\ UNCHANGED <<cacheOnly, doubtful>>)
    /\ SF_mapVars(Stream!TakeReadErr(s) /\ UNCHANGED <<cacheOnly, doubtful>>)
    /\ WF_mapVars(Stream!TimerFires(s) /\ UNCHANGED <<cacheOnly, doubtful>>)
    /\ WF_mapVars(Ask(s) \/ Lookup(s) \/ Receive(s) \/ Deliver(s))

MapSafety == MapInit /\ [][MapNext]_mapVars
MapSpec   == MapSafety /\ MapFairness

----------------------------------------------------------------------------
(***************************************************************************)
(* With the cache in the way of the streams, a client that is behind a     *)
(* mutation that has returned still has its wakeup, because the cache is   *)
(* swept before the streams are notified; only a fill that came late, or a *)
(* call that failed, takes it away.                                        *)
(***************************************************************************)
WakeupUnlessLate ==
  \A s \in Streams \ doubtful :
    /\ Stream!Subscribed(s)
    /\ current[s] # NoRequest
    /\ Stream!Seen(s).version < completed
    => \/ token[s]
       \/ phase[s] = "query"
       \/ phase[s] = "select" /\ pendingEmit[s] /\ timer[s] # "off"

(***************************************************************************)
(* A call of ViewportFeatures is made for the view that the stream is      *)
(* about to write: the request does not change under it.                   *)
(***************************************************************************)
CallIsForCurrent ==
  \A s \in Streams :
    rphase[s] # "idle" => phase[s] = "query" /\ key[s] = current[s]

(***************************************************************************)
(* When clients and writers fall silent, a stream shows every mutation     *)
(* that has returned, unless its last features came from a late key.       *)
(***************************************************************************)
SettlesUnlessLate ==
  \A s \in Streams :
    <>[](Stream!Subscribed(s) /\ s \notin doubtful /\ current[s] # NoRequest
           => view[s].request = current[s] /\ view[s].version >= completed)

(***************************************************************************)
(* README.md:10, "Streams snapshot and delta updates over websockets as    *)
(* the map changes": when clients and writers fall silent, every stream    *)
(* still served shows all that was announced (UpdateStream's Settles).     *)
(***************************************************************************)
StreamsAsTheMapChanges == Stream!Settles
============================================================================
