------------------------- MODULE MapCluster_proofs -------------------------
(***************************************************************************)
(* Proofs about MapCluster, for any number of streams, callers, mutations, *)
(* keys, changes and faults.  Every step is a step of the cache or leaves  *)
(* it alone, so what ViewportCache_proofs proves holds here; the rest is   *)
(* about the streams.                                                      *)
(***************************************************************************)
EXTENDS MapCluster, ViewportCache_proofs, SequenceTheorems

Timers == {"off", "armed", "fired"}

(* The types of what the streams keep and of what is read of it here.      *)
StreamTypes ==
  /\ phase \in [Streams -> {"absent", "select", "query", "write", "returned"}]
  /\ token \in [Streams -> BOOLEAN]
  /\ incoming \in [Streams -> Seq(Stream!Messages)]
  /\ current \in [Streams -> Keys \cup {NoRequest}]
  /\ pendingEmit \in [Streams -> BOOLEAN]
  /\ timer \in [Streams -> Timers]
  /\ DOMAIN fetched = Streams /\ DOMAIN view = Streams
  /\ doubtful \in SUBSET Streams

(* A stream that makes an emission has been asked for something, one that  *)
(* is not connected has not.                                               *)
EmissionHasRequest ==
  \A s \in Streams :
    /\ phase[s] \in {"query", "write"} => current[s] # NoRequest
    /\ phase[s] = "absent" => current[s] = NoRequest

(* A mutation that returns while a stream's call is under way leaves the   *)
(* stream its token.                                                       *)
OvertakenHasToken ==
  \A s \in Streams :
    rphase[s] # "idle" /\ floor[s] < completed => token[s]

(* The inductive invariant: that of the cache, and the streams' part.      *)
StreamInv ==
  /\ StreamTypes
  /\ EmissionHasRequest
  /\ CallIsForCurrent
  /\ OvertakenHasToken
  /\ WakeupUnlessLate

MapInv == IInv /\ StreamInv

----------------------------------------------------------------------------
(* The initial state satisfies the invariant.                              *)
LEMMA InitMapInv == MapInit => MapInv
<1> SUFFICES ASSUME MapInit PROVE MapInv
  OBVIOUS
<1>1. IInv
  BY InitIInv DEF MapInit
<1>2. StreamTypes
  <2>1. incoming \in [Streams -> Seq(Stream!Messages)]
    BY DEF MapInit, Stream!Init
  <2>2. QED
    BY <2>1 DEF MapInit, Stream!Init, StreamTypes, Timers
<1>3. EmissionHasRequest /\ WakeupUnlessLate
  BY DEF MapInit, Stream!Init, EmissionHasRequest, WakeupUnlessLate,
         Stream!Subscribed, Stream!Live
<1>4. CallIsForCurrent /\ OvertakenHasToken
  BY StreamsAssumption DEF MapInit, Init, CallIsForCurrent, OvertakenHasToken
<1>5. QED
  BY <1>1, <1>2, <1>3, <1>4 DEF MapInv, StreamInv

(***************************************************************************)
(* Every step of the whole is a step of the cache or leaves it alone: the  *)
(* safety part of a refinement of ViewportCache.                           *)
(***************************************************************************)
LEMMA CacheStep == MapInv /\ [MapNext]_mapVars => [Next]_vars
<1> SUFFICES ASSUME MapInv, MapNext PROVE Next \/ UNCHANGED vars
  BY DEF mapVars
<1>1. ASSUME NEW w \in Writers,
             Mutate(w) \/ Invalidate(w) \/ Announce(w) \/ GiveUp(w)
      PROVE  Next
  BY <1>1 DEF Mutate, Invalidate, Announce, GiveUp, Next
<1>2. ASSUME NEW s \in Streams, Ask(s) PROVE Next
  <2>1. current[s] \in Keys
    BY <1>2 DEF Ask, MapInv, StreamInv, StreamTypes, EmissionHasRequest
  <2>2. QED
    BY <1>2, <2>1, StreamsAssumption DEF Ask, Next
<1>3. ASSUME NEW s \in Streams, Receive(s) \/ AskFails(s) PROVE Next
  BY <1>3, StreamsAssumption DEF Receive, AskFails, Next
<1>4. ASSUME NEW s \in Streams, Coalesce(s) PROVE UNCHANGED vars
  <2>1. version' = version
    BY <1>4 DEF Coalesce, Stream!Connect, Stream!ReaderStep, Stream!ReadMessage,
                Stream!ReadFails, Stream!Select, Stream!TakeMessage,
                Stream!TakeUpdate, Stream!TakeTimer, Stream!TakeReadErr,
                Stream!TimerFires, Stream!data
  <2>2. QED
    BY <1>4, <2>1 DEF Coalesce, cacheOnly, vars
<1>5. ASSUME NEW s \in Streams, Deliver(s) PROVE UNCHANGED vars
  BY <1>5 DEF Deliver, Stream!WriteFrame, Stream!EmitFails, Stream!data,
              cacheOnly, vars
<1>6. ASSUME NEW c \in Readers \ Streams, CallerStep(c) PROVE Next
  BY <1>6, CallersAssumption DEF CallerStep, Next
<1>7. ASSUME NEW r \in Readers, Lookup(r) PROVE Next
  BY <1>7 DEF Lookup, Next
<1>8. ASSUME NEW k \in Keys, Evict(k) PROVE Next
  BY <1>8 DEF Evict, Next
<1>9. QED
  BY <1>1, <1>2, <1>3, <1>4, <1>5, <1>6, <1>7, <1>8 DEF MapNext

----------------------------------------------------------------------------
(* The request that a stream makes of a message is a key.                  *)
LEMMA RequestIsKey ==
  ASSUME StreamTypes, NEW s \in Streams, NEW message \in Stream!Messages
  PROVE  [viewport |-> message.viewport, mode |-> Stream!ModeOf(s, message)]
           \in Keys
<1>1. /\ message.viewport \in Viewports
      /\ message.mode \in Stream!Modes \cup {""}
  BY DEF Stream!Messages
<1>2. current[s] # NoRequest => current[s].mode \in Stream!Modes
  BY KeysAssumption DEF StreamTypes, Stream!Requests
<1>3. Stream!ModeOf(s, message) \in Stream!Modes
  BY <1>1, <1>2 DEF Stream!ModeOf, Stream!Modes
<1>4. QED
  BY <1>1, <1>3, KeysAssumption DEF Stream!Requests

(* A mutation returns: every stream that is served now holds a token.      *)
LEMMA AnnounceStep ==
  ASSUME MapInv, NEW w \in Writers, Announce(w)
  PROVE  StreamInv'
<1> USE DEF MapInv, StreamInv, cacheOnly, readers
<1>1. /\ token' = [s \in Streams |-> token[s] \/ Stream!Subscribed(s)]
      /\ UNCHANGED <<phase, incoming, current, pendingEmit, timer, fetched,
                     view, doubtful, rphase, key, floor>>
  BY DEF Announce, Stream!NotifyDataChanged, Finish, Stream!inputs,
         Stream!loop, Stream!outputs
<1>2. StreamTypes' /\ EmissionHasRequest' /\ CallIsForCurrent'
  BY <1>1 DEF StreamTypes, EmissionHasRequest, CallIsForCurrent,
              Stream!Subscribed, Stream!Live
<1>3. ASSUME NEW s \in Streams, rphase[s] # "idle"
      PROVE  token'[s]
  BY <1>1, <1>3 DEF CallIsForCurrent, Stream!Subscribed, Stream!Live
<1>4. OvertakenHasToken'
  BY <1>1, <1>3 DEF OvertakenHasToken
<1>5. WakeupUnlessLate'
  BY <1>1 DEF WakeupUnlessLate, Stream!Subscribed
<1>6. QED
  BY <1>2, <1>4, <1>5

(* A step that changes nothing of what the streams' part is about.         *)
LEMMA FrameStep ==
  ASSUME StreamInv,
         UNCHANGED <<phase, token, incoming, current, pendingEmit, timer,
                     fetched, view, doubtful, completed>>,
         \A s \in Streams : /\ rphase'[s] # "idle" => rphase[s] # "idle"
                            /\ key'[s] = key[s] /\ floor'[s] = floor[s]
  PROVE  StreamInv'
<1>1. StreamTypes' /\ EmissionHasRequest' /\ CallIsForCurrent'
      /\ OvertakenHasToken'
  BY DEF StreamInv, StreamTypes, EmissionHasRequest, CallIsForCurrent,
         OvertakenHasToken
<1>2. WakeupUnlessLate'
  BY DEF StreamInv, WakeupUnlessLate, Stream!Subscribed, Stream!Seen
<1>3. QED
  BY <1>1, <1>2 DEF StreamInv

(* What the mutations and the calls do to the cache alone.                 *)
LEMMA QuietStep ==
  ASSUME MapInv,
         \/ \E w \in Writers : Mutate(w) \/ Invalidate(w) \/ GiveUp(w)
         \/ \E c \in Readers \ Streams : CallerStep(c)
         \/ \E r \in Readers : Lookup(r)
         \/ \E k \in Keys : Evict(k)
  PROVE  StreamInv'
<1> USE StreamsAssumption
    DEF MapInv, streamOnly, cacheOnly, writers, readers, Stream!inputs,
        Stream!loop, Stream!outputs
<1>1. ASSUME NEW w \in Writers, Mutate(w) \/ GiveUp(w) PROVE StreamInv'
  BY <1>1, FrameStep
     DEF Mutate, GiveUp, Stream!Commit, Stream!FailMutation, Change,
         FailMutation
<1>2. ASSUME NEW w \in Writers, Invalidate(w) PROVE StreamInv'
  BY <1>2, FrameStep
     DEF Invalidate, Invalidation, SweepBegin, Sweep, SweepEnd, SweepFails
<1>3. ASSUME NEW c \in Readers \ Streams, CallerStep(c) PROVE StreamInv'
  <2>1. \A s \in Streams : /\ rphase'[s] = rphase[s] /\ key'[s] = key[s]
                          /\ floor'[s] = floor[s]
    BY <1>3 DEF CallerStep, Request, QueryFails, Return, Leave, IInv, TypeOK
  <2>2. QED
    BY <1>3, <2>1, FrameStep DEF CallerStep, Request, QueryFails, Return
<1>4. ASSUME NEW r \in Readers, Lookup(r) PROVE StreamInv'
  <2>1. /\ rphase[r] # "idle"
        /\ \A q \in Readers \ {r} : rphase'[q] = rphase[q]
        /\ UNCHANGED <<key, floor, completed>>
    BY <1>4
       DEF Lookup, Call, Hit, Miss, GetFails, Query, Set, SetFails, IInv, TypeOK
  <2>2. QED
    BY <1>4, <2>1, FrameStep DEF Lookup
<1>5. ASSUME NEW k \in Keys, Evict(k) PROVE StreamInv'
  BY <1>5, FrameStep DEF Evict, Expire
<1>6. QED
  BY <1>1, <1>2, <1>3, <1>4, <1>5

(* A stream calls ViewportFeatures.                                        *)
LEMMA AskStep ==
  ASSUME MapInv, NEW s \in Streams, Ask(s)
  PROVE  StreamInv'
<1> USE DEF MapInv, StreamInv, streamOnly, writers
<1>1. /\ phase[s] = "query" /\ key'[s] = current[s] /\ floor'[s] = completed
      /\ \A t \in Streams \ {s} : /\ rphase'[t] = rphase[t]
                                  /\ key'[t] = key[t] /\ floor'[t] = floor[t]
      /\ completed \in Nat
      /\ UNCHANGED <<phase, token, incoming, current, pendingEmit, timer,
                     fetched, view, doubtful, completed>>
  BY StreamsAssumption DEF Ask, Request, IInv, TypeOK
<1>2. StreamTypes' /\ EmissionHasRequest'
  BY <1>1 DEF StreamTypes, EmissionHasRequest
<1>3. CallIsForCurrent' /\ OvertakenHasToken'
  BY <1>1 DEF CallIsForCurrent, OvertakenHasToken
<1>4. WakeupUnlessLate'
  BY <1>1 DEF WakeupUnlessLate, Stream!Subscribed, Stream!Seen
<1>5. QED
  BY <1>2, <1>3, <1>4

(***************************************************************************)
(* ViewportFeatures returns: features of a trusted key show every mutation *)
(* that had returned when the call began, and the token is there for the   *)
(* ones that have returned since.                                          *)
(***************************************************************************)
LEMMA ReceiveStep ==
  ASSUME MapInv, NEW s \in Streams, Receive(s)
  PROVE  StreamInv'
<1> USE DEF MapInv, StreamInv, writers, Stream!data, Stream!inputs, Stream!loop
<1>1. /\ phase[s] = "query" /\ phase' = [phase EXCEPT ![s] = "write"]
      /\ fetched' = [fetched EXCEPT ![s] =
                       [version |-> result[s], request |-> current[s]]]
      /\ rphase[s] = "return" /\ rphase'[s] = "idle"
      /\ \A t \in Streams \ {s} : /\ rphase'[t] = rphase[t]
                                  /\ key'[t] = key[t] /\ floor'[t] = floor[t]
      /\ UNCHANGED <<token, incoming, current, pendingEmit, timer, view,
                     completed>>
  BY StreamsAssumption DEF Receive, Return, Leave, Stream!Query, IInv, TypeOK
<1>2. doubtful' \in SUBSET Streams /\ \A t \in Streams \ {s} :
         t \in doubtful' <=> t \in doubtful
  BY DEF Receive, StreamTypes
<1>3. StreamTypes'
  BY <1>1, <1>2 DEF StreamTypes
<1>4. EmissionHasRequest' /\ CallIsForCurrent' /\ OvertakenHasToken'
  BY <1>1 DEF EmissionHasRequest, CallIsForCurrent, OvertakenHasToken,
              StreamTypes
<1>5. ASSUME s \notin doubtful', result[s] < completed PROVE token[s]
  <2>1. trusted[s]
    BY <1>5 DEF Receive
  <2>2. floor[s] <= result[s]
    BY <1>1, <2>1, StreamsAssumption DEF IInv, ReadAfterWrite
  <2>3. floor[s] < completed
    BY <1>5, <2>2, StreamsAssumption DEF IInv, TypeOK
  <2>4. QED
    BY <1>1, <2>3 DEF OvertakenHasToken
<1>6. WakeupUnlessLate'
  <2>1. fetched'[s].version = result[s] /\ phase'[s] = "write"
    BY <1>1 DEF StreamTypes
  <2>2. \A t \in Streams \ {s} : phase'[t] = phase[t] /\ fetched'[t] = fetched[t]
    BY <1>1 DEF StreamTypes
  <2>3. QED
    BY <1>1, <1>2, <1>5, <2>1, <2>2
       DEF WakeupUnlessLate, Stream!Subscribed, Stream!Seen
<1>7. QED
  BY <1>3, <1>4, <1>6

(* ViewportFeatures or the write fails, or the peer is gone: the stream    *)
(* is not served any more.                                                 *)
LEMMA ReturnStep ==
  ASSUME MapInv, NEW s \in Streams, Stream!Return(s),
         rphase'[s] = "idle",
         \A t \in Streams \ {s} : /\ rphase'[t] = rphase[t]
                                 /\ key'[t] = key[t] /\ floor'[t] = floor[t],
         UNCHANGED <<incoming, current, pendingEmit, fetched, view, doubtful,
                     completed>>
  PROVE  StreamInv'
<1> USE DEF MapInv, StreamInv
<1>1. /\ phase'[s] = "returned"
      /\ \A t \in Streams \ {s} : /\ phase'[t] = phase[t]
                                  /\ timer'[t] = timer[t]
                                  /\ token'[t] = token[t]
  BY DEF Stream!Return, StreamTypes
<1>2. StreamTypes'
  BY DEF Stream!Return, StreamTypes, Timers
<1>3. EmissionHasRequest' /\ CallIsForCurrent' /\ OvertakenHasToken'
  BY <1>1 DEF EmissionHasRequest, CallIsForCurrent, OvertakenHasToken
<1>4. WakeupUnlessLate'
  BY <1>1 DEF WakeupUnlessLate, Stream!Subscribed, Stream!Live, Stream!Seen
<1>5. QED
  BY <1>2, <1>3, <1>4

(* The emission fails, in the call of ViewportFeatures or in the write.    *)
LEMMA FailStep ==
  ASSUME MapInv, NEW s \in Streams,
         \/ AskFails(s)
         \/ Stream!EmitFails(s) /\ phase[s] = "write"
            /\ UNCHANGED <<cacheOnly, doubtful>>
  PROVE  StreamInv'
<1> USE DEF MapInv, writers, readers, cacheOnly, Stream!data, Stream!inputs,
            Stream!outputs
<1>1. CASE AskFails(s)
  <2>1. /\ rphase'[s] = "idle"
        /\ \A t \in Streams \ {s} : /\ rphase'[t] = rphase[t]
                                    /\ key'[t] = key[t] /\ floor'[t] = floor[t]
    BY <1>1, StreamsAssumption DEF AskFails, QueryFails, Leave, IInv, TypeOK
  <2>2. QED
    BY <1>1, <2>1, ReturnStep DEF AskFails, QueryFails, Stream!EmitFails
<1>2. CASE Stream!EmitFails(s) /\ phase[s] = "write"
           /\ UNCHANGED <<cacheOnly, doubtful>>
  <2>1. rphase[s] = "idle"
    BY <1>2 DEF StreamInv, CallIsForCurrent
  <2>2. QED
    BY <1>2, <2>1, ReturnStep DEF Stream!EmitFails
<1>3. QED
  BY <1>1, <1>2

(* The frame is written: what is seen stays what it was.                   *)
LEMMA WriteStep ==
  ASSUME MapInv, NEW s \in Streams, Stream!WriteFrame(s),
         UNCHANGED <<cacheOnly, doubtful>>
  PROVE  StreamInv'
<1> USE DEF MapInv, StreamInv, cacheOnly, writers, readers, Stream!data,
            Stream!inputs
<1>1. /\ phase[s] = "write" /\ phase' = [phase EXCEPT ![s] = "select"]
      /\ view' = [view EXCEPT ![s] = fetched[s]]
      /\ pendingEmit' = [pendingEmit EXCEPT ![s] = FALSE]
      /\ UNCHANGED <<token, incoming, current, timer, fetched, doubtful,
                     completed, rphase, key, floor>>
  BY DEF Stream!WriteFrame
<1>2. StreamTypes'
  BY <1>1 DEF StreamTypes
<1>3. EmissionHasRequest' /\ CallIsForCurrent' /\ OvertakenHasToken'
  BY <1>1 DEF EmissionHasRequest, CallIsForCurrent, OvertakenHasToken,
              StreamTypes
<1>4. WakeupUnlessLate'
  <2>1. phase'[s] = "select" /\ view'[s] = fetched[s]
    BY <1>1 DEF StreamTypes
  <2>2. \A t \in Streams \ {s} : /\ phase'[t] = phase[t]
                                /\ view'[t] = view[t]
                                /\ pendingEmit'[t] = pendingEmit[t]
    BY <1>1 DEF StreamTypes
  <2>3. QED
    BY <1>1, <2>1, <2>2
       DEF WakeupUnlessLate, Stream!Subscribed, Stream!Live, Stream!Seen
<1>5. QED
  BY <1>2, <1>3, <1>4

(***************************************************************************)
(* What a stream does between two emissions: it takes messages, updates    *)
(* and the timer, and is put off or sent to its query, never to sleep.     *)
(***************************************************************************)
LEMMA CoalesceStep ==
  ASSUME MapInv, NEW s \in Streams, Coalesce(s)
  PROVE  StreamInv'
<1> USE DEF MapInv, StreamInv, cacheOnly, writers, readers, Stream!data,
            Stream!inputs, Stream!loop, Stream!outputs
<1>1. UNCHANGED <<doubtful, completed, rphase, key, floor, fetched, view>>
  BY DEF Coalesce, Stream!Connect, Stream!ReaderStep, Stream!ReadMessage,
         Stream!ReadFails, Stream!Select, Stream!TakeMessage,
         Stream!TakeUpdate, Stream!TakeTimer, Stream!TakeReadErr,
         Stream!TimerFires
<1>2. CASE Stream!Connect(s)
  <2>1. /\ phase[s] = "absent" /\ phase' = [phase EXCEPT ![s] = "select"]
        /\ UNCHANGED <<token, incoming, current, pendingEmit, timer>>
    BY <1>2 DEF Stream!Connect
  <2>2. StreamTypes' /\ EmissionHasRequest' /\ CallIsForCurrent'
        /\ OvertakenHasToken'
    BY <1>1, <2>1 DEF StreamTypes, EmissionHasRequest, CallIsForCurrent,
                      OvertakenHasToken
  <2>3. current'[s] = NoRequest /\ \A t \in Streams \ {s} : phase'[t] = phase[t]
    BY <2>1 DEF StreamTypes, EmissionHasRequest
  <2>4. WakeupUnlessLate'
    BY <1>1, <2>1, <2>3
       DEF WakeupUnlessLate, Stream!Subscribed, Stream!Seen
  <2>5. QED
    BY <2>2, <2>4
<1>3. CASE Stream!ReaderStep(s)
  <2>1. UNCHANGED <<phase, token, current, pendingEmit, timer>>
    BY <1>3 DEF Stream!ReaderStep, Stream!ReadMessage, Stream!ReadFails
  <2>2. incoming' \in [Streams -> Seq(Stream!Messages)]
    <3>1. ASSUME NEW message \in Stream!Messages, Stream!ReadMessage(s, message)
          PROVE  incoming' \in [Streams -> Seq(Stream!Messages)]
      <4>1. Append(incoming[s], message) \in Seq(Stream!Messages)
        BY DEF StreamTypes
      <4>2. incoming' = [incoming EXCEPT ![s] = Append(incoming[s], message)]
        BY <3>1 DEF Stream!ReadMessage
      <4>3. QED
        BY <4>1, <4>2 DEF StreamTypes
    <3>2. CASE Stream!ReadFails(s)
      BY <3>2 DEF StreamTypes, Stream!ReadFails
    <3>3. QED
      BY <1>3, <3>1, <3>2 DEF Stream!ReaderStep
  <2>3. StreamTypes' /\ EmissionHasRequest' /\ CallIsForCurrent'
        /\ OvertakenHasToken'
    BY <1>1, <2>1, <2>2 DEF StreamTypes, EmissionHasRequest, CallIsForCurrent,
                            OvertakenHasToken
  <2>4. WakeupUnlessLate'
    BY <1>1, <2>1 DEF WakeupUnlessLate, Stream!Subscribed, Stream!Seen
  <2>5. QED
    BY <2>3, <2>4
<1>4. CASE Stream!TakeMessage(s)
  <2> DEFINE message == Head(incoming[s])
             next    == [viewport |-> message.viewport,
                         mode |-> Stream!ModeOf(s, message)]
  <2>1. message \in Stream!Messages /\ Tail(incoming[s]) \in Seq(Stream!Messages)
    BY <1>4 DEF Stream!TakeMessage, StreamTypes
  <2>2. next \in Keys
    BY <2>1, RequestIsKey
  <2>3. /\ phase[s] = "select"
        /\ current' = [current EXCEPT ![s] = next]
        /\ pendingEmit' = [pendingEmit EXCEPT ![s] = TRUE]
        /\ timer' = [timer EXCEPT ![s] = "armed"]
        /\ incoming' = [incoming EXCEPT ![s] = Tail(incoming[s])]
        /\ UNCHANGED <<phase, token>>
    BY <1>4 DEF Stream!TakeMessage, Stream!ScheduleEmit
  <2>4. StreamTypes'
    BY <1>1, <2>1, <2>2, <2>3 DEF StreamTypes, Timers
  <2>5. EmissionHasRequest' /\ CallIsForCurrent' /\ OvertakenHasToken'
    BY <1>1, <2>3 DEF EmissionHasRequest, CallIsForCurrent, OvertakenHasToken,
                      StreamTypes
  <2>6. /\ pendingEmit'[s] /\ timer'[s] = "armed"
        /\ \A t \in Streams \ {s} : /\ current'[t] = current[t]
                                    /\ pendingEmit'[t] = pendingEmit[t]
                                    /\ timer'[t] = timer[t]
    BY <2>3 DEF StreamTypes
  <2>7. WakeupUnlessLate'
    BY <1>1, <2>3, <2>6 DEF WakeupUnlessLate, Stream!Subscribed, Stream!Seen
  <2>8. QED
    BY <2>4, <2>5, <2>7
<1>5. CASE Stream!TakeUpdate(s)
  <2>1. /\ phase[s] = "select"
        /\ token' = [token EXCEPT ![s] = FALSE]
        /\ UNCHANGED <<phase, incoming, current>>
    BY <1>5 DEF Stream!TakeUpdate
  <2>2. StreamTypes'
    BY <1>1, <1>5, <2>1
       DEF Stream!TakeUpdate, Stream!ScheduleEmit, StreamTypes, Timers
  <2>3. EmissionHasRequest' /\ CallIsForCurrent' /\ OvertakenHasToken'
    BY <1>1, <2>1 DEF EmissionHasRequest, CallIsForCurrent, OvertakenHasToken,
                      StreamTypes
  <2>4. WakeupUnlessLate'
    BY <1>1, <1>5, <2>1
       DEF Stream!TakeUpdate, Stream!ScheduleEmit, StreamTypes,
           WakeupUnlessLate, Stream!Subscribed, Stream!Seen
  <2>5. QED
    BY <2>2, <2>3, <2>4
<1>6. CASE Stream!TakeTimer(s)
  <2>1. /\ phase[s] = "select" /\ timer[s] = "fired"
        /\ timer' = [timer EXCEPT ![s] = "off"]
        /\ phase' = [phase EXCEPT ![s] =
                       IF current[s] # NoRequest /\ pendingEmit[s]
                       THEN "query" ELSE "select"]
        /\ UNCHANGED <<token, incoming, current, pendingEmit>>
    BY <1>6 DEF Stream!TakeTimer
  <2>2. StreamTypes'
    BY <1>1, <2>1 DEF StreamTypes, Timers
  <2>3. EmissionHasRequest' /\ CallIsForCurrent' /\ OvertakenHasToken'
    BY <1>1, <2>1 DEF EmissionHasRequest, CallIsForCurrent, OvertakenHasToken,
                      StreamTypes
  <2>4. /\ phase'[s] \in {"query", "select"}
        /\ phase'[s] = "select" => current[s] = NoRequest \/ ~pendingEmit[s]
        /\ \A t \in Streams \ {s} : phase'[t] = phase[t] /\ timer'[t] = timer[t]
    BY <2>1 DEF StreamTypes
  <2>5. WakeupUnlessLate'
    BY <1>1, <2>1, <2>4
       DEF WakeupUnlessLate, Stream!Subscribed, Stream!Live, Stream!Seen
  <2>6. QED
    BY <2>2, <2>3, <2>5
<1>7. CASE Stream!TakeReadErr(s)
  <2>1. rphase[s] = "idle"
    BY <1>7 DEF Stream!TakeReadErr, CallIsForCurrent
  <2>2. QED
    BY <1>1, <1>7, <2>1, ReturnStep DEF Stream!TakeReadErr
<1>8. CASE Stream!TimerFires(s)
  <2>1. /\ timer[s] = "armed" /\ timer' = [timer EXCEPT ![s] = "fired"]
        /\ UNCHANGED <<phase, token, incoming, current, pendingEmit>>
    BY <1>8 DEF Stream!TimerFires
  <2>2. StreamTypes' /\ EmissionHasRequest' /\ CallIsForCurrent'
        /\ OvertakenHasToken'
    BY <1>1, <2>1 DEF StreamTypes, EmissionHasRequest, CallIsForCurrent,
                      OvertakenHasToken, Timers
  <2>3. WakeupUnlessLate'
    BY <1>1, <2>1
       DEF StreamTypes, WakeupUnlessLate, Stream!Subscribed, Stream!Seen
  <2>4. QED
    BY <2>2, <2>3
<1>9. QED
  BY <1>2, <1>3, <1>4, <1>5, <1>6, <1>7, <1>8 DEF Coalesce, Stream!Select

(* The invariant holds in every reachable state.                           *)
THEOREM MapInvariance == MapSafety => []MapInv
<1>1. MapInv /\ [MapNext]_mapVars => MapInv'
  <2> SUFFICES ASSUME MapInv, [MapNext]_mapVars PROVE MapInv'
    OBVIOUS
  <2>1. IInv'
    BY CacheStep, CacheInvariantStep DEF MapInv
  <2>2. ASSUME MapNext PROVE StreamInv'
    <3>1. ASSUME NEW s \in Streams, Deliver(s) PROVE StreamInv'
      BY <3>1, FailStep, WriteStep DEF Deliver
    <3>2. QED
      BY <2>2, <3>1, AnnounceStep, QuietStep, AskStep, ReceiveStep, FailStep,
         CoalesceStep
         DEF MapNext
  <2>3. ASSUME UNCHANGED mapVars PROVE StreamInv'
    <3>1. UNCHANGED <<phase, token, incoming, current, pendingEmit, timer,
                      fetched, view, doubtful, completed, rphase, key, floor>>
      BY <2>3 DEF mapVars, vars, streamOnly, writers, readers
    <3>2. QED
      BY <3>1, FrameStep DEF MapInv
  <2>4. QED
    BY <2>1, <2>2, <2>3 DEF MapInv
<1>2. QED
  BY <1>1, InitMapInv, PTL DEF MapSafety

----------------------------------------------------------------------------
(***************************************************************************)
(* With the cache in the way, a client that is behind a mutation that has  *)
(* returned still has its wakeup, unless what it shows came from a late    *)
(* key: the cache is swept before the streams are notified, and a call     *)
(* that was overtaken leaves the token behind.                             *)
(***************************************************************************)
THEOREM WakeupsSurviveTheCache == MapSafety => []WakeupUnlessLate
<1>1. MapInv => WakeupUnlessLate
  BY DEF MapInv, StreamInv
<1>2. QED
  BY <1>1, MapInvariance, PTL

(* The view of a stream does not change under its call of ViewportFeatures. *)
THEOREM CallsAreForCurrent == MapSafety => []CallIsForCurrent
<1>1. MapInv => CallIsForCurrent
  BY DEF MapInv, StreamInv
<1>2. QED
  BY <1>1, MapInvariance, PTL

(***************************************************************************)
(* The streams, the callers of the endpoint and the mutations use the      *)
(* cache as ViewportCache allows: the whole implements it, and what is     *)
(* proved of the cache is true of the server.                              *)
(***************************************************************************)
THEOREM MapImplementsCache == MapSafety => Spec
<1>1. MapInit => Init
  BY DEF MapInit
<1>2. QED
  BY <1>1, CacheStep, MapInvariance, PTL DEF MapSafety, Spec

(* So a viewport request that begins when a mutation has returned shows    *)
(* what it did, whether a stream makes it or a caller of the endpoint.     *)
THEOREM ServerReadsFollowWrites == MapSafety => []ReadAfterWrite
BY MapImplementsCache, ReadsFollowWrites, PTL

----------------------------------------------------------------------------
(***************************************************************************)
(* What UpdateStream promises of a loop holds in the server too, where a   *)
(* query may return features that are older than the tables: the timer,    *)
(* the base of a delta, and a wakeup for a view that is not shown yet.     *)
(***************************************************************************)

(* An emission under way is one that was pending, of the current request.  *)
EmissionIsPending ==
  \A s \in Streams :
    /\ phase[s] \in {"query", "write"} => pendingEmit[s] /\ timer[s] = "off"
    /\ phase[s] = "write" => fetched[s].request = current[s]

(* A client that is not shown what it asked for last is about to be.       *)
NewRequestIsPending ==
  \A s \in Streams :
    /\ Stream!Subscribed(s)
    /\ current[s] # NoRequest
    /\ Stream!Seen(s).request # current[s]
    => \/ phase[s] = "query"
       \/ phase[s] = "select" /\ pendingEmit[s] /\ timer[s] # "off"

LoopInv ==
  /\ pendingInitial \in [Streams -> BOOLEAN]
  /\ EmissionIsPending
  /\ Stream!TimerMeansPending
  /\ Stream!DeltaHasBase
  /\ NewRequestIsPending

(* A step of the server in which the loops do nothing.                     *)
LEMMA IdleLoopStep ==
  ASSUME LoopInv,
         UNCHANGED <<phase, current, pendingEmit, pendingInitial, timer,
                     fetched, view>>
  PROVE  LoopInv'
BY DEF LoopInv, EmissionIsPending, Stream!TimerMeansPending,
       Stream!DeltaHasBase, NewRequestIsPending, Stream!Subscribed, Stream!Seen

(* A message may be of another view, and then an emission is scheduled.    *)
LEMMA TakeMessageLoop ==
  ASSUME StreamTypes, LoopInv, NEW s \in Streams, Stream!TakeMessage(s)
  PROVE  LoopInv'
<1> DEFINE message == Head(incoming[s])
           next    == [viewport |-> message.viewport,
                       mode |-> Stream!ModeOf(s, message)]
<1>1. next \in Keys
  BY RequestIsKey DEF Stream!TakeMessage, StreamTypes
<1>2. /\ current' = [current EXCEPT ![s] = next]
      /\ pendingEmit' = [pendingEmit EXCEPT ![s] = TRUE]
      /\ timer' = [timer EXCEPT ![s] = "armed"]
      /\ phase[s] = "select"
      /\ UNCHANGED <<phase, fetched, view>>
  BY DEF Stream!TakeMessage, Stream!ScheduleEmit, Stream!outputs
<1>3. /\ pendingInitial' \in [Streams -> BOOLEAN]
      /\ \A t \in Streams \ {s} : pendingInitial'[t] = pendingInitial[t]
      /\ ~pendingInitial'[s] => /\ ~pendingInitial[s]
                                /\ current[s] # NoRequest
                                /\ next.mode = current[s].mode
  BY DEF Stream!TakeMessage, Stream!ScheduleEmit, LoopInv
<1> HIDE DEF next
<1>4. /\ current'[s] = next /\ pendingEmit'[s] /\ timer'[s] = "armed"
      /\ \A t \in Streams \ {s} : /\ current'[t] = current[t]
                                  /\ pendingEmit'[t] = pendingEmit[t]
                                  /\ timer'[t] = timer[t]
  BY <1>2 DEF StreamTypes
<1>5. EmissionIsPending' /\ Stream!TimerMeansPending'
  BY <1>1, <1>2, <1>4, NoRequestAssumption
     DEF LoopInv, EmissionIsPending, Stream!TimerMeansPending
<1>6. Stream!DeltaHasBase'
  BY <1>2, <1>3, <1>4 DEF LoopInv, Stream!DeltaHasBase
<1>7. NewRequestIsPending'
  BY <1>2, <1>4
     DEF LoopInv, NewRequestIsPending, Stream!Subscribed, Stream!Seen
<1>8. QED
  BY <1>3, <1>5, <1>6, <1>7 DEF LoopInv

(* What else a stream does between two emissions.                          *)
LEMMA CoalesceLoop ==
  ASSUME MapInv, LoopInv, NEW s \in Streams, Coalesce(s)
  PROVE  LoopInv'
<1> USE DEF Stream!data, Stream!inputs, Stream!loop, Stream!outputs
<1>t. StreamTypes /\ EmissionHasRequest
  BY DEF MapInv, StreamInv
<1> DEFINE Goal == LoopInv'
<1>1. ASSUME Stream!Connect(s) PROVE Goal
  <2>1. /\ phase[s] = "absent" /\ phase' = [phase EXCEPT ![s] = "select"]
        /\ UNCHANGED <<current, pendingEmit, pendingInitial, timer, fetched,
                       view>>
    BY <1>1 DEF Stream!Connect
  <2>2. QED
    BY <2>1, <1>t
       DEF StreamTypes, EmissionHasRequest, LoopInv, EmissionIsPending,
           Stream!TimerMeansPending, Stream!DeltaHasBase, NewRequestIsPending,
           Stream!Subscribed, Stream!Seen
<1>2. ASSUME Stream!ReaderStep(s) PROVE Goal
  BY <1>2, IdleLoopStep
     DEF Stream!ReaderStep, Stream!ReadMessage, Stream!ReadFails
<1>3. ASSUME Stream!TakeMessage(s) PROVE Goal
  BY <1>3, <1>t, TakeMessageLoop
<1>4. ASSUME Stream!TakeUpdate(s) PROVE Goal
  <2>1. phase[s] = "select" /\ UNCHANGED <<phase, current, fetched, view>>
    BY <1>4 DEF Stream!TakeUpdate
  <2>2. ASSUME current[s] = NoRequest PROVE Goal
    BY <1>4, <2>1, <2>2, IdleLoopStep DEF Stream!TakeUpdate
  <2>3. ASSUME current[s] # NoRequest PROVE Goal
    <3>1. /\ pendingEmit' = [pendingEmit EXCEPT ![s] = TRUE]
          /\ timer' = [timer EXCEPT ![s] = "armed"]
      BY <1>4, <2>3 DEF Stream!TakeUpdate, Stream!ScheduleEmit
    <3>2. pendingInitial' = pendingInitial
      BY <1>4, <2>3 DEF Stream!TakeUpdate, Stream!ScheduleEmit, LoopInv
    <3>3. QED
      BY <1>t, <2>1, <2>3, <3>1, <3>2
         DEF StreamTypes, LoopInv, EmissionIsPending, Stream!TimerMeansPending,
             Stream!DeltaHasBase, NewRequestIsPending, Stream!Subscribed,
             Stream!Seen
  <2>4. QED
    BY <2>2, <2>3
<1>5. ASSUME Stream!TakeTimer(s) PROVE Goal
  BY <1>5, <1>t
     DEF Stream!TakeTimer, StreamTypes, LoopInv,
         EmissionIsPending, Stream!TimerMeansPending, Stream!DeltaHasBase,
         NewRequestIsPending, Stream!Subscribed, Stream!Live, Stream!Seen
<1>6. ASSUME Stream!TakeReadErr(s) PROVE Goal
  BY <1>6, <1>t
     DEF Stream!TakeReadErr, Stream!Return, StreamTypes, LoopInv,
         EmissionIsPending, Stream!TimerMeansPending, Stream!DeltaHasBase,
         NewRequestIsPending, Stream!Subscribed, Stream!Live, Stream!Seen
<1>7. ASSUME Stream!TimerFires(s) PROVE Goal
  BY <1>7, <1>t
     DEF Stream!TimerFires, StreamTypes, LoopInv,
         EmissionIsPending, Stream!TimerMeansPending, Stream!DeltaHasBase,
         NewRequestIsPending, Stream!Subscribed, Stream!Seen
<1>8. QED
  BY <1>1, <1>2, <1>3, <1>4, <1>5, <1>6, <1>7 DEF Coalesce, Stream!Select

(* ViewportFeatures returns: the features are those of the current view.   *)
LEMMA ReceiveLoop ==
  ASSUME MapInv, LoopInv, NEW s \in Streams, Receive(s)
  PROVE  LoopInv'
<1>1. /\ phase[s] = "query" /\ phase' = [phase EXCEPT ![s] = "write"]
      /\ fetched' = [fetched EXCEPT ![s] =
                       [version |-> result[s], request |-> current[s]]]
      /\ UNCHANGED <<current, pendingEmit, pendingInitial, timer, view>>
  BY DEF Receive, Stream!Query, Stream!loop
<1>2. /\ phase'[s] = "write" /\ fetched'[s].request = current[s]
      /\ \A t \in Streams \ {s} : /\ phase'[t] = phase[t]
                                  /\ fetched'[t] = fetched[t]
  BY <1>1 DEF MapInv, StreamInv, StreamTypes
<1>3. EmissionIsPending' /\ Stream!TimerMeansPending'
  BY <1>1, <1>2 DEF LoopInv, EmissionIsPending, Stream!TimerMeansPending
<1>4. Stream!DeltaHasBase'
  BY <1>1 DEF LoopInv, Stream!DeltaHasBase
<1>5. NewRequestIsPending'
  BY <1>1, <1>2
     DEF LoopInv, NewRequestIsPending, Stream!Subscribed, Stream!Seen
<1>6. QED
  BY <1>1, <1>3, <1>4, <1>5 DEF LoopInv

(* The frame is written: what is shown is of the mode of the request.      *)
LEMMA WriteLoop ==
  ASSUME MapInv, LoopInv, NEW s \in Streams, Stream!WriteFrame(s)
  PROVE  LoopInv'
<1>1. /\ phase[s] = "write" /\ phase' = [phase EXCEPT ![s] = "select"]
      /\ view' = [view EXCEPT ![s] = fetched[s]]
      /\ pendingEmit' = [pendingEmit EXCEPT ![s] = FALSE]
      /\ pendingInitial' = [pendingInitial EXCEPT ![s] = FALSE]
      /\ UNCHANGED <<current, timer, fetched>>
  BY DEF Stream!WriteFrame
<1>2. /\ current[s] # NoRequest /\ timer[s] = "off"
      /\ fetched[s].request = current[s]
  BY <1>1 DEF MapInv, StreamInv, EmissionHasRequest, LoopInv, EmissionIsPending
<1>3. /\ phase'[s] = "select" /\ view'[s] = fetched[s]
      /\ \A t \in Streams \ {s} : /\ phase'[t] = phase[t]
                                  /\ view'[t] = view[t]
                                  /\ pendingEmit'[t] = pendingEmit[t]
                                  /\ pendingInitial'[t] = pendingInitial[t]
  BY <1>1 DEF MapInv, StreamInv, StreamTypes, LoopInv
<1>4. EmissionIsPending' /\ Stream!TimerMeansPending'
  BY <1>1, <1>2, <1>3 DEF LoopInv, EmissionIsPending, Stream!TimerMeansPending
<1>5. Stream!DeltaHasBase'
  BY <1>1, <1>2, <1>3 DEF LoopInv, Stream!DeltaHasBase
<1>6. NewRequestIsPending'
  BY <1>1, <1>2, <1>3
     DEF LoopInv, NewRequestIsPending, Stream!Subscribed, Stream!Seen
<1>7. pendingInitial' \in [Streams -> BOOLEAN]
  BY <1>1 DEF LoopInv
<1>8. QED
  BY <1>4, <1>5, <1>6, <1>7 DEF LoopInv

(* A query or a write that fails ends the stream and no other.             *)
LEMMA FailLoop ==
  ASSUME MapInv, LoopInv, NEW s \in Streams, Stream!EmitFails(s)
  PROVE  LoopInv'
BY DEF Stream!EmitFails, Stream!Return, Stream!outputs, MapInv, StreamInv,
       StreamTypes, LoopInv, EmissionIsPending, Stream!TimerMeansPending,
       Stream!DeltaHasBase, NewRequestIsPending, Stream!Subscribed,
       Stream!Live, Stream!Seen

LEMMA LoopInvariance == MapSafety => [](MapInv /\ LoopInv)
<1>1. MapInit => LoopInv
  BY DEF MapInit, Stream!Init, LoopInv, EmissionIsPending,
         Stream!TimerMeansPending, Stream!DeltaHasBase, NewRequestIsPending,
         Stream!Subscribed, Stream!Live
<1>2. MapInv /\ LoopInv /\ [MapNext]_mapVars => LoopInv'
  <2> SUFFICES ASSUME MapInv, LoopInv, [MapNext]_mapVars PROVE LoopInv'
    OBVIOUS
  <2> DEFINE Goal == LoopInv'
  <2>1. ASSUME NEW w \in Writers,
               Mutate(w) \/ Invalidate(w) \/ Announce(w) \/ GiveUp(w)
        PROVE  Goal
    BY <2>1, IdleLoopStep
       DEF Mutate, Invalidate, Announce, GiveUp, Stream!Commit,
           Stream!NotifyDataChanged, Stream!FailMutation, Stream!loop,
           Stream!outputs, streamOnly
  <2>2. ASSUME NEW s \in Streams, Ask(s) PROVE Goal
    BY <2>2, IdleLoopStep DEF Ask, streamOnly
  <2>3. ASSUME NEW s \in Streams, Receive(s) \/ AskFails(s) PROVE Goal
    BY <2>3, ReceiveLoop, FailLoop DEF AskFails
  <2>4. ASSUME NEW s \in Streams, Deliver(s) \/ Coalesce(s) PROVE Goal
    BY <2>4, WriteLoop, FailLoop, CoalesceLoop DEF Deliver
  <2>5. ASSUME \/ \E c \in Readers \ Streams : CallerStep(c)
               \/ \E r \in Readers : Lookup(r)
               \/ \E k \in Keys : Evict(k)
               \/ UNCHANGED mapVars
        PROVE  Goal
    BY <2>5, IdleLoopStep DEF CallerStep, Lookup, Evict, streamOnly, mapVars
  <2>6. QED
    BY <2>1, <2>2, <2>3, <2>4, <2>5 DEF MapNext
<1>3. QED
  BY <1>1, <1>2, MapInvariance, PTL DEF MapSafety

(***************************************************************************)
(* In the server too no delta is computed against features of the other    *)
(* mode, though the features may come from a key filled long ago.          *)
(***************************************************************************)
THEOREM ServerDeltasHaveTheirBase == MapSafety => []Stream!DeltaHasBase
<1>1. LoopInv => Stream!DeltaHasBase
  BY DEF LoopInv
<1>2. QED
  BY <1>1, LoopInvariance, PTL

(* Nor does the coalescing timer run for nothing or during an emission.    *)
THEOREM ServerTimersArePending == MapSafety => []Stream!TimerMeansPending
<1>1. LoopInv => Stream!TimerMeansPending
  BY DEF LoopInv
<1>2. QED
  BY <1>1, LoopInvariance, PTL

(* A stream of the server has something to do: a case of its select is     *)
(* ready, its timer runs, or it makes an emission.                         *)
CanMove(s) ==
  \/ phase[s] \in {"query", "write"}
  \/ phase[s] = "select" /\ (incoming[s] # << >> \/ token[s] \/ readErr[s])
  \/ timer[s] # "off"

(***************************************************************************)
(* The safety half of SettlesUnlessLate: a stream that has nothing to do   *)
(* shows what its client asked for last, with every mutation that has      *)
(* returned, unless its last features came from a late key.                *)
(***************************************************************************)
THEOREM IdleStreamsAreCurrent ==
  MapSafety =>
    [](\A s \in Streams \ doubtful :
         Stream!Subscribed(s) /\ current[s] # NoRequest /\ ~CanMove(s) =>
           view[s].request = current[s] /\ ~(view[s].version < completed))
<1>1. ASSUME MapInv, LoopInv, NEW s \in Streams \ doubtful,
             Stream!Subscribed(s), current[s] # NoRequest, ~CanMove(s)
      PROVE  view[s].request = current[s] /\ ~(view[s].version < completed)
  <2>1. /\ phase[s] = "select" /\ ~token[s] /\ timer[s] = "off"
        /\ Stream!Seen(s) = view[s]
    BY <1>1 DEF CanMove, Stream!Subscribed, Stream!Live, Stream!Seen
  <2>2. view[s].request = current[s]
    BY <1>1, <2>1 DEF LoopInv, NewRequestIsPending
  <2>3. ~(view[s].version < completed)
    BY <1>1, <2>1 DEF MapInv, StreamInv, WakeupUnlessLate
  <2>4. QED
    BY <2>2, <2>3
<1>2. MapInv /\ LoopInv =>
        \A s \in Streams \ doubtful :
          Stream!Subscribed(s) /\ current[s] # NoRequest /\ ~CanMove(s) =>
            view[s].request = current[s] /\ ~(view[s].version < completed)
  BY <1>1
<1>3. QED
  BY <1>2, LoopInvariance, PTL
=============================================================================
