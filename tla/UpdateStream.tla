---------------------------- MODULE UpdateStream ----------------------------
(***************************************************************************)
(* How a change of the map reaches the websocket clients: the listeners of *)
(* backend/internal/service/map_service.go (SubscribeUpdates,              *)
(* notifyDataChanged, and the mutations that call it) and the goroutines   *)
(* of Handler.stream in backend/internal/httpapi/handler.go.               *)
(*                                                                         *)
(* A stream is two goroutines.  The reader takes messages off the socket   *)
(* and sends them to `incoming`; the loop selects among `incoming`, the    *)
(* update channel of its listener, the coalescing timer and the reader's   *)
(* error.  Whatever has to be shown again is put off until no event has    *)
(* come for viewportCoalesceWindow, then ViewportFeatures is called and a  *)
(* snapshot or a delta is written.                                         *)
(*                                                                         *)
(* The features are represented by the number of changes committed when    *)
(* they were read, a viewport and mode by a request.  ViewportFeatures     *)
(* reads the tables here; MapCluster puts the Redis cache in its way.      *)
(***************************************************************************)
EXTENDS Naturals, Sequences

CONSTANTS
  Writers,      \* HTTP requests that change the points
  Streams,      \* websocket connections
  Viewports,    \* bounding boxes and zooms
  NoRequest,    \* a stream whose client has sent no viewport yet
  MaxVersion,   \* how many changes are committed (a bound)
  MaxMessages   \* how many messages each client sends (a bound)

Modes    == {"cluster", "heatmap"}
Requests == [viewport : Viewports, mode : Modes]

(* A message of the client; "" is a message that names no mode.            *)
Messages == [viewport : Viewports, mode : Modes \cup {""}]

ASSUME NoRequestAssumption == NoRequest \notin Requests
ASSUME BoundsAssumption    == MaxVersion \in Nat /\ MaxMessages \in Nat

VARIABLES
  version,        \* how many changes of the points are committed
  announced,      \* the version when notifyDataChanged last ran
  writing,        \* requests that have committed and not yet notified
  phase,          \* where the stream's loop is
  token,          \* the update channel of its listener holds its one token
  incoming,       \* the buffered message, then the one the reader is stuck on
  reader,         \* the reader goroutine
  readErr,        \* the error channel holds the reader's error
  sent,           \* how many messages the client has sent
  current,        \* currentViewport and currentMode, once hasViewport
  pendingEmit,    \* something is to be shown
  pendingInitial, \* and it is to be shown as a snapshot
  timer,          \* the coalescing timer
  fetched,        \* what ViewportFeatures has returned
  view            \* what was last written: lastFeatures

data    == <<version, announced, writing>>
inputs  == <<incoming, reader, readErr, sent>>
loop    == <<current, pendingEmit, pendingInitial, timer>>
outputs == <<fetched, view>>
vars    == <<data, phase, token, inputs, loop, outputs>>

(* SubscribeUpdates has returned and unsubscribe has not been called.      *)
Live == {"select", "query", "write"}
Subscribed(s) == phase[s] \in Live

Views == [version : Nat, request : Requests \cup {NoRequest}]

TypeOK ==
  /\ version \in 0 .. MaxVersion
  /\ announced \in 0 .. version
  /\ writing \in SUBSET Writers
  /\ phase \in [Streams -> Live \cup {"absent", "returned"}]
  /\ token \in [Streams -> BOOLEAN]
  /\ incoming \in [Streams -> Seq(Messages)]
  /\ \A s \in Streams : Len(incoming[s]) <= 2
  /\ reader \in [Streams -> {"reading", "stopped"}]
  /\ readErr \in [Streams -> BOOLEAN]
  /\ sent \in [Streams -> 0 .. MaxMessages]
  /\ current \in [Streams -> Requests \cup {NoRequest}]
  /\ pendingEmit \in [Streams -> BOOLEAN]
  /\ pendingInitial \in [Streams -> BOOLEAN]
  /\ timer \in [Streams -> {"off", "armed", "fired"}]
  /\ fetched \in [Streams -> Views]
  /\ view \in [Streams -> Views]

NoView == [version |-> 0, request |-> NoRequest]

Init ==
  /\ version = 0
  /\ announced = 0
  /\ writing = {}
  /\ phase = [s \in Streams |-> "absent"]
  /\ token = [s \in Streams |-> FALSE]
  /\ incoming = [s \in Streams |-> << >>]
  /\ reader = [s \in Streams |-> "stopped"]
  /\ readErr = [s \in Streams |-> FALSE]
  /\ sent = [s \in Streams |-> 0]
  /\ current = [s \in Streams |-> NoRequest]
  /\ pendingEmit = [s \in Streams |-> FALSE]
  /\ pendingInitial = [s \in Streams |-> FALSE]
  /\ timer = [s \in Streams |-> "off"]
  /\ fetched = [s \in Streams |-> NoView]
  /\ view = [s \in Streams |-> NoView]

----------------------------------------------------------------------------
(* The mutations: the repository commits, then the listeners are notified. *)

(* A statement that changes what viewport queries return: a refresh is two *)
(* of them, its TRUNCATE and its INSERT.                                   *)
Commit(w) ==
  /\ version < MaxVersion
  /\ version' = version + 1
  /\ writing' = writing \cup {w}
  /\ UNCHANGED <<announced, phase, token, inputs, loop, outputs>>

(* A notification that only reaches the streams waiting in their select.   *)
NotifyWaitingStreams(w) ==
  /\ w \in writing
  /\ writing' = writing \ {w}
  /\ announced' = version
  /\ token' = [s \in Streams |-> token[s] \/ phase[s] = "select"]
  /\ UNCHANGED <<version, phase, inputs, loop, outputs>>

(***************************************************************************)
(* Under the mutex, a token is offered to every listener; a channel that   *)
(* still holds one is skipped.                                             *)
(***************************************************************************)
NotifyDataChanged(w) ==
  /\ w \in writing
  /\ writing' = writing \ {w}
  /\ announced' = version
  /\ token' = [s \in Streams |-> token[s] \/ Subscribed(s)]
  /\ UNCHANGED <<version, phase, inputs, loop, outputs>>

(***************************************************************************)
(* The repository returns an error after its INSERT (RefreshClusters       *)
(* failed): the points have changed and nobody is told.                    *)
(***************************************************************************)
FailMutation(w) ==
  /\ w \in writing
  /\ writing' = writing \ {w}
  /\ UNCHANGED <<version, announced, phase, token, inputs, loop, outputs>>

----------------------------------------------------------------------------
(* The connection and its reader goroutine.                                *)

Connect(s) ==
  /\ phase[s] = "absent"
  /\ phase' = [phase EXCEPT ![s] = "select"]
  /\ reader' = [reader EXCEPT ![s] = "reading"]
  /\ UNCHANGED <<data, token, incoming, readErr, sent, loop, outputs>>

(* A reader that does not block when the channel is full.                  *)
ReadMessageUnbounded(s, message) ==
  /\ reader[s] = "reading"
  /\ sent[s] < MaxMessages
  /\ sent' = [sent EXCEPT ![s] = @ + 1]
  /\ incoming' = [incoming EXCEPT ![s] = Append(@, message)]
  /\ UNCHANGED <<data, phase, token, reader, readErr, loop, outputs>>

(***************************************************************************)
(* The channel buffers one message; with a second one in hand the reader   *)
(* is stuck on `incoming <- message` until the loop takes the first.  The  *)
(* reader knows nothing of the loop: until its connection fails it reads   *)
(* on, also what has arrived when the loop has given up on an emission.    *)
(* Stuck then, it is stuck for ever.                                       *)
(***************************************************************************)
ReadMessage(s, message) ==
  /\ reader[s] = "reading"
  /\ Len(incoming[s]) < 2
  /\ sent[s] < MaxMessages
  /\ sent' = [sent EXCEPT ![s] = @ + 1]
  /\ incoming' = [incoming EXCEPT ![s] = Append(@, message)]
  /\ UNCHANGED <<data, phase, token, reader, readErr, loop, outputs>>

(* The peer is gone, or the loop has returned and closed the connection.   *)
ReadFails(s) ==
  /\ reader[s] = "reading"
  /\ Len(incoming[s]) < 2
  /\ reader' = [reader EXCEPT ![s] = "stopped"]
  /\ readErr' = [readErr EXCEPT ![s] = TRUE]
  /\ UNCHANGED <<data, phase, token, incoming, sent, loop, outputs>>

----------------------------------------------------------------------------
(* The loop: one action for each case of the select, and the emission.     *)

(* scheduleEmit that takes the kind of frame from the last event only.     *)
ScheduleEmitLastKind(s, initial) ==
  /\ pendingEmit' = [pendingEmit EXCEPT ![s] = TRUE]
  /\ pendingInitial' = [pendingInitial EXCEPT ![s] = initial]
  /\ timer' = [timer EXCEPT ![s] = "armed"]

(***************************************************************************)
(* A drain without the default case, `if !timer.Stop() { <-timer.C }`: it  *)
(* waits for ever on a timer whose tick the loop has taken.                *)
(***************************************************************************)
ScheduleEmitBlocking(s, initial) ==
  /\ current[s] = NoRequest \/ timer[s] # "off"
  /\ pendingEmit' = [pendingEmit EXCEPT ![s] = TRUE]
  /\ pendingInitial' = [pendingInitial EXCEPT ![s] = @ \/ initial]
  /\ timer' = [timer EXCEPT ![s] = "armed"]

(* A timer that has fired already is stopped and drained, and not reset.   *)
ScheduleEmitNoReset(s, initial) ==
  /\ pendingEmit' = [pendingEmit EXCEPT ![s] = TRUE]
  /\ pendingInitial' = [pendingInitial EXCEPT ![s] = @ \/ initial]
  /\ timer' = [timer EXCEPT ![s] = IF @ = "fired" THEN "off" ELSE "armed"]

(* scheduleEmit: stop the timer, drain it if it has fired, start it again. *)
ScheduleEmit(s, initial) ==
  /\ pendingEmit' = [pendingEmit EXCEPT ![s] = TRUE]
  /\ pendingInitial' = [pendingInitial EXCEPT ![s] = @ \/ initial]
  /\ timer' = [timer EXCEPT ![s] = "armed"]

(* A message that names no mode keeps the current one, at first cluster.   *)
ModeOf(s, message) ==
  IF message.mode # "" THEN message.mode
  ELSE IF current[s] = NoRequest THEN "cluster" ELSE current[s].mode

(* A message that is taken while sendViewport runs in a goroutine.         *)
TakeMessageMeanwhile(s) ==
  /\ Subscribed(s)
  /\ incoming[s] # << >>
  /\ LET message  == Head(incoming[s])
         nextMode == ModeOf(s, message)
         initial  == current[s] = NoRequest \/ nextMode # current[s].mode
     IN  /\ current' = [current EXCEPT ![s] =
                          [viewport |-> message.viewport, mode |-> nextMode]]
         /\ ScheduleEmit(s, initial)
  /\ incoming' = [incoming EXCEPT ![s] = Tail(@)]
  /\ UNCHANGED <<data, phase, token, reader, readErr, sent, outputs>>

TakeMessage(s) ==
  /\ phase[s] = "select"
  /\ incoming[s] # << >>
  /\ LET message  == Head(incoming[s])
         nextMode == ModeOf(s, message)
         initial  == current[s] = NoRequest \/ nextMode # current[s].mode
     IN  /\ current' = [current EXCEPT ![s] =
                          [viewport |-> message.viewport, mode |-> nextMode]]
         /\ ScheduleEmit(s, initial)
  /\ incoming' = [incoming EXCEPT ![s] = Tail(@)]
  /\ UNCHANGED <<data, phase, token, reader, readErr, sent, outputs>>

TakeUpdate(s) ==
  /\ phase[s] = "select"
  /\ token[s]
  /\ token' = [token EXCEPT ![s] = FALSE]
  /\ IF current[s] # NoRequest
     THEN ScheduleEmit(s, FALSE)
     ELSE UNCHANGED <<pendingEmit, pendingInitial, timer>>
  /\ UNCHANGED <<data, phase, inputs, current, outputs>>

(* viewportCoalesceWindow has passed since the last event.                 *)
TimerFires(s) ==
  /\ timer[s] = "armed"
  /\ timer' = [timer EXCEPT ![s] = "fired"]
  /\ UNCHANGED <<data, phase, token, inputs, current, pendingEmit,
                 pendingInitial, outputs>>

(* A ticker in the place of the timer.                                     *)
TakeTick(s) ==
  /\ phase[s] = "select"
  /\ timer[s] = "fired"
  /\ timer' = [timer EXCEPT ![s] = "armed"]
  /\ phase' = [phase EXCEPT ![s] =
                 IF current[s] # NoRequest /\ pendingEmit[s]
                 THEN "query" ELSE "select"]
  /\ UNCHANGED <<data, token, inputs, current, pendingEmit, pendingInitial,
                 outputs>>

TakeTimer(s) ==
  /\ phase[s] = "select"
  /\ timer[s] = "fired"
  /\ timer' = [timer EXCEPT ![s] = "off"]
  /\ phase' = [phase EXCEPT ![s] =
                 IF current[s] # NoRequest /\ pendingEmit[s]
                 THEN "query" ELSE "select"]
  /\ UNCHANGED <<data, token, inputs, current, pendingEmit, pendingInitial,
                 outputs>>

(* sendViewport: ViewportFeatures returns features of version v.           *)
Query(s, v) ==
  /\ phase[s] = "query"
  /\ fetched' = [fetched EXCEPT ![s] =
                   [version |-> v, request |-> current[s]]]
  /\ phase' = [phase EXCEPT ![s] = "write"]
  /\ UNCHANGED <<data, token, inputs, loop, view>>

(* An emission that takes the updates that came meanwhile as shown.        *)
WriteFrameDrainingUpdates(s) ==
  /\ phase[s] = "write"
  /\ view' = [view EXCEPT ![s] = fetched[s]]
  /\ pendingEmit' = [pendingEmit EXCEPT ![s] = FALSE]
  /\ pendingInitial' = [pendingInitial EXCEPT ![s] = FALSE]
  /\ token' = [token EXCEPT ![s] = FALSE]
  /\ phase' = [phase EXCEPT ![s] = "select"]
  /\ UNCHANGED <<data, inputs, current, timer, fetched>>

(***************************************************************************)
(* sendViewport: a snapshot if pendingInitial, else the delta from view to *)
(* fetched, is written; only then are the pending flags cleared.           *)
(***************************************************************************)
WriteFrame(s) ==
  /\ phase[s] = "write"
  /\ view' = [view EXCEPT ![s] = fetched[s]]
  /\ pendingEmit' = [pendingEmit EXCEPT ![s] = FALSE]
  /\ pendingInitial' = [pendingInitial EXCEPT ![s] = FALSE]
  /\ phase' = [phase EXCEPT ![s] = "select"]
  /\ UNCHANGED <<data, token, inputs, current, timer, fetched>>

(* The deferred calls: stop the timer, unsubscribe, close the connection.  *)
Return(s) ==
  /\ phase' = [phase EXCEPT ![s] = "returned"]
  /\ timer' = [timer EXCEPT ![s] = "off"]
  /\ token' = [token EXCEPT ![s] = FALSE]

(* ViewportFeatures or the write fails: the loop returns.                  *)
EmitFails(s) ==
  /\ phase[s] \in {"query", "write"}
  /\ Return(s)
  /\ UNCHANGED <<data, inputs, current, pendingEmit, pendingInitial, outputs>>

(* An error of the peer that the loop logs, and goes on.                   *)
TakeReadErrAndContinue(s) ==
  /\ phase[s] = "select"
  /\ readErr[s]
  /\ readErr' = [readErr EXCEPT ![s] = FALSE]
  /\ UNCHANGED <<data, phase, token, incoming, reader, sent, loop, outputs>>

(* A stream that is given up in the middle of an emission.                 *)
TakeReadErrAtOnce(s) ==
  /\ Subscribed(s)
  /\ readErr[s]
  /\ readErr' = [readErr EXCEPT ![s] = FALSE]
  /\ Return(s)
  /\ UNCHANGED <<data, incoming, reader, sent, current, pendingEmit,
                 pendingInitial, outputs>>

TakeReadErr(s) ==
  /\ phase[s] = "select"
  /\ readErr[s]
  /\ readErr' = [readErr EXCEPT ![s] = FALSE]
  /\ Return(s)
  /\ UNCHANGED <<data, incoming, reader, sent, current, pendingEmit,
                 pendingInitial, outputs>>

----------------------------------------------------------------------------
WriterStep(w) == Commit(w) \/ NotifyDataChanged(w) \/ FailMutation(w)

ReaderStep(s) ==
  \/ \E message \in Messages : ReadMessage(s, message)
  \/ ReadFails(s)

Select(s) == TakeMessage(s) \/ TakeUpdate(s) \/ TakeTimer(s) \/ TakeReadErr(s)

Emission(s) == Query(s, version) \/ WriteFrame(s) \/ EmitFails(s)

StreamStep(s) ==
  \/ Connect(s)
  \/ ReaderStep(s)
  \/ Select(s)
  \/ TimerFires(s)
  \/ Emission(s)

Next ==
  \/ \E w \in Writers : WriterStep(w)
  \/ \E s \in Streams : StreamStep(s)

(***************************************************************************)
(* Go runs every goroutine that can run, and picks at random among the     *)
(* cases of a select that are ready, so no case is passed over for ever.   *)
(* The timer fires once events stop resetting it: MaxVersion and           *)
(* MaxMessages make them stop.  Nothing makes a client or a writer act,    *)
(* and nothing makes an emission fail.                                     *)
(***************************************************************************)
Fairness ==
  \A s \in Streams :
    /\ SF_vars(TakeMessage(s))
    /\ SF_vars(TakeUpdate(s))
    /\ SF_vars(TakeTimer(s))
    /\ SF_vars(TakeReadErr(s))
    /\ WF_vars(TimerFires(s))
    /\ WF_vars(Emission(s))

Safety == Init /\ [][Next]_vars
Spec   == Safety /\ Fairness

----------------------------------------------------------------------------
(* Safety.                                                                 *)

(* What the client sees, or is about to: a frame being written counts.     *)
Seen(s) == IF phase[s] = "write" THEN fetched[s] ELSE view[s]

(***************************************************************************)
(* No wakeup is lost: a client whose view is older than an announced       *)
(* change, or is not the one it asked for, has an update token waiting, an *)
(* emission scheduled with its timer running, or a query about to run.     *)
(* The channel of capacity one, the non-blocking send, and the pending     *)
(* flags that are cleared only after the write make this so together.      *)
(***************************************************************************)
NoLostUpdate ==
  \A s \in Streams :
    /\ Subscribed(s)
    /\ current[s] # NoRequest
    /\ Seen(s).version < announced \/ Seen(s).request # current[s]
    => \/ token[s]
       \/ phase[s] = "query"
       \/ phase[s] = "select" /\ pendingEmit[s] /\ timer[s] # "off"

(***************************************************************************)
(* A delta is computed against features of the same mode: features of the  *)
(* two modes have the same ids and different properties, so a change of    *)
(* mode, even one coalesced with a change back, must end in a snapshot.    *)
(***************************************************************************)
DeltaHasBase ==
  \A s \in Streams :
    current[s] # NoRequest /\ ~pendingInitial[s] =>
      /\ view[s].request # NoRequest
      /\ view[s].request.mode = current[s].mode

(***************************************************************************)
(* The pending flags and the timer agree: the timer runs only for a        *)
(* pending emission, and never while one is being made, so a tick is never *)
(* spent on nothing and a new event never finds a timer half used.         *)
(***************************************************************************)
TimerMeansPending ==
  \A s \in Streams :
    timer[s] # "off" =>
      phase[s] = "select" /\ pendingEmit[s] /\ current[s] # NoRequest

----------------------------------------------------------------------------
(* Liveness.                                                               *)

(* The stream has taken every message and shows the last one's view.       *)
UpToDate(s) ==
  /\ incoming[s] = << >>
  /\ ~token[s]
  /\ current[s] # NoRequest =>
       view[s].request = current[s] /\ view[s].version >= announced

(***************************************************************************)
(* When clients and writers fall silent, every stream still served shows   *)
(* what its client asked for last, with every announced change.            *)
(***************************************************************************)
Settles == \A s \in Streams : <>[](Subscribed(s) => UpToDate(s))

(***************************************************************************)
(* A connection whose peer is gone is given up: the listener does not stay *)
(* in the service's map for ever.                                          *)
(***************************************************************************)
DeadPeerUnsubscribes ==
  \A s \in Streams : readErr[s] ~> ~Subscribed(s)

(***************************************************************************)
(* A reader that is stuck on `incoming <- message`, which selects on       *)
(* nothing else, goes on: updates, ticks and emissions do not keep the     *)
(* loop from taking the message before it.  Only a loop that has returned  *)
(* leaves it there, and with it the goroutine.                             *)
(***************************************************************************)
StuckReadersGoOn ==
  \A s \in Streams :
    Len(incoming[s]) = 2 ~> Len(incoming[s]) < 2 \/ phase[s] = "returned"

(* The stream implements what it promises its client.                      *)
Promise ==
  INSTANCE LiveView WITH
    open  <- {s \in Streams : Subscribed(s)},
    asked <- current,
    shown <- view

ImplementsLiveView == Promise!Spec
============================================================================
