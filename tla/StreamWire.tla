----------------------------- MODULE StreamWire -----------------------------
(***************************************************************************)
(* The messages of /ws/stream as three programs write them and the server  *)
(* reads them: sendViewportNow of frontend/src/App.tsx, a client written   *)
(* from the protocol in README.md, and the benchmark                       *)
(* backend/cmd/wsbench/main.go, all of it; streamRequest and the first     *)
(* case of the select of backend/internal/httpapi/handler.go.              *)
(*                                                                         *)
(* A wire message is a record with the keys it carries on the wire.  The   *)
(* socket holds `Room` messages in each direction; a write to a full one   *)
(* blocks.  What the stream's loop does is as in UpdateStream, without the *)
(* steps in which it does not touch the socket.                            *)
(***************************************************************************)
EXTENDS Naturals, Sequences

CONSTANTS
  Boxes,       \* bounding boxes that clients ask for
  ZeroBox,     \* [4]float64{}, the box of a message that has none
  World,       \* the box that normalizeViewport puts in its place
  Zooms,       \* the zooms that clients ask for
  Garbage,     \* a message that cannot be decoded
  Room,        \* how many messages a socket holds in one direction
  MaxSends,    \* how many messages a client sends (a bound)
  MaxUpdates   \* how many changes of the map a stream is told of (a bound)

ASSUME ZeroBoxAssumption == ZeroBox \notin Boxes /\ World \notin Boxes
ASSUME RoomAssumption    == Room \in Nat \ {0}
ASSUME BoundsAssumption  == MaxSends \in Nat \ {0} /\ MaxUpdates \in Nat

VARIABLES
  program,    \* the client: the app, a manual one, or wsbench -format ...
  asked,      \* the viewport, mode and format its last message is meant to say
  sends,      \* how many messages it has sent
  main,       \* the main goroutine of wsbench; "user" for the other programs
  readErr,    \* wsbench: its reader goroutine has stopped with an error
  received,   \* the last frame that the client has read
  toServer,   \* messages in the socket
  toClient,   \* frames in the socket
  incoming,   \* the server's reader: the buffered message, then one in hand
  session,    \* currentViewport, currentMode and responseFormat
  hasViewport, \* a message has been taken
  updates,    \* how many changes the stream has been told of
  loop,       \* the server's loop: waiting in its select, or emitting
  due,        \* it has something to emit
  conn        \* "open", "closing" (a close message was read) or "dead"

client == <<program, asked, sends, main, readErr, received>>
socket == <<toServer, toClient, conn>>
stream == <<incoming, session, hasViewport, updates, loop, due>>
vars   == <<client, socket, stream>>

Benchmarks == {"bench-msgpack", "bench-json"}
Programs   == {"app", "manual"} \cup Benchmarks
Modes      == {"cluster", "heatmap"}
Formats    == {"msgpack", "json"}
Viewports  == [bbox : Boxes \cup {ZeroBox, World}, zoom : Zooms \cup {0}]
Asks       == [viewport : Viewports, mode : Modes, format : Formats]
NoFrame    == [viewport |-> [bbox |-> ZeroBox, zoom |-> 0], mode |-> "cluster",
               format |-> "json"]
Close      == [close |-> TRUE]

TypeOK ==
  /\ program \in Programs
  /\ asked \in Asks /\ received \in Asks /\ session \in Asks
  /\ sends \in 0 .. MaxSends /\ updates \in 0 .. MaxUpdates
  /\ main \in {"user", "write", "select", "close", "drain", "reported",
               "fatal"}
  /\ readErr \in BOOLEAN /\ due \in BOOLEAN /\ hasViewport \in BOOLEAN
  /\ Len(toServer) <= Room /\ Len(toClient) <= Room /\ Len(incoming) <= 2
  /\ loop \in {"select", "emit", "returned"}
  /\ conn \in {"open", "closing", "dead"}

----------------------------------------------------------------------------
(* What the programs write.                                                *)

ShortMode(mode) == IF mode = "heatmap" THEN "h" ELSE "c"

AppMessage(ask) ==
  [bbox |-> ask.viewport.bbox, z |-> ask.viewport.zoom,
   m |-> ShortMode(ask.mode), f |-> "m"]

ManualMessage(ask) ==
  [type |-> "viewport", bbox |-> ask.viewport.bbox,
   zoom |-> ask.viewport.zoom, mode |-> ask.mode]

(***************************************************************************)
(* viewportRequest has json tags only: json.Marshal writes the short keys, *)
(* msgpack.Marshal does not know them and writes the names of the fields.  *)
(***************************************************************************)
BenchMessage(ask) ==
  IF ask.format = "msgpack"
  THEN [BBox |-> ask.viewport.bbox, Zoom |-> ask.viewport.zoom,
        Mode |-> ShortMode(ask.mode), Fmt |-> "m"]
  ELSE [bbox |-> ask.viewport.bbox, z |-> ask.viewport.zoom,
        m |-> ShortMode(ask.mode)]

Message(ask) ==
  CASE program = "app" -> AppMessage(ask)
    [] program = "manual" -> ManualMessage(ask)
    [] program \in Benchmarks -> BenchMessage(ask)

ASSUME GarbageAssumption ==
  \A ask \in Asks :
    Garbage \notin {Close, AppMessage(ask), ManualMessage(ask),
                    BenchMessage(ask)}

(* The format of the answers that each program wants.                      *)
Wanted(p) == IF p \in {"app", "bench-msgpack"} THEN "msgpack" ELSE "json"

----------------------------------------------------------------------------
(* What the server makes of it.                                            *)

(* decodeStreamRequest: a key that is missing leaves the zero value.       *)
Field(message, key, zero) ==
  IF key \in DOMAIN message THEN message[key] ELSE zero

ModeNamed(message) ==
  IF Field(message, "mode", "") # "" THEN message.mode
  ELSE Field(message, "m", "")

(* The short names, and NormalizeVisualizationMode.                        *)
NormalMode(name) == IF name \in {"h", "heatmap"} THEN "heatmap" ELSE "cluster"

(* A message in short keys that loses its zoom when it names no long one.  *)
MergeLongZoom(s, message) ==
  [viewport |-> [bbox |-> Field(message, "bbox", ZeroBox),
                 zoom |-> Field(message, "zoom", 0)],
   mode     |-> IF ModeNamed(message) = "" THEN s.mode
                ELSE NormalMode(ModeNamed(message)),
   format   |-> IF Field(message, "f", "") = "m" THEN "msgpack" ELSE s.format]

(***************************************************************************)
(* Nothing is kept of the last viewport; the mode is, when none is named,  *)
(* and msgpack, once it has been asked for.  A zoom under the short key    *)
(* goes before one under the long key, unless it is 0.                     *)
(***************************************************************************)
Merge(s, message) ==
  LET own   == Field(message, "viewport", [bbox |-> ZeroBox, zoom |-> 0])
      short == Field(message, "z", own.zoom)
  IN  [viewport |-> [bbox |-> Field(message, "bbox", own.bbox),
                     zoom |-> IF short = 0 THEN Field(message, "zoom", 0)
                              ELSE short],
       mode     |-> IF ModeNamed(message) = "" THEN s.mode
                    ELSE NormalMode(ModeNamed(message)),
       format   |-> IF \/ Field(message, "f", "") = "m"
                       \/ Field(message, "format", "") = "msgpack"
                    THEN "msgpack" ELSE s.format]

(* The frame that answers a session, of features of the normal viewport.   *)
Answer(s) ==
  [s EXCEPT !.viewport.bbox = IF @ = ZeroBox THEN World ELSE @]

----------------------------------------------------------------------------
(* Init: the connection is open; wsbench is about to send its first        *)
(* viewport, with the zoom, mode and format of its flags.                  *)
Init ==
  /\ program \in Programs
  /\ asked \in {ask \in Asks : /\ ask.format = Wanted(program)
                               /\ ask.viewport.bbox \in Boxes
                               /\ ask.viewport.zoom \in Zooms}
  /\ main = IF program \in Benchmarks THEN "write" ELSE "user"
  /\ sends = 0 /\ updates = 0
  /\ readErr = FALSE /\ due = FALSE /\ hasViewport = FALSE
  /\ received = NoFrame /\ session = NoFrame
  /\ toServer = << >> /\ toClient = << >> /\ incoming = << >>
  /\ loop = "select"
  /\ conn = "open"

----------------------------------------------------------------------------
(* The clients.                                                            *)

(* A write that never waits for room in the socket.                        *)
WriteUnblocked(message) ==
  /\ conn # "dead"
  /\ toServer' = Append(toServer, message)

Write(message) ==
  /\ conn # "dead"
  /\ Len(toServer) < Room
  /\ toServer' = Append(toServer, message)

(* The map is moved or the mode toggled, and the message goes out.         *)
Ask(viewport, mode) ==
  /\ main = "user"
  /\ sends < MaxSends
  /\ asked' = [asked EXCEPT !.viewport = viewport, !.mode = mode]
  /\ Write(Message(asked'))
  /\ sends' = sends + 1
  /\ UNCHANGED <<program, main, readErr, received, toClient, conn, stream>>

(* A client made by hand sends something that is no message.               *)
SendGarbage ==
  /\ program = "manual"
  /\ sends < MaxSends
  /\ Write(Garbage)
  /\ sends' = sends + 1
  /\ UNCHANGED <<program, asked, main, readErr, received, toClient, conn,
                 stream>>

(* wsbench: the ticker ticks, the box moves on a little.                   *)
Tick(box) ==
  /\ main = "select"
  /\ sends < MaxSends
  /\ asked' = [asked EXCEPT !.viewport.bbox = box]
  /\ main' = "write"
  /\ UNCHANGED <<program, sends, readErr, received, socket, stream>>

(* writeViewport, or its error and log.Fatalf.                             *)
WriteViewport ==
  /\ main = "write"
  /\ IF conn = "dead"
     THEN main' = "fatal" /\ UNCHANGED <<sends, toServer>>
     ELSE /\ Write(Message(asked))
          /\ sends' = sends + 1
          /\ main' = "select"
  /\ UNCHANGED <<program, asked, readErr, received, toClient, conn, stream>>

(* "stream closed during benchmark".                                       *)
StreamClosed ==
  /\ main = "select"
  /\ readErr
  /\ main' = "fatal"
  /\ UNCHANGED <<program, asked, sends, readErr, received, socket, stream>>

(* time.Now() has come to `end`.                                           *)
TimeIsUp ==
  /\ main = "select"
  /\ main' = "close"
  /\ UNCHANGED <<program, asked, sends, readErr, received, socket, stream>>

(* The close message is written, whatever comes of it.                     *)
WriteClose ==
  /\ main = "close"
  /\ IF conn = "dead" THEN UNCHANGED toServer ELSE Write(Close)
  /\ main' = "drain"
  /\ UNCHANGED <<program, asked, sends, readErr, received, toClient, conn,
                 stream>>

(* 150 milliseconds, or the reader's error: the report is printed.         *)
Report ==
  /\ main = "drain"
  /\ main' = "reported"
  /\ UNCHANGED <<program, asked, sends, readErr, received, socket, stream>>

(* A benchmark that reads where it writes, in its one goroutine.           *)
ReceiveBetweenWrites ==
  /\ toClient # << >>
  /\ ~readErr
  /\ main \in {"user", "select"}
  /\ received' = Head(toClient)
  /\ toClient' = Tail(toClient)
  /\ UNCHANGED <<program, asked, sends, main, readErr, toServer, conn, stream>>

(* The reader goroutine of wsbench, or the browser's event loop.           *)
Receive ==
  /\ toClient # << >>
  /\ ~readErr
  /\ main \notin {"reported", "fatal"}
  /\ received' = Head(toClient)
  /\ toClient' = Tail(toClient)
  /\ UNCHANGED <<program, asked, sends, main, readErr, toServer, conn, stream>>

(* The connection is gone, or the read deadline of the drain has passed.   *)
ReceiveFails ==
  /\ ~readErr
  /\ program \in Benchmarks /\ main \notin {"reported", "fatal"}
  /\ \/ conn = "dead" /\ toClient = << >>
     \/ main = "drain"
  /\ readErr' = TRUE
  /\ UNCHANGED <<program, asked, sends, main, received, socket, stream>>

----------------------------------------------------------------------------
(* The server.                                                             *)

(* The reader goroutine: what cannot be decoded is passed over.            *)
ServerReads ==
  /\ conn = "open"
  /\ toServer # << >>
  /\ Len(incoming) < 2
  /\ toServer' = Tail(toServer)
  /\ CASE Head(toServer) = Garbage -> UNCHANGED <<incoming, conn>>
       [] Head(toServer) = Close -> conn' = "closing" /\ UNCHANGED incoming
       [] OTHER -> /\ incoming' = Append(incoming, Head(toServer))
                   /\ UNCHANGED conn
  /\ UNCHANGED <<client, toClient, session, hasViewport, updates, loop, due>>

TakeMessage ==
  /\ loop = "select"
  /\ incoming # << >>
  /\ incoming' = Tail(incoming)
  /\ session' = Merge(session, Head(incoming))
  /\ hasViewport' = TRUE
  /\ due' = TRUE
  /\ UNCHANGED <<client, socket, updates, loop>>

TakeUpdate ==
  /\ loop = "select"
  /\ updates < MaxUpdates
  /\ updates' = updates + 1
  /\ due' = (due \/ hasViewport)
  /\ UNCHANGED <<client, socket, incoming, session, hasViewport, loop>>

(* The coalescing timer: the loop leaves its select to emit.               *)
TakeTimer ==
  /\ loop = "select"
  /\ due
  /\ loop' = "emit"
  /\ UNCHANGED <<client, socket, incoming, session, hasViewport, updates, due>>

(* writeStreamResponse in the format of the session; an error ends it.     *)
WriteFrame ==
  /\ loop = "emit"
  /\ IF conn = "dead"
     THEN loop' = "returned" /\ UNCHANGED <<toClient, due>>
     ELSE /\ Len(toClient) < Room
          /\ toClient' = Append(toClient, Answer(session))
          /\ due' = FALSE
          /\ loop' = "select"
  /\ UNCHANGED <<client, toServer, conn, incoming, session, hasViewport,
                 updates>>

(* The reader's error: the loop returns and closes the connection.         *)
LoopReturns ==
  /\ loop = "select"
  /\ conn # "open"
  /\ loop' = "returned"
  /\ conn' = "dead"
  /\ UNCHANGED <<client, toServer, toClient, incoming, session, hasViewport,
                 updates, due>>

(* The network or the server fails.                                        *)
Disconnect ==
  /\ conn # "dead"
  /\ conn' = "dead"
  /\ UNCHANGED <<client, toServer, toClient, stream>>

----------------------------------------------------------------------------
BenchStep == WriteViewport \/ TimeIsUp \/ WriteClose \/ Report

ServerStep ==
  ServerReads \/ TakeMessage \/ TakeUpdate \/ TakeTimer \/ WriteFrame
    \/ LoopReturns

Next ==
  \/ \E box \in Boxes, zoom \in Zooms, mode \in Modes :
       Ask([bbox |-> box, zoom |-> zoom], mode)
  \/ SendGarbage
  \/ \E box \in Boxes : Tick(box)
  \/ BenchStep \/ StreamClosed
  \/ Receive \/ ReceiveFails
  \/ ServerStep
  \/ Disconnect

(***************************************************************************)
(* Go runs the goroutines, the network carries what is in the sockets and  *)
(* time passes.  Nothing makes a user act, a map change or a server fail.  *)
(***************************************************************************)
Fairness ==
  /\ WF_vars(BenchStep) /\ WF_vars(Receive)
  /\ WF_vars(ServerReads) /\ WF_vars(TakeMessage)
  /\ WF_vars(TakeTimer) /\ WF_vars(WriteFrame) /\ WF_vars(LoopReturns)

Spec == Init /\ [][Next]_vars /\ Fairness

----------------------------------------------------------------------------
(***************************************************************************)
(* The three ways to write a viewport mean the same to the server: once it *)
(* has taken what a client has sent, its session is what the client asked  *)
(* for last, whatever it had asked before and whatever garbage it sent,    *)
(* and a frame that says so has been read, is on its way or is due.        *)
(* wsbench in msgpack is left out: see BenchFormatIsHonoured.              *)
(***************************************************************************)
AnsweredAsAsked ==
  /\ conn = "open" /\ toServer = << >> /\ incoming = << >>
  /\ sends > 0 /\ main # "write"
  /\ program # "bench-msgpack" /\ hasViewport
  => session = asked /\ (due \/ toClient # << >> \/ received = asked)

(***************************************************************************)
(* Client and server never wait for each other for ever, each blocked on   *)
(* writing to a socket that the other does not read: wsbench comes to its  *)
(* end, because its reader goroutine goes on reading while it writes.      *)
(***************************************************************************)
BenchmarkEnds ==
  program \in Benchmarks => <>(main \in {"reported", "fatal"})

(***************************************************************************)
(* backend/cmd/wsbench/main.go:32, "wire format: msgpack|json": what the   *)
(* server sends to wsbench -format msgpack is in that format.              *)
(***************************************************************************)
BenchFormatIsHonoured ==
  program = "bench-msgpack" /\ received # NoFrame =>
    received.format = "msgpack"
=============================================================================
