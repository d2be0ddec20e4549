-------------------------- MODULE StreamWire_proofs --------------------------
(***************************************************************************)
(* Proofs about StreamWire, for any boxes and zooms, any room in the       *)
(* sockets and any number of messages and changes.                         *)
(***************************************************************************)
EXTENDS StreamWire, SequenceTheorems, TLAPS

(* The programs whose messages say what they mean.                         *)
Honest == {"app", "manual", "bench-json"}

(* What a program can ask for.                                             *)
OwnAsks ==
  {ask \in Asks : /\ ask.format = Wanted(program)
                  /\ ask.viewport.bbox \in Boxes
                  /\ ask.viewport.zoom \in Zooms}

----------------------------------------------------------------------------
(***************************************************************************)
(* However a program writes a viewport, the server makes of it what the    *)
(* program meant, whatever the session was, as long as a session that was  *)
(* never asked for msgpack is one in JSON.                                 *)
(***************************************************************************)
THEOREM MessagesSayWhatIsAsked ==
  ASSUME program \in Honest, NEW ask \in OwnAsks, NEW s \in Asks,
         Wanted(program) = "json" => s.format = "json"
  PROVE  Merge(s, Message(ask)) = ask
<1>1. /\ ask.mode \in Modes /\ ask.format = Wanted(program)
      /\ ask.viewport \in Viewports
      /\ ask = [viewport |-> ask.viewport, mode |-> ask.mode,
                format |-> ask.format]
      /\ ask.viewport = [bbox |-> ask.viewport.bbox,
                         zoom |-> ask.viewport.zoom]
  BY DEF OwnAsks, Asks, Viewports
<1>2. CASE program = "app"
  <2>1. /\ Message(ask) = AppMessage(ask) /\ ask.format = "msgpack"
    BY <1>1, <1>2 DEF Message, Wanted, Benchmarks
  <2>2. ModeNamed(AppMessage(ask)) = ShortMode(ask.mode)
    BY DEF ModeNamed, Field, AppMessage
  <2>3. /\ ShortMode(ask.mode) # ""
        /\ NormalMode(ShortMode(ask.mode)) = ask.mode
    BY <1>1 DEF ShortMode, NormalMode, Modes
  <2>4. /\ \A zero : Field(AppMessage(ask), "bbox", zero) = ask.viewport.bbox
        /\ \A zero : Field(AppMessage(ask), "z", zero) = ask.viewport.zoom
        /\ Field(AppMessage(ask), "zoom", 0) = 0
        /\ Field(AppMessage(ask), "f", "") = "m"
    BY DEF Field, AppMessage
  <2>5. QED
    BY <1>1, <2>1, <2>2, <2>3, <2>4 DEF Merge
<1>3. CASE program = "manual"
  <2>1. Message(ask) = ManualMessage(ask) /\ ask.format = "json"
    BY <1>1, <1>3 DEF Message, Wanted, Benchmarks
  <2>2. ModeNamed(ManualMessage(ask)) = ask.mode
    BY <1>1 DEF ModeNamed, Field, ManualMessage, Modes
  <2>3. ask.mode # "" /\ NormalMode(ask.mode) = ask.mode
    BY <1>1 DEF NormalMode, Modes
  <2>4. s.format = "json"
    BY <1>3 DEF Wanted
  <2>5. /\ \A zero : Field(ManualMessage(ask), "bbox", zero) = ask.viewport.bbox
        /\ \A zero : Field(ManualMessage(ask), "viewport", zero) = zero
        /\ \A zero : Field(ManualMessage(ask), "z", zero) = zero
        /\ Field(ManualMessage(ask), "zoom", 0) = ask.viewport.zoom
        /\ Field(ManualMessage(ask), "f", "") # "m"
        /\ Field(ManualMessage(ask), "format", "") # "msgpack"
    BY DEF Field, ManualMessage
  <2>6. /\ Merge(s, ManualMessage(ask)).format = s.format
        /\ Merge(s, ManualMessage(ask)).mode = ask.mode
        /\ Merge(s, ManualMessage(ask)).viewport =
             [bbox |-> ask.viewport.bbox, zoom |-> ask.viewport.zoom]
    <3>1. Merge(s, ManualMessage(ask)).format = s.format
      BY <2>5 DEF Merge
    <3>2. Merge(s, ManualMessage(ask)).mode = ask.mode
      BY <2>2, <2>3 DEF Merge
    <3>3. Merge(s, ManualMessage(ask)).viewport =
             [bbox |-> ask.viewport.bbox, zoom |-> ask.viewport.zoom]
      <4> DEFINE none == [bbox |-> ZeroBox, zoom |-> 0]
                 own  == Field(ManualMessage(ask), "viewport", none)
      <4>1. none.zoom = 0
        OBVIOUS
      <4>2. own = none
        BY <2>5
      <4>3. Field(ManualMessage(ask), "z", own.zoom) = 0
        BY <2>5, <4>1, <4>2
      <4>4. QED
        BY <2>5, <4>3 DEF Merge
    <3>4. QED
      BY <3>1, <3>2, <3>3
  <2>7. QED
    BY <1>1, <2>1, <2>4, <2>6 DEF Merge
<1>4. CASE program = "bench-json"
  <2>1. /\ Message(ask) = BenchMessage(ask) /\ ask.format = "json"
        /\ s.format = "json"
    BY <1>1, <1>4 DEF Message, Wanted, Benchmarks
  <2>2. BenchMessage(ask) = [bbox |-> ask.viewport.bbox,
                             z |-> ask.viewport.zoom,
                             m |-> ShortMode(ask.mode)]
    BY <2>1 DEF BenchMessage
  <2>3. ModeNamed(BenchMessage(ask)) = ShortMode(ask.mode)
    BY <2>2 DEF ModeNamed, Field
  <2>4. /\ ShortMode(ask.mode) # ""
        /\ NormalMode(ShortMode(ask.mode)) = ask.mode
    BY <1>1 DEF ShortMode, NormalMode, Modes
  <2>5. /\ \A zero : Field(BenchMessage(ask), "bbox", zero) = ask.viewport.bbox
        /\ \A zero : Field(BenchMessage(ask), "z", zero) = ask.viewport.zoom
        /\ Field(BenchMessage(ask), "zoom", 0) = 0
        /\ Field(BenchMessage(ask), "f", "") # "m"
        /\ Field(BenchMessage(ask), "format", "") # "msgpack"
    BY <2>2 DEF Field
  <2>6. /\ Merge(s, BenchMessage(ask)).format = s.format
        /\ Merge(s, BenchMessage(ask)).mode = ask.mode
        /\ Merge(s, BenchMessage(ask)).viewport =
             [bbox |-> ask.viewport.bbox, zoom |-> ask.viewport.zoom]
    <3>1. Merge(s, BenchMessage(ask)).format = s.format
      BY <2>5 DEF Merge
    <3>2. Merge(s, BenchMessage(ask)).mode = ask.mode
      BY <2>3, <2>4 DEF Merge
    <3>3. Merge(s, BenchMessage(ask)).viewport =
             [bbox |-> ask.viewport.bbox, zoom |-> ask.viewport.zoom]
      BY <2>5 DEF Merge
    <3>4. QED
      BY <3>1, <3>2, <3>3
  <2>7. QED
    BY <1>1, <2>1, <2>6 DEF Merge
<1>5. QED
  BY <1>2, <1>3, <1>4 DEF Honest

----------------------------------------------------------------------------
Signals     == {Garbage, Close}
OwnMessages == {Message(ask) : ask \in OwnAsks}

(* The types of what the argument is about.                                *)
WireTypes ==
  /\ (main = "user" <=> program \notin Benchmarks)
  /\ asked \in OwnAsks
  /\ toServer \in Seq(OwnMessages \cup Signals)
  /\ toClient \in Seq(OwnAsks)
  /\ incoming \in Seq(OwnMessages)
  /\ due \in BOOLEAN /\ hasViewport \in BOOLEAN

(* The session is one that the program has asked for, once it has asked.   *)
SessionIsOwn ==
  /\ IF hasViewport THEN session \in OwnAsks ELSE session = NoFrame
  /\ due => hasViewport
  /\ loop = "emit" => due

(* From i on, the socket holds nothing that the loop will see.             *)
Rest(messages, i) == \A j \in i + 1 .. Len(messages) : messages[j] \in Signals

(* The last request is the last message in the socket, or in the reader's  *)
(* channel, or has been taken.                                             *)
LastIsAsked ==
  conn = "open" /\ main # "write" =>
    \/ \E i \in 1 .. Len(toServer) :
         toServer[i] = Message(asked) /\ Rest(toServer, i)
    \/ /\ Rest(toServer, 0)
       /\ incoming # << >> /\ incoming[Len(incoming)] = Message(asked)
    \/ /\ Rest(toServer, 0)
       /\ incoming = << >> /\ (hasViewport => session = asked)

(* When nothing is due, the last frame is that of the session.             *)
LastIsAnswer ==
  hasViewport /\ ~due =>
    IF toClient = << >> THEN received = session
    ELSE toClient[Len(toClient)] = session

(* The inductive invariant.                                                *)
WireInv ==
  program \in Honest =>
    WireTypes /\ SessionIsOwn /\ LastIsAsked /\ LastIsAnswer

----------------------------------------------------------------------------
(* A message is neither garbage nor a close message.                       *)
LEMMA MessagesAreNoSignals ==
  ASSUME program \in Programs, NEW message \in OwnMessages
  PROVE  message \notin Signals
<1>1. PICK ask \in OwnAsks : message = Message(ask)
  BY DEF OwnMessages
<1>2. Message(ask) \in {AppMessage(ask), ManualMessage(ask), BenchMessage(ask)}
  BY DEF Message, Programs
<1>3. message # Garbage
  BY <1>1, <1>2, GarbageAssumption DEF OwnAsks
<1>4. "bbox" \in DOMAIN AppMessage(ask) /\ "bbox" \in DOMAIN ManualMessage(ask)
      /\ \/ "bbox" \in DOMAIN BenchMessage(ask)
         \/ "BBox" \in DOMAIN BenchMessage(ask)
  BY DEF AppMessage, ManualMessage, BenchMessage
<1>5. "bbox" \notin DOMAIN Close /\ "BBox" \notin DOMAIN Close
  BY DEF Close
<1>6. QED
  BY <1>1, <1>2, <1>3, <1>4, <1>5 DEF Signals

(* A socket that is opened satisfies the invariant.                        *)
LEMMA InitWireInv == Init => WireInv
<1> SUFFICES ASSUME Init, program \in Honest
             PROVE  WireTypes /\ SessionIsOwn /\ LastIsAsked /\ LastIsAnswer
  BY DEF WireInv
<1>1. /\ asked \in OwnAsks
      /\ toServer = << >> /\ toClient = << >> /\ incoming = << >>
  BY DEF Init, OwnAsks
<1>2. WireTypes
  <2>1. << >> \in Seq(OwnMessages) /\ << >> \in Seq(OwnAsks)
        /\ << >> \in Seq(OwnMessages \cup Signals)
    OBVIOUS
  <2>2. main = "user" <=> program \notin Benchmarks
    BY DEF Init
  <2>3. QED
    BY <1>1, <2>1, <2>2 DEF Init, WireTypes
<1>3. SessionIsOwn /\ LastIsAnswer
  BY DEF Init, SessionIsOwn, LastIsAnswer
<1>4. LastIsAsked
  BY <1>1 DEF Init, LastIsAsked, Rest
<1>5. QED
  BY <1>2, <1>3, <1>4

(***************************************************************************)
(* A message at the end of the socket: the request, unless it is a signal. *)
(***************************************************************************)
LEMMA WriteLast ==
  ASSUME program \in Honest, WireTypes, LastIsAsked,
         NEW message \in OwnMessages \cup Signals, Write(message),
         program' = program,
         UNCHANGED <<toClient, incoming, session, hasViewport, due, conn>>,
         asked' \in OwnAsks, main' # "user" <=> main # "user",
         \/ message = Message(asked')
         \/ message \in Signals /\ asked' = asked /\ main # "write"
  PROVE  WireTypes' /\ LastIsAsked'
<1> DEFINE n == Len(toServer)
<1>1. /\ toServer' = Append(toServer, message) /\ n \in Nat
      /\ toServer' \in Seq(OwnMessages \cup Signals)
  BY DEF Write, WireTypes
<1>2. OwnAsks' = OwnAsks /\ OwnMessages' = OwnMessages
      /\ \A ask : Message(ask)' = Message(ask)
  BY DEF OwnAsks, OwnMessages, Message
<1>3. WireTypes'
  BY <1>1, <1>2 DEF WireTypes
<1>4. /\ Len(toServer') = n + 1 /\ toServer'[n + 1] = message
      /\ \A i \in 1 .. n : toServer'[i] = toServer[i]
  BY <1>1 DEF WireTypes
<1>5. CASE message = Message(asked')
  <2>1. n + 1 \in 1 .. Len(toServer') /\ Rest(toServer', n + 1)
    BY <1>1, <1>4 DEF Rest
  <2>2. toServer'[n + 1] = Message(asked)'
    BY <1>4, <1>5 DEF Message
  <2>3. QED
    BY <1>3, <2>1, <2>2 DEF LastIsAsked
<1>6. CASE message \in Signals /\ asked' = asked /\ main # "write"
  <2>1. Message(asked)' = Message(asked)
    BY <1>6 DEF Message
  <2>2. \A i \in 0 .. n : Rest(toServer, i) => Rest(toServer', i)
    <3>1. \A i \in 0 .. n : \A j \in i + 1 .. n + 1 :
            j = n + 1 \/ (j \in i + 1 .. n /\ j \in 1 .. n)
      BY <1>1
    <3>2. QED
      BY <1>4, <1>6, <3>1 DEF Rest
  <2>3. /\ 0 \in 0 .. n
        /\ \A i \in 1 .. n : i \in 0 .. n /\ i \in 1 .. n + 1
    BY <1>1
  <2>4. LastIsAsked'
    BY <1>4, <1>6, <2>1, <2>2, <2>3 DEF LastIsAsked
  <2>5. QED
    BY <1>3, <2>4
<1>7. QED
  BY <1>5, <1>6

(* The reader passes a message on to the loop's channel, or over garbage.  *)
LEMMA ServerReadsStep ==
  ASSUME program \in Honest, WireTypes, LastIsAsked, ServerReads
  PROVE  WireTypes' /\ LastIsAsked'
<1> DEFINE n    == Len(toServer)
           head == Head(toServer)
           k    == Len(incoming)
<1>1. /\ toServer \in Seq(OwnMessages \cup Signals) /\ n \in Nat /\ n >= 1
      /\ toServer' = Tail(toServer) /\ head = toServer[1]
      /\ head \in OwnMessages \cup Signals
      /\ incoming \in Seq(OwnMessages) /\ k \in Nat
      /\ conn = "open"
      /\ UNCHANGED <<client, toClient, session, hasViewport, updates, loop, due>>
  BY DEF ServerReads, WireTypes
<1>2. /\ Len(toServer') = n - 1
      /\ \A i \in 1 .. n - 1 : toServer'[i] = toServer[i + 1]
      /\ toServer' \in Seq(OwnMessages \cup Signals)
  BY <1>1
<1>3. OwnAsks' = OwnAsks /\ OwnMessages' = OwnMessages
      /\ Message(asked)' = Message(asked)
  BY <1>1 DEF OwnAsks, OwnMessages, Message, client
<1>4. /\ head \in Signals => incoming' = incoming
      /\ head = Close => conn' = "closing"
      /\ head \notin Signals => incoming' = Append(incoming, head)
  BY GarbageAssumption DEF ServerReads, Signals
<1>5. incoming' \in Seq(OwnMessages)
  <2>1. CASE head \in Signals
    BY <1>1, <1>4, <2>1
  <2>2. CASE head \notin Signals
    BY <1>1, <1>4, <2>2
  <2>3. QED
    BY <2>1, <2>2
<1>6. WireTypes'
  BY <1>1, <1>2, <1>3, <1>5 DEF WireTypes, client
<1> HIDE DEF head
<1>7. \A i \in 0 .. n - 1 : Rest(toServer, i + 1) => Rest(toServer', i)
  <2>1. \A i \in 0 .. n - 1 : \A j \in i + 1 .. n - 1 :
          j + 1 \in (i + 1) + 1 .. n /\ j \in 1 .. n - 1
    BY <1>1
  <2>2. QED
    BY <1>1, <1>2, <2>1 DEF Rest
<1>8. LastIsAsked'
  <2> SUFFICES ASSUME conn' = "open", main # "write"
               PROVE  \/ \E i \in 1 .. n - 1 :
                           toServer'[i] = Message(asked) /\ Rest(toServer', i)
                      \/ /\ Rest(toServer', 0)
                         /\ incoming' # << >>
                         /\ incoming'[Len(incoming')] = Message(asked)
                      \/ /\ Rest(toServer', 0)
                         /\ incoming' = << >>
                         /\ (hasViewport => session = asked)
    BY <1>1, <1>2, <1>3 DEF LastIsAsked, client
  <2>1. CASE \E i \in 1 .. n : toServer[i] = Message(asked) /\ Rest(toServer, i)
    <3>1. PICK i \in 1 .. n : toServer[i] = Message(asked) /\ Rest(toServer, i)
      BY <2>1
    <3>2. CASE i = 1
      <4>1. 0 \in 0 .. n - 1 /\ Rest(toServer', 0)
        BY <1>1, <1>7, <3>1, <3>2
      <4>2. head = Message(asked) /\ head \in OwnMessages
        BY <1>1, <3>1, <3>2 DEF OwnMessages, WireTypes
      <4>3. head \notin Signals
        BY <4>2, MessagesAreNoSignals DEF Honest, Programs, Benchmarks
      <4>4. incoming' # << >> /\ incoming'[Len(incoming')] = head
        BY <1>1, <1>4, <4>2, <4>3
      <4>5. QED
        BY <4>1, <4>2, <4>4
    <3>3. CASE i # 1
      <4>1. i - 1 \in 1 .. n - 1 /\ i - 1 \in 0 .. n - 1 /\ (i - 1) + 1 = i
        BY <1>1, <3>3
      <4>2. toServer'[i - 1] = Message(asked) /\ Rest(toServer', i - 1)
        BY <1>2, <1>7, <3>1, <4>1
      <4>3. QED
        BY <4>1, <4>2
    <3>4. QED
      BY <3>2, <3>3
  <2>2. CASE Rest(toServer, 0)
    <3>1. 1 \in 1 .. n /\ 0 \in 0 .. n - 1 /\ \A j \in 2 .. n : j \in 1 .. n
      BY <1>1
    <3>2. head \in Signals /\ Rest(toServer, 1)
      BY <1>1, <2>2, <3>1 DEF Rest
    <3>3. Rest(toServer', 0) /\ incoming' = incoming
      BY <1>4, <1>7, <3>1, <3>2
    <3>4. \A i \in 1 .. n : Rest(toServer, 0) => toServer[i] \in Signals
      BY <1>1 DEF Rest
    <3>5. Message(asked) \notin Signals
      BY MessagesAreNoSignals DEF Honest, Programs, Benchmarks, OwnMessages,
                                  WireTypes
    <3>6. QED
      BY <1>1, <2>2, <3>3, <3>4, <3>5 DEF LastIsAsked
  <2>3. QED
    BY <1>1, <2>1, <2>2 DEF LastIsAsked
<1>9. QED
  BY <1>6, <1>8

(* The loop takes a message: the session becomes what it asks for.         *)
LEMMA TakeMessageStep ==
  ASSUME program \in Honest, WireTypes, SessionIsOwn, LastIsAsked, TakeMessage
  PROVE  WireTypes' /\ SessionIsOwn' /\ LastIsAsked' /\ LastIsAnswer'
<1> DEFINE k == Len(incoming)
<1>1. /\ incoming \in Seq(OwnMessages) /\ k \in Nat /\ k >= 1
      /\ incoming' = Tail(incoming) /\ Head(incoming) = incoming[1]
      /\ session' = Merge(session, incoming[1])
      /\ hasViewport' /\ due' /\ hasViewport' \in BOOLEAN /\ due' \in BOOLEAN
      /\ UNCHANGED <<client, socket, updates, loop>>
  BY DEF TakeMessage, WireTypes
<1>2. OwnAsks' = OwnAsks /\ OwnMessages' = OwnMessages
      /\ Message(asked)' = Message(asked)
  BY <1>1 DEF OwnAsks, OwnMessages, Message, client
<1>3. /\ incoming' \in Seq(OwnMessages) /\ Len(incoming') = k - 1
      /\ \A i \in 1 .. k - 1 : incoming'[i] = incoming[i + 1]
  BY <1>1
<1>4. WireTypes'
  BY <1>1, <1>2, <1>3 DEF WireTypes, client, socket
<1>5. session \in Asks /\ (Wanted(program) = "json" => session.format = "json")
  <2>1. CASE hasViewport
    BY <2>1 DEF SessionIsOwn, OwnAsks
  <2>2. CASE ~hasViewport
    <3>1. NoFrame.format = "json" /\ NoFrame \in Asks
      BY DEF NoFrame, Asks, Viewports, Modes, Formats
    <3>2. QED
      BY <2>2, <3>1 DEF SessionIsOwn
  <2>3. QED
    BY <2>1, <2>2
<1>6. \A ask \in OwnAsks : incoming[1] = Message(ask) => session' = ask
  BY <1>1, <1>5, MessagesSayWhatIsAsked
<1>7. session' \in OwnAsks
  <2>1. incoming[1] \in OwnMessages
    BY <1>1
  <2>2. QED
    BY <1>6, <2>1 DEF OwnMessages
<1>8. SessionIsOwn' /\ LastIsAnswer'
  BY <1>1, <1>2, <1>7 DEF SessionIsOwn, LastIsAnswer
<1>9. LastIsAsked'
  <2> SUFFICES ASSUME conn = "open", main # "write", Rest(toServer, 0),
                      incoming[k] = Message(asked)
               PROVE  \/ incoming' # << >> /\ incoming'[k - 1] = Message(asked)
                      \/ incoming' = << >> /\ session' = asked
    <3>1. /\ toServer' = toServer /\ conn' = conn /\ main' = main
          /\ asked' = asked /\ Rest(toServer, 0)' = Rest(toServer, 0)
      BY <1>1 DEF client, socket, Rest
    <3>2. \A i : Rest(toServer', i) = Rest(toServer, i)
      BY <3>1
    <3>3. incoming # << >>
      BY <1>1
    <3>4. QED
      BY <1>2, <1>3, <3>1, <3>2, <3>3 DEF LastIsAsked
  <2>1. CASE k = 1
    <3>1. incoming' = << >>
      BY <1>3, <2>1
    <3>2. session' = asked
      BY <1>6, <2>1 DEF WireTypes
    <3>3. QED
      BY <3>1, <3>2
  <2>2. CASE k # 1
    <3> HIDE DEF k
    <3>1. k \in Nat /\ k >= 1
      BY <1>1
    <3>2. k - 1 \in 1 .. k - 1 /\ (k - 1) + 1 = k
      BY <2>2, <3>1
    <3>3. incoming'[k - 1] = incoming[k] /\ Len(incoming') = k - 1
      BY <1>3, <3>2
    <3>4. incoming' # << >>
      BY <3>2, <3>3
    <3>5. QED
      BY <3>3, <3>4
  <2>3. QED
    BY <2>1, <2>2
<1>10. QED
  BY <1>4, <1>8, <1>9

(* A frame is written: it answers the session.                             *)
LEMMA WriteFrameStep ==
  ASSUME program \in Honest, WireTypes, SessionIsOwn, LastIsAnswer, WriteFrame
  PROVE  /\ toClient' \in Seq(OwnAsks) /\ due' \in BOOLEAN
         /\ SessionIsOwn' /\ LastIsAnswer'
<1>1. /\ due /\ hasViewport /\ session \in OwnAsks
      /\ UNCHANGED <<client, session, hasViewport>>
      /\ OwnAsks' = OwnAsks
  BY DEF WriteFrame, SessionIsOwn, OwnAsks, client
<1>2. Answer(session) = session
  <2>1. /\ session.viewport.bbox # ZeroBox
        /\ session.viewport \in Viewports
        /\ session \in Asks
    BY <1>1, ZeroBoxAssumption DEF OwnAsks, Asks
  <2>2. [session.viewport EXCEPT !.bbox = session.viewport.bbox]
          = session.viewport
    BY <2>1 DEF Viewports
  <2>3. [session EXCEPT !.viewport = session.viewport] = session
    BY <2>1 DEF Asks
  <2>4. QED
    BY <2>1, <2>2, <2>3 DEF Answer
<1>3. CASE conn = "dead"
  BY <1>1, <1>3 DEF WriteFrame, WireTypes, SessionIsOwn, LastIsAnswer, client
<1>4. CASE conn # "dead"
  <2>1. /\ toClient' = Append(toClient, session) /\ ~due' /\ due' \in BOOLEAN
        /\ loop' = "select"
    BY <1>2, <1>4 DEF WriteFrame
  <2>2. /\ toClient' \in Seq(OwnAsks) /\ toClient' # << >>
        /\ toClient'[Len(toClient')] = session
    BY <1>1, <2>1 DEF WireTypes
  <2>3. QED
    BY <1>1, <2>1, <2>2 DEF SessionIsOwn, LastIsAnswer
<1>5. QED
  BY <1>3, <1>4

(* The client reads a frame.                                               *)
LEMMA ReceiveStep ==
  ASSUME WireTypes, LastIsAnswer, Receive
  PROVE  toClient' \in Seq(OwnAsks) /\ LastIsAnswer'
<1>1. /\ toClient \in Seq(OwnAsks) /\ toClient # << >>
      /\ toClient' = Tail(toClient) /\ received' = toClient[1]
      /\ UNCHANGED <<session, hasViewport, due>>
  BY DEF Receive, WireTypes, stream
<1>2. /\ toClient' \in Seq(OwnAsks) /\ Len(toClient') = Len(toClient) - 1
      /\ \A i \in 1 .. Len(toClient) - 1 : toClient'[i] = toClient[i + 1]
      /\ Len(toClient) \in Nat /\ Len(toClient) >= 1
  BY <1>1
<1>3. CASE Len(toClient) = 1
  BY <1>1, <1>2, <1>3 DEF LastIsAnswer
<1>4. CASE Len(toClient) # 1
  <2>1. toClient' # << >> /\ toClient'[Len(toClient')] = toClient[Len(toClient)]
    BY <1>2, <1>4
  <2>2. QED
    BY <1>1, <1>2, <2>1 DEF LastIsAnswer
<1>5. QED
  BY <1>3, <1>4

(* A step that leaves alone what the argument is about.                    *)
LEMMA IdleStep ==
  ASSUME program \in Honest, WireTypes, SessionIsOwn, LastIsAsked, LastIsAnswer,
         UNCHANGED <<program, asked, received, toServer, toClient, incoming,
                     session, hasViewport>>,
         main' # "user" <=> main # "user", main' = "write" \/ main # "write",
         conn' = conn \/ conn' = "dead",
         due' \in BOOLEAN, due => due', due' => hasViewport,
         loop' = "emit" => due'
  PROVE  WireTypes' /\ SessionIsOwn' /\ LastIsAsked' /\ LastIsAnswer'
<1>1. OwnAsks' = OwnAsks /\ OwnMessages' = OwnMessages
      /\ Message(asked)' = Message(asked)
  BY DEF OwnAsks, OwnMessages, Message
<1>2. \A i : Rest(toServer', i) = Rest(toServer, i)
  OBVIOUS
<1>3. WireTypes' /\ SessionIsOwn' /\ LastIsAnswer'
  BY <1>1 DEF WireTypes, SessionIsOwn, LastIsAnswer
<1>4. LastIsAsked'
  BY <1>1, <1>2 DEF LastIsAsked
<1>5. QED
  BY <1>3, <1>4

(* A step that does not touch session, frames or the emission.             *)
LEMMA SendStep ==
  ASSUME SessionIsOwn, LastIsAnswer, program' = program,
         UNCHANGED <<received, toClient, stream>>
  PROVE  SessionIsOwn' /\ LastIsAnswer'
<1>1. OwnAsks' = OwnAsks
  BY DEF OwnAsks
<1>2. QED
  BY <1>1 DEF SessionIsOwn, LastIsAnswer, stream

(* What the clients send.                                                  *)
LEMMA ClientStep ==
  ASSUME program \in Honest, WireTypes, SessionIsOwn, LastIsAsked, LastIsAnswer,
         \/ \E box \in Boxes, zoom \in Zooms, mode \in Modes :
              Ask([bbox |-> box, zoom |-> zoom], mode)
         \/ SendGarbage
         \/ \E box \in Boxes : Tick(box)
         \/ WriteViewport \/ WriteClose
  PROVE  WireTypes' /\ SessionIsOwn' /\ LastIsAsked' /\ LastIsAnswer'
<1> USE DEF client, socket, stream
<1>1. SessionIsOwn' /\ LastIsAnswer'
  BY SendStep DEF Ask, SendGarbage, Tick, WriteViewport, WriteClose
<1>2. \A box \in Boxes, zoom \in Zooms, mode \in Modes :
        [asked EXCEPT !.viewport = [bbox |-> box, zoom |-> zoom],
                      !.mode = mode] \in OwnAsks
  BY DEF WireTypes, OwnAsks, Asks, Viewports
<1>3. ASSUME NEW box \in Boxes, NEW zoom \in Zooms, NEW mode \in Modes,
             Ask([bbox |-> box, zoom |-> zoom], mode)
      PROVE  WireTypes' /\ LastIsAsked'
  <2>1. asked' \in OwnAsks /\ Message(asked') \in OwnMessages
    BY <1>2, <1>3 DEF Ask, OwnMessages
  <2>2. Write(Message(asked'))
    BY <1>3 DEF Ask
  <2>3. QED
    BY <1>3, <2>1, <2>2, WriteLast DEF Ask
<1>4. CASE SendGarbage
  <2>1. main = "user"
    BY <1>4 DEF SendGarbage, WireTypes, Benchmarks
  <2>2. QED
    BY <1>1, <1>4, <2>1, WriteLast DEF SendGarbage, Signals, WireTypes
<1>5. ASSUME NEW box \in Boxes, Tick(box) PROVE WireTypes' /\ LastIsAsked'
  <2>1. OwnAsks' = OwnAsks /\ OwnMessages' = OwnMessages
    BY <1>5 DEF Tick, OwnAsks, OwnMessages, Message
  <2>2. asked' \in OwnAsks
    BY <1>5 DEF Tick, WireTypes, OwnAsks, Asks, Viewports
  <2>3. WireTypes'
    BY <1>5, <2>1, <2>2 DEF Tick, WireTypes
  <2>4. LastIsAsked'
    BY <1>5 DEF Tick, LastIsAsked
  <2>5. QED
    BY <2>3, <2>4
<1>6. CASE WriteViewport /\ conn = "dead"
  <2>1. OwnAsks' = OwnAsks /\ OwnMessages' = OwnMessages
    BY <1>6 DEF WriteViewport, OwnAsks, OwnMessages, Message
  <2>2. WireTypes' /\ LastIsAsked'
    BY <1>6, <2>1 DEF WriteViewport, WireTypes, LastIsAsked
  <2>3. QED
    BY <1>1, <2>2
<1>7. CASE WriteViewport /\ conn # "dead"
  <2>1. Message(asked) \in OwnMessages /\ Write(Message(asked))
    BY <1>7 DEF WriteViewport, WireTypes, OwnMessages
  <2>2. QED
    BY <1>1, <1>7, <2>1, WriteLast DEF WriteViewport, WireTypes
<1>8. CASE WriteClose /\ conn = "dead"
  BY <1>8, IdleStep DEF WriteClose, WireTypes, SessionIsOwn
<1>9. CASE WriteClose /\ conn # "dead"
  BY <1>1, <1>9, WriteLast DEF WriteClose, Signals, WireTypes
<1>10. QED
  BY <1>1, <1>3, <1>4, <1>5, <1>6, <1>7, <1>8, <1>9

(* The goroutines of the server and the readers of the clients.            *)
LEMMA CarryStep ==
  ASSUME program \in Honest, WireTypes, SessionIsOwn, LastIsAsked, LastIsAnswer,
         ServerReads \/ TakeMessage \/ WriteFrame \/ Receive
  PROVE  WireTypes' /\ SessionIsOwn' /\ LastIsAsked' /\ LastIsAnswer'
<1> USE DEF client, socket, stream
<1>1. CASE ServerReads
  <2>1. OwnAsks' = OwnAsks
    BY <1>1 DEF ServerReads, OwnAsks
  <2>2. SessionIsOwn' /\ LastIsAnswer'
    BY <1>1, <2>1 DEF ServerReads, SessionIsOwn, LastIsAnswer
  <2>3. QED
    BY <1>1, <2>2, ServerReadsStep
<1>2. CASE TakeMessage
  BY <1>2, TakeMessageStep
<1>3. ASSUME WriteFrame \/ Receive,
             toClient' \in Seq(OwnAsks), due' \in BOOLEAN
      PROVE  WireTypes' /\ LastIsAsked'
  <2>1. UNCHANGED <<program, asked, main, toServer, incoming, session,
                    hasViewport, conn>>
    BY <1>3 DEF WriteFrame, Receive
  <2>2. OwnAsks' = OwnAsks /\ OwnMessages' = OwnMessages
        /\ Message(asked)' = Message(asked)
        /\ \A i : Rest(toServer', i) = Rest(toServer, i)
    BY <2>1 DEF OwnAsks, OwnMessages, Message
  <2>3. WireTypes'
    BY <1>3, <2>1, <2>2 DEF WireTypes
  <2>4. LastIsAsked'
    BY <2>1, <2>2 DEF LastIsAsked
  <2>5. QED
    BY <2>3, <2>4
<1>4. CASE WriteFrame
  BY <1>3, <1>4, WriteFrameStep
<1>5. CASE Receive
  <2>1. due' = due /\ due \in BOOLEAN
    BY <1>5 DEF Receive, WireTypes
  <2>2. SessionIsOwn'
    <3>1. OwnAsks' = OwnAsks
      BY <1>5 DEF Receive, OwnAsks
    <3>2. QED
      BY <1>5, <3>1 DEF Receive, SessionIsOwn
  <2>3. QED
    BY <1>3, <1>5, <2>1, <2>2, ReceiveStep
<1>6. QED
  BY <1>1, <1>2, <1>4, <1>5

(* The invariant holds in every reachable state.                           *)
THEOREM WireInvariance == Spec => []WireInv
<1>1. WireInv /\ [Next]_vars => WireInv'
  <2> SUFFICES ASSUME WireInv, [Next]_vars, program' \in Honest
               PROVE  WireTypes' /\ SessionIsOwn' /\ LastIsAsked' /\ LastIsAnswer'
    BY DEF WireInv
  <2> USE DEF client, socket, stream
  <2>1. program' = program
    BY DEF Next, Ask, SendGarbage, Tick, BenchStep, WriteViewport, TimeIsUp,
           WriteClose, Report, StreamClosed, Receive, ReceiveFails, ServerStep,
           ServerReads, TakeMessage, TakeUpdate, TakeTimer, WriteFrame,
           LoopReturns, Disconnect, vars
  <2>2. /\ program \in Honest
        /\ WireTypes /\ SessionIsOwn /\ LastIsAsked /\ LastIsAnswer
    BY <2>1 DEF WireInv
  <2>3. CASE TimeIsUp \/ Report \/ StreamClosed \/ ReceiveFails
    BY <2>2, <2>3, IdleStep
       DEF TimeIsUp, Report, StreamClosed, ReceiveFails, WireTypes, SessionIsOwn
  <2>4. CASE TakeUpdate \/ TakeTimer \/ LoopReturns \/ Disconnect
    BY <2>2, <2>4, IdleStep
       DEF TakeUpdate, TakeTimer, LoopReturns, Disconnect, WireTypes,
           SessionIsOwn
  <2>5. CASE UNCHANGED vars
    BY <2>2, <2>5, IdleStep DEF vars, WireTypes, SessionIsOwn
  <2>6. QED
    BY <2>2, <2>3, <2>4, <2>5, ClientStep, CarryStep
       DEF Next, BenchStep, ServerStep
<1>2. QED
  BY <1>1, InitWireInv, PTL DEF Spec

----------------------------------------------------------------------------
(***************************************************************************)
(* The app, a client written from README.md and wsbench in JSON are        *)
(* answered what they asked for last: once the server has taken all that   *)
(* was sent, the session says so, and a frame that says so has been read,  *)
(* is on its way or is due.                                                *)
(***************************************************************************)
THEOREM ClientsAreAnsweredAsAsked == Spec => []AnsweredAsAsked
<1>1. Init /\ [][Next]_vars => [](program \in Programs)
  <2>1. Init => program \in Programs
    BY DEF Init
  <2>2. program \in Programs /\ [Next]_vars => (program \in Programs)'
    BY DEF Next, Ask, SendGarbage, Tick, BenchStep, WriteViewport, TimeIsUp,
           WriteClose, Report, StreamClosed, Receive, ReceiveFails, ServerStep,
           ServerReads, TakeMessage, TakeUpdate, TakeTimer, WriteFrame,
           LoopReturns, Disconnect, vars, client, socket, stream
  <2>3. QED
    BY <2>1, <2>2, PTL
<1>2. WireInv /\ program \in Programs => AnsweredAsAsked
  <2> SUFFICES ASSUME WireInv, program \in Honest,
                      conn = "open", toServer = << >>, incoming = << >>,
                      main # "write", hasViewport
               PROVE  session = asked
                        /\ (due \/ toClient # << >> \/ received = asked)
    BY DEF AnsweredAsAsked, Honest, Programs, Benchmarks
  <2>1. session = asked
    BY DEF WireInv, LastIsAsked
  <2>2. ~due /\ toClient = << >> => received = session
    BY DEF WireInv, LastIsAnswer
  <2>3. QED
    BY <2>1, <2>2
<1>3. QED
  BY <1>1, <1>2, WireInvariance, PTL DEF Spec

----------------------------------------------------------------------------
(* What is on its way, of whichever program.                               *)
TypesOnTheWay ==
  /\ toServer \in Seq({Message(ask) : ask \in Asks} \cup Signals)
  /\ incoming \in Seq({Message(ask) : ask \in Asks})
  /\ toClient \in Seq(Asks)

(* wsbench is about to write only when it may still send.                  *)
WritesAreCounted ==
  /\ main # "user" => program \in Benchmarks
  /\ main = "write" => sends < MaxSends

TypeInv == TypeOK /\ TypesOnTheWay /\ WritesAreCounted

(* Every message, also one in keys that the server does not know, makes a  *)
(* session.                                                                *)
LEMMA MergeType ==
  ASSUME program \in Programs, NEW ask \in Asks, NEW s \in Asks
  PROVE  Merge(s, Message(ask)) \in Asks /\ Answer(s) \in Asks
<1> DEFINE m == Message(ask)
           none == [bbox |-> ZeroBox, zoom |-> 0]
           own  == Field(m, "viewport", none)
<1>1. /\ ask.viewport.bbox \in Boxes \cup {ZeroBox, World}
      /\ ask.viewport.zoom \in Zooms \cup {0}
      /\ s.mode \in Modes /\ s.format \in Formats
  BY DEF Asks, Viewports
<1>2. m \in {AppMessage(ask), ManualMessage(ask), BenchMessage(ask)}
  BY DEF Message, Programs
<1>3. own = none
  BY <1>2 DEF Field, AppMessage, ManualMessage, BenchMessage
<1>4. none.bbox = ZeroBox /\ none.zoom = 0
  OBVIOUS
<1>5. /\ Field(m, "bbox", ZeroBox) \in Boxes \cup {ZeroBox, World}
      /\ Field(m, "z", 0) \in Zooms \cup {0}
      /\ Field(m, "zoom", 0) \in Zooms \cup {0}
  BY <1>1, <1>2 DEF Field, AppMessage, ManualMessage, BenchMessage
<1>6. \A name : NormalMode(name) \in Modes
  BY DEF NormalMode, Modes
<1> HIDE DEF m, none
<1>7. /\ Merge(s, m).viewport \in Viewports
      /\ Merge(s, m).mode \in Modes
      /\ Merge(s, m).format \in Formats
  <2>1. Merge(s, m).viewport \in Viewports
    BY <1>3, <1>4, <1>5 DEF Merge, Viewports, none
  <2>2. Merge(s, m).mode \in Modes
    BY <1>1, <1>6 DEF Merge
  <2>3. Merge(s, m).format \in Formats
    BY <1>1 DEF Merge, Formats
  <2>4. QED
    BY <2>1, <2>2, <2>3
<1>8. Merge(s, m) \in Asks
  BY <1>7 DEF Merge, Asks
<1>9. Answer(s) \in Asks
  BY DEF Answer, Asks, Viewports
<1>10. QED
  BY <1>8, <1>9 DEF m

(* A client writes: what it writes is a message or a signal.               *)
LEMMA WriteType ==
  ASSUME TypesOnTheWay, Len(toServer) <= Room, program' = program,
         NEW message \in {Message(ask) : ask \in Asks} \cup Signals,
         Write(message)
  PROVE  /\ toServer' \in Seq({Message(ask) : ask \in Asks} \cup Signals)
         /\ Len(toServer') <= Room
BY RoomAssumption DEF Write, TypesOnTheWay

(* Every step of a client keeps the types.                                 *)
LEMMA ClientTypeStep ==
  ASSUME TypeInv,
         \/ \E box \in Boxes, zoom \in Zooms, mode \in Modes :
              Ask([bbox |-> box, zoom |-> zoom], mode)
         \/ SendGarbage
         \/ \E box \in Boxes : Tick(box)
         \/ BenchStep \/ StreamClosed \/ Receive \/ ReceiveFails
  PROVE  TypeInv'
<1> USE DEF client, socket, stream, TypeInv, TypesOnTheWay,
            WritesAreCounted
<1>1. program' = program
  BY DEF Ask, SendGarbage, Tick, BenchStep, WriteViewport, TimeIsUp,
         WriteClose, Report, StreamClosed, Receive, ReceiveFails
<1>2. {Message(ask) : ask \in Asks}' = {Message(ask) : ask \in Asks}
  BY <1>1 DEF Message
<1> DEFINE Wire == {Message(ask) : ask \in Asks} \cup Signals
<1>3. ASSUME NEW box \in Boxes, NEW zoom \in Zooms, NEW mode \in Modes,
             Ask([bbox |-> box, zoom |-> zoom], mode)
      PROVE  TypeInv'
  <2>1. asked' \in Asks
    BY <1>3 DEF Ask, TypeOK, Asks, Viewports
  <2>2. Message(asked') \in Wire
    BY <2>1
  <2>3. Len(toServer) <= Room /\ Write(Message(asked'))
    BY <1>3 DEF Ask, TypeOK
  <2>4. toServer' \in Seq(Wire) /\ Len(toServer') <= Room
    BY <1>1, <2>2, <2>3, WriteType
  <2>5. sends' \in 0 .. MaxSends
    <3>1. sends < MaxSends /\ sends' = sends + 1
      BY <1>3 DEF Ask
    <3>2. sends \in 0 .. MaxSends
      BY DEF TypeOK
    <3> HIDE DEF TypeInv, TypesOnTheWay, WritesAreCounted
    <3>3. QED
      BY <3>1, <3>2, BoundsAssumption
  <2>6. QED
    BY <1>2, <1>3, <2>1, <2>4, <2>5 DEF Ask, TypeOK
<1>4. CASE SendGarbage
  <2>1. toServer' \in Seq(Wire) /\ Len(toServer') <= Room
    BY <1>1, <1>4, WriteType DEF SendGarbage, TypeOK, Signals
  <2>2. sends' \in 0 .. MaxSends
    BY <1>4, BoundsAssumption DEF SendGarbage, TypeOK
  <2>3. QED
    BY <1>2, <1>4, <2>1, <2>2 DEF SendGarbage, TypeOK, Benchmarks
<1>5. ASSUME NEW box \in Boxes, Tick(box) PROVE TypeInv'
  <2>1. asked' \in Asks
    BY <1>5 DEF Tick, TypeOK, Asks, Viewports
  <2>2. QED
    BY <1>2, <1>5, <2>1 DEF Tick, TypeOK
<1>6. CASE WriteViewport
  <2>1. CASE conn = "dead"
    BY <1>2, <1>6, <2>1 DEF WriteViewport, TypeOK
  <2>2. CASE conn # "dead"
    <3>1. Message(asked) \in Wire
      BY DEF TypeOK
    <3>2. Len(toServer) <= Room /\ Write(Message(asked))
      BY <1>6, <2>2 DEF WriteViewport, TypeOK
    <3>3. toServer' \in Seq(Wire) /\ Len(toServer') <= Room
      BY <1>1, <3>1, <3>2, WriteType
    <3>4. sends' \in 0 .. MaxSends
      BY <1>6, <2>2, BoundsAssumption DEF WriteViewport, TypeOK
    <3>5. QED
      BY <1>2, <1>6, <2>2, <3>3, <3>4 DEF WriteViewport, TypeOK
  <2>3. QED
    BY <2>1, <2>2
<1>7. CASE WriteClose
  <2>1. toServer' \in Seq(Wire) /\ Len(toServer') <= Room
    BY <1>1, <1>7, WriteType DEF WriteClose, TypeOK, Signals
  <2>2. QED
    BY <1>2, <1>7, <2>1 DEF WriteClose, TypeOK
<1>8. CASE TimeIsUp \/ Report \/ StreamClosed \/ ReceiveFails
  BY <1>2, <1>8 DEF TimeIsUp, Report, StreamClosed, ReceiveFails, TypeOK
<1>9. CASE Receive
  <2>1. /\ toClient' \in Seq(Asks) /\ received' \in Asks
        /\ Len(toClient') <= Room
    BY <1>9, RoomAssumption DEF Receive, TypeOK
  <2>2. QED
    BY <1>2, <1>9, <2>1 DEF Receive, TypeOK
<1>10. QED
  BY <1>3, <1>4, <1>5, <1>6, <1>7, <1>8, <1>9 DEF BenchStep

(* Every step of the server, and the failure of the connection, too.       *)
LEMMA ServerTypeStep ==
  ASSUME TypeInv, ServerStep \/ Disconnect
  PROVE  TypeInv'
<1> USE DEF client, socket, stream, TypeInv, TypesOnTheWay,
            WritesAreCounted
<1>1. program' = program /\ program \in Programs
  BY DEF ServerStep, ServerReads, TakeMessage, TakeUpdate, TakeTimer,
         WriteFrame, LoopReturns, Disconnect, TypeOK
<1>2. {Message(ask) : ask \in Asks}' = {Message(ask) : ask \in Asks}
  BY <1>1 DEF Message
<1> DEFINE Messages == {Message(ask) : ask \in Asks}
           Wire     == Messages \cup Signals
<1>3. CASE ServerReads
  <2>1. toServer' \in Seq(Wire) /\ Len(toServer') <= Room
    BY <1>3, RoomAssumption DEF ServerReads, TypeOK
  <2>2. Head(toServer) \in Wire
    BY <1>3 DEF ServerReads
  <2>3. CASE Head(toServer) \in Signals
    BY <1>2, <1>3, <2>1, <2>3 DEF ServerReads, Signals, TypeOK
  <2>4. CASE Head(toServer) \in Messages
    <3>1. \/ incoming' = incoming /\ conn' \in {conn, "closing"}
          \/ incoming' = Append(incoming, Head(toServer)) /\ conn' = conn
      BY <1>3 DEF ServerReads
    <3>2. incoming' \in Seq(Messages) /\ Len(incoming') <= 2
      <4>1. incoming \in Seq(Messages) /\ Len(incoming) < 2
        BY <1>3 DEF ServerReads
      <4>2. incoming' \in {incoming, Append(incoming, Head(toServer))}
        BY <3>1
      <4> HIDE DEF Messages
      <4>3. QED
        BY <2>4, <4>1, <4>2
    <3>3. conn' \in {"open", "closing", "dead"}
      BY <3>1 DEF TypeOK
    <3>4. QED
      BY <1>2, <1>3, <2>1, <3>2, <3>3 DEF ServerReads, TypeOK
  <2>5. QED
    BY <2>2, <2>3, <2>4
<1>4. CASE TakeMessage
  <2>1. PICK ask \in Asks : Head(incoming) = Message(ask)
    BY <1>4 DEF TakeMessage
  <2>2. session' \in Asks
    BY <1>1, <1>4, <2>1, MergeType DEF TakeMessage, TypeOK
  <2>3. incoming' \in Seq(Messages) /\ Len(incoming') <= 2
    BY <1>4 DEF TakeMessage, TypeOK
  <2>4. QED
    BY <1>2, <1>4, <2>2, <2>3 DEF TakeMessage, TypeOK
<1>5. CASE TakeUpdate
  <2>1. updates' \in 0 .. MaxUpdates
    BY <1>5, BoundsAssumption DEF TakeUpdate, TypeOK
  <2>2. due' \in BOOLEAN
    BY <1>5 DEF TakeUpdate, TypeOK
  <2>3. QED
    BY <1>2, <1>5, <2>1, <2>2 DEF TakeUpdate, TypeOK
<1>6. CASE TakeTimer
  BY <1>2, <1>6 DEF TakeTimer, TypeOK
<1>7. CASE WriteFrame /\ conn = "dead"
  BY <1>2, <1>7 DEF WriteFrame, TypeOK
<1>8. CASE WriteFrame /\ conn # "dead"
  <2>1. Answer(session) \in Asks
    BY <1>1, MergeType DEF TypeOK
  <2>2. toClient' \in Seq(Asks) /\ Len(toClient') <= Room
    <3>1. Len(toClient) < Room /\ toClient' = Append(toClient, Answer(session))
      BY <1>8 DEF WriteFrame
    <3>2. toClient \in Seq(Asks)
      OBVIOUS
    <3> HIDE DEF TypeInv, TypesOnTheWay, WritesAreCounted
    <3>3. QED
      BY <2>1, <3>1, <3>2, RoomAssumption
  <2>3. QED
    BY <1>2, <1>8, <2>2 DEF WriteFrame, TypeOK
<1>9. CASE LoopReturns \/ Disconnect
  BY <1>2, <1>9 DEF LoopReturns, Disconnect, TypeOK
<1>10. QED
  BY <1>3, <1>4, <1>5, <1>6, <1>7, <1>8, <1>9 DEF ServerStep

(* Every step keeps them.                                                  *)
LEMMA TypeStep == TypeInv /\ [Next]_vars => TypeInv'
<1> SUFFICES ASSUME TypeInv, [Next]_vars PROVE TypeInv'
  OBVIOUS
<1>1. CASE UNCHANGED vars
  BY <1>1 DEF vars, client, socket, stream, TypeInv, TypeOK, TypesOnTheWay,
              WritesAreCounted, Message
<1>2. CASE Next
  BY <1>2, ClientTypeStep, ServerTypeStep DEF Next
<1>3. QED
  BY <1>1, <1>2

(* The types, with what the messages on their way are made of.             *)
LEMMA TypeInvariance == Spec => []TypeInv
<1>1. ASSUME Init PROVE TypeInv
  <2>1. NoFrame \in Asks
    BY DEF NoFrame, Asks, Viewports, Modes, Formats
  <2>2. asked \in Asks
    BY <1>1 DEF Init
  <2>3. /\ toServer = << >> /\ toClient = << >> /\ incoming = << >>
        /\ received = NoFrame /\ session = NoFrame
        /\ sends = 0 /\ updates = 0
        /\ readErr = FALSE /\ due = FALSE /\ hasViewport = FALSE
        /\ loop = "select" /\ conn = "open" /\ program \in Programs
        /\ main = IF program \in Benchmarks THEN "write" ELSE "user"
    BY <1>1 DEF Init
  <2>4. TypesOnTheWay
    BY <2>3 DEF TypesOnTheWay
  <2>5. WritesAreCounted
    BY <2>3, BoundsAssumption DEF WritesAreCounted
  <2>6. /\ Len(toServer) <= Room /\ Len(toClient) <= Room /\ Len(incoming) <= 2
        /\ sends \in 0 .. MaxSends /\ updates \in 0 .. MaxUpdates
    BY <2>3, RoomAssumption, BoundsAssumption
  <2>7. TypeOK
    BY <2>1, <2>2, <2>3, <2>6 DEF TypeOK
  <2>8. QED
    BY <2>4, <2>5, <2>7 DEF TypeInv
<1>2. QED
  BY <1>1, TypeStep, PTL DEF Spec

(* The types of every program's run, wsbench in msgpack included: whatever *)
(* the keys of the messages, the session and the frames are well formed    *)
(* and neither the sockets nor the reader's channel hold more than they    *)
(* can.                                                                    *)
THEOREM TypeCorrect == Spec => []TypeOK
<1>1. TypeInv => TypeOK
  BY DEF TypeInv
<1>2. QED
  BY <1>1, TypeInvariance, PTL

----------------------------------------------------------------------------
(* Who waits for whom: the safety half of BenchmarkEnds.                   *)

(* The reader of wsbench stops, and the server's loop returns, only with   *)
(* the connection gone or the benchmark over.                              *)
EndsAreSeen ==
  /\ readErr => conn = "dead" \/ main \in {"drain", "reported", "fatal"}
  /\ loop = "returned" => conn = "dead"
  /\ loop = "emit" => due

(* wsbench waits for room to write a viewport or its close message.        *)
WriteIsBlocked ==
  main \in {"write", "close"} /\ conn # "dead" /\ Len(toServer) >= Room

(* Receive, ServerReads, TakeMessage or LoopReturns, or WriteFrame can run. *)
OthersCanMove ==
  \/ toClient # << >> /\ ~readErr
  \/ conn = "open" /\ toServer # << >> /\ Len(incoming) < 2
  \/ loop = "select" /\ (incoming # << >> \/ conn # "open")
  \/ loop = "emit" /\ (conn = "dead" \/ Len(toClient) < Room)

LEMMA EndsInit == Init => EndsAreSeen
BY DEF Init, EndsAreSeen

LEMMA EndsStep == EndsAreSeen /\ [Next]_vars => EndsAreSeen'
<1> SUFFICES ASSUME EndsAreSeen, [Next]_vars PROVE EndsAreSeen'
  OBVIOUS
<1> USE DEF EndsAreSeen, client, socket, stream
<1>1. ASSUME NEW viewport, NEW mode, Ask(viewport, mode) PROVE EndsAreSeen'
  BY <1>1 DEF Ask, Write
<1>2. CASE SendGarbage \/ \E box \in Boxes : Tick(box)
  BY <1>2 DEF SendGarbage, Tick
<1>3. CASE BenchStep \/ StreamClosed
  BY <1>3 DEF BenchStep, WriteViewport, TimeIsUp, WriteClose, Report, Write,
              StreamClosed
<1>4. CASE Receive \/ ReceiveFails
  BY <1>4 DEF Receive, ReceiveFails
<1>5. CASE ServerReads
  BY <1>5 DEF ServerReads
<1>6. CASE TakeMessage \/ TakeUpdate \/ TakeTimer
  BY <1>6 DEF TakeMessage, TakeUpdate, TakeTimer
<1>7. CASE WriteFrame \/ LoopReturns \/ Disconnect
  BY <1>7 DEF WriteFrame, LoopReturns, Disconnect
<1>8. CASE UNCHANGED vars
  BY <1>8 DEF vars
<1>9. QED
  BY <1>1, <1>2, <1>3, <1>4, <1>5, <1>6, <1>7, <1>8 DEF Next, ServerStep

(***************************************************************************)
(* Client and server never wait for each other: while wsbench is blocked   *)
(* on a write, its reader goroutine, the server's reader or the server's   *)
(* loop can go on, however little room the sockets have.                   *)
(***************************************************************************)
THEOREM BlockedWritesAreServed == Spec => [](WriteIsBlocked => OthersCanMove)
<1>1. ASSUME TypeInv, EndsAreSeen, WriteIsBlocked, ~OthersCanMove PROVE FALSE
  <2>1. /\ Len(toServer) \in Nat /\ Len(incoming) \in Nat
        /\ Len(toClient) \in Nat /\ Room > 0
    BY <1>1, RoomAssumption DEF TypeInv, TypesOnTheWay
  <2>2. toServer # << >>
    <3>1. Len(toServer) # 0
      BY <1>1, <2>1, RoomAssumption DEF WriteIsBlocked
    <3>2. toServer = << >> => Len(toServer) = 0
      OBVIOUS
    <3>3. QED
      BY <3>1, <3>2
  <2>3. ~readErr /\ loop \in {"select", "emit"}
    BY <1>1 DEF WriteIsBlocked, EndsAreSeen, TypeInv, TypeOK
  <2>4. toClient = << >>
    BY <1>1, <2>3 DEF OthersCanMove
  <2>5. loop = "select"
    BY <1>1, <2>1, <2>3, <2>4 DEF OthersCanMove
  <2>6. incoming = << >> /\ conn = "open"
    BY <1>1, <2>5 DEF OthersCanMove
  <2>7. QED
    BY <1>1, <2>2, <2>6 DEF OthersCanMove
<1>2. TypeInv /\ EndsAreSeen => (WriteIsBlocked => OthersCanMove)
  BY <1>1
<1>3. QED
  BY <1>2, TypeInvariance, EndsInit, EndsStep, PTL DEF Spec

(* What the reader of wsbench and the server have to do before they wait   *)
(* for the next message: a message is read, taken, emitted and received.   *)
Work ==
  6 * Len(toServer) + 5 * Len(incoming) + 5 * (MaxUpdates - updates)
    + (IF due THEN 4 ELSE 0)
    + (IF loop = "select" THEN 2 ELSE IF loop = "emit" THEN 1 ELSE 0)
    + Len(toClient)

(* The lengths that Work counts are natural numbers.                       *)
LEMMA WorkTypes ==
  ASSUME TypeInv
  PROVE  /\ Len(toServer) \in Nat /\ Len(incoming) \in Nat
         /\ Len(toClient) \in Nat
         /\ updates \in Nat /\ MaxUpdates \in Nat
         /\ updates <= MaxUpdates
BY BoundsAssumption DEF TypeInv, TypeOK, TypesOnTheWay

LEMMA WorkIsNat == TypeInv => Work \in Nat
<1> SUFFICES ASSUME TypeInv PROVE Work \in Nat
  OBVIOUS
<1>1. /\ 6 * Len(toServer) \in Nat /\ 5 * Len(incoming) \in Nat
      /\ 5 * (MaxUpdates - updates) \in Nat /\ Len(toClient) \in Nat
  BY WorkTypes
<1>2. QED
  BY <1>1 DEF Work

(* A channel that is not empty is one shorter without its head.            *)
LEMMA TailIsShorter ==
  ASSUME NEW S, NEW s \in Seq(S), s # << >>
  PROVE  Len(s) \in Nat /\ Len(Tail(s)) = Len(s) - 1
BY HeadTailProperties, EmptySeq

(* Each step of the server or of the reader of wsbench is one less to do.  *)
LEMMA WorkStep ==
  ASSUME TypeInv, EndsAreSeen, Receive \/ ServerStep
  PROVE  Work' < Work
<1> USE DEF client, socket, stream
<1>1. /\ Len(toServer) \in Nat /\ Len(incoming) \in Nat
      /\ Len(toClient) \in Nat
      /\ updates \in Nat /\ MaxUpdates \in Nat
  BY WorkTypes
<1>2. CASE Receive
  <2>1. /\ Len(toClient') = Len(toClient) - 1
        /\ UNCHANGED <<toServer, incoming, updates, due, loop>>
    BY <1>2, TailIsShorter DEF Receive, TypeInv, TypesOnTheWay
  <2>2. QED
    BY <1>1, <2>1 DEF Work
<1>3. CASE ServerReads
  <2>1. /\ Len(toServer') = Len(toServer) - 1
        /\ UNCHANGED <<toClient, updates, due, loop>>
    BY <1>3, TailIsShorter DEF ServerReads, TypeInv, TypesOnTheWay
  <2>2. \/ incoming' = incoming
        \/ Len(incoming') = Len(incoming) + 1
    <3>1. \A m : Len(Append(incoming, m)) = Len(incoming) + 1
      BY DEF TypeInv, TypesOnTheWay
    <3>2. QED
      BY <1>3, <3>1 DEF ServerReads
  <2>3. QED
    BY <1>1, <2>1, <2>2 DEF Work
<1>4. CASE TakeMessage
  <2>1. /\ Len(incoming') = Len(incoming) - 1 /\ due'
        /\ UNCHANGED <<toServer, toClient, updates, loop>>
    BY <1>4, TailIsShorter DEF TakeMessage, TypeInv, TypesOnTheWay
  <2>2. QED
    BY <1>1, <2>1 DEF Work
<1>5. CASE TakeUpdate
  <2>1. /\ updates' = updates + 1
        /\ UNCHANGED <<toServer, toClient, incoming, loop>>
    BY <1>5 DEF TakeUpdate
  <2>2. QED
    BY <1>1, <2>1 DEF Work
<1>6. CASE TakeTimer
  BY <1>1, <1>6 DEF TakeTimer, Work
<1>7. CASE WriteFrame
  <2>1. /\ loop = "emit" /\ due
        /\ UNCHANGED <<toServer, incoming, updates>>
    BY <1>7 DEF WriteFrame, EndsAreSeen
  <2>2. CASE conn = "dead"
    BY <1>1, <1>7, <2>1, <2>2 DEF WriteFrame, Work
  <2>3. CASE conn # "dead"
    <3>1. Len(toClient') = Len(toClient) + 1 /\ ~due' /\ loop' = "select"
      BY <1>7, <2>3 DEF WriteFrame, TypeInv, TypesOnTheWay
    <3>2. QED
      BY <1>1, <2>1, <3>1 DEF Work
  <2>4. QED
    BY <2>2, <2>3
<1>8. CASE LoopReturns
  BY <1>1, <1>8 DEF LoopReturns, Work
<1>9. QED
  BY <1>2, <1>3, <1>4, <1>5, <1>6, <1>7, <1>8 DEF ServerStep

(***************************************************************************)
(* Nor do they go on for ever without wsbench: every step of the server or *)
(* of the reader goroutine lowers a natural number that only a message of  *)
(* the client raises, so a blocked write waits for finitely many steps.    *)
(***************************************************************************)
THEOREM ServersWorkRunsOut ==
  Spec => /\ [](Work \in Nat)
          /\ [][Receive \/ ServerStep => Work' < Work]_vars
          /\ [][(main \in {"write", "close"} /\ main' = main)
                   => Work' <= Work]_vars
<1>1. TypeInv => Work \in Nat
  BY WorkIsNat
<1>2. TypeInv /\ EndsAreSeen
        => [Receive \/ ServerStep => Work' < Work]_vars
  BY WorkStep
<1>3. ASSUME TypeInv, EndsAreSeen, [Next]_vars,
             main \in {"write", "close"}, main' = main
      PROVE  Work' <= Work
  <2>1. ASSUME UNCHANGED <<toServer, toClient, stream>> PROVE Work' <= Work
    BY <1>1, <1>3, <2>1 DEF Work, stream
  <2>2. ASSUME Receive \/ ServerStep PROVE Work' <= Work
    <3>1. TypeInv' => (Work \in Nat)'
      BY WorkIsNat, PTL
    <3>2. Work \in Nat /\ Work' \in Nat
      BY <1>3, <3>1, TypeStep, WorkIsNat
    <3>3. Work' < Work
      BY <1>3, <2>2, WorkStep
    <3>4. QED
      BY <3>2, <3>3
  <2>3. ASSUME NEW viewport, NEW mode, Ask(viewport, mode) PROVE FALSE
    BY <1>3, <2>3 DEF Ask
  <2>4. ASSUME SendGarbage PROVE FALSE
    BY <1>3, <2>4 DEF SendGarbage, TypeInv, WritesAreCounted, Benchmarks
  <2>5. QED
    BY <1>3, <2>1, <2>2, <2>3, <2>4
       DEF Next, Tick, BenchStep, WriteViewport, TimeIsUp, WriteClose, Report,
           StreamClosed, ReceiveFails, Disconnect, socket, vars
<1>4. TypeInv /\ EndsAreSeen /\ [Next]_vars
        => [(main \in {"write", "close"} /\ main' = main)
              => Work' <= Work]_vars
  BY <1>3
<1>5. QED
  BY <1>1, <1>2, <1>4, TypeInvariance, EndsInit, EndsStep, PTL DEF Spec
=============================================================================
