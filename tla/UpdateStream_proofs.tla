------------------------- MODULE UpdateStream_proofs -------------------------
(***************************************************************************)
(* Proofs about UpdateStream, for any number of writers, streams, changes  *)
(* and messages.                                                           *)
(***************************************************************************)
EXTENDS UpdateStream, SequenceTheorems, TLAPS

(* A stream that is not connected has not been asked for anything.         *)
AbsentIsBlank ==
  \A s \in Streams : phase[s] = "absent" => current[s] = NoRequest

(* An emission under way is one that was pending, of the current request.  *)
EmissionIsPending ==
  \A s \in Streams :
    /\ phase[s] \in {"query", "write"} =>
         pendingEmit[s] /\ current[s] # NoRequest /\ timer[s] = "off"
    /\ phase[s] = "write" => fetched[s].request = current[s]

(* What is read and shown has been committed, and does not go back.        *)
ViewsInOrder ==
  \A s \in Streams :
    /\ view[s].version <= version
    /\ phase[s] = "write" => /\ view[s].version <= fetched[s].version
                             /\ fetched[s].version <= version

(* The inductive invariant.                                                *)
IInv ==
  /\ TypeOK
  /\ AbsentIsBlank
  /\ EmissionIsPending
  /\ ViewsInOrder
  /\ TimerMeansPending
  /\ DeltaHasBase
  /\ NoLostUpdate

----------------------------------------------------------------------------
(* The request made of a message is a request.                             *)
LEMMA RequestType ==
  ASSUME TypeOK, NEW s \in Streams, NEW message \in Messages
  PROVE  [viewport |-> message.viewport, mode |-> ModeOf(s, message)]
           \in Requests
<1>1. message.viewport \in Viewports /\ message.mode \in Modes \cup {""}
  BY DEF Messages
<1>2. current[s] # NoRequest => current[s].mode \in Modes
  BY DEF TypeOK, Requests
<1>3. ModeOf(s, message) \in Modes
  BY <1>1, <1>2 DEF ModeOf, Modes
<1>4. QED
  BY <1>1, <1>3 DEF Requests

(* The initial state satisfies the invariant.                              *)
LEMMA InitIInv == Init => IInv
<1> SUFFICES ASSUME Init PROVE IInv
  OBVIOUS
<1>1. NoView \in Views
  BY DEF NoView, Views
<1>2. TypeOK
  <2>1. incoming \in [Streams -> Seq(Messages)]
    BY DEF Init
  <2>2. \A s \in Streams : Len(incoming[s]) <= 2
    BY DEF Init
  <2>3. fetched \in [Streams -> Views] /\ view \in [Streams -> Views]
    BY <1>1 DEF Init
  <2>4. QED
    BY <2>1, <2>2, <2>3, BoundsAssumption DEF Init, TypeOK, Live
<1>3. AbsentIsBlank /\ EmissionIsPending /\ TimerMeansPending
  BY DEF Init, AbsentIsBlank, EmissionIsPending, TimerMeansPending
<1>4. DeltaHasBase /\ NoLostUpdate
  BY DEF Init, DeltaHasBase, NoLostUpdate
<1>5. ViewsInOrder
  BY DEF Init, ViewsInOrder, NoView
<1>6. QED
  BY <1>2, <1>3, <1>4, <1>5 DEF IInv

(* Every step keeps the variables in their types.                          *)
LEMMA TypeStep == TypeOK /\ [Next]_vars => TypeOK'
<1> SUFFICES ASSUME TypeOK, [Next]_vars PROVE TypeOK'
  OBVIOUS
<1> USE BoundsAssumption
    DEF data, inputs, loop, outputs, Live
<1>1. ASSUME NEW w \in Writers, WriterStep(w) PROVE TypeOK'
  <2>1. CASE Commit(w)
    BY <2>1 DEF TypeOK, Commit
  <2>2. CASE NotifyDataChanged(w)
    <3>1. token' \in [Streams -> BOOLEAN]
      BY <2>2 DEF NotifyDataChanged
    <3>2. QED
      BY <2>2, <3>1 DEF TypeOK, NotifyDataChanged
  <2>3. CASE FailMutation(w)
    BY <2>3 DEF TypeOK, FailMutation
  <2>4. QED
    BY <1>1, <2>1, <2>2, <2>3 DEF WriterStep
<1>2. ASSUME NEW s \in Streams, Connect(s) PROVE TypeOK'
  BY <1>2 DEF TypeOK, Connect
<1>3. ASSUME NEW s \in Streams, NEW message \in Messages,
             ReadMessage(s, message)
      PROVE  TypeOK'
  <2>1. /\ Append(incoming[s], message) \in Seq(Messages)
        /\ Len(Append(incoming[s], message)) <= 2
    BY <1>3 DEF TypeOK, ReadMessage
  <2>2. QED
    BY <1>3, <2>1 DEF TypeOK, ReadMessage
<1>4. ASSUME NEW s \in Streams, ReadFails(s) PROVE TypeOK'
  BY <1>4 DEF TypeOK, ReadFails
<1>5. ASSUME NEW s \in Streams, TakeMessage(s) PROVE TypeOK'
  <2> DEFINE message == Head(incoming[s])
  <2>1. /\ message \in Messages
        /\ Tail(incoming[s]) \in Seq(Messages)
        /\ Len(Tail(incoming[s])) <= 2
    BY <1>5 DEF TypeOK, TakeMessage
  <2>2. incoming' \in [Streams -> Seq(Messages)]
    BY <1>5, <2>1 DEF TypeOK, TakeMessage
  <2>3. \A t \in Streams : Len(incoming'[t]) <= 2
    BY <1>5, <2>1 DEF TypeOK, TakeMessage
  <2>4. current' \in [Streams -> Requests \cup {NoRequest}]
    BY <1>5, <2>1, RequestType DEF TypeOK, TakeMessage
  <2>5. /\ pendingEmit' \in [Streams -> BOOLEAN]
        /\ pendingInitial' \in [Streams -> BOOLEAN]
        /\ timer' \in [Streams -> {"off", "armed", "fired"}]
    BY <1>5 DEF TypeOK, TakeMessage, ScheduleEmit
  <2>6. QED
    BY <1>5, <2>2, <2>3, <2>4, <2>5 DEF TypeOK, TakeMessage
<1>6. ASSUME NEW s \in Streams, TakeUpdate(s) PROVE TypeOK'
  BY <1>6 DEF TypeOK, TakeUpdate, ScheduleEmit
<1>7. ASSUME NEW s \in Streams, TimerFires(s) PROVE TypeOK'
  BY <1>7 DEF TypeOK, TimerFires
<1>8. ASSUME NEW s \in Streams, TakeTimer(s) PROVE TypeOK'
  BY <1>8 DEF TypeOK, TakeTimer
<1>9. ASSUME NEW s \in Streams, TakeReadErr(s) PROVE TypeOK'
  BY <1>9 DEF TypeOK, TakeReadErr, Return
<1>10. ASSUME NEW s \in Streams, Query(s, version) PROVE TypeOK'
  <2>1. [version |-> version, request |-> current[s]] \in Views
    BY DEF TypeOK, Views
  <2>2. QED
    BY <1>10, <2>1 DEF TypeOK, Query
<1>11. ASSUME NEW s \in Streams, WriteFrame(s) PROVE TypeOK'
  BY <1>11 DEF TypeOK, WriteFrame
<1>12. ASSUME NEW s \in Streams, EmitFails(s) PROVE TypeOK'
  BY <1>12 DEF TypeOK, EmitFails, Return
<1>13. CASE UNCHANGED vars
  BY <1>13 DEF TypeOK, vars
<1>14. QED
  BY <1>1, <1>2, <1>3, <1>4, <1>5, <1>6, <1>7, <1>8, <1>9, <1>10, <1>11,
     <1>12, <1>13
     DEF Next, StreamStep, ReaderStep, Select, Emission

----------------------------------------------------------------------------
(* What the loop keeps true of its own variables.                          *)
LEMMA LoopStep ==
  ASSUME IInv, [Next]_vars
  PROVE  /\ AbsentIsBlank'
         /\ EmissionIsPending'
         /\ TimerMeansPending'
         /\ DeltaHasBase'
<1> USE DEF data, inputs, loop, outputs, Live, IInv, TypeOK, AbsentIsBlank,
            EmissionIsPending, TimerMeansPending, DeltaHasBase
<1>1. ASSUME NEW w \in Writers, WriterStep(w)
      PROVE  UNCHANGED <<phase, inputs, loop, outputs>>
  BY <1>1 DEF WriterStep, Commit, NotifyDataChanged, FailMutation
<1>2. CASE \E w \in Writers : WriterStep(w)
  BY <1>1, <1>2
<1>3. ASSUME NEW s \in Streams, Connect(s)
      PROVE  AbsentIsBlank' /\ EmissionIsPending' /\ TimerMeansPending'
             /\ DeltaHasBase'
  BY <1>3 DEF Connect
<1>4. ASSUME NEW s \in Streams, ReaderStep(s)
      PROVE  UNCHANGED <<phase, loop, outputs>>
  BY <1>4 DEF ReaderStep, ReadMessage, ReadFails
<1>5. CASE \E s \in Streams : ReaderStep(s)
  BY <1>4, <1>5
<1>6. ASSUME NEW s \in Streams, TakeMessage(s)
      PROVE  AbsentIsBlank' /\ EmissionIsPending' /\ TimerMeansPending'
             /\ DeltaHasBase'
  <2> DEFINE message == Head(incoming[s])
             next    == [viewport |-> message.viewport,
                         mode |-> ModeOf(s, message)]
  <2>1. next \in Requests
    BY <1>6, RequestType DEF TakeMessage
  <2>2. /\ current' = [current EXCEPT ![s] = next]
        /\ pendingEmit' = [pendingEmit EXCEPT ![s] = TRUE]
        /\ timer' = [timer EXCEPT ![s] = "armed"]
        /\ phase[s] = "select"
        /\ UNCHANGED <<phase, outputs>>
    BY <1>6 DEF TakeMessage, ScheduleEmit
  <2>3. /\ \A t \in Streams \ {s} : pendingInitial'[t] = pendingInitial[t]
        /\ ~pendingInitial'[s] => /\ ~pendingInitial[s]
                                  /\ current[s] # NoRequest
                                  /\ next.mode = current[s].mode
    BY <1>6 DEF TakeMessage, ScheduleEmit
  <2>4. AbsentIsBlank' /\ EmissionIsPending' /\ TimerMeansPending'
    BY <2>1, <2>2, NoRequestAssumption
  <2>5. DeltaHasBase'
    BY <2>1, <2>2, <2>3
  <2>6. QED
    BY <2>4, <2>5
<1>7. ASSUME NEW s \in Streams, TakeUpdate(s)
      PROVE  AbsentIsBlank' /\ EmissionIsPending' /\ TimerMeansPending'
             /\ DeltaHasBase'
  BY <1>7 DEF TakeUpdate, ScheduleEmit
<1>8. ASSUME NEW s \in Streams, TimerFires(s)
      PROVE  AbsentIsBlank' /\ EmissionIsPending' /\ TimerMeansPending'
             /\ DeltaHasBase'
  BY <1>8 DEF TimerFires
<1>9. ASSUME NEW s \in Streams, TakeTimer(s)
      PROVE  AbsentIsBlank' /\ EmissionIsPending' /\ TimerMeansPending'
             /\ DeltaHasBase'
  BY <1>9 DEF TakeTimer
<1>10. ASSUME NEW s \in Streams, TakeReadErr(s)
       PROVE  AbsentIsBlank' /\ EmissionIsPending' /\ TimerMeansPending'
              /\ DeltaHasBase'
  BY <1>10 DEF TakeReadErr, Return
<1>11. ASSUME NEW s \in Streams, Query(s, version)
       PROVE  AbsentIsBlank' /\ EmissionIsPending' /\ TimerMeansPending'
              /\ DeltaHasBase'
  BY <1>11 DEF Query
<1>12. ASSUME NEW s \in Streams, WriteFrame(s)
       PROVE  AbsentIsBlank' /\ EmissionIsPending' /\ TimerMeansPending'
              /\ DeltaHasBase'
  BY <1>12 DEF WriteFrame
<1>13. ASSUME NEW s \in Streams, EmitFails(s)
       PROVE  AbsentIsBlank' /\ EmissionIsPending' /\ TimerMeansPending'
              /\ DeltaHasBase'
  BY <1>13 DEF EmitFails, Return
<1>14. CASE UNCHANGED vars
  BY <1>14 DEF vars
<1>15. QED
  BY <1>2, <1>3, <1>5, <1>6, <1>7, <1>8, <1>9, <1>10, <1>11, <1>12, <1>13,
     <1>14
     DEF Next, StreamStep, Select, Emission

(* What was read and shown only gets newer.                                *)
LEMMA OrderStep ==
  ASSUME IInv, [Next]_vars
  PROVE  ViewsInOrder'
<1> USE DEF data, inputs, loop, outputs, Live, IInv, TypeOK, ViewsInOrder
<1>1. ASSUME NEW w \in Writers, WriterStep(w) PROVE ViewsInOrder'
  <2>1. version' \in Nat /\ version <= version' /\ UNCHANGED <<phase, outputs>>
    BY <1>1 DEF WriterStep, Commit, NotifyDataChanged, FailMutation
  <2>2. \A s \in Streams : view[s].version \in Nat /\ fetched[s].version \in Nat
    BY DEF Views
  <2>3. QED
    BY <2>1, <2>2
<1>2. ASSUME NEW s \in Streams, Connect(s) \/ ReaderStep(s) PROVE ViewsInOrder'
  BY <1>2 DEF Connect, ReaderStep, ReadMessage, ReadFails
<1>3. ASSUME NEW s \in Streams, Select(s) \/ TimerFires(s) PROVE ViewsInOrder'
  BY <1>3 DEF Select, TakeMessage, TakeUpdate, TakeTimer, TakeReadErr, Return,
              TimerFires
<1>4. ASSUME NEW s \in Streams, Query(s, version) PROVE ViewsInOrder'
  BY <1>4 DEF Query
<1>5. ASSUME NEW s \in Streams, WriteFrame(s) PROVE ViewsInOrder'
  BY <1>5 DEF WriteFrame
<1>6. ASSUME NEW s \in Streams, EmitFails(s) PROVE ViewsInOrder'
  BY <1>6 DEF EmitFails, Return
<1>7. CASE UNCHANGED vars
  BY <1>7 DEF vars
<1>8. QED
  BY <1>1, <1>2, <1>3, <1>4, <1>5, <1>6, <1>7
     DEF Next, StreamStep, Emission

(* No step loses the wakeup of a client that is behind.                    *)
LEMMA WakeupStep ==
  ASSUME IInv, [Next]_vars
  PROVE  NoLostUpdate'
<1> USE DEF data, inputs, loop, outputs, Live, Subscribed, Seen, NoLostUpdate
<1>t. TypeOK /\ NoLostUpdate /\ AbsentIsBlank /\ EmissionIsPending
      /\ TimerMeansPending
  BY DEF IInv
<1>1. ASSUME NEW w \in Writers, Commit(w) \/ FailMutation(w)
      PROVE  NoLostUpdate'
  BY <1>1, <1>t DEF Commit, FailMutation
<1>2. ASSUME NEW w \in Writers, NotifyDataChanged(w) PROVE NoLostUpdate'
  (* Every stream that is served now holds a token.                        *)
  BY <1>2 DEF NotifyDataChanged
<1>3. ASSUME NEW s \in Streams, Connect(s) PROVE NoLostUpdate'
  BY <1>3, <1>t DEF Connect, TypeOK, AbsentIsBlank
<1>4. ASSUME NEW s \in Streams, ReaderStep(s) PROVE NoLostUpdate'
  <2>1. UNCHANGED <<data, phase, token, loop, outputs>>
    BY <1>4 DEF ReaderStep, ReadMessage, ReadFails
  <2>2. QED
    BY <2>1, <1>t
<1>5. ASSUME NEW s \in Streams, TakeMessage(s) PROVE NoLostUpdate'
  <2>1. /\ phase'[s] = "select" /\ pendingEmit'[s] /\ timer'[s] = "armed"
        /\ \A t \in Streams \ {s} : /\ current'[t] = current[t]
                                    /\ pendingEmit'[t] = pendingEmit[t]
                                    /\ timer'[t] = timer[t]
        /\ UNCHANGED <<data, phase, token, outputs>>
    BY <1>5, <1>t DEF TakeMessage, ScheduleEmit, TypeOK
  <2>2. QED
    BY <2>1, <1>t
<1>6. ASSUME NEW s \in Streams, TakeUpdate(s) PROVE NoLostUpdate'
  BY <1>6, <1>t DEF TakeUpdate, ScheduleEmit, TypeOK
<1>7. ASSUME NEW s \in Streams, TimerFires(s) PROVE NoLostUpdate'
  BY <1>7, <1>t DEF TimerFires, TypeOK
<1>8. ASSUME NEW s \in Streams, TakeTimer(s) PROVE NoLostUpdate'
  <2>1. /\ phase[s] = "select"
        /\ phase'[s] = "query"
        /\ \A t \in Streams \ {s} : phase'[t] = phase[t] /\ timer'[t] = timer[t]
        /\ UNCHANGED <<data, token, current, pendingEmit, outputs>>
    BY <1>8, <1>t DEF TakeTimer, TypeOK, TimerMeansPending
  <2>2. QED
    BY <2>1, <1>t
<1>9. ASSUME NEW s \in Streams, TakeReadErr(s) \/ EmitFails(s)
      PROVE  NoLostUpdate'
  <2>1. Return(s) /\ UNCHANGED <<data, current, pendingEmit, outputs>>
    BY <1>9 DEF TakeReadErr, EmitFails
  <2>2. phase'[s] = "returned"
    BY <2>1, <1>t DEF Return, TypeOK
  <2>3. \A t \in Streams \ {s} : /\ phase'[t] = phase[t]
                                /\ timer'[t] = timer[t]
                                /\ token'[t] = token[t]
    BY <2>1, <1>t DEF Return, TypeOK
  <2>4. QED
    BY <2>1, <2>2, <2>3, <1>t
<1>10. ASSUME NEW s \in Streams, Query(s, version) PROVE NoLostUpdate'
  (* The query reads every change that is committed, hence announced.      *)
  BY <1>10, <1>t DEF Query, TypeOK
<1>11. ASSUME NEW s \in Streams, WriteFrame(s) PROVE NoLostUpdate'
  (* What came since the query has left its token.                         *)
  <2>1. /\ phase[s] = "write" /\ phase'[s] = "select"
        /\ view'[s] = fetched[s]
        /\ UNCHANGED <<data, token, current, timer, fetched>>
    BY <1>11, <1>t DEF WriteFrame, TypeOK
  <2>2. \A t \in Streams \ {s} : /\ phase'[t] = phase[t]
                                /\ view'[t] = view[t]
                                /\ pendingEmit'[t] = pendingEmit[t]
    BY <1>11, <1>t DEF WriteFrame, TypeOK
  <2>3. QED
    BY <2>1, <2>2, <1>t
<1>12. CASE UNCHANGED vars
  BY <1>12, <1>t DEF vars
<1>13. QED
  BY <1>1, <1>2, <1>3, <1>4, <1>5, <1>6, <1>7, <1>8, <1>9, <1>10, <1>11, <1>12
     DEF Next, WriterStep, StreamStep, Select, Emission

(* The invariant holds in every reachable state.                           *)
THEOREM Invariance == Safety => []IInv
<1>1. IInv /\ [Next]_vars => IInv'
  BY TypeStep, LoopStep, OrderStep, WakeupStep DEF IInv
<1>2. QED
  BY <1>1, InitIInv, PTL DEF Safety

----------------------------------------------------------------------------
(* The variables of the listeners and the streams have their types.        *)
THEOREM TypeCorrect == Safety => []TypeOK
<1>1. IInv => TypeOK
  BY DEF IInv
<1>2. QED
  BY <1>1, Invariance, PTL

(***************************************************************************)
(* However the goroutines interleave, a client that is behind an announced *)
(* change always has its wakeup: the token, a running timer or the query.  *)
(***************************************************************************)
THEOREM WakeupsAreKept == Safety => []NoLostUpdate
<1>1. IInv => NoLostUpdate
  BY DEF IInv
<1>2. QED
  BY <1>1, Invariance, PTL

(* No delta is computed against features of the other mode.                *)
THEOREM DeltasHaveTheirBase == Safety => []DeltaHasBase
<1>1. IInv => DeltaHasBase
  BY DEF IInv
<1>2. QED
  BY <1>1, Invariance, PTL

(* The coalescing timer runs only for a pending emission.                  *)
THEOREM TimersArePending == Safety => []TimerMeansPending
<1>1. IInv => TimerMeansPending
  BY DEF IInv
<1>2. QED
  BY <1>1, Invariance, PTL

----------------------------------------------------------------------------
(* One of the steps that Fairness is about is possible: a case of the      *)
(* select is ready, the timer runs, or an emission is being made.          *)
CanMove(s) ==
  \/ phase[s] \in {"query", "write"}
  \/ phase[s] = "select" /\ (incoming[s] # << >> \/ token[s] \/ readErr[s])
  \/ timer[s] # "off"

(***************************************************************************)
(* The safety halves of Settles and DeadPeerUnsubscribes: a stream that is *)
(* served and does not show what its client asked for with every announced *)
(* change, or whose peer is gone, is not left with nothing to do, in a     *)
(* select that nobody will wake.                                           *)
(***************************************************************************)
THEOREM UnsettledStreamsMove ==
  Safety => [](\A s \in Streams :
                 Subscribed(s) /\ (~UpToDate(s) \/ readErr[s]) => CanMove(s))
<1>1. ASSUME IInv, NEW s \in Streams, Subscribed(s), ~CanMove(s)
      PROVE  UpToDate(s) /\ ~readErr[s]
  <2>1. /\ phase[s] = "select" /\ timer[s] = "off"
        /\ incoming[s] = << >> /\ ~token[s] /\ ~readErr[s]
    BY <1>1 DEF CanMove, Subscribed, Live
  <2>2. ASSUME current[s] # NoRequest
        PROVE  view[s].request = current[s] /\ view[s].version >= announced
    <3>1. ~(view[s].version < announced) /\ view[s].request = current[s]
      BY <1>1, <2>1, <2>2 DEF IInv, NoLostUpdate, Seen
    <3>2. view[s].version \in Nat /\ announced \in Nat
      BY <1>1 DEF IInv, TypeOK, Views
    <3>3. QED
      BY <3>1, <3>2
  <2>3. QED
    BY <2>1, <2>2 DEF UpToDate
<1>2. IInv => \A s \in Streams :
                Subscribed(s) /\ (~UpToDate(s) \/ readErr[s]) => CanMove(s)
  BY <1>1
<1>3. QED
  BY <1>2, Invariance, PTL

(* What the loop has to do before it waits for news: a message or a token  *)
(* is taken, the timer runs and fires, features are queried and written.   *)
Stage(s) ==
  IF phase[s] = "query" THEN 3
  ELSE IF phase[s] = "write" THEN 2
  ELSE IF phase[s] = "select" THEN 1 ELSE 0

TimerWork(s) ==
  IF timer[s] = "armed" THEN 4 ELSE IF timer[s] = "fired" THEN 3 ELSE 0

TokenWork(s) == IF token[s] THEN 6 ELSE 0

Backlog(s) == 6 * Len(incoming[s])

Work(s) == Backlog(s) + TokenWork(s) + TimerWork(s) + Stage(s)

LoopMoves(s) == Select(s) \/ TimerFires(s) \/ Emission(s)

LEMMA WorkIsNat ==
  ASSUME TypeOK, NEW s \in Streams
  PROVE  /\ Backlog(s) \in Nat
         /\ Stage(s) \in 0 .. 3 /\ TimerWork(s) \in 0 .. 4
         /\ TokenWork(s) \in 0 .. 6
         /\ Work(s) \in Nat
<1>1. Len(incoming[s]) \in Nat
  BY DEF TypeOK
<1>2. Stage(s) \in 0 .. 3 /\ TimerWork(s) \in 0 .. 4
  BY DEF Stage, TimerWork, TypeOK, Live
<1>3. Backlog(s) \in Nat
  BY <1>1 DEF Backlog
<1>4. TokenWork(s) \in 0 .. 6
  BY DEF TokenWork
<1>5. QED
  BY <1>2, <1>3, <1>4 DEF Work

(* Each step of the loop is one less to do.                                *)
LEMMA WorkStep ==
  ASSUME TypeOK, NEW s \in Streams, LoopMoves(s)
  PROVE  Work(s)' < Work(s)
<1> USE DEF data, inputs, loop, outputs
<1>1. /\ Backlog(s) \in Nat
      /\ Stage(s) \in 0 .. 3 /\ TimerWork(s) \in 0 .. 4
      /\ TokenWork(s) \in 0 .. 6
  BY WorkIsNat
<1>b. incoming' = incoming => Backlog(s)' = Backlog(s)
  BY DEF Backlog
<1>2. CASE TakeMessage(s)
  <2>1. Len(incoming'[s]) = Len(incoming[s]) - 1
    BY <1>2, EmptySeq, HeadTailProperties DEF TypeOK, TakeMessage
  <2>2. timer'[s] = "armed" /\ UNCHANGED <<phase, token>>
    BY <1>2 DEF TypeOK, TakeMessage, ScheduleEmit
  <2>3. /\ TimerWork(s)' = 4 /\ Stage(s)' = Stage(s)
        /\ TokenWork(s)' = TokenWork(s)
    BY <2>2 DEF TimerWork, Stage, TokenWork
  <2>4. Len(incoming[s]) \in Nat
    BY DEF TypeOK
  <2>5. Backlog(s)' = Backlog(s) - 6
    BY <2>1, <2>4 DEF Backlog
  <2>6. QED
    BY <1>1, <2>3, <2>5 DEF Work
<1>3. CASE TakeUpdate(s)
  <2>1. /\ token[s] /\ ~token'[s]
        /\ timer'[s] \in {"armed", timer[s]}
        /\ UNCHANGED <<phase, incoming>>
    BY <1>3 DEF TypeOK, TakeUpdate, ScheduleEmit
  <2>2. /\ TimerWork(s)' \in 0 .. 4 /\ Stage(s)' = Stage(s)
        /\ TokenWork(s) = 6 /\ TokenWork(s)' = 0
    BY <2>1 DEF TimerWork, Stage, TokenWork
  <2>3. QED
    BY <1>1, <1>b, <2>1, <2>2 DEF Work
<1>4. CASE TakeTimer(s)
  <2>1. /\ phase[s] = "select" /\ phase'[s] \in {"query", "select"}
        /\ timer[s] = "fired" /\ timer'[s] = "off"
        /\ UNCHANGED <<token, incoming>>
    BY <1>4 DEF TypeOK, TakeTimer
  <2>2. /\ TimerWork(s) = 3 /\ TimerWork(s)' = 0
        /\ Stage(s) = 1 /\ Stage(s)' \in {1, 3}
        /\ TokenWork(s)' = TokenWork(s)
    BY <2>1 DEF TimerWork, Stage, TokenWork
  <2>3. QED
    BY <1>1, <1>b, <2>1, <2>2 DEF Work
<1>5. CASE TimerFires(s)
  <2>1. /\ timer[s] = "armed" /\ timer'[s] = "fired"
        /\ UNCHANGED <<phase, token, incoming>>
    BY <1>5 DEF TypeOK, TimerFires
  <2>2. /\ TimerWork(s) = 4 /\ TimerWork(s)' = 3 /\ Stage(s)' = Stage(s)
        /\ TokenWork(s)' = TokenWork(s)
    BY <2>1 DEF TimerWork, Stage, TokenWork
  <2>3. QED
    BY <1>1, <1>b, <2>1, <2>2 DEF Work
<1>6. CASE Query(s, version) \/ WriteFrame(s)
  <2>1. /\ \/ phase[s] = "query" /\ phase'[s] = "write"
           \/ phase[s] = "write" /\ phase'[s] = "select"
        /\ UNCHANGED <<timer, token, incoming>>
    BY <1>6 DEF TypeOK, Query, WriteFrame
  <2>2. /\ Stage(s)' < Stage(s) /\ TimerWork(s)' = TimerWork(s)
        /\ TokenWork(s)' = TokenWork(s)
    BY <2>1 DEF TimerWork, Stage, TokenWork
  <2>3. Stage(s)' \in 0 .. 3
    BY <2>1 DEF Stage
  <2>4. QED
    BY <1>1, <1>b, <2>1, <2>2, <2>3 DEF Work
<1>7. CASE TakeReadErr(s) \/ EmitFails(s)
  <2>1. /\ phase[s] \in Live /\ phase'[s] = "returned"
        /\ timer'[s] = "off" /\ ~token'[s] /\ incoming' = incoming
    BY <1>7 DEF TypeOK, TakeReadErr, EmitFails, Return, Live
  <2>2. /\ Stage(s) \in 1 .. 3 /\ Stage(s)' = 0 /\ TimerWork(s)' = 0
        /\ TokenWork(s)' = 0
    BY <2>1 DEF TimerWork, Stage, TokenWork, Live
  <2>3. QED
    BY <1>1, <1>b, <2>1, <2>2 DEF Work
<1>8. QED
  BY <1>2, <1>3, <1>4, <1>5, <1>6, <1>7 DEF LoopMoves, Select, Emission

(* What gives a loop something to do.                                      *)
News(s) ==
  \/ Connect(s)
  \/ \E message \in Messages : ReadMessage(s, message)
  \/ \E w \in Writers : NotifyDataChanged(w)

(* Nothing else does, the other streams least of all.                      *)
LEMMA QuietStep ==
  ASSUME TypeOK, [Next]_vars, NEW s \in Streams, ~News(s), ~LoopMoves(s)
  PROVE  Work(s)' = Work(s)
<1> USE DEF data, inputs, loop, outputs
<1> SUFFICES /\ phase'[s] = phase[s] /\ token'[s] = token[s]
             /\ timer'[s] = timer[s] /\ incoming'[s] = incoming[s]
  BY DEF Work, Backlog, Stage, TimerWork, TokenWork
<1>1. ASSUME NEW w \in Writers, Commit(w) \/ FailMutation(w)
      PROVE  UNCHANGED <<phase, token, timer, incoming>>
  BY <1>1 DEF Commit, FailMutation
<1>2. ASSUME NEW t \in Streams \ {s}, StreamStep(t)
      PROVE  /\ phase'[s] = phase[s] /\ token'[s] = token[s]
             /\ timer'[s] = timer[s] /\ incoming'[s] = incoming[s]
  <2>1. CASE Connect(t) \/ ReaderStep(t)
    BY <1>2, <2>1 DEF TypeOK, Connect, ReaderStep, ReadMessage, ReadFails
  <2>2. CASE Select(t)
    BY <1>2, <2>2 DEF TypeOK, Select, TakeMessage, TakeUpdate, TakeTimer,
                      TakeReadErr, Return, ScheduleEmit
  <2>3. CASE TimerFires(t) \/ Emission(t)
    BY <1>2, <2>3 DEF TypeOK, TimerFires, Emission, Query, WriteFrame,
                      EmitFails, Return
  <2>4. QED
    BY <1>2, <2>1, <2>2, <2>3 DEF StreamStep
<1>3. StreamStep(s) => UNCHANGED <<phase, token, timer, incoming>>
  BY DEF StreamStep, News, LoopMoves, ReaderStep, ReadFails
<1>4. UNCHANGED vars => UNCHANGED <<phase, token, timer, incoming>>
  BY DEF vars
<1>5. QED
  BY <1>1, <1>2, <1>3, <1>4 DEF Next, WriterStep, News

(***************************************************************************)
(* The rest of Settles but for the fairness: when clients and writers fall *)
(* silent every loop comes to have nothing to do.  Each of its steps, the  *)
(* ones that put an emission off included, lowers a natural number, and    *)
(* only a message or a notification raises it.                             *)
(***************************************************************************)
THEOREM LoopsRunOut ==
  Safety =>
    /\ [](\A s \in Streams : Work(s) \in Nat)
    /\ [][\A s \in Streams : LoopMoves(s) => Work(s)' < Work(s)]_vars
    /\ [][\A s \in Streams :
            ~News(s) /\ ~LoopMoves(s) => Work(s)' = Work(s)]_vars
<1>1. IInv => \A s \in Streams : Work(s) \in Nat
  BY WorkIsNat DEF IInv
<1>2. IInv => [\A s \in Streams : LoopMoves(s) => Work(s)' < Work(s)]_vars
  BY WorkStep DEF IInv
<1>3. IInv /\ [Next]_vars =>
        [\A s \in Streams :
           ~News(s) /\ ~LoopMoves(s) => Work(s)' = Work(s)]_vars
  BY QuietStep DEF IInv
<1>4. QED
  BY <1>1, <1>2, <1>3, Invariance, PTL DEF Safety

----------------------------------------------------------------------------
(* The initial state of a stream is one that LiveView allows.              *)
LEMMA PromiseInit == Init => Promise!Init
BY DEF Init, Promise!Init, Subscribed, Live, NoView

(* Every step of a stream is one that LiveView allows, or shows nothing.   *)
LEMMA PromiseStep ==
  ASSUME IInv, [Next]_vars
  PROVE  [Promise!Next]_Promise!vars
<1> DEFINE served == {s \in Streams : Subscribed(s)}
<1> USE DEF data, inputs, loop, outputs
<1>t. TypeOK /\ EmissionIsPending /\ ViewsInOrder
  BY DEF IInv
<1>1. ASSUME NEW w \in Writers, Commit(w) PROVE Promise!Change
  BY <1>1 DEF Commit, Promise!Change, Subscribed
<1>2. ASSUME NEW w \in Writers, NotifyDataChanged(w) PROVE Promise!Announce
  BY <1>2 DEF NotifyDataChanged, Promise!Announce, Subscribed
<1>3. ASSUME NEW s \in Streams, Connect(s) PROVE Promise!Open(s)
  <2>1. served' = served \cup {s}
    BY <1>3, <1>t DEF Connect, Subscribed, Live, TypeOK
  <2>2. QED
    BY <1>3, <2>1 DEF Connect, Promise!Open
<1>4. ASSUME NEW s \in Streams, TakeMessage(s) PROVE Promise!Ask(s)
  <2> DEFINE message == Head(incoming[s])
             next    == [viewport |-> message.viewport,
                         mode |-> ModeOf(s, message)]
  <2>1. next \in Requests
    BY <1>4, <1>t, RequestType DEF TakeMessage, TypeOK
  <2>2. s \in served /\ current' = [current EXCEPT ![s] = next]
    BY <1>4 DEF TakeMessage, Subscribed, Live
  <2>3. UNCHANGED <<version, announced, served, view>>
    BY <1>4 DEF TakeMessage, Subscribed
  <2>4. \E r \in Requests : current' = [current EXCEPT ![s] = r]
    BY <2>1, <2>2
  <2>5. QED
    BY <2>2, <2>3, <2>4 DEF Promise!Ask
<1>5. ASSUME NEW s \in Streams, WriteFrame(s)
      PROVE  \E v \in view[s].version .. version : Promise!Show(s, v)
  <2>1. /\ fetched[s].version \in view[s].version .. version
        /\ fetched[s].request = current[s]
        /\ current[s] \in Requests
    BY <1>5, <1>t
       DEF WriteFrame, TypeOK, EmissionIsPending, ViewsInOrder, Views
  <2>2. fetched[s] = [version |-> fetched[s].version, request |-> current[s]]
    BY <2>1, <1>t DEF TypeOK, Views
  <2>3. served' = served /\ s \in served
    BY <1>5, <1>t DEF WriteFrame, Subscribed, Live, TypeOK
  <2>4. Promise!Show(s, fetched[s].version)
    BY <1>5, <2>1, <2>2, <2>3 DEF WriteFrame, Promise!Show
  <2>5. QED
    BY <2>1, <2>4
<1>6. ASSUME NEW s \in Streams, TakeReadErr(s) \/ EmitFails(s)
      PROVE  Promise!Close(s)
  <2>1. served' = served \ {s}
    BY <1>6, <1>t DEF TakeReadErr, EmitFails, Return, Subscribed, Live, TypeOK
  <2>2. QED
    BY <1>6, <2>1 DEF TakeReadErr, EmitFails, Promise!Close
<1>7. ASSUME NEW s \in Streams, TakeTimer(s) \/ Query(s, version)
      PROVE  UNCHANGED Promise!vars
  <2>1. served' = served
    BY <1>7, <1>t DEF TakeTimer, Query, Subscribed, Live, TypeOK
  <2>2. QED
    BY <1>7, <2>1 DEF TakeTimer, Query, Promise!vars
<1>8. ASSUME NEW s \in Streams, ReaderStep(s) \/ TakeUpdate(s) \/ TimerFires(s)
      PROVE  UNCHANGED Promise!vars
  BY <1>8 DEF ReaderStep, ReadMessage, ReadFails, TakeUpdate, TimerFires,
              Promise!vars, Subscribed
<1>9. ASSUME NEW w \in Writers, FailMutation(w) PROVE UNCHANGED Promise!vars
  BY <1>9 DEF FailMutation, Promise!vars, Subscribed
<1>10. CASE UNCHANGED vars
  BY <1>10 DEF vars, Promise!vars, Subscribed
<1>11. QED
  BY <1>1, <1>2, <1>3, <1>4, <1>5, <1>6, <1>7, <1>8, <1>9, <1>10
     DEF Next, WriterStep, StreamStep, Select, Emission, Promise!Next

(***************************************************************************)
(* The listeners, channels, goroutines and timers of a stream implement    *)
(* the safety part of LiveView: a client is only ever shown the view it    *)
(* asked for last, of data that is committed and never goes back.          *)
(***************************************************************************)
THEOREM StreamKeepsItsPromise == Safety => Promise!Safety
BY Invariance, PromiseInit, PromiseStep, PTL DEF Safety, Promise!Safety
============================================================================
