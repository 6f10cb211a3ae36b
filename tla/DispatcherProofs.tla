-------------------------- MODULE DispatcherProofs --------------------------
(***************************************************************************)
(* What holds of SimpleDispatcher for every set of events, every bound and *)
(* every interleaving of calls and signals; then what holds of a           *)
(* dispatcher that is used through the glue alone, when no signal          *)
(* interrupts it.                                                          *)
(***************************************************************************)
EXTENDS RegistryDispatcherGlue, TLAPS, FiniteSetTheorems, SequenceTheorems

InChunk == pc \in {"chunk", "trigger"}

\* What keeps the asserts of the chunk true: the events still to be taken are
\* on the queue already, because a chunk is cut down to the queue when it
\* starts, the queue then only grows at its tail, and an interrupt takes the
\* place of an event without taking it off the queue.  The same holds of the
\* events up to the internal one, except that the break leaves one uncounted.
ChunkInv ==
  /\ pc = "chunk" => i <= Len(mainq)
  /\ pc = "trigger" => i > 0 /\ i - 1 <= Len(mainq)
  /\ InChunk => internalevnum > 0
  /\ InChunk \/ pc = "done" => n <= numevents
  /\ curevt # None <=> pc = "trigger"
  /\ UndercountAtMostOne
  /\ InChunk /\ checkbusy => internalevnum = 1
  /\ pc = "chunk" => internalevnum <= Len(mainq) + (n - i)
  /\ pc = "trigger" => internalevnum <= Len(mainq) + (n - i) + 1
  /\ pc = "done" => \/ internalevnum <= Len(mainq) + (n - i)
                    \/ internalevnum = 1

IInv == TypeOK /\ ChunkInv

\* What IInv says of everything but the flags: its steps are arithmetic and
\* sequences, those of FlagsOK are propositional.
CoreInv == EventsOK /\ CountersOK /\ ChunkInv

LEMMA InitFlags == Init => FlagsOK
  BY DEF Init, FlagsOK

LEMMA NextFlags == FlagsOK /\ [Next]_vars => FlagsOK'
<1> SUFFICES ASSUME FlagsOK, [Next]_vars PROVE FlagsOK'
  OBVIOUS
<1> USE DEF FlagsOK, frame, queues
<1>1. CASE Calls
  BY <1>1, Zenon DEF Calls, AddEvent, AddBusyPollEvent, OnQueueEmpty,
     OnInterrupt, StopDispatching
<1>2. CASE Interrupt
  BY <1>2, Zenon DEF Interrupt
<1>3. CASE \E k \in 1..MaxRequest : DispatchEvents(k)
  BY <1>3, Zenon DEF DispatchEvents
<1>4. CASE DispatchUntilEmpty
  BY <1>4, Zenon DEF DispatchUntilEmpty
<1>5. CASE Dispatching
  <2>1. CASE UntilEmptyRound
    BY <2>1, Zenon DEF UntilEmptyRound
  <2>2. CASE UntilEmptyReturns
    BY <2>2, Zenon DEF UntilEmptyReturns
  <2>3. CASE DispatchNEventsReturns
    BY <2>3, Zenon DEF DispatchNEventsReturns, ReturnTo
  <2>4. CASE CheckFails
    BY <2>4, Zenon DEF CheckFails
  <2>5. CASE Check
    <3> USE DEF AtCheck
    <3>1. CASE CheckCarriesOn
      BY <3>1, Zenon DEF CheckCarriesOn
    <3>2. CASE CheckPostsOnEmpty
      BY <3>2, Zenon DEF CheckPostsOnEmpty
    <3>3. CASE CheckFindsNothing
      BY <3>3, Zenon DEF CheckFindsNothing, ReturnTo
    <3>4. CASE CheckPostsBusyPoll
      BY <3>4, Zenon DEF CheckPostsBusyPoll
    <3>5. CASE CheckPretendsInternal
      BY <3>5, Zenon DEF CheckPretendsInternal
    <3> QED
      BY <2>5, <3>1, <3>2, <3>3, <3>4, <3>5 DEF Check
  <2>6. CASE PickInterrupt
    BY <2>6, Zenon DEF PickInterrupt
  <2>7. CASE PickQueued
    BY <2>7, Zenon DEF PickQueued
  <2>8. CASE TriggerReturns
    BY <2>8, Zenon DEF TriggerReturns
  <2>9. CASE ChunkEnds
    BY <2>9, Zenon DEF ChunkEnds
  <2>10. CASE ChunkCounted
    BY <2>10, Zenon DEF ChunkCounted, ChunkForgotten
  <2> QED
    BY <1>5, <2>1, <2>2, <2>3, <2>4, <2>5, <2>6, <2>7, <2>8, <2>9, <2>10
    DEF Dispatching
<1>6. CASE UNCHANGED vars
  BY <1>6, Zenon DEF vars
<1> QED
  BY <1>1, <1>2, <1>3, <1>4, <1>5, <1>6 DEF Next

-----------------------------------------------------------------------------
LEMMA InitCore == Init => CoreInv
<1> SUFFICES ASSUME Init PROVE CoreInv
  OBVIOUS
<1>1. EventsOK
  BY DEF Init, EventsOK, Slot
<1>2. CountersOK
  BY DEF Init, CountersOK, PCs
<1>3. ChunkInv
  BY DEF Init, ChunkInv, InChunk,
     UndercountAtMostOne
<1> QED
  BY <1>1, <1>2, <1>3 DEF CoreInv

\* The calls change a queue or a slot, never the loop counters.
LEMMA CallsCore == CoreInv /\ Calls => CoreInv'
<1> SUFFICES ASSUME CoreInv, Calls PROVE CoreInv'
  OBVIOUS
<1> USE DEF CoreInv, EventsOK, CountersOK, ChunkInv, InChunk,
     UndercountAtMostOne, Slot, frame, queues
<1>1. CASE \E e \in External : AddEvent(e)
  BY <1>1 DEF AddEvent
<1>2. CASE \E e \in BusyPollers : AddBusyPollEvent(e)
  BY <1>2 DEF AddBusyPollEvent
<1>3. CASE \E e \in EmptyHandlers : OnQueueEmpty(e)
  BY <1>3 DEF OnQueueEmpty
<1>4. CASE \E e \in IntHandlers : OnInterrupt(e)
  BY <1>4 DEF OnInterrupt
<1>5. CASE StopDispatching
  BY <1>5 DEF StopDispatching
<1> QED
  BY <1>1, <1>2, <1>3, <1>4, <1>5 DEF Calls

LEMMA CheckCore == CoreInv /\ Check => CoreInv'
<1> SUFFICES ASSUME CoreInv, Check PROVE CoreInv'
  OBVIOUS
<1> USE DEF CoreInv, EventsOK, CountersOK, ChunkInv, InChunk,
     UndercountAtMostOne, Slot, PCs,
            AtCheck, StartChunk
<1>1. CASE CheckCarriesOn
  BY <1>1 DEF CheckCarriesOn
<1>2. CASE CheckPostsOnEmpty
  <2>1. onempty \in Internal
    BY <1>2 DEF CheckPostsOnEmpty, Internal
  <2> QED
    BY <1>2, <2>1 DEF CheckPostsOnEmpty
<1>3. CASE CheckFindsNothing
  BY <1>3 DEF CheckFindsNothing, ReturnTo
<1>4. CASE CheckPostsBusyPoll
  <2>1. Head(busypoll) \in Internal /\ Tail(busypoll) \in Seq(BusyPollers)
    BY <1>4 DEF CheckPostsBusyPoll, Internal
  <2> QED
    BY <1>4, <2>1 DEF CheckPostsBusyPoll
<1>5. CASE CheckPretendsInternal
  BY <1>5 DEF CheckPretendsInternal
<1> QED
  BY <1>1, <1>2, <1>3, <1>4, <1>5 DEF Check

LEMMA DispatchingCore == CoreInv /\ Dispatching => CoreInv'
<1> SUFFICES ASSUME CoreInv, Dispatching PROVE CoreInv'
  OBVIOUS
<1> USE DEF CoreInv, EventsOK, CountersOK, ChunkInv, InChunk,
     UndercountAtMostOne, Slot, PCs,
            frame, queues
<1>1. CASE UntilEmptyRound
  BY <1>1 DEF UntilEmptyRound
<1>2. CASE UntilEmptyReturns
  BY <1>2 DEF UntilEmptyReturns
<1>3. CASE DispatchNEventsReturns
  BY <1>3 DEF DispatchNEventsReturns, ReturnTo
<1>4. CASE CheckFails
  BY <1>4 DEF CheckFails
<1>5. CASE Check
  BY <1>5, CheckCore
<1>6. CASE PickInterrupt
  BY <1>6, EventKinds DEF PickInterrupt, AtPick, Events
<1>7. CASE PickQueued
  <2>1. mainq # <<>>
    BY <1>7 DEF PickQueued, AtPick
  <2>2. Head(mainq) \in Events /\ Head(mainq) # None
    BY <2>1, EventKinds DEF Events, Internal
  <2>3. /\ Tail(mainq) \in Seq(External \cup Internal)
        /\ Len(Tail(mainq)) = Len(mainq) - 1
    BY <2>1
  <2> QED
    BY <1>7, <2>1, <2>2, <2>3 DEF PickQueued, AtPick
<1>8. CASE TriggerReturns
  BY <1>8 DEF TriggerReturns
<1>9. CASE ChunkEnds
  BY <1>9 DEF ChunkEnds
<1>10. CASE ChunkCounted
  BY <1>10 DEF ChunkCounted, ChunkForgotten
<1> QED
  BY <1>1, <1>2, <1>3, <1>4, <1>5, <1>6, <1>7, <1>8, <1>9, <1>10 DEF Dispatching

LEMMA NextCore == CoreInv /\ [Next]_vars => CoreInv'
<1> SUFFICES ASSUME CoreInv, [Next]_vars PROVE CoreInv'
  OBVIOUS
<1> USE DEF CoreInv, EventsOK, CountersOK, ChunkInv, InChunk,
     UndercountAtMostOne, Slot, PCs,
            frame, queues
<1>1. CASE Calls
  BY <1>1, CallsCore
<1>2. CASE Interrupt
  BY <1>2 DEF Interrupt
<1>3. CASE \E k \in 1..MaxRequest : DispatchEvents(k)
  BY <1>3, Bounds DEF DispatchEvents
<1>4. CASE DispatchUntilEmpty
  BY <1>4 DEF DispatchUntilEmpty
<1>5. CASE Dispatching
  BY <1>5, DispatchingCore
<1>6. CASE UNCHANGED vars
  BY <1>6 DEF vars
<1> QED
  BY <1>1, <1>2, <1>3, <1>4, <1>5, <1>6 DEF Next

LEMMA StepIInv == IInv /\ [Next]_vars => IInv'
  BY NextFlags, NextCore DEF IInv, CoreInv, TypeOK

THEOREM SpecIInv == Spec => []IInv
<1>1. Init => IInv
  BY InitFlags, InitCore DEF IInv, CoreInv, TypeOK
<1> QED
  BY <1>1, StepIInv, PTL DEF Spec

\* Type correctness: no unsigned counter of the dispatcher ever wraps.
THEOREM TypeCorrect == Spec => []TypeOK
  BY SpecIInv, PTL DEF IInv

\* The asserts of i_dispatchNEvents and i_DispatchEvent never fail, signals or
\* not, whatever the events do.
THEOREM PickFinds == Spec => []PickFindsEvent
<1>1. IInv => PickFindsEvent
  BY DEF IInv, TypeOK, EventsOK, CountersOK, ChunkInv, InChunk,
     UndercountAtMostOne, PickFindsEvent,
     AtPick
<1> QED
  BY <1>1, SpecIInv, PTL

\* internalevnum_ runs at most one ahead of the queue, and only when the break
\* of i_dispatchNEvents let the last event of the queue go uncounted: that is
\* the one way to the assert that checkEmptyBusy opens with.
THEOREM UndercountBounded == Spec => []UndercountAtMostOne
  BY SpecIInv, PTL DEF IInv, ChunkInv

-----------------------------------------------------------------------------
(* Without signals.  The internal event lies where internalevnum_ says, and *)
(* a chunk that watches for poll events holds none.                        *)

Quiet ==
  /\ ~interrupted
  /\ InternalAtRecordedPlace
  /\ checkbusy => \A k \in 1..Len(mainq) : mainq[k] \notin Internal

QuietInv == IInv /\ Quiet

LEMMA InitQuiet == Init => Quiet
  BY DEF Init, Quiet, InternalAtRecordedPlace, Popped

LEMMA NextQuiet == ~Signals /\ IInv /\ Quiet /\ [Next]_vars => Quiet'
<1> SUFFICES ASSUME ~Signals, IInv, Quiet, [Next]_vars PROVE Quiet'
  OBVIOUS
<1> USE DEF IInv, TypeOK, EventsOK, CountersOK, ChunkInv, InChunk, Quiet,
            InternalAtRecordedPlace, Popped, PCs, frame, queues
<1>1. CASE Calls
  <2>1. CASE \E e \in External : AddEvent(e)
    BY <2>1, EventKinds DEF AddEvent, CallerHasControl, Internal
  <2>2. CASE \E e \in BusyPollers : AddBusyPollEvent(e)
    BY <2>2 DEF AddBusyPollEvent
  <2>3. CASE \E e \in EmptyHandlers : OnQueueEmpty(e)
    BY <2>3 DEF OnQueueEmpty
  <2>4. CASE \E e \in IntHandlers : OnInterrupt(e)
    BY <2>4 DEF OnInterrupt
  <2>5. CASE StopDispatching
    BY <2>5 DEF StopDispatching
  <2> QED
    BY <1>1, <2>1, <2>2, <2>3, <2>4, <2>5 DEF Calls
<1>2. CASE Interrupt
  BY <1>2 DEF Interrupt
<1>3. CASE \E k \in 1..MaxRequest : DispatchEvents(k)
  BY <1>3 DEF DispatchEvents
<1>4. CASE DispatchUntilEmpty
  BY <1>4 DEF DispatchUntilEmpty
<1>5. CASE Dispatching
  <2>1. CASE UntilEmptyRound
    BY <2>1 DEF UntilEmptyRound
  <2>2. CASE UntilEmptyReturns
    BY <2>2 DEF UntilEmptyReturns
  <2>3. CASE DispatchNEventsReturns
    BY <2>3 DEF DispatchNEventsReturns, ReturnTo
  <2>4. CASE CheckFails
    BY <2>4 DEF CheckFails
  <2>5. CASE Check
    <3> USE DEF AtCheck, StartChunk
    <3>1. CASE CheckCarriesOn
      BY <3>1 DEF CheckCarriesOn
    <3>2. CASE CheckPostsOnEmpty
      BY <3>2 DEF CheckPostsOnEmpty
    <3>3. CASE CheckFindsNothing
      BY <3>3 DEF CheckFindsNothing, ReturnTo
    <3>4. CASE CheckPostsBusyPoll
      <4>1. \A k \in 1..Len(mainq) : mainq[k] \notin Internal
        BY <3>4 DEF CheckPostsBusyPoll
      <4> QED
        BY <3>4, <4>1 DEF CheckPostsBusyPoll
    <3>5. CASE CheckPretendsInternal
      BY <3>5 DEF CheckPretendsInternal
    <3> QED
      BY <2>5, <3>1, <3>2, <3>3, <3>4, <3>5 DEF Check
  <2>6. CASE PickInterrupt
    BY <2>6 DEF PickInterrupt
  <2>7. CASE PickQueued
    <3>1. mainq # <<>>
      BY <2>7 DEF PickQueued, AtPick
    <3>2. \A k \in 1..Len(Tail(mainq)) :
            k + 1 \in 1..Len(mainq) /\ Tail(mainq)[k] = mainq[k + 1]
      BY <3>1
    <3> QED
      BY <2>7, <3>1, <3>2 DEF PickQueued, AtPick
  <2>8. CASE TriggerReturns
    BY <2>8 DEF TriggerReturns
  <2>9. CASE ChunkEnds
    BY <2>9 DEF ChunkEnds
  <2>10. CASE ChunkCounted
    BY <2>10 DEF ChunkCounted, ChunkForgotten
  <2> QED
    BY <1>5, <2>1, <2>2, <2>3, <2>4, <2>5, <2>6, <2>7, <2>8, <2>9, <2>10
    DEF Dispatching
<1>6. CASE UNCHANGED vars
  BY <1>6 DEF vars
<1> QED
  BY <1>1, <1>2, <1>3, <1>4, <1>5, <1>6 DEF Next

-----------------------------------------------------------------------------
(* The dispatcher implements EventQueue: the loop counters and the stack   *)
(* are hidden, everything else is the queue itself.                        *)

LEMMA NextQueue == ~Signals /\ QuietInv /\ [Next]_vars => [EQ!Next]_(EQ!vars)
<1> SUFFICES ASSUME ~Signals, QuietInv, [Next]_vars
             PROVE  EQ!Next \/ UNCHANGED EQ!vars
  OBVIOUS
<1> USE DEF QuietInv, IInv, ChunkInv, Quiet, EQ!vars, frame, queues
<1>1. CASE Calls
  <2>1. CASE \E e \in External : AddEvent(e)
    <3>1. EQ!Add
      BY <2>1 DEF AddEvent, EQ!Add
    <3> QED
      BY <3>1 DEF EQ!Next
  <2>2. CASE \E e \in BusyPollers : AddBusyPollEvent(e)
    <3>1. EQ!AddBusyPoll
      BY <2>2 DEF AddBusyPollEvent, EQ!AddBusyPoll
    <3> QED
      BY <3>1 DEF EQ!Next
  <2>3. CASE \E e \in EmptyHandlers : OnQueueEmpty(e)
    <3>1. EQ!SetOnEmpty
      BY <2>3 DEF OnQueueEmpty, EQ!SetOnEmpty
    <3> QED
      BY <3>1 DEF EQ!Next
  <2>4. CASE \E e \in IntHandlers : OnInterrupt(e)
    <3>1. EQ!SetOnInterrupt
      BY <2>4 DEF OnInterrupt, EQ!SetOnInterrupt
    <3> QED
      BY <3>1 DEF EQ!Next
  <2>5. CASE StopDispatching
    BY <2>5 DEF StopDispatching
  <2> QED
    BY <1>1, <2>1, <2>2, <2>3, <2>4, <2>5 DEF Calls
<1>2. CASE Interrupt
  BY <1>2 DEF Interrupt
<1>3. CASE \E k \in 1..MaxRequest : DispatchEvents(k)
  BY <1>3 DEF DispatchEvents
<1>4. CASE DispatchUntilEmpty
  BY <1>4 DEF DispatchUntilEmpty
<1>5. CASE Dispatching
  <2>1. CASE UntilEmptyRound
    BY <2>1 DEF UntilEmptyRound
  <2>2. CASE UntilEmptyReturns
    BY <2>2 DEF UntilEmptyReturns
  <2>3. CASE DispatchNEventsReturns
    BY <2>3 DEF DispatchNEventsReturns
  <2>4. CASE CheckFails
    BY <2>4 DEF CheckFails
  <2>5. CASE Check
    <3> USE DEF AtCheck
    <3>1. CASE CheckCarriesOn
      BY <3>1 DEF CheckCarriesOn
    <3>2. CASE CheckPostsOnEmpty
      <4>1. EQ!PostOnEmpty
        BY <3>2 DEF CheckPostsOnEmpty, EQ!PostOnEmpty
      <4> QED
        BY <4>1 DEF EQ!Next
    <3>3. CASE CheckFindsNothing
      BY <3>3 DEF CheckFindsNothing
    <3>4. CASE CheckPostsBusyPoll
      <4>1. \A k \in 1..Len(mainq) : mainq[k] \notin Internal
        BY <3>4 DEF CheckPostsBusyPoll, InternalAtRecordedPlace, Popped
      <4>2. EQ!OnlyExternal
        BY <4>1 DEF EQ!OnlyExternal, TypeOK, EventsOK
      <4>3. EQ!PostBusyPoll
        BY <3>4, <4>2 DEF CheckPostsBusyPoll, EQ!PostBusyPoll
      <4> QED
        BY <4>3 DEF EQ!Next
    <3>5. CASE CheckPretendsInternal
      BY <3>5 DEF CheckPretendsInternal
    <3> QED
      BY <2>5, <3>1, <3>2, <3>3, <3>4, <3>5 DEF Check
  <2>6. CASE PickInterrupt
    BY <2>6 DEF PickInterrupt
  <2>7. CASE PickQueued
    <3>1. mainq # <<>> /\ curevt = None
      BY <2>7 DEF PickQueued, AtPick, TypeOK, EventsOK, CountersOK
    <3>2. EQ!StartQueued
      BY <2>7, <3>1 DEF PickQueued, EQ!StartQueued
    <3> QED
      BY <3>2 DEF EQ!Next
  <2>8. CASE TriggerReturns
    <3>1. EQ!Finish
      BY <2>8 DEF TriggerReturns, EQ!Finish
    <3> QED
      BY <3>1 DEF EQ!Next
  <2>9. CASE ChunkEnds
    BY <2>9 DEF ChunkEnds
  <2>10. CASE ChunkCounted
    BY <2>10 DEF ChunkCounted
  <2> QED
    BY <1>5, <2>1, <2>2, <2>3, <2>4, <2>5, <2>6, <2>7, <2>8, <2>9, <2>10
    DEF Dispatching
<1>6. CASE UNCHANGED vars
  BY <1>6 DEF vars
<1> QED
  BY <1>1, <1>2, <1>3, <1>4, <1>5, <1>6 DEF Next

LEMMA SpecQuiet == ASSUME ~Signals PROVE Spec => []QuietInv
<1>1. Init => QuietInv
  BY InitFlags, InitCore, InitQuiet DEF IInv, CoreInv, TypeOK, QuietInv
<1>2. QuietInv /\ [Next]_vars => QuietInv'
  BY StepIInv, NextQuiet DEF QuietInv
<1> QED
  BY <1>1, <1>2, PTL DEF Spec

\* Without signals, internalevnum_ is the place of the internal event on the
\* queue, whatever events are posted and however the calls cut the chunks.
THEOREM RecordedPlace == ASSUME ~Signals PROVE Spec => []InternalAtRecordedPlace
<1>1. QuietInv => InternalAtRecordedPlace
  BY DEF QuietInv, Quiet
<1> QED
  BY <1>1, SpecQuiet, PTL

\* Without signals, a SimpleDispatcher is the event queue Dispatcher.h
\* describes: FIFO, poll events only among external ones, the empty event only
\* when there is nothing else.
THEOREM Implements == ASSUME ~Signals PROVE Spec => IsEventQueue
<1>1. Init => EQ!Init
  BY DEF Init, EQ!Init
<1>2. QuietInv /\ [Next]_vars => [EQ!Next]_(EQ!vars)
  BY NextQueue
<1> QED
  BY <1>1, <1>2, SpecQuiet, PTL DEF Spec, IsEventQueue, EQ!Spec

-----------------------------------------------------------------------------
(* The glue.                                                               *)

Queued == \E k \in 1..Len(mainq) : mainq[k] = busyev

\* Where the busy event is.
BusyPlace ==
  /\ Len(busypoll) <= 1
  /\ busypoll # <<>> => ~Queued
  /\ curevt = busyev => ~Queued
  /\ parent \in {"none", "building"} =>
       busypoll = <<>> /\ ~Queued /\ curevt # busyev
  /\ parent = "alive" /\ curevt # busyev => Queued \/ busypoll # <<>>
  /\ parent = "building" => pc = "idle"

\* What keeps checkEmptyBusy's assert true: busy poll events are added by the
\* busy event alone, which is not among the events of a chunk that is watched
\* for one, so the break that leaves an event uncounted is never taken.
WatchedChunk ==
  /\ checkbusy => busypoll = <<>> /\ curevt \notin Internal
  /\ pc = "done" => internalevnum <= Len(mainq) + (n - i)
  /\ pc \in {"idle", "while", "loop"} => internalevnum <= Len(mainq)
  /\ checkbusy => pc \in {"chunk", "trigger", "done"}
  /\ pc # "aborted"

GlueInv == BusyPlace /\ WatchedChunk

-----------------------------------------------------------------------------
\* All the glue does to the dispatcher are the dispatcher's own operations.
LEMMA GlueStep == GlueNext => [Next]_vars
<1> SUFFICES ASSUME GlueNext PROVE [Next]_vars
  OBVIOUS
<1> USE DEF Next, Calls
<1>1. CASE CtorSetsOnEmpty \/ DoQEmptyAction
  BY <1>1, GlueEvents DEF CtorSetsOnEmpty, DoQEmptyAction
<1>2. CASE CtorAddsBusyPoll \/ DoBusyAction
  BY <1>2, GlueEvents DEF CtorAddsBusyPoll, DoBusyAction
<1>3. CASE Dtor
  BY <1>3 DEF Dtor
<1>4. CASE DoPoll \/ ProgramCalls
  BY <1>4 DEF DoPoll, ProgramCalls, PostExternal
<1>5. CASE CallDispatch
  BY <1>5 DEF CallDispatch
<1>6. CASE GlueDispatching
  BY <1>6 DEF GlueDispatching
<1> QED
  BY <1>1, <1>2, <1>3, <1>4, <1>5, <1>6 DEF GlueNext, Handler

\* An external event at the end of the queue is not the busy event.
LEMMA AddsExternal ==
  ASSUME TypeOK, GlueInv, NEW e \in External, AddEvent(e), UNCHANGED parent
  PROVE  GlueInv'
<1>1. e # busyev
  BY EventKinds, GlueEvents
<1>2. Queued' <=> Queued
  BY <1>1 DEF AddEvent, Queued, TypeOK, EventsOK
<1>3. BusyPlace'
  BY <1>2 DEF AddEvent, GlueInv, BusyPlace
<1>4. WatchedChunk'
  BY DEF AddEvent, GlueInv, WatchedChunk, frame, TypeOK, EventsOK, CountersOK
<1> QED
  BY <1>3, <1>4 DEF GlueInv

\* The busy event puts itself back while it runs.
LEMMA AddsBusy ==
  ASSUME TypeOK, GlueInv, AddBusyPollEvent(busyev),
         \/ parent = "building" /\ parent' = "alive"
         \/ curevt = busyev /\ parent = "alive" /\ parent' = "alive" /\ ~BusyPending
  PROVE  GlueInv'
<1>1. busypoll = <<>> /\ busypoll' = <<busyev>>
  <2>1. \A k \in 1..Len(busypoll) : busypoll[k] = busyev
    BY GlueEvents DEF TypeOK, EventsOK
  <2>2. busypoll = <<>>
    BY <2>1 DEF GlueInv, BusyPlace, BusyPending, TypeOK, EventsOK
  <2> QED
    BY <2>2 DEF AddBusyPollEvent
<1>2. Queued' <=> Queued
  BY DEF AddBusyPollEvent, Queued
<1>3. BusyPlace'
  BY <1>1, <1>2 DEF AddBusyPollEvent, GlueInv, BusyPlace
<1>4. ~checkbusy
  BY GlueEvents DEF GlueInv, BusyPlace, WatchedChunk, Internal
<1>5. WatchedChunk'
  BY <1>4 DEF AddBusyPollEvent, GlueInv, WatchedChunk, frame
<1> QED
  BY <1>3, <1>5 DEF GlueInv

\* While an event runs only the first part of WatchedChunk says anything.
LEMMA WatchedRunning ==
  ASSUME pc' = "trigger", checkbusy' => busypoll' = <<>> /\ curevt' \notin Internal
  PROVE  WatchedChunk'
BY DEF WatchedChunk

\* The dispatch loops.  Where the internal event is, is known from IInv and
\* Quiet: a poll event is posted to a queue of external events.
LEMMA DispatchesBusy ==
  ASSUME QuietInv, GlueInv, GlueDispatching
  PROVE  GlueInv'
<1>1. /\ Dispatching /\ UNCHANGED parent
      /\ curevt = busyev /\ parent = "alive" /\ pc = "trigger" => busypoll # <<>>
  BY DEF GlueDispatching, HandlerDone, Running, BusyPending
<1>2. TypeOK /\ ChunkInv /\ Quiet
  BY DEF QuietInv, IInv
<1> USE <1>2 DEF TypeOK, EventsOK, CountersOK, ChunkInv, Quiet,
        GlueInv, BusyPlace, WatchedChunk, frame, queues
<1>3. ASSUME UNCHANGED <<mainq, busypoll, curevt>>, pc' # "aborted",
             pc # "idle", WatchedChunk'
      PROVE  GlueInv'
  BY <1>1, <1>3 DEF Queued
<1>4. CASE UntilEmptyRound
  BY <1>1, <1>3, <1>4 DEF UntilEmptyRound
<1>5. CASE UntilEmptyReturns
  BY <1>1, <1>3, <1>5 DEF UntilEmptyReturns
<1>6. CASE DispatchNEventsReturns
  BY <1>1, <1>3, <1>6 DEF DispatchNEventsReturns, ReturnTo
<1>7. CASE CheckFails
  BY <1>7 DEF CheckFails
<1>8. CASE Check
  <2> USE DEF AtCheck, StartChunk
  <2>1. curevt = None /\ pc = "loop" /\ curevt' = None
    BY <1>8 DEF Check, CheckCarriesOn, CheckPostsOnEmpty, CheckFindsNothing,
       CheckPostsBusyPoll, CheckPretendsInternal
  <2>2. busyev # None /\ None \notin Internal
    BY EventKinds, GlueEvents DEF Events, Internal
  <2>3. CASE CheckCarriesOn
    BY <1>1, <1>3, <2>3 DEF CheckCarriesOn
  <2>4. CASE CheckPostsOnEmpty
    <3>1. onempty = emptyev /\ emptyev # busyev
      BY <2>4, GlueEvents DEF CheckPostsOnEmpty, Slot
    <3>2. ~Queued /\ ~Queued'
      BY <2>4, <3>1 DEF CheckPostsOnEmpty, Queued
    <3> QED
      BY <1>1, <2>1, <2>2, <2>4, <3>2 DEF CheckPostsOnEmpty
  <2>5. CASE CheckFindsNothing
    BY <1>1, <1>3, <2>5 DEF CheckFindsNothing, ReturnTo
  <2>6. CASE CheckPostsBusyPoll
    <3>1. Head(busypoll) = busyev /\ busypoll' = <<>>
      BY <2>6, GlueEvents DEF CheckPostsBusyPoll
    <3>2. Queued'
      <4>1. mainq' = Append(mainq, busyev)
        BY <2>6, <3>1 DEF CheckPostsBusyPoll
      <4>2. Len(mainq) + 1 \in 1..Len(mainq') /\ mainq'[Len(mainq) + 1] = busyev
        BY <4>1
      <4> QED
        BY <4>2 DEF Queued
    <3>3. ~checkbusy' /\ pc' = "chunk" /\ parent \in {"alive"} \cup {parent}
      BY <2>6 DEF CheckPostsBusyPoll
    <3>4. parent \notin {"none", "building"}
      BY <2>6 DEF CheckPostsBusyPoll
    <3>5. WatchedChunk'
      BY <3>3
    <3>6. BusyPlace'
      BY <1>1, <2>1, <2>2, <3>1, <3>2, <3>4
    <3> QED
      BY <3>5, <3>6
  <2>7. CASE CheckPretendsInternal
    BY <1>1, <1>3, <2>1, <2>2, <2>7 DEF CheckPretendsInternal
  <2> QED
    BY <1>8, <2>3, <2>4, <2>5, <2>6, <2>7 DEF Check
<1>9. CASE PickInterrupt
  BY <1>9 DEF PickInterrupt
<1>10. CASE PickQueued
  <2>1. mainq # <<>> /\ curevt = None
    BY <1>10 DEF PickQueued, AtPick
  <2>2. \A k \in 1..Len(Tail(mainq)) :
          k + 1 \in 1..Len(mainq) /\ Tail(mainq)[k] = mainq[k + 1]
    BY <2>1
  <2>3. curevt' = mainq[1] /\ mainq' = Tail(mainq) /\ 1 \in 1..Len(mainq)
    BY <1>10, <2>1 DEF PickQueued
  <2>4. Queued' => Queued
    BY <2>2, <2>3 DEF Queued
  <2>5. curevt' = busyev => Queued /\ ~Queued'
    <3>1. ASSUME mainq[1] = busyev, NEW k \in 1..Len(mainq), mainq[k] = busyev
          PROVE  k = 1
      <4>1. busyev \in Internal
        BY GlueEvents DEF Internal
      <4>2. 1 + Popped = internalevnum /\ k + Popped = internalevnum
        BY <2>3, <3>1, <4>1 DEF InternalAtRecordedPlace
      <4>3. Popped \in Int
        BY DEF Popped
      <4> QED
        BY <4>2, <4>3
    <3>2. ASSUME mainq[1] = busyev, NEW k \in 1..Len(Tail(mainq)),
                 Tail(mainq)[k] = busyev
          PROVE  FALSE
      <4>1. k + 1 \in 1..Len(mainq) /\ mainq[k + 1] = busyev /\ k \in Nat /\ k > 0
        BY <2>2, <3>2
      <4> QED
        BY <3>1, <3>2, <4>1
    <3> QED
      BY <2>3, <3>2 DEF Queued
  <2>6. Queued => Queued' \/ curevt' = busyev
    <3>1. ASSUME NEW k \in 1..Len(mainq), mainq[k] = busyev, k # 1 PROVE Queued'
      <4>1. k - 1 \in 1..Len(Tail(mainq))
        BY <2>1, <3>1
      <4>2. Tail(mainq)[k - 1] = mainq[k]
        BY <2>2, <4>1
      <4> QED
        BY <2>3, <3>1, <4>1, <4>2 DEF Queued
    <3> QED
      BY <2>3, <3>1 DEF Queued
  <2>7. BusyPlace'
    <3>1. busyev # None
      BY EventKinds, GlueEvents DEF Events
    <3>2. UNCHANGED <<busypoll, parent>> /\ pc = "chunk"
      BY <1>1, <1>10 DEF PickQueued, AtPick
    <3> QED
      BY <2>1, <2>4, <2>5, <2>6, <3>1, <3>2
  <2>8. checkbusy' = checkbusy /\ (checkbusy => busypoll' = <<>> /\ curevt' \notin Internal)
    BY <1>10, <2>3 DEF PickQueued
  <2>9. pc' = "trigger"
    BY <1>10 DEF PickQueued
  <2>10. WatchedChunk'
    BY <2>8, <2>9, WatchedRunning, Zenon
  <2> QED
    BY <2>7, <2>10
<1>11. CASE TriggerReturns
  <2>1. curevt' = None /\ curevt' # busyev /\ None \notin Internal
    BY <1>11, EventKinds, GlueEvents DEF TriggerReturns, Events, Internal
  <2>2. UNCHANGED <<mainq, busypoll, parent>> /\ (Queued' <=> Queued)
    BY <1>1, <1>11 DEF TriggerReturns, Queued
  <2>3. BusyPlace'
    BY <1>1, <1>11, <2>1, <2>2 DEF TriggerReturns
  <2>4. checkbusy /\ busypoll # <<>> => FALSE
    OBVIOUS
  <2>5. WatchedChunk'
    BY <1>11, <2>1, <2>4 DEF TriggerReturns
  <2> QED
    BY <2>3, <2>5
<1>12. CASE ChunkEnds
  BY <1>1, <1>3, <1>12 DEF ChunkEnds
<1>13. CASE ChunkCounted
  BY <1>1, <1>3, <1>13 DEF ChunkCounted, ChunkForgotten
<1> QED
  BY <1>1, <1>4, <1>5, <1>6, <1>7, <1>8, <1>9, <1>10, <1>11, <1>12, <1>13
  DEF Dispatching

LEMMA NextGlueInv == QuietInv /\ GlueInv /\ [GlueNext]_gluevars => GlueInv'
<1> SUFFICES ASSUME QuietInv, GlueInv, [GlueNext]_gluevars PROVE GlueInv'
  OBVIOUS
<1>1. TypeOK
  BY DEF QuietInv, IInv
<1>2. ASSUME UNCHANGED <<mainq, busypoll, internalevnum, curevt, pc, checkbusy, n, i>>,
             parent' = parent \/ (parent = "alive" /\ parent' = "gone")
                \/ (parent = "none" /\ pc = "idle" /\ parent' = "building")
      PROVE  GlueInv'
  BY <1>2 DEF GlueInv, BusyPlace, WatchedChunk, Queued
<1>3. CASE CtorSetsOnEmpty
  BY <1>2, <1>3 DEF CtorSetsOnEmpty, OnQueueEmpty, frame
<1>4. CASE CtorAddsBusyPoll
  BY <1>1, <1>4, AddsBusy DEF CtorAddsBusyPoll
<1>5. CASE Dtor
  BY <1>2, <1>5 DEF Dtor, MayDestroy, vars
<1>6. CASE DoBusyAction
  BY <1>1, <1>6, AddsBusy DEF DoBusyAction, Running
<1>7. CASE DoQEmptyAction
  BY <1>2, <1>7 DEF DoQEmptyAction, OnQueueEmpty, frame
<1>8. CASE DoPoll
  BY <1>1, <1>8, AddsExternal DEF DoPoll, PostExternal
<1>9. CASE ProgramCalls
  <2>1. CASE PostExternal
    BY <1>1, <2>1, AddsExternal DEF PostExternal
  <2>2. CASE StopDispatching /\ UNCHANGED parent
    BY <1>2, <2>2 DEF StopDispatching, queues, frame
  <2> QED
    BY <1>9, <2>1, <2>2 DEF ProgramCalls
<1>10. CASE CallDispatch
  <2>1. /\ pc = "idle" /\ pc' \in {"loop", "while"} /\ parent # "building"
        /\ UNCHANGED <<mainq, busypoll, internalevnum, curevt, checkbusy, n, i, parent>>
    BY <1>10 DEF CallDispatch, DispatchEvents, DispatchUntilEmpty, queues
  <2> QED
    BY <2>1 DEF GlueInv, BusyPlace, WatchedChunk, Queued
<1>11. CASE GlueDispatching
  BY <1>11, DispatchesBusy
<1>12. CASE UNCHANGED gluevars
  BY <1>2, <1>12 DEF gluevars, vars
<1> QED
  BY <1>3, <1>4, <1>5, <1>6, <1>7, <1>8, <1>9, <1>10, <1>11, <1>12
  DEF GlueNext, Handler

LEMMA GlueSpecInv == ASSUME ~Signals PROVE GlueSpec => [](QuietInv /\ GlueInv)
<1>1. GlueInit => QuietInv /\ GlueInv
  <2> SUFFICES ASSUME GlueInit PROVE QuietInv /\ GlueInv
    OBVIOUS
  <2>1. QuietInv
    BY InitFlags, InitCore, InitQuiet DEF GlueInit, IInv, CoreInv, TypeOK, QuietInv
  <2>2. busyev # None
    BY EventKinds, GlueEvents DEF Events
  <2>3. GlueInv
    BY <2>2 DEF GlueInit, Init, GlueInv, BusyPlace, WatchedChunk, Queued
  <2> QED
    BY <2>1, <2>3
<1>2. QuietInv /\ GlueInv /\ [GlueNext]_gluevars => (QuietInv /\ GlueInv)'
  <2>1. [GlueNext]_gluevars => [Next]_vars
    BY GlueStep DEF gluevars
  <2> QED
    BY <2>1, NextGlueInv, StepIInv, NextQuiet DEF QuietInv
<1> QED
  BY <1>1, <1>2, PTL DEF GlueSpec

\* The dispatcher under the glue keeps to what Dispatcher.h promises: every step of the
\* glue, its constructor and destructor included, is one the event queue allows.
THEOREM GlueImplements == ASSUME ~Signals PROVE GlueSpec => IsEventQueue
<1>1. GlueInit => EQ!Init
  BY DEF GlueInit, Init, EQ!Init
<1>2. QuietInv /\ [GlueNext]_gluevars => [EQ!Next]_(EQ!vars)
  <2>1. [GlueNext]_gluevars => [Next]_vars
    BY GlueStep DEF gluevars
  <2> QED
    BY <2>1, NextQueue
<1> QED
  BY <1>1, <1>2, GlueSpecInv, PTL DEF GlueSpec, IsEventQueue, EQ!Spec

\* The internal event lies where internalevnum_ says, whatever the glue's events do.
THEOREM GlueRecordedPlace ==
  ASSUME ~Signals PROVE GlueSpec => []InternalAtRecordedPlace
<1>1. QuietInv => InternalAtRecordedPlace
  BY DEF QuietInv, Quiet
<1> QED
  BY <1>1, GlueSpecInv, PTL

\* checkEmptyBusy's assert never fails when the glue's two events are the only
\* internal ones: nobody adds a poll event while a chunk is watched for one.
THEOREM AssertHolds == ASSUME ~Signals PROVE GlueSpec => []CheckAssertHolds
<1>1. GlueInv => CheckAssertHolds
  BY DEF GlueInv, WatchedChunk, CheckAssertHolds
<1> QED
  BY <1>1, GlueSpecInv, PTL

\* While the glue lives the busy event is in one place, whatever is posted,
\* stopped or dispatched meanwhile.
THEOREM OneBusy == ASSUME ~Signals PROVE GlueSpec => []OneBusyEvent
<1> DEFINE queued  == {k \in 1..Len(mainq) : mainq[k] = busyev}
           waiting == {k \in 1..Len(busypoll) : busypoll[k] = busyev}
<1>1. ASSUME QuietInv, GlueInv PROVE OneBusyEvent
  <2>1. TypeOK /\ InternalAtRecordedPlace /\ BusyPlace
    BY <1>1 DEF QuietInv, IInv, Quiet, GlueInv
  <2>2. \A k, m \in queued : k = m
    <3>1. busyev \in Internal
      BY GlueEvents DEF Internal
    <3>2. Popped \in Int
      BY <2>1 DEF TypeOK, CountersOK, Popped
    <3>3. ASSUME NEW k \in queued, NEW m \in queued PROVE k = m
      <4>1. k + Popped = internalevnum /\ m + Popped = internalevnum
        BY <2>1, <3>1 DEF InternalAtRecordedPlace
      <4> QED
        BY <3>2, <4>1
    <3> QED
      BY <3>3
  <2>3. Cardinality(queued) = IF Queued THEN 1 ELSE 0
    <3>1. CASE Queued
      <4>1. PICK k : k \in queued
        BY <3>1 DEF Queued
      <4>2. queued = {k}
        BY <2>2, <4>1
      <4> QED
        BY <3>1, <4>2, FS_Singleton
    <3>2. CASE ~Queued
      <4>1. queued = {}
        BY <3>2 DEF Queued
      <4> QED
        BY <3>2, <4>1, FS_EmptySet
    <3> QED
      BY <3>1, <3>2
  <2>4. Cardinality(waiting) = IF busypoll = <<>> THEN 0 ELSE 1
    <3>1. CASE busypoll = <<>>
      <4>1. waiting = {}
        BY <3>1
      <4> QED
        BY <3>1, <4>1, FS_EmptySet
    <3>2. CASE busypoll # <<>>
      <4>1. Len(busypoll) = 1 /\ busypoll[1] = busyev
        <5>1. busypoll \in Seq({busyev})
          BY <2>1, GlueEvents DEF TypeOK, EventsOK
        <5>2. Len(busypoll) <= 1
          BY <2>1 DEF BusyPlace
        <5>3. Len(busypoll) \in Nat /\ Len(busypoll) # 0
          BY <3>2, <5>1, EmptySeq
        <5>4. Len(busypoll) = 1
          <6>1. \A m \in Nat : m # 0 /\ m <= 1 => m = 1
            OBVIOUS
          <6> QED
            BY <5>2, <5>3, <6>1, Zenon
        <5>5. \A k \in 1..Len(busypoll) : busypoll[k] \in {busyev}
          BY <5>1
        <5> QED
          BY <5>4, <5>5
      <4>2. waiting = {1}
        BY <4>1
      <4> QED
        BY <3>2, <4>2, FS_Singleton
    <3> QED
      BY <3>1, <3>2
  <2> HIDE DEF queued, waiting
  <2>5. parent = "alive" =>
          IF curevt = busyev
          THEN Cardinality(queued) + Cardinality(waiting) \in 0..1
          ELSE Cardinality(queued) + Cardinality(waiting) = 1
    BY <2>1, <2>3, <2>4 DEF BusyPlace
  <2> QED
    BY <2>5 DEF OneBusyEvent, queued, waiting
<1> QED
  BY <1>1, GlueSpecInv, PTL
=============================================================================
