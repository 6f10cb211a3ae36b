-------------------------- MODULE SimpleDispatcher --------------------------
(***************************************************************************)
(* UniEvent/SimpleDispatcherImp.cxx: a FIFO of events with a second queue  *)
(* of busy poll events, run by one thread, interrupted at any point by a   *)
(* signal handler that calls interrupt().                                  *)
(*                                                                         *)
(* The variables are the fields of SimpleDispatcher::Imp and the locals of *)
(* the dispatch functions on the stack.  pc says where the thread is:      *)
(*   idle    outside the dispatcher                                        *)
(*   while   the loop test of dispatchUntilEmpty                           *)
(*   loop    the loop test of dispatchNEvents, before checkEmptyBusy       *)
(*   chunk   the loop test of i_dispatchNEvents                            *)
(*   trigger inside curevt->triggerEvent()                                 *)
(*   done    i_dispatchNEvents has returned                                *)
(*   aborted an assert failed (a release build reads past the queue here)  *)
(* What an event does while it runs is any sequence of calls into the      *)
(* dispatcher except a nested dispatch.                                    *)
(***************************************************************************)
EXTENDS Integers, Sequences

CONSTANTS External, BusyPollers, EmptyHandlers, IntHandlers, None,
          Signals,     \* may a signal handler call interrupt()?
          MaxQueue,    \* bound on the events the program keeps queued
          MaxRequest   \* largest argument of dispatchEvents

Events == External \cup BusyPollers \cup EmptyHandlers \cup IntHandlers

\* An event is recognised by the call it was handed to, so the kinds are apart.
ASSUME EventKinds ==
  /\ None \notin Events
  /\ External \cap (BusyPollers \cup EmptyHandlers) = {}
  /\ Signals \in BOOLEAN

ASSUME Bounds ==
  /\ MaxQueue \in Nat /\ MaxRequest \in Nat \ {0}

VARIABLES mainq, busypoll, internalevnum, onempty, oninterrupt, interrupted,
          curevt, stop_flag,
          pc, untilempty,   \* which public function is on the stack
          numevents,        \* dispatchNEvents: what is left to dispatch
          checkbusy,        \* dispatchNEvents / i_dispatchNEvents
          n, i              \* i_dispatchNEvents

queues == <<mainq, busypoll, onempty, oninterrupt>>
frame  == <<untilempty, numevents, checkbusy, n, i>>
vars   == <<mainq, busypoll, internalevnum, onempty, oninterrupt, interrupted,
            curevt, stop_flag, pc, untilempty, numevents, checkbusy, n, i>>

\* An event the dispatcher posted itself.
Internal == BusyPollers \cup EmptyHandlers

Init ==
  /\ mainq = <<>> /\ busypoll = <<>> /\ internalevnum = 0
  /\ onempty = None /\ oninterrupt = None /\ interrupted = FALSE
  /\ curevt = None /\ stop_flag = FALSE
  /\ pc = "idle" /\ untilempty = FALSE /\ numevents = 0
  /\ checkbusy = FALSE /\ n = 0 /\ i = 0

-----------------------------------------------------------------------------
(* Calls of the program: by the caller of the dispatcher, or by the event  *)
(* that is running.                                                        *)

CallerHasControl == pc \in {"idle", "trigger"}

Room == Len(mainq) + Len(busypoll) < MaxQueue

AddEvent(e) ==
  /\ CallerHasControl /\ Room
  /\ mainq' = Append(mainq, e)
  /\ UNCHANGED <<busypoll, internalevnum, onempty, oninterrupt, interrupted,
                 curevt, stop_flag, pc, frame>>

AddBusyPollEvent(e) ==
  /\ CallerHasControl /\ Room
  /\ busypoll' = Append(busypoll, e)
  /\ UNCHANGED <<mainq, internalevnum, onempty, oninterrupt, interrupted,
                 curevt, stop_flag, pc, frame>>

\* Returns false, and changes nothing, when the slot is taken.
OnQueueEmpty(e) ==
  /\ CallerHasControl /\ onempty = None
  /\ onempty' = e
  /\ UNCHANGED <<mainq, busypoll, internalevnum, oninterrupt, interrupted,
                 curevt, stop_flag, pc, frame>>

OnInterrupt(e) ==
  /\ CallerHasControl /\ oninterrupt = None
  /\ oninterrupt' = e
  /\ UNCHANGED <<mainq, busypoll, internalevnum, onempty, interrupted,
                 curevt, stop_flag, pc, frame>>

StopDispatching ==
  /\ CallerHasControl /\ ~stop_flag
  /\ stop_flag' = TRUE
  /\ UNCHANGED <<queues, internalevnum, interrupted, curevt, pc, frame>>

\* interrupt() runs in a signal handler, between any two steps of the thread.
\* Event::interrupt() of the running event is the program's own and is left out.
Interrupt ==
  /\ Signals /\ pc # "aborted"
  /\ ~interrupted
  /\ interrupted' = TRUE
  /\ UNCHANGED <<queues, internalevnum, curevt, stop_flag, pc, frame>>

Calls ==
  \/ \E e \in External : AddEvent(e)
  \/ \E e \in BusyPollers : AddBusyPollEvent(e)
  \/ \E e \in EmptyHandlers : OnQueueEmpty(e)
  \/ \E e \in IntHandlers : OnInterrupt(e)
  \/ StopDispatching

-----------------------------------------------------------------------------
(* The public dispatch functions.                                          *)

\* dispatchEvents(0) returns at once.
DispatchEvents(k) ==
  /\ pc = "idle" /\ k > 0
  /\ pc' = "loop" /\ untilempty' = FALSE /\ numevents' = k
  /\ UNCHANGED <<queues, internalevnum, interrupted, curevt, stop_flag,
                 checkbusy, n, i>>

DispatchUntilEmpty ==
  /\ pc = "idle"
  /\ pc' = "while" /\ untilempty' = TRUE
  /\ UNCHANGED <<queues, internalevnum, interrupted, curevt, stop_flag,
                 numevents, checkbusy, n, i>>

\* Each round of dispatchUntilEmpty asks for more than the queue holds.
UntilEmptyRound ==
  /\ pc = "while"
  /\ ~stop_flag /\ (mainq # <<>> \/ onempty # None)
  /\ numevents' = 2 * Len(mainq) + 1
  /\ pc' = "loop"
  /\ UNCHANGED <<queues, internalevnum, interrupted, curevt, stop_flag,
                 untilempty, checkbusy, n, i>>

UntilEmptyReturns ==
  /\ pc = "while"
  /\ stop_flag \/ (mainq = <<>> /\ onempty = None)
  /\ stop_flag' = FALSE
  /\ pc' = "idle" /\ untilempty' = FALSE
  /\ UNCHANGED <<queues, internalevnum, interrupted, curevt, numevents,
                 checkbusy, n, i>>

-----------------------------------------------------------------------------
(* dispatchNEvents and checkEmptyBusy.                                     *)

\* dispatchNEvents returns to its caller, which clears the stop flag unless
\* it has a loop test of its own to make first.
ReturnTo ==
  /\ IF untilempty
     THEN pc' = "while" /\ UNCHANGED stop_flag
     ELSE pc' = "idle" /\ stop_flag' = FALSE
  /\ numevents' = 0

DispatchNEventsReturns ==
  /\ pc = "loop"
  /\ numevents = 0 \/ stop_flag
  /\ ReturnTo
  /\ UNCHANGED <<queues, internalevnum, interrupted, curevt, untilempty,
                 checkbusy, n, i>>

\* Mutant: the chunk is not cut down to the queue.
StartChunkUnclamped(size) ==
  pc' = "chunk" /\ n' = numevents /\ i' = numevents /\ UNCHANGED numevents

\* The chunk of at most numevents events that i_dispatchNEvents is asked for.
StartChunk(size) ==
  LET chunk == IF size > numevents THEN numevents ELSE size
  IN  /\ pc' = "chunk" /\ n' = chunk /\ i' = chunk
      /\ UNCHANGED numevents

\* The assert that opens checkEmptyBusy.
CheckFails ==
  /\ pc = "loop" /\ numevents > 0 /\ ~stop_flag
  /\ internalevnum > Len(mainq)
  /\ pc' = "aborted"
  /\ UNCHANGED <<queues, internalevnum, interrupted, curevt, stop_flag, frame>>

AtCheck ==
  /\ pc = "loop" /\ numevents > 0 /\ ~stop_flag
  /\ internalevnum <= Len(mainq)
  /\ UNCHANGED <<oninterrupt, interrupted, curevt, untilempty>>

\* Events up to the internal one are left from an earlier chunk.
CheckCarriesOn ==
  /\ AtCheck /\ internalevnum > 0
  /\ checkbusy' = FALSE
  /\ StartChunk(internalevnum)
  /\ UNCHANGED <<mainq, busypoll, internalevnum, onempty, stop_flag>>

CheckPostsOnEmpty ==
  /\ AtCheck /\ internalevnum = 0 /\ mainq = <<>> /\ onempty # None
  /\ mainq' = <<onempty>> /\ internalevnum' = 1 /\ onempty' = None
  /\ checkbusy' = FALSE
  /\ StartChunk(1)
  /\ UNCHANGED <<busypoll, stop_flag>>

\* Nothing to do: dispatchNEvents breaks out of its loop and returns.
CheckFindsNothing ==
  /\ AtCheck /\ internalevnum = 0 /\ mainq = <<>> /\ onempty = None
  /\ checkbusy' = FALSE
  /\ ReturnTo
  /\ UNCHANGED <<mainq, busypoll, internalevnum, onempty, n, i>>

\* Mutant: the place of the internal event is recorded one short.
CheckPostsBusyPollOneShort ==
  /\ AtCheck /\ internalevnum = 0 /\ mainq # <<>> /\ busypoll # <<>>
  /\ mainq' = Append(mainq, Head(busypoll)) /\ busypoll' = Tail(busypoll)
  /\ internalevnum' = Len(mainq)
  /\ checkbusy' = FALSE
  /\ StartChunk(Len(mainq) + 1)
  /\ UNCHANGED <<onempty, stop_flag>>

\* Mutant: the poll event jumps the queue.
CheckPostsBusyPollFirst ==
  /\ AtCheck /\ internalevnum = 0 /\ mainq # <<>> /\ busypoll # <<>>
  /\ mainq' = <<Head(busypoll)>> \o mainq /\ busypoll' = Tail(busypoll)
  /\ internalevnum' = Len(mainq) + 1
  /\ checkbusy' = FALSE
  /\ StartChunk(Len(mainq) + 1)
  /\ UNCHANGED <<onempty, stop_flag>>

CheckPostsBusyPoll ==
  /\ AtCheck /\ internalevnum = 0 /\ mainq # <<>> /\ busypoll # <<>>
  /\ mainq' = Append(mainq, Head(busypoll)) /\ busypoll' = Tail(busypoll)
  /\ internalevnum' = Len(mainq) + 1
  /\ checkbusy' = FALSE
  /\ StartChunk(Len(mainq) + 1)
  /\ UNCHANGED <<onempty, stop_flag>>

\* No poll event to post: watch for one after every event of the chunk.
CheckPretendsInternal ==
  /\ AtCheck /\ internalevnum = 0 /\ mainq # <<>> /\ busypoll = <<>>
  /\ internalevnum' = 1
  /\ checkbusy' = TRUE
  /\ StartChunk(Len(mainq))
  /\ UNCHANGED <<mainq, busypoll, onempty, stop_flag>>

Check ==
  \/ CheckCarriesOn \/ CheckPostsOnEmpty \/ CheckFindsNothing
  \/ CheckPostsBusyPoll \/ CheckPretendsInternal

-----------------------------------------------------------------------------
(* i_dispatchNEvents and i_DispatchEvent.                                  *)

AtPick == pc = "chunk" /\ i > 0 /\ ~stop_flag

PickInterrupt ==
  /\ AtPick /\ interrupted /\ oninterrupt # None
  /\ curevt' = oninterrupt /\ oninterrupt' = None
  /\ interrupted' = FALSE
  /\ pc' = "trigger"
  /\ UNCHANGED <<mainq, busypoll, internalevnum, onempty, stop_flag, frame>>

PickQueued ==
  /\ AtPick /\ (interrupted => oninterrupt = None)
  /\ curevt' = Head(mainq) /\ mainq' = Tail(mainq)
  /\ interrupted' = FALSE
  /\ pc' = "trigger"
  /\ UNCHANGED <<busypoll, internalevnum, onempty, oninterrupt, stop_flag,
                 frame>>

\* curevt_ is reset; a poll event that turned up ends the chunk before the
\* event that just ran is counted.
TriggerReturns ==
  /\ pc = "trigger"
  /\ curevt' = None
  /\ IF checkbusy /\ busypoll # <<>>
     THEN pc' = "done" /\ UNCHANGED i
     ELSE pc' = "chunk" /\ i' = i - 1
  /\ UNCHANGED <<queues, internalevnum, interrupted, stop_flag, untilempty,
                 numevents, checkbusy, n>>

ChunkEnds ==
  /\ pc = "chunk" /\ (i = 0 \/ stop_flag)
  /\ pc' = "done"
  /\ UNCHANGED <<queues, internalevnum, interrupted, curevt, stop_flag, frame>>

\* The locals of one round of the loop are gone.
ChunkForgotten == checkbusy' = FALSE /\ n' = 0 /\ i' = 0

\* Mutant: internalevnum_ is left alone.
ChunkCountedForgets ==
  /\ pc = "done"
  /\ numevents' = numevents - (n - i)
  /\ pc' = "loop"
  /\ ChunkForgotten
  /\ UNCHANGED <<queues, internalevnum, interrupted, curevt, stop_flag,
                 untilempty>>

\* The rest of dispatchNEvents' loop body: n - i events were dispatched.
ChunkCounted ==
  /\ pc = "done"
  /\ internalevnum' = IF n - i > internalevnum THEN 0
                      ELSE internalevnum - (n - i)
  /\ numevents' = numevents - (n - i)
  /\ pc' = "loop"
  /\ ChunkForgotten
  /\ UNCHANGED <<queues, interrupted, curevt, stop_flag, untilempty>>

-----------------------------------------------------------------------------
Dispatching ==
  \/ UntilEmptyRound \/ UntilEmptyReturns
  \/ DispatchNEventsReturns \/ CheckFails \/ Check
  \/ PickInterrupt \/ PickQueued \/ TriggerReturns \/ ChunkEnds \/ ChunkCounted

Next ==
  \/ Calls \/ Interrupt
  \/ (\E k \in 1..MaxRequest : DispatchEvents(k)) \/ DispatchUntilEmpty
  \/ Dispatching

Spec == Init /\ [][Next]_vars

-----------------------------------------------------------------------------
(* Properties.                                                             *)

Slot(S) == S \cup {None}
PCs == {"idle", "while", "loop", "chunk", "trigger", "done", "aborted"}

FlagsOK ==
  /\ interrupted \in BOOLEAN /\ stop_flag \in BOOLEAN
  /\ untilempty \in BOOLEAN /\ checkbusy \in BOOLEAN

EventsOK ==
  /\ mainq \in Seq(External \cup Internal)
  /\ busypoll \in Seq(BusyPollers)
  /\ onempty \in Slot(EmptyHandlers) /\ oninterrupt \in Slot(IntHandlers)
  /\ curevt \in Slot(Events)

CountersOK ==
  /\ internalevnum \in Nat /\ numevents \in Nat /\ n \in Nat /\ i \in Nat
  /\ i <= n
  /\ pc \in PCs

\* Every field keeps its type; internalevnum_, numevents, n and i are unsigned
\* in the code, so none of the subtractions may pass below zero.
TypeOK == FlagsOK /\ EventsOK /\ CountersOK

\* The asserts of i_dispatchNEvents and i_DispatchEvent: a chunk is never
\* longer than the queue, and every time an event is taken there is one to
\* take, whatever the earlier events of the chunk, and the signals that
\* arrived since, did.
PickFindsEvent ==
  /\ pc = "chunk" /\ i = n => n <= Len(mainq)
  /\ AtPick => mainq # <<>> /\ internalevnum > 0

\* The count of events up to the internal one never runs ahead of the queue
\* by more than the single event that the break of i_dispatchNEvents leaves
\* uncounted, and then only when no internal event is queued.
UndercountAtMostOne ==
  pc \in {"loop", "while", "idle"} =>
    \/ internalevnum <= Len(mainq)
    \/ internalevnum = 1 /\ mainq = <<>>

\* checkEmptyBusy's opening assert, internalevnum_ <= mainq_.size().
CheckAssertHolds == pc # "aborted"

\* The comment in checkEmptyBusy: when internalevnum_ is 0, a queue that
\* "isn't empty, so must be full of external events".
FullOfExternalEvents ==
  pc = "loop" /\ internalevnum = 0 =>
    \A k \in 1..Len(mainq) : mainq[k] \in External

\* How many events of the current chunk have left the queue.
Popped == CASE pc \in {"chunk", "done"} -> n - i
            [] pc = "trigger" -> n - i + 1
            [] OTHER -> 0

\* Without interrupts, internalevnum_ is the place of the one internal event
\* on the queue, whatever the events add and whenever a dispatch call runs
\* out of events to dispatch or is stopped.
InternalAtRecordedPlace ==
  \A k \in 1..Len(mainq) :
    mainq[k] \in Internal => k + Popped = internalevnum

\* Without interrupts, the dispatcher is the queue Dispatcher.h describes.
EQ == INSTANCE EventQueue
        WITH queue <- mainq, pollers <- busypoll, emptyslot <- onempty,
             intslot <- oninterrupt, pending <- interrupted, running <- curevt
IsEventQueue == EQ!Spec
=============================================================================
