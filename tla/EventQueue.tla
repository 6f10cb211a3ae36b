----------------------------- MODULE EventQueue -----------------------------
(***************************************************************************)
(* What UniEvent/Dispatcher.h promises of every Dispatcher, without any of *)
(* the bookkeeping a dispatcher does to keep the promise:                  *)
(*   - events leave the queue in the order they entered it;                *)
(*   - a busy poll event enters the queue only while every event in it was *)
(*     put there by addEvent;                                              *)
(*   - the onQueueEmpty event enters the queue only when it is empty;      *)
(*   - the onInterrupt event runs ahead of the queue, once per interrupt,  *)
(*     and costs no queued event its turn.                                 *)
(* An event that started runs to its end before the next one starts.      *)
(***************************************************************************)
EXTENDS Naturals, Sequences

CONSTANTS External,      \* events given to addEvent
          BusyPollers,   \* events given to addBusyPollEvent
          EmptyHandlers, \* events given to onQueueEmpty
          IntHandlers,   \* events given to onInterrupt
          None           \* an empty slot

VARIABLES queue,       \* the queue
          pollers,    \* poll events waiting for the queue to be busy
          emptyslot,     \* the slot of onQueueEmpty
          intslot, \* the slot of onInterrupt
          pending, \* interrupt() was called and not yet answered
          running       \* the event that is running

vars == <<queue, pollers, emptyslot, intslot, pending, running>>

Init ==
  /\ queue = <<>> /\ pollers = <<>>
  /\ emptyslot = None /\ intslot = None
  /\ pending = FALSE /\ running = None

OnlyExternal == \A k \in 1..Len(queue) : queue[k] \in External

Add ==
  /\ \E e \in External : queue' = Append(queue, e)
  /\ UNCHANGED <<pollers, emptyslot, intslot, pending, running>>

AddBusyPoll ==
  /\ \E e \in BusyPollers : pollers' = Append(pollers, e)
  /\ UNCHANGED <<queue, emptyslot, intslot, pending, running>>

SetOnEmpty ==
  /\ emptyslot = None
  /\ emptyslot' \in EmptyHandlers
  /\ UNCHANGED <<queue, pollers, intslot, pending, running>>

SetOnInterrupt ==
  /\ intslot = None
  /\ intslot' \in IntHandlers
  /\ UNCHANGED <<queue, pollers, emptyslot, pending, running>>

Interrupt ==
  /\ pending' = TRUE
  /\ UNCHANGED <<queue, pollers, emptyslot, intslot, running>>

PostBusyPoll ==
  /\ queue # <<>> /\ pollers # <<>> /\ OnlyExternal
  /\ queue' = Append(queue, Head(pollers))
  /\ pollers' = Tail(pollers)
  /\ UNCHANGED <<emptyslot, intslot, pending, running>>

PostOnEmpty ==
  /\ queue = <<>> /\ emptyslot # None
  /\ queue' = <<emptyslot>>
  /\ emptyslot' = None
  /\ UNCHANGED <<pollers, intslot, pending, running>>

\* The next queued event starts; an interrupt nobody listens for is dropped.
StartQueued ==
  /\ running = None /\ queue # <<>>
  /\ pending => intslot = None
  /\ running' = Head(queue)
  /\ queue' = Tail(queue)
  /\ pending' = FALSE
  /\ UNCHANGED <<pollers, emptyslot, intslot>>

StartInterrupt ==
  /\ running = None /\ pending /\ intslot # None
  /\ running' = intslot
  /\ intslot' = None
  /\ pending' = FALSE
  /\ UNCHANGED <<queue, pollers, emptyslot>>

Finish ==
  /\ running # None
  /\ running' = None
  /\ UNCHANGED <<queue, pollers, emptyslot, intslot, pending>>

Next ==
  \/ Add \/ AddBusyPoll \/ SetOnEmpty \/ SetOnInterrupt \/ Interrupt
  \/ PostBusyPoll \/ PostOnEmpty
  \/ StartQueued \/ StartInterrupt \/ Finish

Spec == Init /\ [][Next]_vars
=============================================================================
