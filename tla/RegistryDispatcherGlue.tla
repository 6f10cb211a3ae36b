----------------------- MODULE RegistryDispatcherGlue -----------------------
(***************************************************************************)
(* UniEvent/RegistryDispatcherGlue.cxx: the two events through which a     *)
(* dispatcher polls the outside world.  The empty event blocks in doPoll   *)
(* when nothing is queued; the busy event takes a quick look when external *)
(* events keep the queue busy.  Both put themselves back first thing.      *)
(* doPoll posts any number of external events (UnixEventPoll.cxx is the    *)
(* module that says which).  Interrupts are left to SimpleDispatcher.      *)
(***************************************************************************)
EXTENDS SimpleDispatcher, FiniteSets

CONSTANTS emptyev, busyev

ASSUME GlueEvents ==
  BusyPollers = {busyev} /\ EmptyHandlers = {emptyev} /\ emptyev # busyev

VARIABLE parent \* the glue: "none", "building", "alive" or "gone"

gluevars == <<vars, parent>>

GlueInit == Init /\ parent = "none"

\* MaxQueue leaves a place for the busy event to return to.
PostExternal ==
  /\ Cardinality({k \in 1..Len(mainq) : mainq[k] \in External}) < MaxQueue - 1
  /\ \E e \in External : AddEvent(e)
  /\ UNCHANGED parent

-----------------------------------------------------------------------------
(* Construction outside the dispatcher, and destruction: parentGone()      *)
(* leaves both events where they are, with nothing to do.                  *)

CtorSetsOnEmpty ==
  /\ parent = "none" /\ pc = "idle"
  /\ OnQueueEmpty(emptyev)
  /\ parent' = "building"

CtorAddsBusyPoll ==
  /\ parent = "building"
  /\ AddBusyPollEvent(busyev)
  /\ parent' = "alive"

MayDestroy ==
  /\ parent = "alive"
  /\ pc = "idle" \/ (pc = "trigger" /\ curevt \in External)

Dtor ==
  /\ MayDestroy
  /\ parent' = "gone"
  /\ UNCHANGED vars

-----------------------------------------------------------------------------
(* The two events' triggerEvent.                                           *)

Running(ev) == pc = "trigger" /\ curevt = ev /\ parent = "alive"

BusyPending == \E k \in 1..Len(busypoll) : busypoll[k] = busyev

\* doBusyAction: addBusyPollEvent, then doPoll(false).
DoBusyAction ==
  /\ Running(busyev) /\ ~BusyPending
  /\ AddBusyPollEvent(busyev)
  /\ UNCHANGED parent

\* doQEmptyAction: onQueueEmpty, then doPoll(true).
DoQEmptyAction ==
  /\ Running(emptyev) /\ onempty = None
  /\ OnQueueEmpty(emptyev)
  /\ UNCHANGED parent

DoPoll ==
  /\ \/ Running(busyev) /\ BusyPending
     \/ Running(emptyev) /\ onempty = emptyev
  /\ PostExternal

\* Mutant: the busy event may return without having put itself back.
HandlerDoneEarly == Running(emptyev) => onempty = emptyev

HandlerDone ==
  /\ Running(busyev) => BusyPending
  /\ Running(emptyev) => onempty = emptyev

-----------------------------------------------------------------------------
(* Everybody else: the caller of the dispatcher and the external events,   *)
(* which post external events and may stop the dispatcher.                 *)

ProgramCalls ==
  \/ /\ pc = "idle" /\ parent # "building"
     /\ PostExternal
  \/ /\ pc = "trigger" /\ curevt \in External
     /\ PostExternal \/ (StopDispatching /\ UNCHANGED parent)

CallDispatch ==
  /\ parent # "building"
  /\ (\E k \in 1..MaxRequest : DispatchEvents(k)) \/ DispatchUntilEmpty
  /\ UNCHANGED parent

GlueDispatching ==
  /\ Dispatching
  /\ HandlerDone
  /\ UNCHANGED parent

Handler == DoBusyAction \/ DoQEmptyAction

GlueNext ==
  \/ CtorSetsOnEmpty \/ CtorAddsBusyPoll \/ Dtor
  \/ Handler \/ DoPoll \/ ProgramCalls
  \/ CallDispatch \/ GlueDispatching

GlueSpec == GlueInit /\ [][GlueNext]_gluevars

\* Every handler returns, the dispatch functions run on, and a program that
\* got control back from the dispatcher calls it again.
GlueFairSpec ==
  /\ GlueSpec
  /\ WF_gluevars(Handler)
  /\ WF_gluevars(GlueDispatching)
  /\ WF_gluevars(CallDispatch)

-----------------------------------------------------------------------------
\* Dispatcher.h on addBusyPollEvent: however the external events repost each
\* other, however few events a call dispatches and whoever stops it, the
\* outside world is polled again and again while the glue lives.
WorldPolled == []<>(parent # "alive" \/ curevt \in {emptyev, busyev})

\* The busy event is in one place at a time: a second copy would double the
\* polling, none would end it.
OneBusyEvent ==
  LET queued  == {k \in 1..Len(mainq) : mainq[k] = busyev}
      waiting == {k \in 1..Len(busypoll) : busypoll[k] = busyev}
      copies  == Cardinality(queued) + Cardinality(waiting)
  IN  parent = "alive" =>
        IF curevt = busyev THEN copies \in 0..1 ELSE copies = 1
=============================================================================
