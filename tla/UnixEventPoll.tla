--------------------------- MODULE UnixEventPoll ---------------------------
(***************************************************************************)
(* UniEvent/UnixEventPoll.cxx: posts an event when a descriptor is ready,  *)
(* when a signal has been caught or when a timer has run out.  A signal    *)
(* may arrive between any two steps of doPoll; it is caught by the handler *)
(* and posted by the next round.  Which registry handles a signal is kept  *)
(* in handled_by_S, which all registries of the program share.             *)
(*                                                                         *)
(* A registration is its own event.  The timers of TimerEventTracker are   *)
(* one event here, and "others" is every other registry of the program.    *)
(***************************************************************************)
EXTENDS Integers, FiniteSets, FiniteSetsExt

CONSTANTS Registrations, \* what may be registered: [fd, condset, name]
          Conds,         \* the conditions a descriptor may be in
          Signals,       \* signal numbers
          OtherSignals,  \* those that other registries handle as well
          SignalEvents, TimerEvent,
          None,
          MaxPosts       \* bound: signals come while fewer events are queued

Always == {"FD_Error", "FD_Closed", "FD_Invalid"} \* poll reports them unasked
Bad == {"FD_Closed", "FD_Invalid"} \cap Conds

\* Events are told apart by their addresses.
ASSUME EventsApart ==
  /\ Registrations \cap SignalEvents = {}
  /\ TimerEvent \notin Registrations \cup SignalEvents

ASSUME PollConstants ==
  /\ \A r \in Registrations : r.condset \subseteq Conds
  /\ Signals \subseteq Nat /\ OtherSignals \subseteq Signals
  /\ MaxPosts \in Nat

FDs == {r.fd : r \in Registrations}
Events == Registrations \cup SignalEvents \cup {TimerEvent}

VARIABLES fdmap,      \* the registrations that wait
          hdlrinfo,   \* events_ by signal
          registered, \* handler_registered_, as the set of such signals
          known,      \* hdlrinfo_.size()
          caught,     \* caught_; sigoccurred_ is caught # {}
          handled_by, \* handled_by_S: None, "this" or "other"
          others,     \* the signals some other registry has registered
          ready,      \* what each descriptor is ready for
          timer,      \* "none", "pending" or "due"
          queue,      \* how often each event is in the dispatcher's queue
          waiting,    \* history: registrations not freed nor run since
          owed,       \* history: signal events to be posted
          pc,         \* the program and the events are "idle", or doPoll is at
                      \* "snapshot", "post", "poll", "asleep", "expire", "scan"
          wait, caughtnow, polllist, \* doPoll's locals
          revents,    \* what poll reported, by descriptor of polllist
          eintr       \* pollresult < 0 and myerrno = EINTR

signalvars == <<hdlrinfo, registered, known, handled_by, others>>
world == <<ready, timer>>
locals == <<wait, caughtnow, polllist, revents, eintr>>
vars == <<fdmap, signalvars, caught, world, queue, waiting, owed, pc, locals>>

-----------------------------------------------------------------------------
Init ==
  /\ fdmap = {} /\ waiting = {}
  /\ hdlrinfo = [s \in Signals |-> {}] /\ registered = {} /\ known = 0
  /\ caught = {} /\ owed = {}
  /\ handled_by = [s \in Signals |-> None] /\ others = {}
  /\ ready \in [FDs -> SUBSET Conds] /\ timer = "none"
  /\ queue = [e \in Events |-> 0]
  /\ pc = "idle" /\ wait = FALSE /\ caughtnow = {} /\ eintr = FALSE
  /\ polllist = [fd \in {} |-> {}] /\ revents = [fd \in {} |-> {}]

Post(evs) ==
  queue' = [e \in Events |-> queue[e] + IF e \in evs THEN 1 ELSE 0]

-----------------------------------------------------------------------------
(* The program and the events it runs.                                     *)

RegisterFDCond(r) ==
  /\ pc = "idle"
  /\ r \notin fdmap /\ queue[r] = 0
  /\ fdmap' = fdmap \cup {r} /\ waiting' = waiting \cup {r}
  /\ UNCHANGED <<signalvars, caught, world, queue, owed, pc, locals>>

Of(fd) == {r \in Registrations : r.fd = fd}

FreeFD(fd) ==
  /\ pc = "idle"
  /\ fdmap' = fdmap \ Of(fd) /\ waiting' = waiting \ Of(fd)
  /\ UNCHANGED <<signalvars, caught, world, queue, owed, pc, locals>>

\* hdlrinfo_ is resized before a signal of another registry is refused.
OnSignal(s, e) ==
  LET refused == s \notin registered /\ handled_by[s] = "other"
  IN  /\ pc = "idle"
      /\ known' = Max({known, s + 1})
      /\ IF refused
         THEN UNCHANGED <<hdlrinfo, registered, handled_by>>
         ELSE /\ hdlrinfo' = [hdlrinfo EXCEPT ![s] = @ \cup {e}]
              /\ registered' = registered \cup {s}
              /\ handled_by' =
                   IF s \in registered THEN handled_by
                   ELSE [handled_by EXCEPT ![s] = "this"]
      /\ UNCHANGED <<fdmap, caught, others, world, queue, waiting, owed, pc, locals>>

\* unHandleSignal, and what its callers do next.
UnHandle(s) ==
  /\ handled_by' = [handled_by EXCEPT ![s] = None]
  /\ registered' = registered \ {s}

ClearSignalEvent(s, e) ==
  /\ pc = "idle" /\ s < known
  /\ hdlrinfo' = [hdlrinfo EXCEPT ![s] = @ \ {e}]
  /\ IF hdlrinfo'[s] = {} THEN UnHandle(s)
     ELSE UNCHANGED <<handled_by, registered>>
  /\ owed' = owed \ {e}
  /\ UNCHANGED <<fdmap, caught, known, others, world, queue, waiting, pc, locals>>

ClearSignal(s) ==
  /\ pc = "idle" /\ s < known /\ s \in registered
  /\ hdlrinfo' = [hdlrinfo EXCEPT ![s] = {}]
  /\ UnHandle(s)
  /\ owed' = owed \ hdlrinfo[s]
  /\ UNCHANGED <<fdmap, caught, known, others, world, queue, waiting, pc, locals>>

\* postAt: a time that is past already is due.
PostAt ==
  /\ pc = "idle" /\ timer = "none" /\ queue[TimerEvent] = 0
  /\ timer' \in {"pending", "due"}
  /\ UNCHANGED <<fdmap, signalvars, caught, ready, queue, waiting, owed, pc, locals>>

\* The dispatcher runs an event, whose own calls are steps of their own.
RunEvent ==
  /\ pc = "idle"
  /\ \E e \in Events :
       /\ queue[e] > 0
       /\ queue' = [queue EXCEPT ![e] = @ - 1]
       /\ waiting' = waiting \ {e}
  /\ UNCHANGED <<fdmap, signalvars, caught, world, owed, pc, locals>>

-----------------------------------------------------------------------------
(* doPoll.                                                                 *)

Registered(fd) == fdmap \cap Of(fd)

\* Mutant: only one of a descriptor's registrations is asked for.
WantedOfOne(fd) == (CHOOSE r \in Registered(fd) : TRUE).condset

Wanted(fd) == UNION {r.condset : r \in Registered(fd)}

\* RegistryDispatcherGlue waits only when the queue is empty.
DoPoll(w) ==
  /\ pc = "idle"
  /\ w => \A e \in Events : queue[e] = 0
  /\ wait' = w
  /\ polllist' = [fd \in {r.fd : r \in fdmap} |-> Wanted(fd)]
  /\ pc' = "snapshot"
  /\ UNCHANGED <<fdmap, signalvars, caught, world, queue, waiting, owed,
                 caughtnow, revents, eintr>>

\* postSigEvents, with the signals blocked.
Snapshot ==
  /\ pc = "snapshot"
  /\ caughtnow' = caught /\ caught' = {}
  /\ pc' = "post"
  /\ UNCHANGED <<fdmap, signalvars, world, queue, waiting, owed,
                 wait, polllist, revents, eintr>>

Posted == UNION {hdlrinfo[s] : s \in caughtnow \cap registered}

\* Mutant: a round that posts a signal's events may still wait.
WaitsOn == wait

WaitsStill == wait /\ Posted = {}

\* The rest of postSigEvents.  A signal that lost its handler after it was
\* caught has its events cleared.
PostSigEvents ==
  /\ pc = "post"
  /\ Post(Posted)
  /\ wait' = WaitsStill
  /\ hdlrinfo' =
       [s \in Signals |-> IF s \in caughtnow \ registered THEN {} ELSE hdlrinfo[s]]
  /\ caughtnow' = {}
  /\ pc' = "poll"
  /\ owed' = owed \ Posted
  /\ UNCHANGED <<fdmap, registered, known, handled_by, others, caught, world,
                 waiting, polllist, revents, eintr>>

Reported == [fd \in DOMAIN polllist |-> ready[fd] \cap (polllist[fd] \cup Always)]
AnyReported == \E fd \in DOMAIN polllist : Reported[fd] # {}

\* poll returns; a signal leaves the reports as they are.
Returns(interrupted) ==
  /\ revents' = IF interrupted THEN [fd \in DOMAIN polllist |-> {}] ELSE Reported
  /\ eintr' = interrupted
  /\ pc' = "expire"

\* Not waiting, a timer that is due or one less than a millisecond away, and
\* poll returns at once.
PollReturnsAtOnce ==
  /\ pc = "poll"
  /\ AnyReported \/ ~wait \/ timer # "none"
  /\ Returns(FALSE)
  /\ UNCHANGED <<fdmap, signalvars, caught, world, queue, waiting, owed,
                 wait, caughtnow, polllist>>

PollSleeps ==
  /\ pc = "poll"
  /\ wait /\ ~AnyReported /\ timer # "due"
  /\ pc' = "asleep"
  /\ UNCHANGED <<fdmap, signalvars, caught, world, queue, waiting, owed, locals>>

\* A descriptor is ready, the timer is due, or there was no timer and 1073741
\* seconds have passed.
PollWakes ==
  /\ pc = "asleep"
  /\ AnyReported \/ timer # "pending"
  /\ Returns(FALSE)
  /\ UNCHANGED <<fdmap, signalvars, caught, world, queue, waiting, owed,
                 wait, caughtnow, polllist>>

\* Mutant: timers are only looked at when no descriptor is ready.
ExpiredWhenQuiet ==
  IF timer = "due" /\ \A fd \in DOMAIN revents : revents[fd] = {}
  THEN {TimerEvent} ELSE {}

Expired == IF timer = "due" THEN {TimerEvent} ELSE {}

PostExpired ==
  /\ pc = "expire"
  /\ Post(Expired)
  /\ timer' = IF Expired = {} THEN timer ELSE "none"
  /\ pc' = "scan"
  /\ UNCHANGED <<fdmap, signalvars, caught, ready, waiting, owed, locals>>

Revents(r) == IF r.fd \in DOMAIN revents THEN revents[r.fd] ELSE {}
Fired == {r \in fdmap : r.condset \cap Revents(r) # {}}

\* Mutant: one event of a bad descriptor clears all its registrations.
DroppedAll == {r \in fdmap : \E f \in Fired : f.fd = r.fd}

\* What leaves fdmap_: fired, or of a descriptor that will never be ready.
Dropped == Fired \cup {r \in fdmap : Bad \cap Revents(r) # {}}

\* The loop over polllist; an interrupted poll is repeated with the same list.
Scan ==
  /\ pc = "scan"
  /\ Post(Fired)
  /\ fdmap' = fdmap \ Dropped
  /\ pc' = IF eintr THEN "snapshot" ELSE "idle"
  /\ eintr' = FALSE
  /\ polllist' = IF eintr THEN polllist ELSE [fd \in {} |-> {}]
  /\ revents' = [fd \in {} |-> {}]
  /\ wait' = (wait /\ eintr)
  /\ UNCHANGED <<signalvars, caught, world, waiting, owed, caughtnow>>

-----------------------------------------------------------------------------
(* The operating system and the other registries.                          *)

SigIsBounded(s) == \A e \in hdlrinfo[s] : queue[e] < MaxPosts

\* Mutant: a second signal before the first is posted is not noted.
CaughtWithFirst(s) == IF caught = {} THEN {s} ELSE caught

CaughtWith(s) == caught \cup {s}

\* signalHandler and sigOccurred.
SigOccurred(s) ==
  /\ handled_by[s] = "this" /\ SigIsBounded(s)
  /\ caught' = CaughtWith(s)
  /\ owed' = owed \cup hdlrinfo[s]
  /\ IF pc = "asleep" THEN Returns(TRUE) ELSE UNCHANGED <<revents, eintr, pc>>
  /\ UNCHANGED <<fdmap, signalvars, world, queue, waiting, wait, caughtnow, polllist>>

\* A signal of another registry: all it does here is to interrupt a poll.
OtherSigOccurred ==
  /\ pc = "asleep" /\ \E s \in Signals : handled_by[s] = "other"
  /\ Returns(TRUE)
  /\ UNCHANGED <<fdmap, signalvars, caught, world, queue, waiting, owed,
                 wait, caughtnow, polllist>>

\* The others are registries too: they refuse a signal handled elsewhere.
OtherOnSignal(s) ==
  /\ pc = "idle" /\ s \notin others /\ handled_by[s] # "this"
  /\ others' = others \cup {s}
  /\ handled_by' = [handled_by EXCEPT ![s] = "other"]
  /\ UNCHANGED <<fdmap, hdlrinfo, registered, known, caught, world, queue,
                 waiting, owed, pc, locals>>

OtherClearSignal(s) ==
  /\ pc = "idle" /\ s \in others
  /\ others' = others \ {s}
  /\ handled_by' = [handled_by EXCEPT ![s] = None]
  /\ UNCHANGED <<fdmap, hdlrinfo, registered, known, caught, world, queue,
                 waiting, owed, pc, locals>>

ReadyChanges ==
  /\ \E fd \in FDs, c \in SUBSET Conds :
       ready[fd] # c /\ ready' = [ready EXCEPT ![fd] = c]
  /\ UNCHANGED <<fdmap, signalvars, caught, timer, queue, waiting, owed, pc, locals>>

TimerRunsOut ==
  /\ timer = "pending" /\ timer' = "due"
  /\ UNCHANGED <<fdmap, signalvars, caught, ready, queue, waiting, owed, pc, locals>>

-----------------------------------------------------------------------------
Program ==
  \/ \E r \in Registrations : RegisterFDCond(r)
  \/ \E fd \in FDs : FreeFD(fd)
  \/ \E s \in Signals, e \in SignalEvents : OnSignal(s, e) \/ ClearSignalEvent(s, e)
  \/ \E s \in Signals : ClearSignal(s)
  \/ PostAt \/ RunEvent \/ \E w \in BOOLEAN : DoPoll(w)

Polling ==
  \/ Snapshot \/ PostSigEvents \/ PollReturnsAtOnce \/ PollSleeps \/ PollWakes
  \/ PostExpired \/ Scan

Outside ==
  \/ \E s \in Signals : SigOccurred(s)
  \/ \E s \in OtherSignals : OtherOnSignal(s) \/ OtherClearSignal(s)
  \/ OtherSigOccurred \/ ReadyChanges \/ TimerRunsOut

Next == Program \/ Polling \/ Outside

Spec == Init /\ [][Next]_vars

\* doPoll runs on, time passes and, as RegistryDispatcherGlue sees to it, the
\* world is polled again and again.
FairSpec ==
  /\ Spec
  /\ WF_vars(Polling) /\ WF_vars(TimerRunsOut) /\ WF_vars(DoPoll(FALSE))

-----------------------------------------------------------------------------
(* Properties.                                                             *)

\* A signal is registered exactly while it has events.
TypeOK ==
  /\ fdmap \subseteq Registrations /\ waiting \subseteq Registrations
  /\ hdlrinfo \in [Signals -> SUBSET SignalEvents]
  /\ registered = {s \in Signals : hdlrinfo[s] # {}}
  /\ caught \cup caughtnow \cup others \subseteq Signals
  /\ handled_by \in [Signals -> {None, "this", "other"}]
  /\ queue \in [Events -> Nat]
  /\ pc \in {"idle", "snapshot", "post", "poll", "asleep", "expire", "scan"}

\* A registration is good for one event: it is never both waiting for its
\* descriptor and posted.  One that also asks for the descriptor to be closed,
\* as StreamFDModule's error event does, is lost neither way: until it has run
\* or was freed it waits or is posted, once.
OneShot ==
  \A r \in Registrations :
    /\ r \in fdmap => r \in waiting /\ queue[r] = 0
    /\ r \in waiting /\ Bad \subseteq r.condset => r \in fdmap \/ queue[r] = 1

\* doPoll does not sleep while an event of a descriptor or a signal is queued,
\* however the signals interrupt it.  (An expired timer may be: the poll that
\* another registry's signal interrupted is repeated with what is left to wait
\* for after the timer was posted.)
SleepsOnlyIdle ==
  pc = "asleep" => \A e \in Registrations \cup SignalEvents : queue[e] = 0

\* UnixEventRegistry.h on onSignal: every signal that comes after its event was
\* registered is posted in the end, also one that comes while the signals
\* before it are being posted or while the poll begins.
SignalPosted == \A e \in SignalEvents : e \in owed ~> e \notin owed

\* A registration does not wait for ever on a descriptor that stays ready for
\* it, whoever else is registered for that descriptor.
ReadyIsPosted ==
  \A r \in Registrations : ~<>[](r \in fdmap /\ r.condset \cap ready[r.fd] # {})

\* An expired timer is posted in the end, however busy the descriptors are.
TimerPosted == timer = "due" ~> timer = "none"

\* UnixEventRegistry.h: handled_by_S is there so that different registries do
\* not both try to handle the same signal.
OneRegistryPerSignal == registered \cap others = {}
=============================================================================
