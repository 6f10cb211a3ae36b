------------------------ MODULE UnixEventPollProofs ------------------------
(***************************************************************************)
(* What holds of UnixEventPoll for any registrations, signals and other    *)
(* registries, wherever the signals arrive in doPoll.                      *)
(***************************************************************************)
EXTENDS UnixEventPoll, TLAPS

\* Nothing but the timer's event is queued.
Drained == \A e \in Registrations \cup SignalEvents : queue[e] = 0

NothingReported == \A r \in Registrations : Revents(r) = {}

\* What keeps doPoll from sleeping on a posted event: it is only told to wait
\* when the queue is empty, and from then on either it posts nothing or it no
\* longer waits.  A poll that a signal interrupts is repeated, with nothing
\* reported of the descriptors.
SleepInv ==
  /\ pc \in {"snapshot", "post", "poll", "asleep"} /\ wait => Drained
  /\ pc = "asleep" => wait
  /\ pc \in {"expire", "scan"} /\ eintr => NothingReported /\ (wait => Drained)

IInv == TypeOK /\ OneShot /\ SleepInv

-----------------------------------------------------------------------------
LEMMA InitIInv == Init => IInv
<1> SUFFICES ASSUME Init PROVE IInv
  OBVIOUS
<1>1. TypeOK
  BY DEF Init, TypeOK
<1>2. OneShot
  BY DEF Init, OneShot
<1>3. SleepInv
  BY DEF Init, SleepInv
<1> QED
  BY <1>1, <1>2, <1>3 DEF IInv

LEMMA NextTypes == TypeOK /\ [Next]_vars => TypeOK'
<1> SUFFICES ASSUME TypeOK, [Next]_vars PROVE TypeOK'
  OBVIOUS
<1> USE DEF TypeOK, signalvars, world, locals
<1>1. CASE Program
  <2>1. ASSUME NEW r \in Registrations, RegisterFDCond(r) PROVE TypeOK'
    BY <2>1 DEF RegisterFDCond
  <2>2. ASSUME NEW fd \in FDs, FreeFD(fd) PROVE TypeOK'
    BY <2>2 DEF FreeFD
  <2>3. ASSUME NEW s \in Signals, NEW e \in SignalEvents, OnSignal(s, e)
        PROVE  TypeOK'
    BY <2>3 DEF OnSignal
  <2>4. ASSUME NEW s \in Signals, NEW e \in SignalEvents, ClearSignalEvent(s, e)
        PROVE  TypeOK'
    BY <2>4 DEF ClearSignalEvent, UnHandle
  <2>5. ASSUME NEW s \in Signals, ClearSignal(s) PROVE TypeOK'
    BY <2>5 DEF ClearSignal, UnHandle
  <2>6. CASE PostAt
    BY <2>6 DEF PostAt
  <2>7. CASE RunEvent
    BY <2>7 DEF RunEvent
  <2>8. ASSUME NEW w \in BOOLEAN, DoPoll(w) PROVE TypeOK'
    BY <2>8 DEF DoPoll
  <2> QED
    BY <1>1, <2>1, <2>2, <2>3, <2>4, <2>5, <2>6, <2>7, <2>8 DEF Program
<1>2. CASE Polling
  <2>1. CASE Snapshot
    BY <2>1 DEF Snapshot
  <2>2. CASE PostSigEvents
    BY <2>2 DEF PostSigEvents, Post
  <2>3. CASE PollReturnsAtOnce
    BY <2>3 DEF PollReturnsAtOnce, Returns
  <2>4. CASE PollSleeps
    BY <2>4 DEF PollSleeps
  <2>5. CASE PollWakes
    BY <2>5 DEF PollWakes, Returns
  <2>6. CASE PostExpired
    BY <2>6 DEF PostExpired, Post
  <2>7. CASE Scan
    BY <2>7 DEF Scan, Post
  <2> QED
    BY <1>2, <2>1, <2>2, <2>3, <2>4, <2>5, <2>6, <2>7 DEF Polling
<1>3. CASE Outside
  <2>1. ASSUME NEW s \in Signals, SigOccurred(s) PROVE TypeOK'
    BY <2>1 DEF SigOccurred, CaughtWith, Returns
  <2>2. ASSUME NEW s \in OtherSignals, OtherOnSignal(s) PROVE TypeOK'
    BY <2>2, PollConstants DEF OtherOnSignal
  <2>3. ASSUME NEW s \in OtherSignals, OtherClearSignal(s) PROVE TypeOK'
    BY <2>3, PollConstants DEF OtherClearSignal
  <2>4. CASE OtherSigOccurred
    BY <2>4 DEF OtherSigOccurred, Returns
  <2>5. CASE ReadyChanges
    BY <2>5 DEF ReadyChanges
  <2>6. CASE TimerRunsOut
    BY <2>6 DEF TimerRunsOut
  <2> QED
    BY <1>3, <2>1, <2>2, <2>3, <2>4, <2>5, <2>6 DEF Outside
<1>4. CASE UNCHANGED vars
  BY <1>4 DEF vars
<1> QED
  BY <1>1, <1>2, <1>3, <1>4 DEF Next

-----------------------------------------------------------------------------
(* The registrations.                                                      *)

\* Posting events of other kinds leaves the registrations' counts alone.
LEMMA PostsOthers ==
  ASSUME NEW evs, evs \cap Registrations = {}, TypeOK, Post(evs)
  PROVE  \A r \in Registrations : queue'[r] = queue[r]
BY DEF Post, Events, TypeOK

LEMMA PostedSignals ==
  TypeOK => Posted \subseteq SignalEvents /\ Expired \subseteq {TimerEvent}
BY DEF TypeOK, Posted, Expired

\* OneShot is inductive.  Only Scan posts registrations: it posts those that
\* fired and takes them from fdmap; those it drops without posting have not
\* asked to hear of a bad descriptor.
LEMMA NextOneShot == TypeOK /\ OneShot /\ [Next]_vars => OneShot'
<1> SUFFICES ASSUME TypeOK, OneShot, [Next]_vars PROVE OneShot'
  OBVIOUS
<1>1. ASSUME UNCHANGED <<fdmap, waiting>>, \A r \in Registrations : queue'[r] = queue[r]
      PROVE  OneShot'
  BY <1>1 DEF OneShot
<1>2. CASE Program
  <2>1. ASSUME NEW r \in Registrations, RegisterFDCond(r) PROVE OneShot'
    BY <2>1 DEF RegisterFDCond, OneShot
  <2>2. ASSUME NEW fd \in FDs, FreeFD(fd) PROVE OneShot'
    BY <2>2 DEF FreeFD, OneShot
  <2>3. ASSUME NEW s \in Signals, NEW e \in SignalEvents, OnSignal(s, e)
        PROVE  OneShot'
    BY <1>1, <2>3 DEF OnSignal
  <2>4. ASSUME NEW s \in Signals, NEW e \in SignalEvents, ClearSignalEvent(s, e)
        PROVE  OneShot'
    BY <1>1, <2>4 DEF ClearSignalEvent
  <2>5. ASSUME NEW s \in Signals, ClearSignal(s) PROVE OneShot'
    BY <1>1, <2>5 DEF ClearSignal
  <2>6. CASE PostAt
    BY <1>1, <2>6 DEF PostAt, world, locals
  <2>7. CASE RunEvent
    <3>1. PICK e \in Events : /\ queue[e] > 0
                              /\ queue' = [queue EXCEPT ![e] = @ - 1]
                              /\ waiting' = waiting \ {e}
      BY <2>7 DEF RunEvent
    <3>2. \A r \in Registrations : r # e => queue'[r] = queue[r]
      BY <3>1 DEF TypeOK, Events
    <3>3. e \notin fdmap /\ UNCHANGED fdmap
      BY <2>7, <3>1 DEF RunEvent, OneShot, TypeOK
    <3> QED
      BY <3>1, <3>2, <3>3 DEF OneShot
  <2>8. ASSUME NEW w \in BOOLEAN, DoPoll(w) PROVE OneShot'
    BY <1>1, <2>8 DEF DoPoll
  <2> QED
    BY <1>2, <2>1, <2>2, <2>3, <2>4, <2>5, <2>6, <2>7, <2>8 DEF Program
<1>3. CASE Polling
  <2>1. CASE Snapshot
    BY <1>1, <2>1 DEF Snapshot
  <2>2. CASE PostSigEvents
    BY <1>1, <2>2, PostsOthers, PostedSignals, EventsApart DEF PostSigEvents
  <2>3. CASE PollReturnsAtOnce
    BY <1>1, <2>3 DEF PollReturnsAtOnce
  <2>4. CASE PollSleeps
    BY <1>1, <2>4 DEF PollSleeps
  <2>5. CASE PollWakes
    BY <1>1, <2>5 DEF PollWakes
  <2>6. CASE PostExpired
    BY <1>1, <2>6, PostsOthers, PostedSignals, EventsApart DEF PostExpired
  <2>7. CASE Scan
    <3>1. /\ fdmap' = fdmap \ Dropped
          /\ UNCHANGED waiting
          /\ \A r \in Registrations :
               queue'[r] = queue[r] + IF r \in Fired THEN 1 ELSE 0
      BY <2>7 DEF Scan, Post, Events
    <3>2. Fired \subseteq Dropped
      BY DEF Dropped
    <3>3. ASSUME NEW r \in Registrations, r \in fdmap'
          PROVE  r \in waiting' /\ queue'[r] = 0
      BY <3>1, <3>2, <3>3 DEF OneShot, TypeOK
    <3>4. ASSUME NEW r \in Registrations, r \in waiting', Bad \subseteq r.condset
          PROVE  r \in fdmap' \/ queue'[r] = 1
      <4>1. CASE r \in Fired
        BY <3>1, <4>1 DEF Fired, OneShot
      <4>2. CASE r \notin Fired
        <5>1. r \notin Dropped
          BY <3>4, <4>2 DEF Dropped, Fired
        <5> QED
          BY <3>1, <3>4, <4>2, <5>1 DEF OneShot, TypeOK, Events
      <4> QED
        BY <4>1, <4>2
    <3> QED
      BY <3>3, <3>4 DEF OneShot
  <2> QED
    BY <1>3, <2>1, <2>2, <2>3, <2>4, <2>5, <2>6, <2>7 DEF Polling
<1>4. CASE Outside
  <2>1. UNCHANGED <<fdmap, waiting, queue>>
    BY <1>4 DEF Outside, SigOccurred, OtherOnSignal, OtherClearSignal,
                OtherSigOccurred, ReadyChanges, TimerRunsOut
  <2> QED
    BY <1>1, <2>1
<1>5. CASE UNCHANGED vars
  BY <1>1, <1>5 DEF vars
<1> QED
  BY <1>2, <1>3, <1>4, <1>5 DEF Next

-----------------------------------------------------------------------------
(* Sleeping.                                                               *)

LEMMA NextSleep == TypeOK /\ SleepInv /\ [Next]_vars => SleepInv'
<1> SUFFICES ASSUME TypeOK, SleepInv, [Next]_vars PROVE SleepInv'
  OBVIOUS
<1>1. ASSUME UNCHANGED <<queue, pc, wait, eintr, revents>> PROVE SleepInv'
  BY <1>1, Zenon DEF SleepInv, Drained, NothingReported, Revents
<1>2. ASSUME pc' = "idle" PROVE SleepInv'
  BY <1>2 DEF SleepInv
<1>3. CASE Program
  <2>1. ASSUME NEW w \in BOOLEAN, DoPoll(w) PROVE SleepInv'
    BY <2>1 DEF DoPoll, SleepInv, Drained, Events
  <2>2. CASE ~\E w \in BOOLEAN : DoPoll(w)
    <3>1. pc' = "idle"
      BY <1>3, <2>2, Zenon DEF Program, RegisterFDCond, FreeFD, OnSignal, ClearSignalEvent,
         ClearSignal, PostAt, RunEvent
    <3> QED
      BY <1>2, <3>1
  <2> QED
    BY <2>1, <2>2
<1>4. CASE Polling
  <2>1. CASE Snapshot
    BY <2>1 DEF Snapshot, SleepInv, Drained
  <2>2. CASE PostSigEvents
    <3>1. ASSUME WaitsStill, Drained PROVE Drained'
      <4>1. Post({})
        BY <2>2, <3>1 DEF PostSigEvents, WaitsStill
      <4> QED
        BY <3>1, <4>1 DEF Post, Drained, Events
    <3> QED
      BY <2>2, <3>1 DEF PostSigEvents, SleepInv, WaitsStill
  <2>3. CASE PollReturnsAtOnce
    BY <2>3 DEF PollReturnsAtOnce, Returns, SleepInv
  <2>4. CASE PollSleeps
    BY <2>4 DEF PollSleeps, SleepInv, Drained, locals
  <2>5. CASE PollWakes
    BY <2>5 DEF PollWakes, Returns, SleepInv
  <2>6. CASE PostExpired
    <3>1. pc' = "scan" /\ UNCHANGED <<wait, eintr, revents>>
      BY <2>6 DEF PostExpired, locals
    <3>2. ASSUME Drained PROVE Drained'
      BY <2>6, <3>2, PostedSignals, EventsApart DEF PostExpired, Post, Drained, Events
    <3>3. ASSUME NothingReported PROVE NothingReported'
      BY <3>1, <3>3, Zenon DEF NothingReported, Revents
    <3> QED
      BY <2>6, <3>1, <3>2, <3>3 DEF PostExpired, SleepInv
  <2>7. CASE Scan
    <3>1. ASSUME eintr, wait PROVE Drained'
      <4>1. NothingReported /\ Drained
        BY <2>7, <3>1 DEF Scan, SleepInv
      <4>2. Fired = {}
        BY <4>1 DEF NothingReported, Fired, TypeOK
      <4> QED
        BY <2>7, <4>1, <4>2 DEF Scan, Post, Drained, Events
    <3> QED
      BY <2>7, <3>1 DEF Scan, SleepInv
  <2> QED
    BY <1>4, <2>1, <2>2, <2>3, <2>4, <2>5, <2>6, <2>7 DEF Polling
<1>5. CASE Outside
  <2>1. ASSUME pc = "asleep", Returns(TRUE), UNCHANGED <<queue, wait, polllist>>
        PROVE  SleepInv'
    <3>1. NothingReported'
      BY <2>1 DEF Returns, NothingReported, Revents
    <3>2. Drained'
      BY <2>1 DEF SleepInv, Drained
    <3> QED
      BY <2>1, <3>1, <3>2 DEF Returns, SleepInv
  <2>2. ASSUME NEW s \in Signals, SigOccurred(s) PROVE SleepInv'
    BY <1>1, <2>1, <2>2 DEF SigOccurred
  <2>3. CASE OtherSigOccurred
    BY <2>1, <2>3 DEF OtherSigOccurred
  <2>4. ASSUME NEW s \in OtherSignals, OtherOnSignal(s) \/ OtherClearSignal(s)
        PROVE  SleepInv'
    BY <1>1, <2>4 DEF OtherOnSignal, OtherClearSignal, locals
  <2>5. CASE ReadyChanges \/ TimerRunsOut
    BY <1>1, <2>5 DEF ReadyChanges, TimerRunsOut, locals
  <2> QED
    BY <1>5, <2>2, <2>3, <2>4, <2>5 DEF Outside
<1>6. CASE UNCHANGED vars
  BY <1>1, <1>6 DEF vars, locals
<1> QED
  BY <1>3, <1>4, <1>5, <1>6 DEF Next

-----------------------------------------------------------------------------
THEOREM SpecIInv == Spec => []IInv
<1>1. IInv /\ [Next]_vars => IInv'
  BY NextTypes, NextOneShot, NextSleep DEF IInv
<1> QED
  BY <1>1, InitIInv, PTL DEF Spec

\* Type correctness; a signal keeps its handler exactly as long as it has events.
THEOREM TypeCorrect == Spec => []TypeOK
  BY SpecIInv, PTL DEF IInv

\* A registration is good for one event, however many share its descriptor, and
\* one that watches for the descriptor's end is never dropped unheard.
THEOREM FiresOnce == Spec => []OneShot
  BY SpecIInv, PTL DEF IInv

\* doPoll never sleeps on a posted event of a descriptor or of a signal,
\* wherever the signals arrive and however often they interrupt it.
THEOREM NeverSleepsOnEvents == Spec => []SleepsOnlyIdle
<1>1. IInv => SleepsOnlyIdle
  BY DEF IInv, SleepInv, Drained, SleepsOnlyIdle
<1> QED
  BY <1>1, SpecIInv, PTL
=============================================================================
