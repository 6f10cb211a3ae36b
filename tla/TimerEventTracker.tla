------------------------- MODULE TimerEventTracker -------------------------
(***************************************************************************)
(* UniEvent/TimerEventTracker.cxx: timers, kept as intervals from a base   *)
(* time in two heaps.  A base that is a week old is replaced: the heap in  *)
(* use becomes the old heap, and what is left of the old heap is moved.    *)
(*                                                                         *)
(* Time is counted in ticks, Second of them a second; an interval is a     *)
(* number of ticks.  An absolute_t is a whole second and an interval past  *)
(* it, and its comparisons depend on how a time is split between the two.  *)
(***************************************************************************)
EXTENDS Integers, Sequences, SequencesExt, FiniteSetsExt, Lists

CONSTANTS Events, None,
          Second,   \* ticks in a second
          Week,     \* seconds a base is kept
          Horizon,  \* how far ahead, in ticks, timers are set
          MaxClock  \* bound on the clock

ASSUME TimerConstants ==
  /\ None \notin Events
  /\ Second \in Nat \ {0} /\ Week \in Nat \ {0}
  /\ Horizon \in Nat /\ MaxClock \in Nat

VARIABLES curheap, oldheap,  \* map1_ and map2_, as map1_current_ tells them apart
          current_base, old_base, base_diff,
          clock,             \* the time of day, in ticks
          posted,            \* what the last postExpired gave the dispatcher
          wanted              \* history: when each event was last wanted

vars == <<curheap, oldheap, current_base, old_base, base_diff, clock, posted,
          wanted>>

-----------------------------------------------------------------------------
(* Timer.cxx: absolute times.                                              *)

At(time, off) == [time |-> time, off |-> off]
Base(time) == At(time, 0)
Value(a) == a.time * Second + a.off
Apart(m, k) == IF m < k THEN k - m ELSE m - k

\* operator <: two times of the same second also compare as less when equal.
Less(a, b) ==
  IF a.time = b.time THEN a.off <= b.off ELSE Value(a) < Value(b)

\* operator -
Minus(a, b) ==
  LET d == (a.time - b.time) * Second
  IN  IF d < 0
      THEN IF a.off < -d THEN 0 ELSE Apart(a.off + d, b.off)
      ELSE IF d = 0 \/ a.off >= b.off THEN d + Apart(a.off, b.off)
      ELSE Apart(d, b.off - a.off)

\* currentTime(): the seconds and the rest of gettimeofday.
Now == At(clock \div Second, clock % Second)

-----------------------------------------------------------------------------
(* A heap is a multimap: a sequence of timers, soonest first, those of the *)
(* same interval in the order they were put in.                            *)

Timer(off, e) == [off |-> off, ev |-> e]

Upto(heap, off) == Only(heap, {t \in ToSet(heap) : t.off <= off})
Past(heap, off) == Only(heap, {t \in ToSet(heap) : t.off > off})

\* Mutant: a heap that keeps timers in the order they were set.
PutLast(heap, t) == Append(heap, t)

Put(heap, t) == Upto(heap, t.off) \o <<t>> \o Past(heap, t.off)

\* The others are put in one by one.
Merge(heap, others) ==
  LET merged[n \in 0..Len(others)] ==
        IF n = 0 THEN heap ELSE Put(merged[n-1], others[n])
  IN  merged[Len(others)]

Later(heap, diff) ==
  [k \in 1..Len(heap) |-> Timer(heap[k].off + diff, heap[k].ev)]

Evs(heap) == [k \in 1..Len(heap) |-> heap[k].ev]
Pending == ToSet(Evs(curheap)) \cup ToSet(Evs(oldheap))

Init ==
  /\ curheap = <<>> /\ oldheap = <<>>
  /\ clock \in 0..Second-1
  /\ current_base = 0 /\ old_base = 0 /\ base_diff = 0
  /\ posted = <<>> /\ wanted = [e \in Events |-> None]

\* A time before the base is due at once.
Offset(t) ==
  IF Less(Base(current_base), t) THEN Minus(t, Base(current_base)) ELSE 0

PostAt(t, e) ==
  /\ e \notin Pending
  /\ curheap' = Put(curheap, Timer(Offset(t), e))
  /\ wanted' = [wanted EXCEPT ![e] = [at |-> Value(t), base |-> current_base]]
  /\ posted' = <<>>
  /\ UNCHANGED <<oldheap, current_base, old_base, base_diff, clock>>

\* Any time past, and, as postIn makes them, times from now on.
Times ==
  {Base(s) : s \in 0..Now.time}
    \cup {At(Now.time, Now.off + k) : k \in 0..Horizon}

-----------------------------------------------------------------------------
(* postExpired.                                                            *)

\* Both functions throw otherwise, and change nothing.
Accepted == ~Less(Now, Base(current_base))

CurDue == Minus(Now, Base(current_base))

\* Mutant: the old heap is read with the new base.
OldDueByCurrent == Minus(Now, Base(current_base))

OldDue == Minus(Now, Base(old_base))

Expired == Merge(Later(Upto(oldheap, OldDue), base_diff), Upto(curheap, CurDue))

WeekOld == Now.time # current_base /\ CurDue >= Week * Second

\* The old heap's timers go into the heap in use, which becomes the old one.
SwitchBase ==
  /\ oldheap' = Merge(Past(curheap, CurDue),
                      Later(Past(oldheap, OldDue), base_diff))
  /\ curheap' = <<>>
  /\ old_base' = current_base /\ current_base' = Now.time
  /\ base_diff' = Minus(Base(Now.time), Base(current_base))

KeepBase ==
  /\ curheap' = Past(curheap, CurDue)
  /\ oldheap' = Past(oldheap, OldDue)
  /\ UNCHANGED <<old_base, current_base, base_diff>>

PostExpired ==
  /\ Accepted
  /\ posted' = Evs(Expired)
  /\ IF WeekOld THEN SwitchBase ELSE KeepBase
  /\ UNCHANGED <<clock, wanted>>

-----------------------------------------------------------------------------
(* nextExpirationIn.                                                       *)

First(heap, base) == At(base, Head(heap).off)

\* Mutant: the old heap is only looked at when the other is empty.
EarliestInUse ==
  IF curheap # <<>> THEN First(curheap, current_base)
  ELSE First(oldheap, old_base)

Earliest ==
  LET cur == First(curheap, current_base)
      old == First(oldheap, old_base)
  IN  IF curheap = <<>> THEN old
      ELSE IF oldheap # <<>> /\ Less(old, cur) THEN old
      ELSE cur

NextExpirationIn(maxtime) ==
  LET next == Minus(Earliest, Now)
  IN  IF curheap = <<>> /\ oldheap = <<>> THEN maxtime
      ELSE IF ~Less(Now, Earliest) THEN 0
      ELSE IF maxtime < next THEN maxtime
      ELSE next

-----------------------------------------------------------------------------
TimePasses ==
  /\ \E c \in clock+1..MaxClock : clock' = c
  /\ posted' = <<>>
  /\ UNCHANGED <<curheap, oldheap, current_base, old_base, base_diff, wanted>>

Next ==
  \/ \E t \in Times, e \in Events : PostAt(t, e)
  \/ PostExpired
  \/ TimePasses

Spec == Init /\ [][Next]_vars

-----------------------------------------------------------------------------
(* Properties.                                                             *)

TypeOK ==
  /\ Pending \subseteq Events
  /\ clock \in Nat
  /\ old_base \in Nat /\ current_base \in old_base..Now.time
  /\ base_diff = (current_base - old_base) * Second
  /\ \A e \in Pending : wanted[e] \in [at : Nat, base : 0..current_base]

\* TimerEventTracker.h on postExpired: it posts all expired timer events, and
\* no others, whichever heap and base they were kept by.
PostsTheExpired ==
  [][PostExpired =>
       ToSet(posted') = {e \in Pending : wanted[e].at <= clock}]_vars

\* nextExpirationIn: how long until the next timer expires, maxtime at most.
\* A poll that waits for that long neither sleeps past a timer nor spins.
NextIsNext ==
  Accepted => \A maxtime \in {0, Second, MaxClock} :
    NextExpirationIn(maxtime) =
      Min({maxtime} \cup {Max({wanted[e].at - clock, 0}) : e \in Pending})

\* Timers set under the same base are posted in the order of their times,
\* also when the base has been replaced in between.
SameBaseInOrder ==
  \A j, k \in 1..Len(posted) :
    LET x == wanted[posted[j]]
        y == wanted[posted[k]]
    IN  j < k /\ x.base = y.base =>
          Max({x.at, x.base * Second}) <= Max({y.at, y.base * Second})

\* TimerEventTracker.h: a now that is >= every earlier one is a legal argument
\* of postExpired and nextExpirationIn.
NowAccepted == Accepted
=============================================================================
