---------------------- MODULE TimerEventTrackerProofs ----------------------
(***************************************************************************)
(* What holds of TimerEventTracker for any events, any length of a second  *)
(* in ticks, and a base that is kept for any number of seconds.            *)
(***************************************************************************)
EXTENDS TimerEventTracker, ListsProofs

Timers == [off : Nat, ev : Events]
Sooner == {p \in Timers \X Timers : p[1].off <= p[2].off}

-----------------------------------------------------------------------------
(* The heaps.                                                              *)

LEMMA TimerType ==
  /\ \A t \in Timers : t.off \in Nat /\ t.ev \in Events
  /\ \A off \in Nat, e \in Events : /\ Timer(off, e) \in Timers
                                   /\ Timer(off, e).off = off /\ Timer(off, e).ev = e
  BY DEF Timers, Timer

LEMMA HalfElements ==
  ASSUME NEW heap \in Seq(Timers), NEW off
  PROVE  /\ Upto(heap, off) \in Seq(Timers) /\ Past(heap, off) \in Seq(Timers)
         /\ ToSet(Upto(heap, off)) = {t \in ToSet(heap) : t.off <= off}
         /\ ToSet(Past(heap, off)) = {t \in ToSet(heap) : t.off > off}
         /\ InOrder(heap, Sooner) => /\ InOrder(Upto(heap, off), Sooner)
                                     /\ InOrder(Past(heap, off), Sooner)
  BY OnlyElements, OnlyInOrder DEF Upto, Past

\* A timer that is put in a heap leaves it in order.
LEMMA PutElements ==
  ASSUME NEW heap \in Seq(Timers), NEW t \in Timers
  PROVE  /\ Put(heap, t) \in Seq(Timers)
         /\ ToSet(Put(heap, t)) = ToSet(heap) \cup {t}
         /\ InOrder(heap, Sooner) => InOrder(Put(heap, t), Sooner)
<1> DEFINE a == Upto(heap, t.off)
           b == Past(heap, t.off)
<1>1. /\ a \in Seq(Timers) /\ b \in Seq(Timers)
      /\ ToSet(a) = {u \in ToSet(heap) : u.off <= t.off}
      /\ ToSet(b) = {u \in ToSet(heap) : u.off > t.off}
      /\ InOrder(heap, Sooner) => InOrder(a, Sooner) /\ InOrder(b, Sooner)
  BY HalfElements
<1>2. Put(heap, t) = (a \o <<t>>) \o b
  BY DEF Put
<1> DEFINE c == <<t>>
           d == a \o c
<1>3. c \in Seq(Timers) /\ ToSet(c) = {t} /\ Len(c) = 1
  BY DEF ToSet
<1>4. InOrder(c, Sooner)
  BY <1>3 DEF InOrder
<1> HIDE DEF a, b, c
<1>5. d \in Seq(Timers) /\ ToSet(d) = ToSet(a) \cup {t}
  BY <1>1, <1>3, ConcatElements
<1> HIDE DEF d
<1>6. d \o b \in Seq(Timers) /\ ToSet(d \o b) = ToSet(a) \cup {t} \cup ToSet(b)
  BY <1>1, <1>5, ConcatElements
<1>7. ToSet(heap) \subseteq Timers
  BY ListElements
<1>8. \A u \in Timers : u.off \in Nat
  BY TimerType
<1>9. ToSet(a) \cup ToSet(b) = ToSet(heap)
  BY <1>1, <1>7, <1>8
<1>10. ASSUME InOrder(heap, Sooner) PROVE InOrder(d \o b, Sooner)
  <2>1. \A u \in ToSet(a) : <<u, t>> \in Sooner
    BY <1>1, <1>7 DEF Sooner
  <2>2. InOrder(d, Sooner)
    BY <1>1, <1>3, <1>4, <1>10, <2>1, ConcatInOrder DEF d
  <2>3. \A u \in ToSet(d), v \in ToSet(b) : <<u, v>> \in Sooner
    BY <1>1, <1>5, <1>7, <1>8 DEF Sooner
  <2> QED
    BY <1>1, <1>5, <1>10, <2>2, <2>3, ConcatInOrder
<1> QED
  BY <1>2, <1>6, <1>9, <1>10 DEF c, d

\* The function Merge is defined by; it exists, by induction on its domain.
IsMerged(m, heap, others, n) ==
  m = [i \in 0..n |-> IF i = 0 THEN heap ELSE Put(m[i-1], others[i])]

LEMMA MergedExists ==
  ASSUME NEW heap, NEW others, NEW n \in Nat
  PROVE  \E m : IsMerged(m, heap, others, n)
<1> DEFINE T == {k \in Nat : \E m : IsMerged(m, heap, others, k)}
<1>1. 0 \in T
  <2>1. IsMerged([i \in 0..0 |-> heap], heap, others, 0)
    BY DEF IsMerged
  <2> QED
    BY <2>1
<1>2. ASSUME NEW k \in T PROVE k + 1 \in T
  <2>1. PICK m : IsMerged(m, heap, others, k)
    OBVIOUS
  <2> DEFINE h == [i \in 0..k+1 |-> IF i <= k THEN m[i] ELSE Put(m[k], others[k+1])]
             g == [i \in 0..k+1 |-> IF i = 0 THEN heap ELSE Put(h[i-1], others[i])]
  <2>2. \A i \in 0..k : m[i] = IF i = 0 THEN heap ELSE Put(m[i-1], others[i])
    BY <2>1 DEF IsMerged
  <2>3. ASSUME NEW i \in 0..k+1 PROVE h[i] = g[i]
    <3>1. CASE i = 0
      BY <3>1, <2>2
    <3>2. CASE i \in 1..k
      BY <3>2, <2>2
    <3>3. CASE i = k + 1
      BY <3>3
    <3> QED
      BY <3>1, <3>2, <3>3
  <2>4. h = g
    BY <2>3
  <2>5. IsMerged(h, heap, others, k + 1)
    BY <2>4 DEF IsMerged
  <2> HIDE DEF h
  <2> QED
    BY <2>5
<1> HIDE DEF T
<1>3. T = Nat
  BY <1>1, <1>2, InductSet DEF T
<1> QED
  BY <1>3 DEF T

\* Merge loses no timer, makes up none, and keeps the heap in order.
LEMMA MergeElements ==
  ASSUME NEW heap \in Seq(Timers), NEW others \in Seq(Timers)
  PROVE  /\ Merge(heap, others) \in Seq(Timers)
         /\ ToSet(Merge(heap, others)) = ToSet(heap) \cup ToSet(others)
         /\ InOrder(heap, Sooner) => InOrder(Merge(heap, others), Sooner)
<1> DEFINE m == CHOOSE m : IsMerged(m, heap, others, Len(others))
<1>1. Len(others) \in Nat
  OBVIOUS
<1>2. IsMerged(m, heap, others, Len(others))
  BY <1>1, MergedExists
<1>3. Merge(heap, others) = m[Len(others)]
  BY DEF Merge, IsMerged
<1> HIDE DEF m
<1>4. /\ m[0] = heap
      /\ \A i \in 1..Len(others) : m[i] = Put(m[i-1], others[i])
  BY <1>1, <1>2 DEF IsMerged
<1> DEFINE UpTo(n) == {others[i] : i \in 1..n}
           Right(n) == /\ m[n] \in Seq(Timers) /\ ToSet(m[n]) = ToSet(heap) \cup UpTo(n)
                       /\ InOrder(heap, Sooner) => InOrder(m[n], Sooner)
           T == {n \in 0..Len(others) : Right(n)}
<1>5. 0 \in T
  <2>1. UpTo(0) = {}
    OBVIOUS
  <2> HIDE DEF UpTo
  <2> QED
    BY <1>1, <1>4, <2>1, 0 \in 0..Len(others)
<1>6. ASSUME NEW n \in 0..Len(others)-1, n \in T PROVE n + 1 \in T
  <2>1. n + 1 \in 1..Len(others) /\ others[n+1] \in Timers /\ Right(n) /\ (n + 1) - 1 = n
    BY <1>6
  <2>2. UpTo(n+1) = UpTo(n) \cup {others[n+1]}
    OBVIOUS
  <2>3. m[n+1] = Put(m[n], others[n+1])
    BY <1>4, <2>1
  <2> HIDE DEF UpTo
  <2>4. /\ m[n+1] \in Seq(Timers)
        /\ ToSet(m[n+1]) = ToSet(m[n]) \cup {others[n+1]}
        /\ InOrder(m[n], Sooner) => InOrder(m[n+1], Sooner)
    BY <2>1, <2>3, PutElements
  <2> QED
    BY <2>1, <2>2, <2>4
<1> HIDE DEF T
<1>7. Len(others) \in T
  <2>1. \A n \in 0..Len(others)-1 : n \in T => n + 1 \in T
    BY <1>6
  <2>2. \A n \in 0..Len(others) : n \in T
    BY ONLY <1>1, <1>5, <2>1, InductUpTo
  <2> QED
    BY <1>1, <2>2
<1>8. ToSet(others) = {others[i] : i \in 1..Len(others)}
  BY DEF ToSet
<1> QED
  BY <1>3, <1>7, <1>8 DEF T

LEMMA LaterElements ==
  ASSUME NEW heap \in Seq(Timers), NEW diff \in Nat
  PROVE  /\ Later(heap, diff) \in Seq(Timers)
         /\ ToSet(Later(heap, diff)) = {Timer(t.off + diff, t.ev) : t \in ToSet(heap)}
         /\ InOrder(heap, Sooner) => InOrder(Later(heap, diff), Sooner)
<1>1. /\ Len(heap) \in Nat
      /\ \A k \in 1..Len(heap) : /\ heap[k] \in Timers /\ heap[k].off \in Nat
                                 /\ Timer(heap[k].off + diff, heap[k].ev) \in Timers
                                 /\ Timer(heap[k].off + diff, heap[k].ev).off
                                      = heap[k].off + diff
  BY TimerType
<1>2. /\ Later(heap, diff) \in Seq(Timers) /\ Len(Later(heap, diff)) = Len(heap)
      /\ \A k \in 1..Len(heap) :
           Later(heap, diff)[k] = Timer(heap[k].off + diff, heap[k].ev)
  BY <1>1 DEF Later
<1>3. ToSet(Later(heap, diff)) = {Timer(t.off + diff, t.ev) : t \in ToSet(heap)}
  <2>1. DOMAIN Later(heap, diff) = 1..Len(heap) /\ DOMAIN heap = 1..Len(heap)
    BY DEF Later
  <2> QED
    BY <1>2, <2>1, Zenon DEF ToSet
<1>4. ASSUME InOrder(heap, Sooner), NEW i \in 1..Len(heap), NEW j \in 1..Len(heap), i < j
      PROVE  <<Later(heap, diff)[i], Later(heap, diff)[j]>> \in Sooner
  <2>1. heap[i].off <= heap[j].off
    BY <1>4 DEF InOrder, Sooner
  <2> QED
    BY <1>1, <1>2, <2>1 DEF Sooner
<1> QED
  BY <1>2, <1>3, <1>4 DEF InOrder

LEMMA EvsElements ==
  ASSUME NEW heap \in Seq(Timers)
  PROVE  /\ Evs(heap) \in Seq(Events) /\ Len(Evs(heap)) = Len(heap)
         /\ \A k \in 1..Len(heap) : Evs(heap)[k] = heap[k].ev
         /\ ToSet(Evs(heap)) = {t.ev : t \in ToSet(heap)}
<1>1. Len(heap) \in Nat /\ \A k \in 1..Len(heap) : heap[k].ev \in Events
  BY TimerType
<1>2. /\ Evs(heap) \in Seq(Events) /\ Len(Evs(heap)) = Len(heap)
      /\ \A k \in 1..Len(heap) : Evs(heap)[k] = heap[k].ev
  BY <1>1 DEF Evs
<1> QED
  BY <1>1, <1>2 DEF ToSet

\* The first timer of a heap is its soonest.
LEMMA HeadSoonest ==
  ASSUME NEW heap \in Seq(Timers), heap # <<>>, InOrder(heap, Sooner)
  PROVE  /\ Head(heap) \in ToSet(heap)
         /\ \A t \in ToSet(heap) : Head(heap).off <= t.off
<1>1. Len(heap) \in Nat \ {0} /\ Head(heap) = heap[1] /\ heap[1] \in Timers
  OBVIOUS
<1>2. \A k \in 1..Len(heap) : heap[1].off <= heap[k].off
  <2> TAKE k \in 1..Len(heap)
  <2>1. CASE k = 1
    BY <1>1, <2>1, TimerType
  <2>2. CASE k # 1
    <3>1. <<heap[1], heap[k]>> \in Sooner
      BY <1>1, <2>2, 1 \in 1..Len(heap), 1 < k DEF InOrder
    <3> QED
      BY <3>1 DEF Sooner
  <2> QED
    BY <2>1, <2>2
<1> QED
  BY <1>1, <1>2 DEF ToSet

-----------------------------------------------------------------------------
(* Times.                                                                  *)

LEMMA Products ==
  /\ \A x, y, s \in Int : (x - y) * s = x * s - y * s
  /\ \A x, y \in Int, s \in Nat : x < y => x * s + s <= y * s
  /\ \A x, y \in Int, s \in Nat : x <= y => x * s <= y * s
  /\ \A x, y \in Nat : x * y \in Nat
  OBVIOUS

LEMMA DivMod ==
  ASSUME NEW c \in Nat
  PROVE  /\ c \div Second \in Nat /\ c % Second \in 0..Second-1
         /\ (c \div Second) * Second + (c % Second) = c
  BY TimerConstants

LEMMA NowValue ==
  ASSUME clock \in Nat
  PROVE  /\ Now.time \in Nat /\ Now.off \in 0..Second-1
         /\ Value(Now) = clock /\ Now.time * Second + Now.off = clock
<1>1. /\ clock \div Second \in Nat /\ clock % Second \in 0..Second-1
      /\ (clock \div Second) * Second + (clock % Second) = clock
  BY DivMod
<1> QED
  BY <1>1 DEF Now, At, Value

\* The same of the state after a step.
LEMMA NowValueNext ==
  ASSUME clock' \in Nat
  PROVE  /\ Now'.time \in Nat /\ Now'.off \in 0..Second-1
         /\ Now'.time * Second + Now'.off = clock'
<1>1. /\ clock' \div Second \in Nat /\ clock' % Second \in 0..Second-1
      /\ (clock' \div Second) * Second + (clock' % Second) = clock'
  BY DivMod
<1> QED
  BY <1>1 DEF Now, At

\* How far the time has got past a base.
LEMMA SinceBase ==
  ASSUME clock \in Nat, NEW b \in Nat, b <= Now.time
  PROVE  Minus(Now, Base(b)) = clock - b * Second /\ b * Second <= clock
<1>1. /\ Now.time \in Nat /\ Now.off \in 0..Second-1 /\ Second \in Nat
      /\ Now.time * Second + Now.off = clock
  BY NowValue, TimerConstants
<1> DEFINE p == Now.time * Second
           q == b * Second
           d == (Now.time - b) * Second
<1>2. p \in Nat /\ q \in Nat /\ q <= p /\ d = p - q
  BY <1>1, Products
<1>3. Minus(Now, Base(b)) = IF d < 0
                            THEN IF Now.off < -d THEN 0 ELSE Apart(Now.off + d, 0)
                            ELSE IF d = 0 \/ Now.off >= 0 THEN d + Apart(Now.off, 0)
                            ELSE Apart(d, 0 - Now.off)
  BY DEF Minus, Base, At
<1> HIDE DEF p, q, d
<1>4. p + Now.off = clock
  BY <1>1 DEF p
<1>5. Minus(Now, Base(b)) = clock - q
  BY <1>1, <1>2, <1>3, <1>4 DEF Apart
<1> QED
  BY <1>1, <1>2, <1>4, <1>5 DEF q

\* When a timer wanted at a time expires, counted from a base.
Due(at, b) == IF at < b * Second THEN 0 ELSE at - b * Second

DueType == \A at, b \in Nat : Due(at, b) \in Nat

LEMMA DueIsNat == DueType
  BY TimerConstants, Products DEF DueType, Due

\* A timer is due by now exactly if the time it was wanted at has come.
LEMMA DueByNow ==
  ASSUME clock \in Nat, NEW b \in Nat, b <= Now.time, NEW at \in Nat
  PROVE  Due(at, b) <= Minus(Now, Base(b)) <=> at <= clock
<1>1. Minus(Now, Base(b)) = clock - b * Second /\ b * Second <= clock
  BY SinceBase
<1>2. b * Second \in Nat
  BY TimerConstants, Products
<1> QED
  BY <1>1, <1>2 DEF Due

\* The times timers are set for.
LEMMA TimesType ==
  ASSUME clock \in Nat, NEW t \in Times
  PROVE  /\ t.time \in Nat /\ t.off \in Nat /\ Value(t) \in Nat
         /\ t.time * Second \in Nat /\ Value(t) = t.time * Second + t.off
         /\ Value(t) <= clock + Horizon
         /\ t.time < Now.time => t.off = 0
<1>1. /\ Now.time \in Nat /\ Now.off \in Nat
      /\ Now.time * Second + Now.off = clock
  BY NowValue, TimerConstants
<1>2. Second \in Nat /\ Horizon \in Nat
  BY TimerConstants
<1>3. CASE t \in {Base(s) : s \in 0..Now.time}
  <2>1. PICK s \in 0..Now.time : t = Base(s)
    BY <1>3
  <2>2. t.time = s /\ t.off = 0 /\ s \in Nat /\ s <= Now.time
    BY <1>1, <2>1 DEF Base, At
  <2>3. s * Second \in Nat /\ s * Second <= Now.time * Second
    BY <1>1, <1>2, <2>2, Products
  <2>4. Value(t) = s * Second
    BY <2>2, <2>3 DEF Value
  <2> QED
    BY <1>1, <1>2, <2>2, <2>3, <2>4
<1>4. CASE t \in {At(Now.time, Now.off + k) : k \in 0..Horizon}
  <2>1. PICK k \in 0..Horizon : t = At(Now.time, Now.off + k)
    BY <1>4
  <2>2. t.time = Now.time /\ t.off = Now.off + k /\ k \in Nat /\ k <= Horizon
    BY <1>2, <2>1 DEF At
  <2>3. Now.time * Second \in Nat
    BY <1>1, <1>2, Products
  <2>4. Value(t) = Now.time * Second + (Now.off + k)
    BY <2>2 DEF Value
  <2> QED
    BY <1>1, <1>2, <2>2, <2>3, <2>4
<1> QED
  BY <1>3, <1>4 DEF Times

\* postAt stores that.
LEMMA OffsetIsDue ==
  ASSUME clock \in Nat, NEW t \in Times, current_base \in Nat, current_base <= Now.time
  PROVE  Offset(t) = Due(Value(t), current_base)
<1>1. /\ t.time \in Nat /\ t.off \in Nat /\ t.time * Second \in Nat
      /\ Value(t) = t.time * Second + t.off
      /\ t.time < Now.time => t.off = 0
  BY TimesType
<1>2. Now.time \in Nat /\ Second \in Nat \ {0}
  BY NowValue, TimerConstants
<1> DEFINE p == t.time * Second
           q == current_base * Second
           d == (t.time - current_base) * Second
<1>3. /\ p \in Nat /\ q \in Nat /\ d = p - q
      /\ t.time < current_base => p < q
      /\ t.time = current_base => p = q
      /\ t.time > current_base => p > q
  <2>1. t.time < current_base => p + Second <= q
    BY <1>1, <1>2, Products
  <2>2. current_base < t.time => q + Second <= p
    BY <1>1, <1>2, Products
  <2>3. d = p - q /\ q \in Nat
    BY <1>1, <1>2, Products
  <2> HIDE DEF p, q, d
  <2>4. p \in Nat
    BY <1>1 DEF p
  <2>5. t.time = current_base => p = q
    BY DEF p, q
  <2> QED
    BY <1>1, <1>2, <2>1, <2>2, <2>3, <2>4, <2>5
<1>4. Less(Base(current_base), t) <=> IF current_base = t.time THEN 0 <= t.off
                                      ELSE q + 0 < p + t.off
  BY DEF Less, Base, At, Value
<1>5. Minus(t, Base(current_base)) =
        IF d < 0 THEN IF t.off < -d THEN 0 ELSE Apart(t.off + d, 0)
        ELSE IF d = 0 \/ t.off >= 0 THEN d + Apart(t.off, 0)
        ELSE Apart(d, 0 - t.off)
  BY DEF Minus, Base, At
<1>6. Due(Value(t), current_base) = IF p + t.off < q THEN 0 ELSE (p + t.off) - q
  <2>1. Value(t) = p + t.off
    BY <1>1
  <2>2. Due(Value(t), current_base) = IF Value(t) < q THEN 0 ELSE Value(t) - q
    BY DEF Due
  <2> HIDE DEF p, q
  <2> QED
    BY ONLY <2>1, <2>2
<1> HIDE DEF p, q, d
<1>7. CASE Less(Base(current_base), t)
  <2>1. Offset(t) = Minus(t, Base(current_base))
    BY <1>7 DEF Offset
  <2> QED
    <3>1. d >= 0 /\ d + t.off >= 0
      BY <1>1, <1>2, <1>3, <1>4, <1>7
    <3>2. Minus(t, Base(current_base)) = d + Apart(t.off, 0)
      BY <1>1, <1>3, <1>5, <3>1
    <3>3. Apart(t.off, 0) = t.off
      BY <1>1 DEF Apart
    <3> QED
      BY <1>1, <1>3, <1>6, <2>1, <3>1, <3>2, <3>3
<1>8. CASE ~ Less(Base(current_base), t)
  <2>1. Offset(t) = 0
    BY <1>8 DEF Offset
  <2> QED
    BY <1>1, <1>2, <1>3, <1>4, <1>6, <1>8, <2>1
<1> QED
  BY <1>7, <1>8

-----------------------------------------------------------------------------
(* The invariant.                                                          *)

\* No timer is set further ahead than a base is kept, less the part of a second
\* that a new base drops.  Beyond that a timer may be pending through two
\* replacements, and the tracker then adds what it should subtract.
WithinAWeek == Horizon + Second - 1 <= Week * Second

Wants == [at : Nat, base : Nat]

TypesOK ==
  /\ curheap \in Seq(Timers) /\ oldheap \in Seq(Timers)
  /\ clock \in Nat
  /\ old_base \in Nat /\ current_base \in Nat
  /\ old_base <= current_base /\ current_base <= Now.time
  /\ base_diff = (current_base - old_base) * Second
  /\ posted \in Seq(Events)
  /\ wanted \in [Events -> Wants \cup {None}]

\* Every timer of a heap was set under its base, and expires when it was wanted.
KeptBy(heap, base) ==
  \A t \in ToSet(heap) : /\ wanted[t.ev] \in Wants
                         /\ wanted[t.ev].base = base
                         /\ t.off = Due(wanted[t.ev].at, base)

\* No timer of the heap is wanted later than that.
NoLaterThan(heap, at) == \A t \in ToSet(heap) : wanted[t.ev].at <= at

\* The end of the second the base in use was set in, and as far ahead of it as
\* timers are set.
OldestEnd == current_base * Second + (Second - 1) + Horizon

Heaps ==
  /\ InOrder(curheap, Sooner) /\ InOrder(oldheap, Sooner)
  /\ KeptBy(curheap, current_base) /\ KeptBy(oldheap, old_base)
  /\ NoLaterThan(curheap, clock + Horizon) /\ NoLaterThan(oldheap, OldestEnd)
  /\ ToSet(oldheap) # {} => old_base < current_base

IInv == TypesOK /\ Heaps /\ SameBaseInOrder

LEMMA PendingElements ==
  ASSUME TypesOK
  PROVE  Pending = {t.ev : t \in ToSet(curheap) \cup ToSet(oldheap)}
<1>1. /\ ToSet(Evs(curheap)) = {t.ev : t \in ToSet(curheap)}
      /\ ToSet(Evs(oldheap)) = {t.ev : t \in ToSet(oldheap)}
  BY EvsElements DEF TypesOK
<1> QED
  BY <1>1 DEF Pending

LEMMA BaseDiffType == TypesOK => base_diff \in Nat
<1> SUFFICES ASSUME TypesOK PROVE base_diff \in Nat
  OBVIOUS
<1>1. current_base - old_base \in Nat /\ Second \in Nat
  BY TimerConstants DEF TypesOK
<1> QED
  BY <1>1, Products DEF TypesOK

LEMMA ExpiredElements ==
  ASSUME TypesOK, Heaps
  PROVE  /\ Expired \in Seq(Timers) /\ InOrder(Expired, Sooner)
         /\ ToSet(Expired) =
              {Timer(t.off + base_diff, t.ev) : t \in {u \in ToSet(oldheap) : u.off <= OldDue}}
                \cup {t \in ToSet(curheap) : t.off <= CurDue}
<1> DEFINE old == Upto(oldheap, OldDue)
           later == Later(old, base_diff)
           cur == Upto(curheap, CurDue)
<1>1. /\ old \in Seq(Timers) /\ cur \in Seq(Timers)
      /\ ToSet(old) = {u \in ToSet(oldheap) : u.off <= OldDue}
      /\ ToSet(cur) = {t \in ToSet(curheap) : t.off <= CurDue}
      /\ InOrder(old, Sooner) /\ InOrder(cur, Sooner)
  BY HalfElements DEF TypesOK, Heaps
<1>2. Expired = Merge(later, cur)
  BY DEF Expired
<1> HIDE DEF old, cur
<1>3. /\ later \in Seq(Timers) /\ InOrder(later, Sooner)
      /\ ToSet(later) = {Timer(t.off + base_diff, t.ev) : t \in ToSet(old)}
  BY <1>1, BaseDiffType, LaterElements
<1> HIDE DEF later
<1>4. /\ Merge(later, cur) \in Seq(Timers) /\ InOrder(Merge(later, cur), Sooner)
      /\ ToSet(Merge(later, cur)) = ToSet(later) \cup ToSet(cur)
  BY <1>1, <1>3, MergeElements
<1> QED
  BY <1>1, <1>2, <1>3, <1>4

\* A timer of either heap is read as expired exactly when its time has come.
LEMMA ExpiredByNow ==
  ASSUME TypesOK, Heaps
  PROVE  /\ \A t \in ToSet(curheap) : t.off <= CurDue <=> wanted[t.ev].at <= clock
         /\ \A t \in ToSet(oldheap) : t.off <= OldDue <=> wanted[t.ev].at <= clock
<1>1. ASSUME NEW heap, NEW b \in Nat, b <= Now.time, KeptBy(heap, b), NEW t \in ToSet(heap)
      PROVE  t.off <= Minus(Now, Base(b)) <=> wanted[t.ev].at <= clock
  <2>1. /\ wanted[t.ev].at \in Nat
        /\ t.off = Due(wanted[t.ev].at, b)
    BY <1>1 DEF KeptBy, Wants
  <2> QED
    BY <1>1, <2>1, DueByNow DEF TypesOK
<1>2. /\ current_base \in Nat /\ current_base <= Now.time
      /\ old_base \in Nat /\ old_base <= Now.time
  BY NowValue DEF TypesOK
<1> QED
  BY <1>1, <1>2 DEF Heaps, CurDue, OldDue

\* postExpired posts what has expired.
LEMMA PostedAreExpired ==
  ASSUME TypesOK, Heaps, PostExpired
  PROVE  ToSet(posted') = {e \in Pending : wanted[e].at <= clock}
<1>1. /\ Expired \in Seq(Timers)
      /\ ToSet(Expired) =
           {Timer(t.off + base_diff, t.ev) : t \in {u \in ToSet(oldheap) : u.off <= OldDue}}
             \cup {t \in ToSet(curheap) : t.off <= CurDue}
  BY ExpiredElements
<1>2. ToSet(posted') = {t.ev : t \in ToSet(Expired)}
  BY <1>1, EvsElements DEF PostExpired
<1>3. \A t : Timer(t.off + base_diff, t.ev).ev = t.ev
  BY DEF Timer
<1>4. {t.ev : t \in ToSet(Expired)} =
        {t.ev : t \in {u \in ToSet(oldheap) : u.off <= OldDue}}
          \cup {t.ev : t \in {u \in ToSet(curheap) : u.off <= CurDue}}
  BY <1>1, <1>3
<1> QED
  BY <1>2, <1>4, ExpiredByNow, PendingElements

LEMMA MaxOfTwo ==
  ASSUME NEW a \in Int, NEW b \in Int
  PROVE  Max({a, b}) = IF a < b THEN b ELSE a
<1> DEFINE m == IF a < b THEN b ELSE a
<1>1. m \in {a, b} /\ \A y \in {a, b} : m >= y
  OBVIOUS
<1>2. \A x \in {a, b} : (\A y \in {a, b} : x >= y) => x = m
  OBVIOUS
<1> HIDE DEF m
<1>3. Max({a, b}) = m
  BY <1>1, <1>2 DEF Max
<1> QED
  BY <1>3 DEF m

\* When a timer is posted, if it is not late: at its time, or at its base.
LEMMA DueFromBase ==
  ASSUME NEW at \in Nat, NEW b \in Nat
  PROVE  Max({at, b * Second}) = Due(at, b) + b * Second
<1>1. b * Second \in Nat
  BY TimerConstants, Products
<1> QED
  BY <1>1, MaxOfTwo DEF Due

LEMMA PostedInOrder ==
  ASSUME TypesOK, Heaps, PostExpired
  PROVE  posted' \in Seq(Events) /\ SameBaseInOrder'
<1>1. /\ Expired \in Seq(Timers) /\ InOrder(Expired, Sooner)
      /\ ToSet(Expired) =
           {Timer(t.off + base_diff, t.ev) : t \in {u \in ToSet(oldheap) : u.off <= OldDue}}
             \cup {t \in ToSet(curheap) : t.off <= CurDue}
  BY ExpiredElements
<1>2. /\ posted' \in Seq(Events) /\ Len(posted') = Len(Expired) /\ wanted' = wanted
      /\ \A k \in 1..Len(Expired) : posted'[k] = Expired[k].ev
  BY <1>1, EvsElements DEF PostExpired
<1> DEFINE FromCur(r) == /\ wanted[r.ev].base = current_base
                         /\ r.off = Due(wanted[r.ev].at, current_base)
           FromOld(r) == /\ wanted[r.ev].base = old_base /\ old_base < current_base
                         /\ r.off = Due(wanted[r.ev].at, old_base) + base_diff
<1>3. ASSUME NEW r \in ToSet(Expired)
      PROVE  wanted[r.ev] \in Wants /\ (FromCur(r) \/ FromOld(r))
  <2>1. CASE r \in ToSet(curheap)
    BY <2>1 DEF Heaps, KeptBy
  <2>2. ASSUME NEW t \in ToSet(oldheap), r = Timer(t.off + base_diff, t.ev)
        PROVE  wanted[r.ev] \in Wants /\ FromOld(r)
    <3>1. r.ev = t.ev /\ r.off = t.off + base_diff
      BY <2>2 DEF Timer
    <3>2. /\ wanted[t.ev] \in Wants /\ wanted[t.ev].base = old_base
          /\ t.off = Due(wanted[t.ev].at, old_base) /\ old_base < current_base
      BY DEF Heaps, KeptBy
    <3> QED
      BY <3>1, <3>2
  <2> QED
    BY <1>1, <2>1, <2>2
<1>4. ASSUME NEW r \in ToSet(Expired), NEW s \in ToSet(Expired), r.off <= s.off,
             wanted[r.ev].base = wanted[s.ev].base
      PROVE  Max({wanted[r.ev].at, wanted[r.ev].base * Second})
               <= Max({wanted[s.ev].at, wanted[s.ev].base * Second})
  <2> DEFINE x == wanted[r.ev]
             y == wanted[s.ev]
  <2>1. x.at \in Nat /\ y.at \in Nat /\ x.base \in Nat /\ y.base = x.base
    BY <1>3, <1>4 DEF Wants
  <2>2. /\ (FromCur(r) \/ FromOld(r)) /\ (FromCur(s) \/ FromOld(s))
        /\ base_diff \in Nat /\ x.base * Second \in Nat
        /\ Due(x.at, x.base) \in Nat /\ Due(y.at, x.base) \in Nat
    BY <1>3, <2>1, BaseDiffType, TimerConstants, Products, DueIsNat DEF DueType
  <2>3. /\ Max({x.at, x.base * Second}) = Due(x.at, x.base) + x.base * Second
        /\ Max({y.at, y.base * Second}) = Due(y.at, x.base) + x.base * Second
    BY <2>1, DueFromBase
  <2>4. Due(x.at, x.base) <= Due(y.at, x.base)
    <3>1. CASE FromCur(r)
      <4>1. FromCur(s)
        BY <1>4, <2>1, <2>2, <3>1 DEF TypesOK
      <4> QED
        BY <1>4, <2>1, <3>1, <4>1
    <3>2. CASE FromOld(r)
      <4>1. FromOld(s)
        BY <1>4, <2>1, <2>2, <3>2 DEF TypesOK
      <4>2. Due(x.at, x.base) + base_diff <= Due(y.at, x.base) + base_diff
        BY <1>4, <2>1, <3>2, <4>1
      <4> QED
        BY <2>2, <4>2
    <3> QED
      BY <2>2, <3>1, <3>2
  <2> HIDE DEF x, y
  <2>5. Max({x.at, x.base * Second}) <= Max({y.at, y.base * Second})
    BY <2>2, <2>3, <2>4
  <2> QED
    BY <2>5 DEF x, y
<1>5. ASSUME NEW j \in 1..Len(Expired), NEW k \in 1..Len(Expired), j < k
      PROVE  /\ Expired[j] \in ToSet(Expired) /\ Expired[k] \in ToSet(Expired)
             /\ Expired[j].off <= Expired[k].off
  <2>1. <<Expired[j], Expired[k]>> \in Sooner
    BY <1>1, <1>5 DEF InOrder
  <2> QED
    BY <1>1, <2>1 DEF Sooner, ToSet
<1> QED
  BY <1>2, <1>4, <1>5 DEF SameBaseInOrder

\* With nothing posted nothing is out of order.
LEMMA NothingPosted ==
  /\ posted = <<>> => posted \in Seq(Events) /\ SameBaseInOrder
  /\ posted' = <<>> => posted' \in Seq(Events) /\ SameBaseInOrder'
<1>1. Len(<<>>) = 0 /\ <<>> \in Seq(Events)
  OBVIOUS
<1>2. posted = <<>> => posted \in Seq(Events) /\ SameBaseInOrder
  BY <1>1 DEF SameBaseInOrder
<1>3. posted' = <<>> => posted' \in Seq(Events) /\ SameBaseInOrder'
  BY <1>1 DEF SameBaseInOrder
<1> QED
  BY <1>2, <1>3

LEMMA InitInv == Init => IInv
<1> SUFFICES ASSUME Init PROVE IInv
  OBVIOUS
<1>1. ToSet(<<>>) = {} /\ Len(<<>>) = 0 /\ <<>> \in Seq(Timers)
  BY DEF ToSet
<1>2. clock \in Nat /\ 0 <= Now.time
  <2>1. clock \in Nat
    BY TimerConstants DEF Init
  <2> QED
    BY <2>1, NowValue
<1>3. base_diff = (current_base - old_base) * Second
  BY TimerConstants DEF Init
<1>4. TypesOK
  BY <1>1, <1>2, <1>3, NothingPosted DEF Init, TypesOK
<1>5. Heaps
  BY <1>1 DEF Init, Heaps, InOrder, KeptBy, NoLaterThan
<1> QED
  BY <1>4, <1>5, NothingPosted DEF Init, IInv

LEMMA PostAtInv ==
  ASSUME TypesOK, Heaps, NEW t \in Times, NEW e \in Events, PostAt(t, e)
  PROVE  IInv'
<1> DEFINE new == Timer(Offset(t), e)
           w == [at |-> Value(t), base |-> current_base]
<1>1. clock \in Nat /\ current_base \in Nat /\ current_base <= Now.time
  BY DEF TypesOK
<1>2. Value(t) \in Nat /\ Value(t) <= clock + Horizon
  BY <1>1, TimesType
<1>3. /\ new \in Timers /\ new.ev = e /\ new.off = Due(Value(t), current_base)
  <2>1. Offset(t) = Due(Value(t), current_base) /\ Offset(t) \in Nat
    BY <1>1, <1>2, OffsetIsDue, DueIsNat DEF DueType
  <2> QED
    BY <2>1, TimerType
<1>4. w \in Wants /\ w.at = Value(t) /\ w.base = current_base
  BY <1>1, <1>2 DEF Wants
<1> HIDE DEF new, w
<1>5. /\ curheap' = Put(curheap, new) /\ wanted' = [wanted EXCEPT ![e] = w]
      /\ posted' = <<>>
      /\ UNCHANGED <<oldheap, current_base, old_base, base_diff, clock>>
  BY DEF PostAt, new, w
<1>6. /\ curheap' \in Seq(Timers) /\ ToSet(curheap') = ToSet(curheap) \cup {new}
      /\ InOrder(curheap', Sooner)
  BY <1>3, <1>5, PutElements DEF TypesOK, Heaps
<1>7. \A u \in ToSet(curheap) \cup ToSet(oldheap) : u.ev \in Events /\ u.ev # e
  <2>1. ToSet(curheap) \cup ToSet(oldheap) \subseteq Timers
    BY ListElements DEF TypesOK
  <2> QED
    BY <2>1, PendingElements, TimerType DEF PostAt
<1>8. wanted'[e] = w /\ \A f \in Events \ {e} : wanted'[f] = wanted[f]
  BY <1>5 DEF TypesOK
<1>9. wanted' \in [Events -> Wants \cup {None}]
  BY <1>4, <1>5 DEF TypesOK
<1>10. Now' = Now
  BY <1>5 DEF Now
<1>11. posted' \in Seq(Events) /\ SameBaseInOrder'
  BY <1>5, NothingPosted
<1>12. TypesOK'
  BY <1>5, <1>6, <1>9, <1>10, <1>11 DEF TypesOK
<1>13. KeptBy(curheap, current_base)'
  BY <1>3, <1>4, <1>5, <1>6, <1>7, <1>8 DEF Heaps, KeptBy
<1>14. KeptBy(oldheap, old_base)'
  BY <1>5, <1>7, <1>8 DEF Heaps, KeptBy
<1>15. NoLaterThan(curheap, clock + Horizon)'
  BY <1>2, <1>3, <1>4, <1>5, <1>6, <1>7, <1>8 DEF Heaps, NoLaterThan
<1>16. NoLaterThan(oldheap, OldestEnd)'
  BY <1>5, <1>7, <1>8 DEF Heaps, NoLaterThan, OldestEnd
<1> QED
  BY <1>5, <1>6, <1>11, <1>12, <1>13, <1>14, <1>15, <1>16 DEF Heaps, IInv

LEMMA TimePassesInv ==
  ASSUME TypesOK, Heaps, TimePasses
  PROVE  IInv'
<1>1. /\ clock' \in Nat /\ clock < clock'
      /\ posted' = <<>>
      /\ UNCHANGED <<curheap, oldheap, current_base, old_base, base_diff, wanted>>
  BY TimerConstants DEF TimePasses, TypesOK
<1>2. Now.time <= Now'.time
  <2>1. /\ Now.time \in Nat /\ Now.off \in 0..Second-1
        /\ Now.time * Second + Now.off = clock
    BY NowValue DEF TypesOK
  <2>2. /\ Now'.time \in Nat /\ Now'.off \in 0..Second-1
        /\ Now'.time * Second + Now'.off = clock'
    BY <1>1, NowValueNext
  <2>3. Second \in Nat \ {0} /\ clock \in Nat
    BY TimerConstants DEF TypesOK
  <2>4. Now'.time < Now.time => Now'.time * Second + Second <= Now.time * Second
    BY <2>1, <2>2, <2>3, Products
  <2>5. Now'.time * Second \in Nat /\ Now.time * Second \in Nat
    BY <2>1, <2>2, <2>3, Products
  <2> DEFINE p == Now.time * Second
             q == Now'.time * Second
  <2>6. /\ p + Now.off = clock /\ q + Now'.off = clock' /\ p \in Nat /\ q \in Nat
        /\ Now'.time < Now.time => q + Second <= p
    BY <2>1, <2>2, <2>4, <2>5
  <2> HIDE DEF p, q
  <2>7. ~ (Now'.time < Now.time)
    BY <1>1, <2>1, <2>2, <2>3, <2>6
  <2> QED
    BY <2>1, <2>2, <2>7
<1>3. posted' \in Seq(Events) /\ SameBaseInOrder'
  BY <1>1, NothingPosted
<1>4. TypesOK'
  <2>1. Now.time \in Nat /\ Now'.time \in Nat
    BY <1>1, NowValue, NowValueNext DEF TypesOK
  <2> QED
    BY <1>1, <1>2, <1>3, <2>1 DEF TypesOK
<1>5. NoLaterThan(curheap, clock + Horizon)'
  <2>1. ASSUME NEW t \in ToSet(curheap) PROVE wanted[t.ev].at <= clock' + Horizon
    <3>1. wanted[t.ev].at \in Nat /\ wanted[t.ev].at <= clock + Horizon
      BY DEF Heaps, KeptBy, NoLaterThan, Wants
    <3> QED
      BY <1>1, <3>1, TimerConstants DEF TypesOK
  <2> QED
    BY <1>1, <2>1 DEF NoLaterThan
<1>6. Heaps'
  BY <1>1, <1>5 DEF Heaps, KeptBy, NoLaterThan, OldestEnd
<1> QED
  BY <1>3, <1>4, <1>6 DEF IInv

LEMMA KeepBaseInv ==
  ASSUME TypesOK, Heaps, PostExpired, KeepBase
  PROVE  IInv'
<1>1. /\ curheap' \in Seq(Timers) /\ ToSet(curheap') \subseteq ToSet(curheap)
      /\ oldheap' \in Seq(Timers) /\ ToSet(oldheap') \subseteq ToSet(oldheap)
      /\ InOrder(curheap', Sooner) /\ InOrder(oldheap', Sooner)
  BY HalfElements DEF KeepBase, TypesOK, Heaps
<1>2. UNCHANGED <<old_base, current_base, base_diff, clock, wanted>> /\ Now' = Now
  BY DEF KeepBase, PostExpired, Now
<1>3. posted' \in Seq(Events) /\ SameBaseInOrder'
  BY PostedInOrder
<1>4. TypesOK'
  BY <1>1, <1>2, <1>3 DEF TypesOK
<1>5. Heaps'
  BY <1>1, <1>2 DEF Heaps, KeptBy, NoLaterThan, OldestEnd
<1> QED
  BY <1>3, <1>4, <1>5 DEF IInv

\* When the base is replaced the old heap has nothing left.
LEMMA OldHeapDone ==
  ASSUME TypesOK, Heaps, WeekOld, WithinAWeek
  PROVE  \A t \in ToSet(oldheap) : t.off <= OldDue
<1> SUFFICES ASSUME NEW t \in ToSet(oldheap) PROVE wanted[t.ev].at <= clock
  BY ExpiredByNow
<1>1. CurDue = clock - current_base * Second /\ CurDue >= Week * Second
  BY SinceBase DEF CurDue, WeekOld, TypesOK
<1>2. wanted[t.ev].at \in Nat /\ wanted[t.ev].at <= OldestEnd
  BY DEF Heaps, KeptBy, NoLaterThan, Wants
<1>3. /\ current_base * Second \in Nat /\ Week * Second \in Nat /\ clock \in Nat
      /\ Second \in Nat /\ Horizon \in Nat
  BY TimerConstants, Products DEF TypesOK
<1> QED
  BY <1>1, <1>2, <1>3 DEF OldestEnd, WithinAWeek

LEMMA SwitchBaseInv ==
  ASSUME TypesOK, Heaps, PostExpired, WeekOld, SwitchBase, WithinAWeek
  PROVE  IInv'
<1> DEFINE cur == Past(curheap, CurDue)
           old == Past(oldheap, OldDue)
           later == Later(old, base_diff)
<1>1. /\ cur \in Seq(Timers) /\ ToSet(cur) \subseteq ToSet(curheap) /\ InOrder(cur, Sooner)
      /\ old \in Seq(Timers) /\ ToSet(old) = {t \in ToSet(oldheap) : t.off > OldDue}
  BY HalfElements DEF TypesOK, Heaps
<1>2. Now.time \in Nat /\ Now.off \in 0..Second-1 /\ Now.time * Second + Now.off = clock
  BY NowValue DEF TypesOK
<1>3. ToSet(old) = {}
  <2>1. OldDue \in Int /\ \A t \in ToSet(oldheap) : t.off \in Nat
    <3>1. old_base \in Nat /\ old_base <= Now.time
      BY <1>2 DEF TypesOK
    <3>2. OldDue = clock - old_base * Second /\ old_base * Second \in Nat
      BY <3>1, SinceBase, TimerConstants, Products DEF OldDue, TypesOK
    <3> QED
      BY <3>2, ListElements, TimerType DEF TypesOK
  <2> QED
    BY <1>1, <2>1, OldHeapDone
<1> HIDE DEF cur, old
<1>4. later \in Seq(Timers) /\ ToSet(later) = {}
  BY <1>1, <1>3, BaseDiffType, LaterElements
<1> HIDE DEF later
<1>5. /\ oldheap' = Merge(cur, later) /\ curheap' = <<>>
      /\ old_base' = current_base /\ current_base' = Now.time
      /\ base_diff' = Minus(Base(Now.time), Base(current_base))
      /\ clock' = clock /\ wanted' = wanted /\ Now' = Now
  BY DEF SwitchBase, PostExpired, Now, cur, old, later
<1>6. /\ oldheap' \in Seq(Timers) /\ ToSet(oldheap') = ToSet(cur)
      /\ InOrder(oldheap', Sooner)
  <2>1. /\ Merge(cur, later) \in Seq(Timers)
        /\ ToSet(Merge(cur, later)) = ToSet(cur) \cup ToSet(later)
        /\ InOrder(Merge(cur, later), Sooner)
    BY <1>1, <1>4, MergeElements
  <2> QED
    BY <1>4, <1>5, <2>1
<1>7. /\ curheap' \in Seq(Timers) /\ ToSet(curheap') = {} /\ InOrder(curheap', Sooner)
  BY <1>5 DEF ToSet, InOrder
<1>8. current_base \in Nat /\ current_base < Now.time
  BY <1>2 DEF TypesOK, WeekOld
<1>9. base_diff' = (current_base' - old_base') * Second
  <2> DEFINE d == (Now.time - current_base) * Second
  <2>1. d \in Nat
    BY <1>2, <1>8, TimerConstants, Products
  <2>2. Minus(Base(Now.time), Base(current_base)) =
          IF d < 0 THEN IF 0 < -d THEN 0 ELSE Apart(0 + d, 0)
          ELSE IF d = 0 \/ 0 >= 0 THEN d + Apart(0, 0)
          ELSE Apart(d, 0 - 0)
    BY DEF Minus, Base, At
  <2> HIDE DEF d
  <2>3. Minus(Base(Now.time), Base(current_base)) = d
    BY <2>1, <2>2 DEF Apart
  <2> QED
    BY <1>5, <2>3 DEF d
<1>10. posted' \in Seq(Events) /\ SameBaseInOrder'
  BY PostedInOrder
<1>11. TypesOK'
  BY <1>2, <1>5, <1>6, <1>7, <1>8, <1>9, <1>10 DEF TypesOK
<1>12. KeptBy(oldheap, old_base)' /\ KeptBy(curheap, current_base)'
  BY <1>1, <1>5, <1>6, <1>7 DEF Heaps, KeptBy
<1>13. NoLaterThan(curheap, clock + Horizon)'
  BY <1>7 DEF NoLaterThan
<1>14. NoLaterThan(oldheap, OldestEnd)'
  <2>1. ASSUME NEW t \in ToSet(cur)
        PROVE  wanted[t.ev].at <= Now.time * Second + (Second - 1) + Horizon
    <3>1. wanted[t.ev].at \in Nat /\ wanted[t.ev].at <= clock + Horizon
      BY <1>1 DEF Heaps, KeptBy, NoLaterThan, Wants
    <3>2. Now.time * Second \in Nat /\ Second \in Nat \ {0} /\ Horizon \in Nat
      BY <1>2, TimerConstants, Products
    <3> QED
      BY <1>2, <3>1, <3>2
  <2> QED
    BY <1>5, <1>6, <2>1 DEF NoLaterThan, OldestEnd
<1>15. Heaps'
  BY <1>5, <1>6, <1>7, <1>8, <1>12, <1>13, <1>14 DEF Heaps
<1> QED
  BY <1>10, <1>11, <1>15 DEF IInv

LEMMA NextInv == WithinAWeek /\ IInv /\ [Next]_vars => IInv'
<1> SUFFICES ASSUME WithinAWeek, IInv, [Next]_vars PROVE IInv'
  OBVIOUS
<1>1. CASE \E t \in Times, e \in Events : PostAt(t, e)
  BY <1>1, PostAtInv DEF IInv
<1>2. CASE PostExpired
  BY <1>2, KeepBaseInv, SwitchBaseInv DEF IInv, PostExpired
<1>3. CASE TimePasses
  BY <1>3, TimePassesInv DEF IInv
<1>4. CASE UNCHANGED vars
  BY <1>4 DEF vars, IInv, TypesOK, Heaps, KeptBy, NoLaterThan, OldestEnd, Now,
              SameBaseInOrder
<1> QED
  BY <1>1, <1>2, <1>3, <1>4 DEF Next

-----------------------------------------------------------------------------
(* nextExpirationIn.                                                       *)

\* How long it still is to a time.
Until(at) == IF at <= clock THEN 0 ELSE at - clock

LEMMA UntilIsMax ==
  ASSUME clock \in Nat, NEW at \in Nat
  PROVE  Max({at - clock, 0}) = Until(at) /\ Until(at) \in Nat
  BY MaxOfTwo DEF Until

LEMMA MinWith ==
  ASSUME NEW m \in Int, NEW W \in SUBSET Int, NEW l \in W, \A x \in W : l <= x
  PROVE  Min({m} \cup W) = IF m < l THEN m ELSE l
<1> DEFINE r == IF m < l THEN m ELSE l
<1>1. r \in {m} \cup W /\ \A y \in {m} \cup W : r <= y
  OBVIOUS
<1>2. \A x \in {m} \cup W : (\A y \in {m} \cup W : x <= y) => x = r
  BY <1>1
<1> HIDE DEF r
<1>3. Min({m} \cup W) = r
  BY <1>1, <1>2 DEF Min
<1> QED
  BY <1>3 DEF r

\* The first timer of a heap is the one that it is least long to.
LEMMA FirstOfHeap ==
  ASSUME clock \in Nat, NEW heap \in Seq(Timers), heap # <<>>, InOrder(heap, Sooner),
         NEW b \in Nat, b <= Now.time, KeptBy(heap, b)
  PROVE  /\ First(heap, b).time = b /\ First(heap, b).off \in Nat
         /\ Value(First(heap, b)) \in Nat
         /\ \E t \in ToSet(heap) : Until(Value(First(heap, b))) = Until(wanted[t.ev].at)
         /\ \A t \in ToSet(heap) : Until(Value(First(heap, b))) <= Until(wanted[t.ev].at)
<1> DEFINE h == Head(heap)
           f == First(heap, b)
           q == b * Second
<1>1. h \in ToSet(heap) /\ \A t \in ToSet(heap) : h.off <= t.off
  BY HeadSoonest
<1>2. f.time = b /\ f.off = h.off /\ Value(f) = q + h.off
  BY DEF First, At, Value
<1>3. q \in Nat /\ q <= clock
  BY SinceBase, TimerConstants, Products
<1> HIDE DEF q, f, h
<1>4. ASSUME NEW t \in ToSet(heap)
      PROVE  /\ t.off \in Nat /\ wanted[t.ev].at \in Nat
             /\ Until(q + t.off) = Until(wanted[t.ev].at)
  <2>1. wanted[t.ev].at \in Nat /\ t.off = Due(wanted[t.ev].at, b)
    BY DEF KeptBy, Wants
  <2>2. t.off = IF wanted[t.ev].at < q THEN 0 ELSE wanted[t.ev].at - q
    BY <2>1 DEF Due, q
  <2> QED
    BY <1>3, <2>1, <2>2 DEF Until
<1>5. \A t \in ToSet(heap) : Until(q + h.off) <= Until(q + t.off)
  BY <1>1, <1>3, <1>4 DEF Until
<1> QED
  BY <1>1, <1>2, <1>3, <1>4, <1>5 DEF f

\* Taking now from a time, as nextExpirationIn does, when the time is not past.
LEMMA MinusNow ==
  ASSUME clock \in Nat, NEW f, f.time \in Nat, f.off \in Nat, f.time <= Now.time
  PROVE  IF Less(Now, f) THEN Minus(f, Now) = Until(Value(f)) ELSE Until(Value(f)) = 0
<1>1. /\ Now.time \in Nat /\ Now.off \in 0..Second-1 /\ Second \in Nat
      /\ Now.time * Second + Now.off = clock
  BY NowValue, TimerConstants
<1> DEFINE p == f.time * Second
           q == Now.time * Second
           d == (f.time - Now.time) * Second
<1>2. p \in Nat /\ q \in Nat /\ p <= q /\ d = p - q /\ (f.time = Now.time => p = q)
  BY <1>1, Products
<1>3. q + Now.off = clock /\ Value(f) = p + f.off
  BY <1>1 DEF Value
<1>4. Less(Now, f) <=> IF Now.time = f.time THEN Now.off <= f.off ELSE clock < Value(f)
  BY NowValue DEF Less
<1>5. Minus(f, Now) = IF d < 0 THEN IF f.off < -d THEN 0 ELSE Apart(f.off + d, Now.off)
                      ELSE IF d = 0 \/ f.off >= Now.off THEN d + Apart(f.off, Now.off)
                      ELSE Apart(d, Now.off - f.off)
  BY DEF Minus
<1> HIDE DEF p, q, d
<1>6. CASE Less(Now, f)
  <2>1. clock <= Value(f)
    BY <1>1, <1>2, <1>3, <1>4, <1>6
  <2>2. d <= 0 /\ f.off >= -d /\ f.off + d >= Now.off
    BY <1>1, <1>2, <1>3, <2>1
  <2>3. Minus(f, Now) = (f.off + d) - Now.off
    BY <1>1, <1>2, <1>5, <2>2 DEF Apart
  <2> QED
    BY <1>1, <1>2, <1>3, <1>6, <2>1, <2>3 DEF Until
<1>7. CASE ~ Less(Now, f)
  <2>1. Value(f) <= clock
    BY <1>1, <1>2, <1>3, <1>4, <1>7
  <2> QED
    BY <1>7, <2>1 DEF Until
<1> QED
  BY <1>6, <1>7

LEMMA EmptyHeap ==
  ASSUME NEW heap \in Seq(Timers)
  PROVE  ToSet(heap) = {} <=> heap = <<>>
<1>1. Len(heap) \in Nat /\ (Len(heap) = 0 <=> heap = <<>>)
  OBVIOUS
<1>2. Len(heap) # 0 => heap[1] \in ToSet(heap)
  BY <1>1 DEF ToSet
<1>3. Len(heap) = 0 => ToSet(heap) = {}
  BY DEF ToSet
<1> QED
  BY <1>1, <1>2, <1>3

\* The timer nextExpirationIn looks at is one that it is least long to.
LEMMA EarliestIsFirst ==
  ASSUME TypesOK, Heaps, curheap # <<>> \/ oldheap # <<>>
  PROVE  /\ Earliest.time \in Nat /\ Earliest.off \in Nat /\ Earliest.time <= Now.time
         /\ Value(Earliest) \in Nat
         /\ \E e \in Pending : Until(Value(Earliest)) = Until(wanted[e].at)
         /\ \A e \in Pending : Until(Value(Earliest)) <= Until(wanted[e].at)
<1> DEFINE cur == First(curheap, current_base)
           old == First(oldheap, old_base)
<1>1. /\ clock \in Nat /\ Now.time \in Nat
      /\ current_base \in Nat /\ current_base <= Now.time
      /\ old_base \in Nat /\ old_base <= Now.time
  BY NowValue DEF TypesOK
<1>2. ASSUME curheap # <<>>
      PROVE  /\ cur.time = current_base /\ cur.off \in Nat /\ Value(cur) \in Nat
             /\ \E t \in ToSet(curheap) : Until(Value(cur)) = Until(wanted[t.ev].at)
             /\ \A t \in ToSet(curheap) : Until(Value(cur)) <= Until(wanted[t.ev].at)
  BY <1>1, <1>2, FirstOfHeap DEF TypesOK, Heaps
<1>3. ASSUME oldheap # <<>>
      PROVE  /\ old.time = old_base /\ old.off \in Nat /\ Value(old) \in Nat
             /\ \E t \in ToSet(oldheap) : Until(Value(old)) = Until(wanted[t.ev].at)
             /\ \A t \in ToSet(oldheap) : Until(Value(old)) <= Until(wanted[t.ev].at)
             /\ old_base < current_base
  <2>1. old_base < current_base
    BY <1>3, EmptyHeap DEF TypesOK, Heaps
  <2> QED
    BY <1>1, <1>3, <2>1, FirstOfHeap DEF TypesOK, Heaps
<1>4. /\ ToSet(curheap) = {} <=> curheap = <<>>
      /\ ToSet(oldheap) = {} <=> oldheap = <<>>
  BY EmptyHeap DEF TypesOK
<1>5. Pending = {t.ev : t \in ToSet(curheap) \cup ToSet(oldheap)}
  BY PendingElements
<1>6. Earliest = IF curheap = <<>> THEN old
                 ELSE IF oldheap # <<>> /\ Less(old, cur) THEN old ELSE cur
  BY DEF Earliest
<1> HIDE DEF cur, old
<1>7. CASE curheap = <<>>
  BY <1>1, <1>3, <1>4, <1>5, <1>6, <1>7
<1>8. CASE curheap # <<>> /\ oldheap = <<>>
  BY <1>1, <1>2, <1>4, <1>5, <1>6, <1>8
<1>9. CASE curheap # <<>> /\ oldheap # <<>>
  <2>1. Less(old, cur) <=> Value(old) < Value(cur)
    BY <1>1, <1>2, <1>3, <1>9 DEF Less
  <2>2. \A a, b \in Nat : a <= b => Until(a) <= Until(b)
    BY <1>1 DEF Until
  <2>3. ASSUME NEW t \in ToSet(curheap) \cup ToSet(oldheap)
        PROVE  wanted[t.ev].at \in Nat /\ Until(wanted[t.ev].at) \in Nat
    <3>1. wanted[t.ev].at \in Nat
      BY DEF Heaps, KeptBy, Wants
    <3> QED
      BY <1>1, <3>1, UntilIsMax
  <2>4. Until(Value(old)) \in Nat /\ Until(Value(cur)) \in Nat
    BY <1>1, <1>2, <1>3, <1>9, UntilIsMax
  <2>5. CASE Less(old, cur)
    <3>1. Earliest = old /\ Until(Value(old)) <= Until(Value(cur))
      BY <1>2, <1>3, <1>6, <1>9, <2>1, <2>2, <2>5
    <3>2. \A t \in ToSet(curheap) \cup ToSet(oldheap) :
            Until(Value(old)) <= Until(wanted[t.ev].at)
      BY <1>2, <1>3, <1>9, <2>3, <2>4, <3>1
    <3> QED
      BY <1>1, <1>3, <1>5, <1>9, <3>1, <3>2
  <2>6. CASE ~ Less(old, cur)
    <3>1. Earliest = cur /\ Until(Value(cur)) <= Until(Value(old))
      BY <1>2, <1>3, <1>6, <1>9, <2>1, <2>2, <2>6
    <3>2. \A t \in ToSet(curheap) \cup ToSet(oldheap) :
            Until(Value(cur)) <= Until(wanted[t.ev].at)
      BY <1>2, <1>3, <1>9, <2>3, <2>4, <3>1
    <3> QED
      BY <1>1, <1>2, <1>5, <1>9, <3>1, <3>2
  <2> QED
    BY <2>5, <2>6
<1> QED
  BY <1>7, <1>8, <1>9

LEMMA NextExpirationRight ==
  ASSUME TypesOK, Heaps
  PROVE  NextIsNext
<1> DEFINE W == {Max({wanted[e].at - clock, 0}) : e \in Pending}
<1>1. ASSUME NEW maxtime \in Nat PROVE NextExpirationIn(maxtime) = Min({maxtime} \cup W)
  <2>1. ASSUME NEW e \in Pending
        PROVE  Max({wanted[e].at - clock, 0}) = Until(wanted[e].at) /\ Until(wanted[e].at) \in Nat
    <3>1. wanted[e].at \in Nat /\ clock \in Nat
      BY PendingElements DEF TypesOK, Heaps, KeptBy, Wants
    <3> QED
      BY <3>1, UntilIsMax
  <2>2. W \in SUBSET Int
    <3> SUFFICES ASSUME NEW x \in W PROVE x \in Int
      OBVIOUS
    <3>1. PICK e \in Pending : x = Max({wanted[e].at - clock, 0})
      OBVIOUS
    <3>2. Max({wanted[e].at - clock, 0}) \in Nat
      BY <2>1
    <3> QED
      BY <3>1, <3>2
  <2>3. (Pending = {} <=> curheap = <<>> /\ oldheap = <<>>)
    BY PendingElements, EmptyHeap DEF TypesOK
  <2>4. CASE Pending = {}
    <3>1. {maxtime} \cup W = {maxtime}
      BY <2>4
    <3> HIDE DEF W
    <3>2. Min({maxtime} \cup W) = maxtime
      BY <3>1 DEF Min
    <3> QED
      BY <2>3, <2>4, <3>2 DEF NextExpirationIn
  <2>5. CASE Pending # {}
    <3> DEFINE l == Until(Value(Earliest))
    <3>1. /\ Earliest.time \in Nat /\ Earliest.off \in Nat /\ Earliest.time <= Now.time
          /\ Value(Earliest) \in Nat
          /\ \E e \in Pending : l = Until(wanted[e].at)
          /\ \A e \in Pending : l <= Until(wanted[e].at)
      BY <2>3, <2>5, EarliestIsFirst
    <3>2. l \in W /\ \A x \in W : l <= x
      BY <2>1, <3>1
    <3>3. IF Less(Now, Earliest) THEN Minus(Earliest, Now) = l ELSE l = 0
      BY <3>1, MinusNow DEF TypesOK
    <3> HIDE DEF W, l
    <3>4. Min({maxtime} \cup W) = IF maxtime < l THEN maxtime ELSE l
      BY <2>2, <3>2, MinWith
    <3>5. NextExpirationIn(maxtime) = IF ~Less(Now, Earliest) THEN 0
                                      ELSE IF maxtime < Minus(Earliest, Now) THEN maxtime
                                      ELSE Minus(Earliest, Now)
      BY <2>3, <2>5 DEF NextExpirationIn
    <3> QED
      BY <3>3, <3>4, <3>5
  <2> QED
    BY <2>4, <2>5
<1>2. {0, Second, MaxClock} \subseteq Nat
  BY TimerConstants
<1> QED
  BY <1>1, <1>2 DEF NextIsNext

LEMMA InvTypes == IInv => TypeOK
<1> SUFFICES ASSUME IInv PROVE TypeOK
  OBVIOUS
<1>1. Pending \subseteq Events
  BY ListElements, TimerType, PendingElements DEF IInv, TypesOK
<1>2. Now.time \in Nat
  BY NowValue DEF IInv, TypesOK
<1>3. \A e \in Pending : wanted[e] \in [at : Nat, base : 0..current_base]
  BY PendingElements DEF IInv, TypesOK, Heaps, KeptBy, Wants
<1> QED
  BY <1>1, <1>2, <1>3 DEF TypeOK, IInv, TypesOK

-----------------------------------------------------------------------------
(* The theorems.                                                           *)

\* The invariant the others rest on: each heap is in order, and holds timers set
\* under its own base only.
THEOREM Invariant == WithinAWeek => (Spec => []IInv)
<1> SUFFICES ASSUME WithinAWeek PROVE Spec => []IInv
  OBVIOUS
<1>1. Init => IInv
  BY InitInv
<1>2. IInv /\ [Next]_vars => IInv'
  BY NextInv
<1> QED
  BY <1>1, <1>2, PTL DEF Spec

\* The variables keep their types, the old base is never later than the base in
\* use, nor that than the present, and base_diff_ is the difference of the two.
THEOREM TypeCorrect == WithinAWeek => (Spec => []TypeOK)
<1> SUFFICES ASSUME WithinAWeek PROVE Spec => []TypeOK
  OBVIOUS
<1> QED
  BY Invariant, InvTypes, PTL

\* postExpired posts the timers whose time has come, all of them and no others,
\* for any number of timers and any length of the week, also when it replaces
\* the base, as long as no timer is set more than a week ahead.
THEOREM PostsExpired == WithinAWeek => (Spec => PostsTheExpired)
<1> SUFFICES ASSUME WithinAWeek PROVE Spec => PostsTheExpired
  OBVIOUS
<1>1. IInv /\ [Next]_vars
        => [PostExpired => ToSet(posted') = {e \in Pending : wanted[e].at <= clock}]_vars
  BY PostedAreExpired DEF IInv
<1> QED
  BY <1>1, Invariant, PTL DEF Spec, PostsTheExpired

\* nextExpirationIn is how long it is to the next timer, and at most maxtime.
THEOREM NextExpiration == WithinAWeek => (Spec => []NextIsNext)
<1> SUFFICES ASSUME WithinAWeek PROVE Spec => []NextIsNext
  OBVIOUS
<1>1. IInv => NextIsNext
  BY NextExpirationRight DEF IInv
<1> QED
  BY <1>1, Invariant, PTL

\* Timers that expire together are posted in the order of their times, those of
\* the same base at least.
THEOREM PostsInOrder == WithinAWeek => (Spec => []SameBaseInOrder)
<1> SUFFICES ASSUME WithinAWeek PROVE Spec => []SameBaseInOrder
  OBVIOUS
<1>1. IInv => SameBaseInOrder
  BY DEF IInv
<1> QED
  BY <1>1, Invariant, PTL
=============================================================================
