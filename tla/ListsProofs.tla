---------------------------- MODULE ListsProofs ----------------------------
(***************************************************************************)
(* Induction over the naturals, in the form the provers can use (a set in  *)
(* place of a predicate), and what Only returns.                           *)
(***************************************************************************)
EXTENDS Lists, SequencesExt, TLAPS, WellFoundedInduction, SequenceTheorems

\* Every set of naturals has a least element: the well-foundedness of < on the
\* naturals, without an operator as a parameter.
LEMMA LeastNat ==
  ASSUME NEW T \in SUBSET Nat, T # {}
  PROVE  \E x \in T : \A y \in T : x <= y
<1> DEFINE R == OpToRel(<, Nat)
<1>1. IsWellFoundedOn(R, Nat)
  BY NatLessThanWellFounded
<1>2. PICK x \in T : \A y \in T : ~ (<<y, x>> \in R)
  <2> HIDE DEF R
  <2> QED
    BY <1>1, WFMin
<1>3. \A y \in T : ~ (y < x)
  BY <1>2 DEF OpToRel
<1> HIDE DEF R
<1>4. \A y \in T : x <= y
  BY <1>3, T \subseteq Nat
<1> QED
  BY <1>4

\* Induction, for the set of the numbers that have the property.
LEMMA InductSet ==
  ASSUME NEW T \in SUBSET Nat, 0 \in T, \A n \in T : n + 1 \in T
  PROVE  T = Nat
<1> SUFFICES ASSUME Nat \ T # {} PROVE FALSE
  OBVIOUS
<1>1. PICK x \in Nat \ T : \A y \in Nat \ T : x <= y
  BY LeastNat
<1>2. x - 1 \in T
  BY <1>1
<1> QED
  BY <1>1, <1>2

\* Induction up to a bound.
LEMMA InductUpTo ==
  ASSUME NEW m \in Nat, NEW T, 0 \in T, \A n \in 0..m-1 : n \in T => n + 1 \in T
  PROVE  \A n \in 0..m : n \in T
<1> DEFINE U == {n \in Nat : n <= m => n \in T}
<1>1. 0 \in U
  OBVIOUS
<1>2. \A n \in U : n + 1 \in U
  OBVIOUS
<1> HIDE DEF U
<1>3. U = Nat
  BY <1>1, <1>2, InductSet DEF U
<1> QED
  BY <1>3 DEF U

-----------------------------------------------------------------------------
(* Only.                                                                   *)

\* The function Only is defined by.
IsKept(k, s, S, n) ==
  k = [i \in 0..n |->
         IF i = 0 THEN <<>>
         ELSE IF s[i] \in S THEN Append(k[i-1], s[i]) ELSE k[i-1]]

\* It exists, by induction on its domain.
LEMMA KeptExists ==
  ASSUME NEW s, NEW S, NEW n \in Nat
  PROVE  \E k : IsKept(k, s, S, n)
<1> DEFINE T == {m \in Nat : \E k : IsKept(k, s, S, m)}
<1>1. 0 \in T
  <2>1. IsKept([i \in 0..0 |-> <<>>], s, S, 0)
    BY DEF IsKept
  <2> QED
    BY <2>1
<1>2. ASSUME NEW m \in T PROVE m + 1 \in T
  <2>1. PICK k : IsKept(k, s, S, m)
    OBVIOUS
  <2> DEFINE Next(p, x) == IF x \in S THEN Append(p, x) ELSE p
             h == [i \in 0..m+1 |-> IF i <= m THEN k[i] ELSE Next(k[m], s[m+1])]
             g == [i \in 0..m+1 |-> IF i = 0 THEN <<>>
                                    ELSE IF s[i] \in S THEN Append(h[i-1], s[i]) ELSE h[i-1]]
  <2>2. \A i \in 0..m : k[i] = IF i = 0 THEN <<>> ELSE Next(k[i-1], s[i])
    BY <2>1 DEF IsKept
  <2>3. ASSUME NEW i \in 0..m+1 PROVE h[i] = g[i]
    <3>1. CASE i = 0
      BY <3>1, <2>2
    <3>2. CASE i \in 1..m
      BY <3>2, <2>2
    <3>3. CASE i = m + 1
      BY <3>3
    <3> QED
      BY <3>1, <3>2, <3>3
  <2>4. h = g
    BY <2>3
  <2>5. IsKept(h, s, S, m + 1)
    BY <2>4 DEF IsKept
  <2> HIDE DEF h
  <2> QED
    BY <2>5
<1> HIDE DEF T
<1>3. T = Nat
  BY <1>1, <1>2, InductSet DEF T
<1> QED
  BY <1>3 DEF T

\* What each turn of the loop does to the result so far.
LEMMA OnlyTurns ==
  ASSUME NEW s, NEW S, Len(s) \in Nat
  PROVE  \E k : /\ k[0] = <<>>
                /\ \A i \in 1..Len(s) :
                     k[i] = IF s[i] \in S THEN Append(k[i-1], s[i]) ELSE k[i-1]
                /\ Only(s, S) = k[Len(s)]
<1> DEFINE k == CHOOSE k : IsKept(k, s, S, Len(s))
<1>1. IsKept(k, s, S, Len(s))
  BY KeptExists
<1>2. Only(s, S) = k[Len(s)]
  BY DEF Only, IsKept
<1> HIDE DEF k
<1>3. \A i \in 0..Len(s) : k[i] = IF i = 0 THEN <<>>
                                  ELSE IF s[i] \in S THEN Append(k[i-1], s[i]) ELSE k[i-1]
  BY <1>1 DEF IsKept
<1> QED
  BY <1>2, <1>3

\* The elements of the lists the models make.
LEMMA AppendElements ==
  ASSUME NEW D, NEW s \in Seq(D), NEW x \in D
  PROVE  /\ Append(s, x) \in Seq(D)
         /\ ToSet(Append(s, x)) = ToSet(s) \cup {x}
<1>1. Append(s, x) \in Seq(D) /\ Len(Append(s, x)) = Len(s) + 1
  OBVIOUS
<1>2. \A i \in 1..Len(s) : Append(s, x)[i] = s[i]
  OBVIOUS
<1>3. Append(s, x)[Len(s)+1] = x
  OBVIOUS
<1>4. DOMAIN Append(s, x) = 1..Len(s)+1 /\ DOMAIN s = 1..Len(s) /\ Len(s) \in Nat
  OBVIOUS
<1> QED
  BY <1>1, <1>2, <1>3, <1>4 DEF ToSet

LEMMA ConcatElements ==
  ASSUME NEW D, NEW s \in Seq(D), NEW t \in Seq(D)
  PROVE  /\ s \o t \in Seq(D)
         /\ ToSet(s \o t) = ToSet(s) \cup ToSet(t)
<1>1. /\ s \o t \in Seq(D) /\ Len(s \o t) = Len(s) + Len(t)
      /\ Len(s) \in Nat /\ Len(t) \in Nat
  OBVIOUS
<1>2. \A i \in 1..Len(s) : (s \o t)[i] = s[i]
  OBVIOUS
<1>3. \A i \in 1..Len(t) : (s \o t)[Len(s)+i] = t[i]
  OBVIOUS
<1>4. /\ DOMAIN (s \o t) = 1..Len(s)+Len(t)
      /\ DOMAIN s = 1..Len(s) /\ DOMAIN t = 1..Len(t)
  OBVIOUS
<1>5. ToSet(s) \cup ToSet(t) \subseteq ToSet(s \o t)
  <2>1. ASSUME NEW i \in 1..Len(s) PROVE s[i] \in ToSet(s \o t)
    BY <1>1, <1>2, <1>4, i \in 1..Len(s)+Len(t) DEF ToSet
  <2>2. ASSUME NEW i \in 1..Len(t) PROVE t[i] \in ToSet(s \o t)
    BY <1>1, <1>3, <1>4, Len(s) + i \in 1..Len(s)+Len(t) DEF ToSet
  <2> QED
    BY <1>4, <2>1, <2>2 DEF ToSet
<1>6. ASSUME NEW i \in 1..Len(s)+Len(t) PROVE (s \o t)[i] \in ToSet(s) \cup ToSet(t)
  <2>1. CASE i \in 1..Len(s)
    BY <1>2, <1>4, <2>1 DEF ToSet
  <2>2. CASE i - Len(s) \in 1..Len(t)
    BY <1>1, <1>3, <1>4, <2>2 DEF ToSet
  <2> QED
    BY <1>1, <2>1, <2>2
<1> QED
  BY <1>1, <1>4, <1>5, <1>6 DEF ToSet

LEMMA TailElements ==
  ASSUME NEW D, NEW s \in Seq(D), s # <<>>
  PROVE  /\ Tail(s) \in Seq(D) /\ Head(s) \in D
         /\ ToSet(s) = {Head(s)} \cup ToSet(Tail(s))
<1>1. /\ Tail(s) \in Seq(D) /\ Head(s) \in D /\ Head(s) = s[1]
      /\ Len(s) \in Nat \ {0} /\ Len(Tail(s)) = Len(s) - 1
  OBVIOUS
<1>2. \A i \in 1..Len(s)-1 : Tail(s)[i] = s[i+1]
  OBVIOUS
<1>3. DOMAIN s = 1..Len(s) /\ DOMAIN Tail(s) = 1..Len(s)-1
  OBVIOUS
<1>4. {Head(s)} \cup ToSet(Tail(s)) \subseteq ToSet(s)
  BY <1>1, <1>2, <1>3 DEF ToSet
<1>5. ASSUME NEW i \in 1..Len(s) PROVE s[i] \in {Head(s)} \cup ToSet(Tail(s))
  <2>1. CASE i = 1
    BY <1>1, <2>1
  <2>2. CASE i - 1 \in 1..Len(s)-1
    <3>1. Tail(s)[i-1] = s[i]
      BY <1>2, <2>2
    <3> QED
      BY <1>3, <2>2, <3>1 DEF ToSet
  <2> QED
    BY <1>1, <2>1, <2>2
<1> QED
  BY <1>1, <1>3, <1>4, <1>5 DEF ToSet

LEMMA ListElements ==
  ASSUME NEW D, NEW s \in Seq(D)
  PROVE  ToSet(s) \subseteq D
  BY DEF ToSet

\* A call stack on which a frame is pushed.
LEMMA PushedOn ==
  ASSUME NEW D, NEW s \in Seq(D), NEW x \in D
  PROVE  /\ <<x>> \o s \in Seq(D) /\ <<x>> \o s # <<>>
         /\ Head(<<x>> \o s) = x /\ Tail(<<x>> \o s) = s
         /\ Len(<<x>> \o s) = Len(s) + 1 /\ Len(s) \in Nat
         /\ (<<x>> \o s)[1] = x
         /\ \A k \in 1..Len(s) : (<<x>> \o s)[k+1] = s[k]
  OBVIOUS

\* A call stack from which the top frame is popped.
LEMMA PoppedOff ==
  ASSUME NEW D, NEW s \in Seq(D), s # <<>>
  PROVE  /\ Head(s) \in D /\ Tail(s) \in Seq(D) /\ s = <<Head(s)>> \o Tail(s)
         /\ Len(s) \in Nat \ {0} /\ Len(Tail(s)) = Len(s) - 1
         /\ Head(s) = s[1]
         /\ \A k \in 1..Len(s)-1 : Tail(s)[k] = s[k+1]
  OBVIOUS

\* Only returns a list of the elements of the list that are in the set.
LEMMA OnlyElements ==
  ASSUME NEW D, NEW s \in Seq(D), NEW S
  PROVE  /\ Only(s, S) \in Seq(D)
         /\ ToSet(Only(s, S)) = ToSet(s) \cap S
<1>1. PICK k : /\ k[0] = <<>>
               /\ \A i \in 1..Len(s) :
                    k[i] = IF s[i] \in S THEN Append(k[i-1], s[i]) ELSE k[i-1]
               /\ Only(s, S) = k[Len(s)]
  BY OnlyTurns
<1> DEFINE UpTo(n) == {s[i] : i \in 1..n}
           Right(n) == k[n] \in Seq(D) /\ ToSet(k[n]) = UpTo(n) \cap S
           T == {n \in 0..Len(s) : Right(n)}
<1>2. 0 \in T
  <2>1. <<>> \in Seq(D) /\ ToSet(<<>>) = {}
    BY DEF ToSet
  <2>2. UpTo(0) = {}
    OBVIOUS
  <2> QED
    BY <1>1, <2>1, <2>2, 0 \in 0..Len(s)
<1>3. ASSUME NEW n \in 0..Len(s)-1, n \in T PROVE n + 1 \in T
  <2>1. n + 1 \in 1..Len(s) /\ s[n+1] \in D /\ Right(n) /\ (n + 1) - 1 = n
    BY <1>3
  <2>2. UpTo(n+1) = UpTo(n) \cup {s[n+1]}
    OBVIOUS
  <2>3. k[n+1] = IF s[n+1] \in S THEN Append(k[n], s[n+1]) ELSE k[n]
    BY <1>1, <2>1
  <2> HIDE DEF UpTo
  <2>4. Right(n+1)
    <3>1. /\ Append(k[n], s[n+1]) \in Seq(D)
          /\ ToSet(Append(k[n], s[n+1])) = ToSet(k[n]) \cup {s[n+1]}
      BY <2>1, AppendElements
    <3>2. CASE s[n+1] \in S
      BY <2>1, <2>2, <2>3, <3>1, <3>2
    <3>3. CASE s[n+1] \notin S
      BY <2>1, <2>2, <2>3, <3>3
    <3> QED
      BY <3>2, <3>3
  <2> QED
    BY <2>1, <2>4
<1> HIDE DEF T
<1>4. Len(s) \in T
  <2>1. Len(s) \in Nat /\ Len(s) \in 0..Len(s)
    OBVIOUS
  <2>2. \A n \in 0..Len(s)-1 : n \in T => n + 1 \in T
    BY <1>3
  <2>3. \A n \in 0..Len(s) : n \in T
    BY ONLY <1>2, <2>1, <2>2, InductUpTo
  <2> QED
    BY <2>1, <2>3
<1>5. ToSet(s) = {s[i] : i \in 1..Len(s)}
  BY DEF ToSet
<1> QED
  BY <1>1, <1>4, <1>5 DEF T

-----------------------------------------------------------------------------
(* Lists in order: each element stands in the relation R, a set of pairs,  *)
(* to all that come after it.                                              *)

InOrder(s, R) == \A i, j \in 1..Len(s) : i < j => <<s[i], s[j]>> \in R

LEMMA AppendInOrder ==
  ASSUME NEW D, NEW s \in Seq(D), NEW x \in D, NEW R, InOrder(s, R),
         \A y \in ToSet(s) : <<y, x>> \in R
  PROVE  InOrder(Append(s, x), R)
<1>1. /\ Len(Append(s, x)) = Len(s) + 1 /\ Len(s) \in Nat
      /\ Append(s, x)[Len(s)+1] = x
      /\ \A i \in 1..Len(s) : Append(s, x)[i] = s[i]
  OBVIOUS
<1>2. \A i \in 1..Len(s) : s[i] \in ToSet(s)
  BY DEF ToSet
<1>3. ASSUME NEW i \in 1..Len(s)+1, NEW j \in 1..Len(s)+1, i < j
      PROVE  <<Append(s, x)[i], Append(s, x)[j]>> \in R
  <2>1. CASE j = Len(s) + 1
    BY <1>1, <1>2, <1>3, <2>1
  <2>2. CASE i \in 1..Len(s) /\ j \in 1..Len(s)
    BY <1>1, <1>3, <2>2 DEF InOrder
  <2> QED
    BY <1>1, <1>3, <2>1, <2>2
<1> QED
  BY <1>1, <1>3 DEF InOrder

LEMMA ConcatInOrder ==
  ASSUME NEW D, NEW s \in Seq(D), NEW t \in Seq(D), NEW R,
         InOrder(s, R), InOrder(t, R),
         \A x \in ToSet(s), y \in ToSet(t) : <<x, y>> \in R
  PROVE  InOrder(s \o t, R)
<1>1. /\ Len(s \o t) = Len(s) + Len(t) /\ Len(s) \in Nat /\ Len(t) \in Nat
      /\ \A i \in 1..Len(s) : (s \o t)[i] = s[i]
      /\ \A i \in Len(s)+1..Len(s)+Len(t) : (s \o t)[i] = t[i - Len(s)]
  OBVIOUS
<1>2. /\ \A i \in 1..Len(s) : s[i] \in ToSet(s)
      /\ \A i \in 1..Len(t) : t[i] \in ToSet(t)
  BY DEF ToSet
<1>3. ASSUME NEW i \in 1..Len(s)+Len(t), NEW j \in 1..Len(s)+Len(t), i < j
      PROVE  <<(s \o t)[i], (s \o t)[j]>> \in R
  <2>1. CASE j \in 1..Len(s)
    BY <1>1, <1>3, <2>1, i \in 1..Len(s) DEF InOrder
  <2>2. CASE i \in Len(s)+1..Len(s)+Len(t)
    <3>1. /\ j \in Len(s)+1..Len(s)+Len(t) /\ i - Len(s) < j - Len(s)
          /\ i - Len(s) \in 1..Len(t) /\ j - Len(s) \in 1..Len(t)
      BY <1>1, <1>3, <2>2
    <3> QED
      BY <1>1, <2>2, <3>1 DEF InOrder
  <2>3. CASE i \in 1..Len(s) /\ j \in Len(s)+1..Len(s)+Len(t)
    <3>1. j - Len(s) \in 1..Len(t)
      BY <1>1, <2>3
    <3> QED
      BY <1>1, <1>2, <2>3, <3>1
  <2> QED
    <3>1. \/ j \in 1..Len(s) \/ i \in Len(s)+1..Len(s)+Len(t)
          \/ i \in 1..Len(s) /\ j \in Len(s)+1..Len(s)+Len(t)
      BY <1>1
    <3> QED
      BY <2>1, <2>2, <2>3, <3>1
<1> QED
  BY <1>1, <1>3 DEF InOrder

\* Only keeps the order.
LEMMA OnlyInOrder ==
  ASSUME NEW D, NEW s \in Seq(D), NEW S, NEW R, InOrder(s, R)
  PROVE  InOrder(Only(s, S), R)
<1>1. PICK k : /\ k[0] = <<>>
               /\ \A i \in 1..Len(s) :
                    k[i] = IF s[i] \in S THEN Append(k[i-1], s[i]) ELSE k[i-1]
               /\ Only(s, S) = k[Len(s)]
  BY OnlyTurns
<1> DEFINE UpTo(n) == {s[i] : i \in 1..n}
           Right(n) == /\ k[n] \in Seq(D) /\ ToSet(k[n]) \subseteq UpTo(n)
                       /\ InOrder(k[n], R)
           T == {n \in 0..Len(s) : Right(n)}
<1>2. 0 \in T
  <2>1. <<>> \in Seq(D) /\ ToSet(<<>>) = {} /\ Len(<<>>) = 0
    BY DEF ToSet
  <2>2. InOrder(<<>>, R)
    BY <2>1 DEF InOrder
  <2> QED
    BY <1>1, <2>1, <2>2, 0 \in 0..Len(s)
<1>3. ASSUME NEW n \in 0..Len(s)-1, n \in T PROVE n + 1 \in T
  <2>1. n + 1 \in 1..Len(s) /\ s[n+1] \in D /\ Right(n) /\ (n + 1) - 1 = n
    BY <1>3
  <2>2. UpTo(n+1) = UpTo(n) \cup {s[n+1]}
    OBVIOUS
  <2>3. k[n+1] = IF s[n+1] \in S THEN Append(k[n], s[n+1]) ELSE k[n]
    BY <1>1, <2>1
  <2>4. \A y \in UpTo(n) : <<y, s[n+1]>> \in R
    BY <2>1 DEF InOrder
  <2> HIDE DEF UpTo
  <2>5. Right(n+1)
    <3>1. /\ Append(k[n], s[n+1]) \in Seq(D)
          /\ ToSet(Append(k[n], s[n+1])) = ToSet(k[n]) \cup {s[n+1]}
      BY <2>1, AppendElements
    <3>2. InOrder(Append(k[n], s[n+1]), R)
      BY <2>1, <2>4, AppendInOrder
    <3>3. CASE s[n+1] \in S
      BY <2>1, <2>2, <2>3, <3>1, <3>2, <3>3
    <3>4. CASE s[n+1] \notin S
      BY <2>1, <2>2, <2>3, <3>4
    <3> QED
      BY <3>3, <3>4
  <2> QED
    BY <2>1, <2>5
<1> HIDE DEF T
<1>4. Len(s) \in T
  <2>1. Len(s) \in Nat /\ Len(s) \in 0..Len(s)
    OBVIOUS
  <2>2. \A n \in 0..Len(s)-1 : n \in T => n + 1 \in T
    BY <1>3
  <2>3. \A n \in 0..Len(s) : n \in T
    BY ONLY <1>2, <2>1, <2>2, InductUpTo
  <2> QED
    BY <2>1, <2>3
<1> QED
  BY <1>1, <1>4 DEF T

-----------------------------------------------------------------------------
(* Lists that grow at their end and lose their head, as queues do.         *)

\* Only of a list that has grown by an element, whatever else the set has gained.
LEMMA OnlyGrown ==
  ASSUME NEW s, NEW t, NEW S, NEW T, Len(s) \in Nat, Len(t) = Len(s) + 1,
         \A i \in 1..Len(s) : t[i] = s[i] /\ (s[i] \in S <=> s[i] \in T)
  PROVE  Only(t, T) = IF t[Len(t)] \in T THEN Append(Only(s, S), t[Len(t)])
                                         ELSE Only(s, S)
<1> DEFINE m == Len(s)
<1>1. PICK k : /\ k[0] = <<>>
               /\ \A i \in 1..m : k[i] = IF s[i] \in S THEN Append(k[i-1], s[i]) ELSE k[i-1]
               /\ Only(s, S) = k[m]
  BY OnlyTurns
<1>2. PICK h : /\ h[0] = <<>>
               /\ \A i \in 1..m+1 : h[i] = IF t[i] \in T THEN Append(h[i-1], t[i]) ELSE h[i-1]
               /\ Only(t, T) = h[m+1]
  <2>1. Len(t) = m + 1 /\ Len(t) \in Nat
    OBVIOUS
  <2>2. \E g : /\ g[0] = <<>>
               /\ \A i \in 1..Len(t) :
                    g[i] = IF t[i] \in T THEN Append(g[i-1], t[i]) ELSE g[i-1]
               /\ Only(t, T) = g[Len(t)]
    BY ONLY <2>1, OnlyTurns
  <2> HIDE DEF m
  <2> QED
    BY <2>1, <2>2
<1> HIDE DEF m
<1>3. m \in Nat
  BY DEF m
<1> DEFINE U == {n \in 0..m : h[n] = k[n]}
<1>4. 0 \in U
  BY <1>1, <1>2, <1>3
<1>5. ASSUME NEW n \in 0..m-1, n \in U PROVE n + 1 \in U
  <2>1. n + 1 \in 1..m /\ n + 1 \in 1..m+1 /\ (n + 1) - 1 = n /\ h[n] = k[n]
    BY <1>3, <1>5
  <2>2. t[n+1] = s[n+1] /\ (s[n+1] \in S <=> s[n+1] \in T)
    BY <2>1 DEF m
  <2>3. h[n+1] = k[n+1]
    BY <1>1, <1>2, <2>1, <2>2
  <2> QED
    BY <1>3, <2>1, <2>3
<1> HIDE DEF U
<1>6. m \in U
  <2>1. \A n \in 0..m-1 : n \in U => n + 1 \in U
    BY <1>5
  <2>2. \A n \in 0..m : n \in U
    BY ONLY <1>3, <1>4, <2>1, InductUpTo
  <2> QED
    BY <1>3, <2>2
<1>7. h[m] = k[m] /\ m + 1 \in 1..m+1 /\ (m + 1) - 1 = m
  BY <1>3, <1>6 DEF U
<1> QED
  BY <1>1, <1>2, <1>7 DEF m

LEMMA OnlyAppend ==
  ASSUME NEW D, NEW s \in Seq(D), NEW x \in D, NEW S
  PROVE  Only(Append(s, x), S) = IF x \in S THEN Append(Only(s, S), x) ELSE Only(s, S)
<1> DEFINE t == Append(s, x)
<1>1. /\ Len(s) \in Nat /\ Len(t) = Len(s) + 1 /\ t[Len(s)+1] = x
      /\ \A i \in 1..Len(s) : t[i] = s[i]
  OBVIOUS
<1> HIDE DEF t
<1>2. Only(t, S) = IF t[Len(t)] \in S THEN Append(Only(s, S), t[Len(t)]) ELSE Only(s, S)
  BY <1>1, OnlyGrown
<1> QED
  BY <1>1, <1>2 DEF t

LEMMA OnlyTail ==
  ASSUME NEW D, NEW s \in Seq(D), s # <<>>, NEW S
  PROVE  Only(s, S) = (IF Head(s) \in S THEN <<Head(s)>> ELSE <<>>) \o Only(Tail(s), S)
<1> DEFINE m == Len(s)
           t == Tail(s)
           c == IF Head(s) \in S THEN <<Head(s)>> ELSE <<>>
<1>1. /\ m \in Nat \ {0} /\ Len(t) = m - 1 /\ Head(s) = s[1] /\ Head(s) \in D
      /\ \A i \in 1..m : s[i] \in D
      /\ \A i \in 1..m-1 : t[i] = s[i+1]
      /\ c \in Seq(D)
  OBVIOUS
<1>2. PICK k : /\ k[0] = <<>>
               /\ \A i \in 1..m : k[i] = IF s[i] \in S THEN Append(k[i-1], s[i]) ELSE k[i-1]
               /\ Only(s, S) = k[m]
  BY <1>1, OnlyTurns
<1>3. PICK h : /\ h[0] = <<>>
               /\ \A i \in 1..m-1 : h[i] = IF t[i] \in S THEN Append(h[i-1], t[i]) ELSE h[i-1]
               /\ Only(t, S) = h[m-1]
  <2>1. Len(t) = m - 1 /\ Len(t) \in Nat
    BY <1>1
  <2> HIDE DEF m, t
  <2>2. \E g : /\ g[0] = <<>>
               /\ \A i \in 1..Len(t) :
                    g[i] = IF t[i] \in S THEN Append(g[i-1], t[i]) ELSE g[i-1]
               /\ Only(t, S) = g[Len(t)]
    BY ONLY <2>1, OnlyTurns
  <2> QED
    BY <2>1, <2>2
<1>4. k[1] = c
  <2>1. 1 \in 1..m /\ 1 - 1 = 0
    BY <1>1
  <2>2. Append(<<>>, Head(s)) = <<Head(s)>>
    OBVIOUS
  <2> QED
    BY <1>1, <1>2, <2>1, <2>2
<1> HIDE DEF m, t, c
<1> DEFINE U == {n \in 0..m-1 : h[n] \in Seq(D) /\ k[n+1] = c \o h[n]}
<1>5. 0 \in U
  <2>1. <<>> \in Seq(D) /\ c \o <<>> = c
    BY <1>1
  <2> QED
    BY <1>1, <1>3, <1>4, <2>1, 0 \in 0..m-1, 0 + 1 = 1
<1>6. ASSUME NEW n \in 0..(m-1)-1, n \in U PROVE n + 1 \in U
  <2>1. /\ n + 1 \in 1..m-1 /\ (n + 1) + 1 \in 1..m /\ (n + 1) - 1 = n
        /\ ((n + 1) + 1) - 1 = n + 1 /\ n + 1 \in 0..m-1
        /\ h[n] \in Seq(D) /\ k[n+1] = c \o h[n]
    BY <1>1, <1>6
  <2> DEFINE x == s[(n+1)+1]
  <2>2. x \in D /\ t[n+1] = x
    BY <1>1, <2>1
  <2>3. /\ k[(n+1)+1] = IF x \in S THEN Append(k[n+1], x) ELSE k[n+1]
        /\ h[n+1] = IF x \in S THEN Append(h[n], x) ELSE h[n]
    BY <1>2, <1>3, <2>1, <2>2
  <2> HIDE DEF x
  <2>4. /\ Append(h[n], x) \in Seq(D)
        /\ Append(c \o h[n], x) = c \o Append(h[n], x)
    <3> DEFINE w == h[n]
    <3>1. w \in Seq(D) /\ c \in Seq(D) /\ x \in D
      BY <1>1, <2>1, <2>2
    <3> HIDE DEF w
    <3>2. <<x>> \in Seq(D) /\ c \o w \in Seq(D)
      BY <3>1
    <3>3. Append(w, x) = w \o <<x>> /\ Append(c \o w, x) = (c \o w) \o <<x>>
      BY <3>1, <3>2
    <3>4. (c \o w) \o <<x>> = c \o (w \o <<x>>)
      BY <3>1, <3>2, ConcatAssociative
    <3>5. Append(w, x) \in Seq(D)
      BY <3>1
    <3>6. Append(c \o w, x) = c \o Append(w, x)
      BY <3>3, <3>4
    <3> QED
      BY <3>5, <3>6 DEF w
  <2> QED
    BY <2>1, <2>3, <2>4
<1> HIDE DEF U
<1>7. m - 1 \in U
  <2>1. \A n \in 0..(m-1)-1 : n \in U => n + 1 \in U
    BY <1>6
  <2>2. m - 1 \in Nat
    BY <1>1
  <2>3. \A n \in 0..m-1 : n \in U
    BY ONLY <1>5, <2>1, <2>2, InductUpTo
  <2> QED
    BY <2>2, <2>3
<1>8. (m - 1) + 1 = m /\ k[(m-1)+1] = c \o h[m-1]
  BY <1>1, <1>7 DEF U
<1> QED
  BY <1>2, <1>3, <1>8 DEF c, t
=============================================================================
