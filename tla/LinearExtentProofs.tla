------------------------- MODULE LinearExtentProofs -------------------------
(***************************************************************************)
(* What the operations of LinearExtent do to the positions an extent       *)
(* covers, for every width of an unsigned int.  An extent Fits if it does  *)
(* not reach past the largest position; the operations are only right for  *)
(* such extents, since the sums of the code wrap around.                   *)
(***************************************************************************)
EXTENDS LinearExtent, TLAPS

\* The positions of an extent that fits lie between its offset and its end.
LEMMA PositionsBetween ==
  ASSUME NEW e \in Extents, Fits(e)
  PROVE  /\ EndOffset(e) = e.off + e.len
         /\ \A p : p \in Positions(e) <=> p \in Int /\ e.off <= p /\ p < e.off + e.len
<1>. e.off \in Nat /\ e.len \in Nat /\ e.off + e.len <= UMax
  BY UMaxAssumption DEF Extents, UInts, Fits
<1>1. EndOffset(e) = e.off + e.len
  BY DEF EndOffset, Plus
<1>2. ASSUME NEW p \in Positions(e)
      PROVE  p \in Int /\ e.off <= p /\ p < e.off + e.len
  BY DEF Positions
<1>3. ASSUME NEW p \in Int, e.off <= p, p < e.off + e.len
      PROVE  p \in Positions(e)
  <2>1. p - e.off \in 0..e.len - 1 /\ p = e.off + (p - e.off)
    BY <1>3
  <2>. QED BY <2>1 DEF Positions
<1>. QED BY <1>1, <1>2, <1>3

\* LinearExtent::SubExtent: the part covers the positions of the whole that sub
\* names, counted from the beginning of the whole, and no others; what of sub is
\* beyond the end of the whole is cut off.
THEOREM SubExtentIsPart ==
  ASSUME NEW ext \in Extents, NEW sub \in Extents, Fits(ext), Fits(sub)
  PROVE  /\ Fits(SubExtent(ext, sub))
         /\ \A p : p \in Positions(SubExtent(ext, sub))
                     <=> p \in Positions(ext) /\ p - ext.off \in Positions(sub)
<1>. DEFINE part == SubExtent(ext, sub)
<1>1. /\ ext.off \in Nat /\ ext.len \in Nat /\ ext.off + ext.len <= UMax
      /\ sub.off \in Nat /\ sub.len \in Nat /\ sub.off + sub.len <= UMax
      /\ UMax \in Nat
  BY UMaxAssumption DEF Extents, UInts, Fits
<1>2. CASE sub.off > ext.len
  <2>1. part = Extent(ext.off + ext.len, 0)
    BY <1>1, <1>2 DEF SubExtent, EndOffset, Plus
  <2>2. part \in Extents /\ Fits(part) /\ part.len = 0
    BY <1>1, <2>1 DEF Extent, Extents, UInts, Fits
  <2>3. \A p : p \notin Positions(part)
    BY <2>2 DEF Positions
  <2>4. \A p : ~(p \in Positions(ext) /\ p - ext.off \in Positions(sub))
    BY <1>1, <1>2, PositionsBetween
  <2>. QED BY <2>2, <2>3, <2>4
<1>3. CASE sub.off <= ext.len
  <2>. DEFINE len == IF sub.off + sub.len > ext.len THEN ext.len - sub.off ELSE sub.len
  <2>1. part = Extent(ext.off + sub.off, len)
    BY <1>1, <1>3 DEF SubExtent, Plus
  <2>2. len \in Nat /\ ext.off + sub.off \in Nat /\ ext.off + sub.off + len <= UMax
    BY <1>1, <1>3
  <2>3. /\ part \in Extents /\ Fits(part)
        /\ part.off = ext.off + sub.off /\ part.len = len
    BY <1>1, <2>1, <2>2 DEF Extent, Extents, UInts, Fits
  <2>4. ASSUME NEW p
        PROVE  p \in Positions(part)
                 <=> p \in Int /\ ext.off + sub.off <= p /\ p < ext.off + sub.off + len
    BY <2>3, PositionsBetween
  <2>5. ASSUME NEW p
        PROVE  p \in Positions(ext) /\ p - ext.off \in Positions(sub)
                 <=> /\ p \in Int /\ ext.off <= p /\ p < ext.off + ext.len
                     /\ sub.off <= p - ext.off /\ p - ext.off < sub.off + sub.len
    BY <1>1, PositionsBetween
  <2>. HIDE DEF part
  <2>6. ASSUME NEW p \in Int
        PROVE  (ext.off + sub.off <= p /\ p < ext.off + sub.off + len)
                 <=> /\ ext.off <= p /\ p < ext.off + ext.len
                     /\ sub.off <= p - ext.off /\ p - ext.off < sub.off + sub.len
    BY <1>1, <1>3
  <2>7. \A p : p \in Positions(part)
                 <=> p \in Positions(ext) /\ p - ext.off \in Positions(sub)
    BY <2>4, <2>5, <2>6
  <2>. QED BY <2>3, <2>7 DEF part
<1>. QED BY <1>1, <1>2, <1>3

\* LinearExtent::intersection: the positions both extents cover, and, as
\* LinearExtent.h says, it commutes.
THEOREM IntersectionIsShared ==
  ASSUME NEW a \in Extents, NEW b \in Extents, Fits(a), Fits(b)
  PROVE  /\ Fits(Intersection(a, b))
         /\ Positions(Intersection(a, b)) = Positions(a) \cap Positions(b)
         /\ Intersection(a, b) = Intersection(b, a)
<1>. DEFINE both == Intersection(a, b)
            start == IF a.off > b.off THEN a.off ELSE b.off
            end == IF a.off + a.len < b.off + b.len THEN a.off + a.len ELSE b.off + b.len
            len == IF end <= start THEN 0 ELSE end - start
<1>1. /\ a.off \in Nat /\ a.len \in Nat /\ a.off + a.len <= UMax
      /\ b.off \in Nat /\ b.len \in Nat /\ b.off + b.len <= UMax
      /\ UMax \in Nat
  BY UMaxAssumption DEF Extents, UInts, Fits
<1>2. both = Extent(start, len)
  BY PositionsBetween DEF Intersection, Least
<1>3. start \in Nat /\ len \in Nat /\ start + len <= UMax
  BY <1>1
<1>4. both \in Extents /\ Fits(both) /\ both.off = start /\ both.len = len
  BY <1>1, <1>2, <1>3 DEF Extent, Extents, UInts, Fits
<1>5. ASSUME NEW p
      PROVE  p \in Positions(both) <=> p \in Int /\ start <= p /\ p < start + len
  BY <1>4, PositionsBetween
<1>6. ASSUME NEW p
      PROVE  p \in Positions(a) \cap Positions(b)
               <=> /\ p \in Int
                   /\ a.off <= p /\ p < a.off + a.len
                   /\ b.off <= p /\ p < b.off + b.len
  BY PositionsBetween
<1>. HIDE DEF both
<1>7. ASSUME NEW p \in Int
      PROVE  (start <= p /\ p < start + len)
               <=> /\ a.off <= p /\ p < a.off + a.len
                   /\ b.off <= p /\ p < b.off + b.len
  BY <1>1
<1>8. Positions(both) = Positions(a) \cap Positions(b)
  BY <1>5, <1>6, <1>7
<1>9. Intersection(b, a) = Extent(start, len)
  <2>1. EndOffset(a) = a.off + a.len /\ EndOffset(b) = b.off + b.len
    BY PositionsBetween
  <2>2. (IF b.off > a.off THEN b.off ELSE a.off) = start
    BY <1>1
  <2>3. Least(EndOffset(b), EndOffset(a)) = end
    BY <1>1, <2>1 DEF Least
  <2>. QED BY <2>2, <2>3 DEF Intersection
<1>. QED BY <1>2, <1>4, <1>8, <1>9 DEF both

\* lengthen_left and shorten_left move the left end only: what is covered still
\* ends where it did, and shortening what was lengthened gives the extent back.
THEOREM LeftKeepsTheEnd ==
  ASSUME NEW ext \in Extents, NEW by \in UInts, Fits(ext)
  PROVE  /\ Fits(LengthenLeft(ext, by)) /\ Fits(ShortenLeft(ext, by))
         /\ EndOffset(LengthenLeft(ext, by)) = EndOffset(ext)
         /\ EndOffset(ShortenLeft(ext, by)) = EndOffset(ext)
         /\ by <= ext.off => ShortenLeft(LengthenLeft(ext, by), by) = ext
<1>1. /\ ext.off \in Nat /\ ext.len \in Nat /\ ext.off + ext.len <= UMax
      /\ by \in Nat /\ UMax \in Nat
  BY UMaxAssumption DEF Extents, UInts, Fits
<1>2. ext = Extent(ext.off, ext.len)
  BY DEF Extents, Extent
<1>3. PICK n \in Nat : n = Least(ext.off, by) /\ n <= ext.off /\ n <= by
  BY <1>1 DEF Least
<1>4. LengthenLeft(ext, by) = Extent(ext.off - n, ext.len + n)
  BY <1>1, <1>3 DEF LengthenLeft, Plus
<1>5. PICK k \in Nat : k = Least(ext.len, by) /\ k <= ext.len
  BY <1>1 DEF Least
<1>6. ShortenLeft(ext, by) = Extent(ext.off + k, ext.len - k)
  BY <1>1, <1>5 DEF ShortenLeft, Plus
<1>7. Fits(LengthenLeft(ext, by)) /\ Fits(ShortenLeft(ext, by))
  BY <1>1, <1>3, <1>4, <1>5, <1>6 DEF Fits, Extent, Extents, UInts
<1>8. /\ EndOffset(LengthenLeft(ext, by)) = EndOffset(ext)
      /\ EndOffset(ShortenLeft(ext, by)) = EndOffset(ext)
  BY <1>1, <1>3, <1>4, <1>5, <1>6 DEF EndOffset, Plus, Extent
<1>9. ASSUME by <= ext.off
      PROVE  ShortenLeft(LengthenLeft(ext, by), by) = ext
  <2>1. n = by
    BY <1>1, <1>3, <1>9 DEF Least
  <2>2. LengthenLeft(ext, by) = Extent(ext.off - by, ext.len + by)
    BY <1>4, <2>1
  <2>3. ShortenLeft(Extent(ext.off - by, ext.len + by), by) = Extent(ext.off, ext.len)
    BY <1>1, <1>9 DEF ShortenLeft, Least, Plus, Extent
  <2>. QED BY <1>2, <2>2, <2>3
<1>. QED BY <1>7, <1>8, <1>9

\* move_right and move_left keep the length, and an extent that fits fits still.
THEOREM MovesKeepTheLength ==
  ASSUME NEW ext \in Extents, NEW by \in UInts, Fits(ext)
  PROVE  /\ Fits(MoveRight(ext, by)) /\ MoveRight(ext, by).len = ext.len
         /\ Fits(MoveLeft(ext, by)) /\ MoveLeft(ext, by).len = ext.len
<1>1. /\ ext.off \in Nat /\ ext.len \in Nat /\ ext.off + ext.len <= UMax
      /\ by \in Nat /\ UMax \in Nat
  BY UMaxAssumption DEF Extents, UInts, Fits
<1>. QED
  BY <1>1 DEF MoveRight, MoveLeft, EndOffset, Plus, Least, Fits, Extent, Extents, UInts
=============================================================================
