---------------------------- MODULE LinearExtent ----------------------------
(***************************************************************************)
(* StrMod/LinearExtent.h and LinearExtent.cxx: a subrange of a sequence,   *)
(* the part of a chunk another chunk shows, or a visitor is to visit.      *)
(* Positions count from 0, as in the code, and offsets and lengths are     *)
(* unsigned ints: UMax is UINT_MAX.                                        *)
(***************************************************************************)
EXTENDS Integers

CONSTANT UMax
ASSUME UMaxAssumption == UMax \in Nat \ {0}

UInts == 0..UMax
Plus(a, b) == IF a + b <= UMax THEN a + b ELSE a + b - (UMax + 1)
Least(a, b) == IF a < b THEN a ELSE b

Extent(off, len) == [off |-> off, len |-> len]
Extents == [off : UInts, len : UInts]
FullExtent == Extent(0, UMax)

EndOffset(ext) == Plus(ext.off, ext.len)

\* The positions an extent covers, and those that do not reach past UMax.
Positions(ext) == {ext.off + n : n \in 0..ext.len - 1}
Fits(ext) == ext \in Extents /\ ext.off + ext.len <= UMax

\* sub, which counts from ext's beginning, as an extent of what ext is one of.
SubExtent(ext, sub) ==
  IF sub.off > ext.len THEN Extent(EndOffset(ext), 0)
  ELSE Extent(Plus(ext.off, sub.off),
              IF Plus(sub.off, sub.len) > ext.len THEN ext.len - sub.off ELSE sub.len)

\* The same in place.
SubExtentEq(ext, sub) ==
  IF sub.off > ext.len
  THEN [ext EXCEPT !.off = Plus(ext.off, ext.len), !.len = 0]
  ELSE [ext EXCEPT !.off = Plus(@, sub.off),
                   !.len = IF Plus(sub.off, sub.len) > @ THEN @ - sub.off ELSE sub.len]

Intersection(a, b) ==
  LET start == IF a.off > b.off THEN a.off ELSE b.off
      end == Least(EndOffset(a), EndOffset(b))
  IN  Extent(start, IF end <= start THEN 0 ELSE end - start)

LengthenLeft(ext, by) ==
  LET n == Least(ext.off, by) IN Extent(ext.off - n, Plus(ext.len, n))
ShortenLeft(ext, by) ==
  LET n == Least(ext.len, by) IN Extent(Plus(ext.off, n), ext.len - n)
LengthenRight(ext, by) ==
  Extent(ext.off, IF UMax - ext.len >= by THEN ext.len + by ELSE UMax)
ShortenRight(ext, by) == Extent(ext.off, ext.len - Least(ext.len, by))

MoveRight(ext, by) ==
  Extent(IF UMax - EndOffset(ext) >= by THEN ext.off + by ELSE UMax - ext.len, ext.len)
MoveLeft(ext, by) == Extent(ext.off - Least(ext.off, by), ext.len)
=============================================================================
