------------------------------- MODULE Chunks -------------------------------
(***************************************************************************)
(* StrMod chunks (StrChunk.h): a buffer of bytes, a part of another chunk, *)
(* and chunks put together; the traversal of a chunk (ChunkVisitor.h,      *)
(* UseTrackingVisitor) and the iterators over one (ChunkIterator).         *)
(*                                                                         *)
(* A traversal is what every reader of a chunk's bytes uses: the iterators *)
(* to find the extents of data, and for_each (ApplyVisitor) to hand them   *)
(* to a function.  Content says what the bytes of a chunk are.             *)
(***************************************************************************)
EXTENDS LinearExtent, Sequences, SequencesExt

CONSTANTS None,
          Junk  \* what bytes nobody wrote hold

Buffer(data) == [kind |-> "buffer", data |-> data]
Group(parts) == [kind |-> "group", parts |-> parts]

\* DynamicBuffer's and PreAllocBuffer's resize.
Resize(data, size) ==
  [n \in 1..size |-> IF n <= Len(data) THEN data[n] ELSE Junk]

RECURSIVE Content(_)
Content(chunk) ==
  CASE chunk.kind = "buffer" -> chunk.data
    [] chunk.kind = "sub" ->
         SubSeq(Content(chunk.of), chunk.ext.off + 1, chunk.ext.off + chunk.ext.len)
    [] chunk.kind = "group" -> FlattenSeq([n \in DOMAIN chunk.parts |-> Content(chunk.parts[n])])

RECURSIVE Length(_)
Length(chunk) ==
  CASE chunk.kind = "buffer" -> Len(chunk.data)
    [] chunk.kind = "sub" -> chunk.ext.len
    [] chunk.kind = "group" -> FoldLeft(LAMBDA n, part : Plus(n, Length(part)), 0, chunk.parts)

Whole(chunk) == Extent(0, Length(chunk))

\* A part of a part is a part of what that is a part of.
Sub(chunk, ext) ==
  LET cut == IF chunk.kind = "sub" THEN SubExtent(chunk.ext, ext)
             ELSE IF EndOffset(ext) > Length(chunk) THEN SubExtent(Whole(chunk), ext)
             ELSE ext
  IN  [kind |-> "sub", of |-> IF chunk.kind = "sub" THEN chunk.of ELSE chunk, ext |-> cut]

-----------------------------------------------------------------------------
(* UseTrackingVisitor, with ignorezeros.  at: curpos_ and curext_ within   *)
(* the chunk being visited, and the extents of data found so far.          *)

\* Mutant: the visitor goes by the chunk's part, not by what is used of it.
UsesAll(at, part) == part

\* What of a part is used: what of it falls into the use of the whole.
ComputeUsed(at, part) ==
  SubExtent(part, MoveLeft(Intersection(Extent(at.pos, part.len), at.ext), at.pos))

PastUse(at) == at.pos >= EndOffset(at.ext)

VisitDataBlock(at, data) ==
  LET used == ComputeUsed(at, Extent(0, Len(data)))
  IN  IF PastUse(at) THEN at
      ELSE [at EXCEPT !.pos = Plus(@, Len(data)),
                      !.exts = IF used.len > 0
                               THEN Append(@, SubSeq(data, used.off + 1, used.off + used.len))
                               ELSE @]

\* Both visitStrChunks: the position moves on by the length of the part, and is
\* back when the chunk has been traversed.
RECURSIVE VisitStrChunk(_, _, _)
VisitStrChunk(at, chunk, part) ==
  LET used == ComputeUsed(at, SubExtent(Whole(chunk), part))
      into == [at EXCEPT !.pos = 0, !.ext = used]
      accepted ==
        CASE chunk.kind = "buffer" -> VisitDataBlock(into, chunk.data)
          [] chunk.kind = "sub" -> VisitStrChunk(into, chunk.of, chunk.ext)
          [] chunk.kind = "group" ->
               FoldLeft(LAMBDA on, child : VisitStrChunk(on, child, Whole(child)),
                        into, chunk.parts)
  IN  IF PastUse(at) THEN at
      ELSE [at EXCEPT !.pos = Plus(@, part.len), !.exts = accepted.exts]
\* The extents of data a visitor that starts at chunk is called with.
StartVisit(chunk) ==
  VisitStrChunk([pos |-> 0, ext |-> FullExtent, exts |-> <<>>], chunk, Whole(chunk)).exts

\* for_each over a part of a chunk, the bytes it calls its function with.
Applied(chunk, ext) == FlattenSeq(StartVisit(Sub(chunk, ext)))

-----------------------------------------------------------------------------
(* StrChunk::iterator__.  exts and length are its shared data, cur counts  *)
(* the extents from 0 and last is the place of the last byte of the one    *)
(* the iterator is in.                                                     *)

MoveToEnd(it) ==
  [it EXCEPT !.abs = it.length, !.cur = Len(it.exts), !.pos = 0, !.last = 0]

\* In the extent cur, at its first byte or at its last.
InExtent(it, cur, abs, first) ==
  LET last == Len(it.exts[cur + 1]) - 1
  IN  [it EXCEPT !.abs = abs, !.cur = cur, !.last = last,
                 !.pos = IF first THEN 0 ELSE last]

MoveToBegin(it) ==
  IF it.length > 0 THEN InExtent(it, 0, 0, TRUE)
  ELSE [it EXCEPT !.abs = 0, !.cur = 0, !.pos = 0, !.last = 0]

\* What the iterators of a chunk share, as ExtVisitor gathers it.
Shared(chunk) == [exts |-> StartVisit(chunk), length |-> Length(chunk)]

Begin(chunk) ==
  LET shared == Shared(chunk)
  IN  MoveToBegin([exts |-> shared.exts, length |-> shared.length,
                   abs |-> 0, cur |-> 0, pos |-> 0, last |-> 0])
End(chunk) == MoveToEnd(Begin(chunk))

MoveForwardComplex(it) ==
  IF it.length = 0 \/ it.abs >= it.length - 1 THEN MoveToEnd(it)
  ELSE InExtent(it, it.cur + 1, it.abs + 1, TRUE)

MoveForward(it) ==
  IF it.pos < it.last THEN [it EXCEPT !.pos = @ + 1, !.abs = @ + 1]
  ELSE MoveForwardComplex(it)

MoveBackwardComplex(it) ==
  IF it.abs <= 1 THEN MoveToBegin(it) ELSE InExtent(it, it.cur - 1, it.abs - 1, FALSE)

MoveBackward(it) ==
  IF it.pos > 0 THEN [it EXCEPT !.pos = @ - 1, !.abs = @ - 1]
  ELSE MoveBackwardComplex(it)

\* operator *, which is junk past the end.
Deref(it) == IF it.cur < Len(it.exts) THEN it.exts[it.cur + 1][it.pos + 1] ELSE Junk

\* Iterators of the same chunk are equal at the same place.
IsEqual(a, b) == a.abs = b.abs
Distance(a, b) == a.abs - b.abs

\* The bytes met going forward from an iterator to the end, and those met going
\* backward to the beginning.
RECURSIVE Onward(_, _)
Onward(it, end) ==
  IF IsEqual(it, end) THEN <<>> ELSE <<Deref(it)>> \o Onward(MoveForward(it), end)

RECURSIVE Backward(_, _)
Backward(it, begin) ==
  IF IsEqual(it, begin) THEN <<>>
  ELSE LET back == MoveBackward(it) IN Append(Backward(back, begin), Deref(back))
-----------------------------------------------------------------------------
(* StreamFDModule::BufferList: the data of a chunk that writev(2) is given. *)
(* current counts the extents from 0 that have been written.               *)

StartChunk(chunk) ==
  LET exts == StartVisit(chunk)
  IN  [vecs |-> exts, current |-> 0, done |-> 0,
       total |-> FoldLeft(LAMBDA sum, vec : sum + Len(vec), 0, exts)]

LeftIn(list) == list.total - list.done
GetIOVec(list) == SubSeq(list.vecs, list.current + 1, Len(list.vecs))

RECURSIVE Pass(_, _)
Pass(list, n) ==
  LET vec == list.vecs[list.current + 1]
  IN  CASE n = 0 -> list
        [] n # 0 /\ Len(vec) <= n -> Pass([list EXCEPT !.current = @ + 1], n - Len(vec))
        [] n # 0 /\ Len(vec) > n ->
             [list EXCEPT !.vecs[list.current + 1] = SubSeq(vec, n + 1, Len(vec))]

AdvanceBy(list, n) ==
  IF list.total = 0 THEN list
  ELSE IF n >= LeftIn(list) THEN [vecs |-> <<>>, current |-> 0, done |-> 0, total |-> 0]
  ELSE [Pass(list, n) EXCEPT !.done = @ + n]
=============================================================================
