----------------------------- MODULE Serializers -----------------------------
(***************************************************************************)
(* StrMod/OutSerializer.h and OutSerializer.cxx, InSerializer.h and        *)
(* InSerializer.cxx, with the conversions of LCore/GenTypes.h: values are  *)
(* written behind one another into a buffer that grows, and read again     *)
(* from a chunk, however it is put together.                               *)
(*                                                                         *)
(* A number has the bytes its name says, of which a byte can be Base       *)
(* numbers.  A value is [type, is]; a string is the sequence of its bytes. *)
(***************************************************************************)
EXTENDS Chunks

CONSTANTS Base,                        \* 256
          Near, NearShare, FarShare    \* 256, 16, 256: how a buffer is made to grow

ASSUME SerializerConstants ==
  /\ Base \in Nat /\ Base > 2 /\ Base % 2 = 0
  /\ Near \in Nat /\ NearShare \in Nat \ {0} /\ FarShare \in Nat \ {0}

Width == [s1 |-> 1, u1 |-> 1, s2 |-> 2, u2 |-> 2, s4 |-> 4, u4 |-> 4]
Signed == {"s1", "s2", "s4"}
Power(width) == Base ^ width

\* The first byte is the one that counts most; negative numbers are two's complement.
Hton(n, width) == [k \in 1..width |-> ((n % Power(width)) \div Power(width - k)) % Base]
Ntoh(bytes, type) ==
  LET n == FoldLeft(LAMBDA sum, byte : Base * sum + byte, 0, bytes)
  IN  IF type \in Signed /\ 2 * n >= Power(Width[type]) THEN n - Power(Width[type]) ELSE n

-----------------------------------------------------------------------------
(* The OutSerializer.  buf: whether buf_ points at the chunk's bytes;      *)
(* crashed: a NULL pointer has been written to; broken: an assert failed.  *)

OutSerializer(size) ==
  [chunk |-> Resize(<<>>, size), buf |-> TRUE, chnklen |-> size, pos |-> 0,
   crashed |-> FALSE, broken |-> FALSE]

\* The constructor that is given a State which has no chunk: the factory makes one
\* of this size, and buf_ stays NULL.
OutSerializerOf(size) == [OutSerializer(size) EXCEPT !.buf = FALSE]

ResizeChunk(out, newsize) ==
  LET share == IF newsize - out.chnklen < Near THEN NearShare ELSE FarShare
      size == newsize + newsize \div share
  IN  [out EXCEPT !.chunk = Resize(@, size), !.buf = TRUE, !.chnklen = size,
                  !.broken = @ \/ size < newsize]

SetMinSuggestedSize(out, size) == IF size > out.chnklen THEN ResizeChunk(out, size) ELSE out

\* Bytes behind those that are there.
AddRaw(out, bytes) ==
  LET ready == SetMinSuggestedSize(out, out.pos + Len(bytes))
  IN  IF bytes # <<>> /\ ~ready.buf THEN [ready EXCEPT !.crashed = TRUE]
      ELSE [ready EXCEPT !.chunk = [n \in DOMAIN @ |-> IF n - out.pos \in DOMAIN bytes
                                                       THEN bytes[n - out.pos] ELSE @[n]],
                         !.pos = @ + Len(bytes)]

AddNumber(out, n, width) == AddRaw(out, Hton(n, width))

\* What is longer than its length can say is cut; the length counts the '\0'.
AddString(out, str) ==
  LET longest == Power(2) - 2
      netlen == IF Len(str) > longest THEN longest ELSE Len(str)
  IN  AddNumber(AddRaw(AddNumber(out, netlen + 1, 2), SubSeq(str, 1, netlen)), 0, 1)

AddValue(out, value) ==
  CASE value.type \in DOMAIN Width -> AddNumber(out, value.is, Width[value.type])
    [] value.type = "bool" -> AddNumber(out, IF value.is THEN 1 ELSE 0, 1)
    [] value.type = "string" -> AddString(out, value.is)
    [] value.type = "raw" -> AddRaw(out, value.is)

TakeChunk(out) == Buffer(Resize(out.chunk, out.pos))

-----------------------------------------------------------------------------
(* The InSerializer, over an iterator.  val is what the last Get returned. *)

InSerializer(chunk) == [i |-> Begin(chunk), end |-> End(chunk), had_error |-> FALSE,
                        val |-> None]

BytesLeft(in) == Distance(in.end, in.i)

\* The next bytes, the iterator behind them, and val what they are.
Take(in, count) ==
  FoldLeft(LAMBDA at, n : [i |-> MoveForward(at.i), bytes |-> Append(at.bytes, Deref(at.i))],
           [i |-> in.i, bytes |-> <<>>], [n \in 1..count |-> n])
Failed(in, val) == [in EXCEPT !.had_error = TRUE, !.val = val]

\* Mutant: what is left is not looked at again behind the length of a string.
TrustsLength(in) ==
  LET header == Take(in, 2)
      len == Ntoh(header.bytes, "u2")
      behind == [in EXCEPT !.i = header.i]
      taken == Take(behind, len)
  IN  IF in.had_error \/ BytesLeft(in) < 3 \/ len < 1 THEN Failed(in, <<>>)
      ELSE [in EXCEPT !.i = taken.i, !.val = SubSeq(taken.bytes, 1, len - 1)]

GetNumber(in, type) ==
  LET taken == Take(in, Width[type])
  IN  IF in.had_error \/ BytesLeft(in) < Width[type] THEN Failed(in, 0)
      ELSE [in EXCEPT !.i = taken.i, !.val = Ntoh(taken.bytes, type)]

GetBool(in) == LET got == GetNumber(in, "u1") IN [got EXCEPT !.val = @ # 0]

GetString(in) ==
  LET header == Take(in, 2)
      len == Ntoh(header.bytes, "u2")
      behind == [in EXCEPT !.i = header.i]
      taken == Take(behind, len)
  IN  IF in.had_error \/ BytesLeft(in) < 3 THEN Failed(in, <<>>)
      ELSE IF len < 1 \/ len > BytesLeft(behind) THEN Failed(behind, <<>>)
      ELSE [in EXCEPT !.i = taken.i, !.val = SubSeq(taken.bytes, 1, len - 1)]

\* What does not fit leaves the destination as it is.
GetRaw(in, len) ==
  IF in.had_error \/ BytesLeft(in) < len THEN Failed(in, None)
  ELSE [in EXCEPT !.i = Take(in, len).i, !.val = Take(in, len).bytes]

\* A value of this value's type, and if it is raw, of its length.
GetValue(in, value) ==
  CASE value.type \in DOMAIN Width -> GetNumber(in, value.type)
    [] value.type = "bool" -> GetBool(in)
    [] value.type = "string" -> GetString(in)
    [] value.type = "raw" -> GetRaw(in, Len(value.is))
=============================================================================
