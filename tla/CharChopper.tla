----------------------------- MODULE CharChopper -----------------------------
(***************************************************************************)
(* StrMod/CharChopper.h and CharChopper.cxx: the StreamProcessor that cuts *)
(* what goes through it behind each occurrence of a character.  Short      *)
(* pieces are copied together (curdata), longer ones are passed on as      *)
(* parts of the chunks they came in, in a group if there are several.      *)
(***************************************************************************)
EXTENDS Chunks

CONSTANTS IsChopChar(_),
          BufSize,       \* 16, the size of buf
          FirstSize      \* 32, the size a new curdata_ has

ASSUME ChopperConstants ==
  BufSize \in Nat \ {0} /\ FirstSize \in Nat /\ FirstSize >= BufSize

\* grouped: groupdata_ is the group outgoing_ points to; isbc: incoming_is_bc_,
\* which the constructor leaves as it finds it; spoilt: history, whether a chunk
\* that was received has been changed.
Chopper(isbc) == [curdata |-> None, used |-> 0, grouped |-> FALSE, isbc |-> isbc,
                  spoilt |-> FALSE]

\* addChunk puts a chunk behind those of outgoing_.
Add(proc, chnk) ==
  LET isgroup == proc.outgoing.kind = "group"
  IN  IF proc.outgoing = None
      THEN [proc EXCEPT !.outgoing = chnk, !.grouped = FALSE]
      ELSE [proc EXCEPT !.outgoing =
                          Group(Append(IF isgroup THEN @.parts ELSE <<@>>, chnk)),
                        !.grouped = TRUE,
                        !.spoilt = @ \/ (isgroup /\ ~proc.grouped)]

AddCurdata(proc) ==
  [Add(proc, Buffer(Resize(proc.curdata, proc.used))) EXCEPT !.curdata = None]

\* Mutant: what has been copied stays behind when a chunk is passed on.
Overtakes(proc, chnk) == Add(proc, chnk)

AddChunk(proc, chnk) ==
  Add(IF proc.curdata = None THEN proc ELSE AddCurdata(proc), chnk)

CheckIncoming(proc) ==
  IF proc.isbc # "maybe" THEN proc
  ELSE [proc EXCEPT !.isbc = IF proc.incoming.kind = "buffer" THEN "yes" ELSE "no"]

ZeroIncoming(proc) == [proc EXCEPT !.incoming = None, !.isbc = "maybe"]

\* piece is copied behind what curdata_ holds.
Copied(proc, piece, found) ==
  LET need == proc.used + Len(piece)
      grown == proc.used + proc.used \div 2
      room == IF Len(proc.curdata) >= need THEN Len(proc.curdata)
              ELSE IF found \/ need > grown THEN need ELSE grown
  IN  [proc EXCEPT !.curdata = Resize(SubSeq(@, 1, proc.used) \o piece, room),
                   !.used = need]

Copy(proc, piece, found) ==
  IF proc.curdata # None THEN Copied(proc, piece, found)
  ELSE [proc EXCEPT !.curdata = Resize(piece, IF found THEN Len(piece) ELSE FirstSize),
                    !.used = Len(piece)]

\* The bytes up to the first chop character, that one included, or all of them.
UpToChar(bytes) ==
  LET at == SelectInSeq(bytes, IsChopChar)
  IN  SubSeq(bytes, 1, IF at = 0 THEN Len(bytes) ELSE at)

\* What goes out of the incoming chunk is piece, which is whole if that is all of
\* it.  found: it ends at a chop character.
TakePiece(proc, piece, found, whole) ==
  IF proc.isbc = "yes" /\ Len(piece) <= BufSize THEN Copy(proc, piece, found)
  ELSE AddChunk(proc, IF whole THEN proc.incoming
                      ELSE Sub(proc.incoming, Extent(0, Len(piece))))

Leave(proc, n, whole) ==
  IF whole THEN ZeroIncoming(proc)
  ELSE [proc EXCEPT !.incoming = Sub(@, Extent(n, Length(@)))]

Finish(proc, found) ==
  [IF found /\ proc.curdata # None THEN AddCurdata(proc) ELSE proc
     EXCEPT !.outgoing_ready = found]

Chop(proc, piece, found, whole) ==
  Finish(Leave(TakePiece(proc, piece, found, whole), Len(piece), whole), found)

ChopChecked(proc, inlen, piece) ==
  IF inlen = 0 THEN ZeroIncoming(AddChunk(proc, proc.incoming))
  ELSE Chop(proc, piece, piece # <<>> /\ IsChopChar(Last(piece)), Len(piece) >= inlen)

ChopIncoming(old) ==
  LET proc == CheckIncoming(old)
  IN  ChopChecked(proc, Length(proc.incoming),
                  UpToChar(Onward(Begin(proc.incoming), End(proc.incoming))))
=============================================================================
