---------------------------- MODULE TelnetParser ----------------------------
(***************************************************************************)
(* StrMod/TelnetParser.h and TelnetParser.cxx, with the TelnetChunkBuilder *)
(* it calls (TelnetChunker::Builder in TelnetChunker.cxx): a stream of     *)
(* bytes is told apart into data, commands, negotiations and suboptions.   *)
(*                                                                         *)
(* Bytes are named as in TelnetChars.h.  The parser counts them in the     *)
(* chunk the builder holds, and the region is what it has not given to the *)
(* builder: from regionbegin on.  p is the parser and the builder.         *)
(***************************************************************************)
EXTENDS Chunks

CONSTANTS Commands,     \* the bytes convertCharToCommand takes, IAC not among them
          Negotiations  \* WILL, WONT, DO, DONT

\* broken, history: the asserts that have failed.  crashed: a NULL pointer has been
\* used.
NewParser ==
  [state |-> "Normal", curpos |-> 0, regionbegin |-> 0, negtype |-> "", opttype |-> "",
   cooked |-> <<>>, curchunk |-> None, chunks |-> <<>>, broken |-> {}, crashed |-> FALSE]

Asserted(p, cond, name) == IF cond THEN p ELSE [p EXCEPT !.broken = @ \cup {name}]

-----------------------------------------------------------------------------
(* The builder.                                                            *)

CurLen(p) == IF p.curchunk = None THEN 0 ELSE Length(p.curchunk)

MakeData(p, end) ==
  IF p.regionbegin = 0 /\ end = CurLen(p) THEN p.curchunk
  ELSE Sub(p.curchunk, Extent(p.regionbegin, end - p.regionbegin))

AddDataBlock(p, end) ==
  IF end = p.regionbegin THEN p ELSE [p EXCEPT !.chunks = Append(@, MakeData(p, end))]

AddCharCommand(p, cmd) ==
  [p EXCEPT !.chunks = Append(@, [kind |-> "char", command |-> cmd])]

AddNegotiationCommand(p, opt) ==
  [p EXCEPT !.chunks = Append(@, [kind |-> "neg", request |-> p.negtype, opttype |-> opt])]

\* The Suboption's constructor asks the data for its length, which there is not
\* for an empty region.
AddSuboption(p, end) ==
  IF end > p.regionbegin
  THEN [p EXCEPT !.chunks = Append(@, [kind |-> "subopt", opttype |-> p.opttype,
                                       cooked |-> p.cooked, raw |-> MakeData(p, end)])]
  ELSE [p EXCEPT !.crashed = TRUE, !.broken = @ \cup {"regionend > regionbegin"}]

-----------------------------------------------------------------------------
(* One byte, at place i.  back: how many bytes before it the region ends.  *)

\* The region's data goes to the builder, and the next region begins behind the
\* byte.
Told(p, i, back) == AddDataBlock(p, i - back)
Begins(p, i, state) == [p EXCEPT !.regionbegin = i + 1, !.state = state]

StateNormal(p, ch) == IF ch = "IAC" THEN [p EXCEPT !.state = "Escape"] ELSE p

\* IAC IAC stands for a byte of data; an escape of anything else is left in the
\* region, the IAC and what follows it.
StateEscape(p, ch, i) ==
  CASE ch = "IAC" -> Begins(Told(p, i, 0), i, "Normal")
    [] ch = "SB" -> [p EXCEPT !.state = "SuboptNum"]
    [] ch \in Negotiations -> [p EXCEPT !.state = "SubNeg", !.negtype = ch]
    [] ch \in Commands -> Begins(AddCharCommand(Told(p, i, 1), ch), i, "Normal")
    [] OTHER -> [p EXCEPT !.state = "Normal"]

StateSubNeg(p, ch, i) == Begins(AddNegotiationCommand(Told(p, i, 2), ch), i, "Normal")

\* The extended suboption is skipped.  The assert on curpos_ looks at where the
\* block began, not at the byte.
StateSuboptNum(p, ch, i) ==
  LET told == Told(Asserted(p, p.curpos >= p.regionbegin, "curpos >= regionbegin"), i, 2)
  IN  IF ch = "IAC" THEN Begins(told, i, "Normal")
      ELSE Begins([told EXCEPT !.opttype = ch, !.cooked = <<>>], i, "Subopt")

StateSubopt(p, ch) ==
  IF ch = "IAC" THEN [p EXCEPT !.state = "SuboptEscape"]
  ELSE [p EXCEPT !.cooked = Append(@, ch)]

StateSuboptEscape(p, ch, i) ==
  IF ch = "SE" THEN Begins(AddSuboption(p, i - 1), i, "Normal")
  ELSE [p EXCEPT !.state = "Subopt",
                 !.cooked = @ \o (IF ch = "IAC" THEN <<"IAC">> ELSE <<"IAC", ch>>)]

StateByte(p, ch, i) ==
  CASE p.state = "Normal" -> StateNormal(p, ch)
    [] p.state = "Escape" -> StateEscape(p, ch, i)
    [] p.state = "SubNeg" -> StateSubNeg(p, ch, i)
    [] p.state = "SuboptNum" -> StateSuboptNum(p, ch, i)
    [] p.state = "Subopt" -> StateSubopt(p, ch)
    [] p.state = "SuboptEscape" -> StateSuboptEscape(p, ch, i)

\* A block of data; a crash ends it.
ProcessData(p, data) ==
  LET parsed == FoldLeftDomain(
        LAMBDA q, n : IF q.crashed THEN q ELSE StateByte(q, data[n], p.curpos + n - 1),
        p, data)
  IN  [parsed EXCEPT !.curpos = @ + Len(data)]

-----------------------------------------------------------------------------
(* Between the chunks.                                                     *)

\* The data before what has been begun goes to the builder.
EndOfChunk(p) ==
  LET end == CASE p.state = "Normal" -> p.curpos
               [] p.state = "Escape" -> p.curpos - 1
               [] p.state \in {"SuboptNum", "SubNeg"} -> p.curpos - 2
               [] OTHER -> p.regionbegin
  IN  [AddDataBlock(p, end) EXCEPT !.regionbegin = end]

DropBytes(p, bytes) ==
  IF bytes > p.regionbegin THEN p
  ELSE [p EXCEPT !.regionbegin = @ - bytes, !.curpos = @ - bytes]

\* A suboption under way is finished off as it is.
Reset(p) ==
  LET ended == IF p.state \in {"Subopt", "SuboptEscape"} THEN AddSuboption(p, p.curpos) ELSE p
  IN  [ended EXCEPT !.regionbegin = p.curpos, !.state = "Normal"]
=============================================================================
