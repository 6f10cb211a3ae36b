----------------------------- MODULE Processors -----------------------------
(***************************************************************************)
(* Whoever takes a stream of bytes apart, fed the stream in pieces of      *)
(* every length: a StreamProcessor, a CharChopper or a TelnetChunker, with *)
(* whoever writes chunks to it and reads from it, as a ProcessorModule     *)
(* does; the XML lexer, which is called with one buffer after another; and *)
(* an InSerializer, with the OutSerializer that wrote what it reads.       *)
(***************************************************************************)
EXTENDS CharChopper, TelnetChunker, XMLLexer, Serializers, TLC

CONSTANTS ChopStreams, TelnetStreams, XMLStreams,  \* the streams of bytes to feed
          ValueStreams,      \* the values to write and to read again
          BufferSizes,       \* how large an OutSerializer's first buffer may be
          MaxChunks          \* bound: how many chunks to feed

ASSUME ProcessorsConstants == MaxChunks \in Nat

VARIABLES proc,
          stream, fed,  \* the bytes to feed, and how many have been fed
          chunks,       \* in how many chunks
          got           \* history: what has been read

vars == <<proc, stream, fed, chunks, got>>

Process(pr) == IF pr.kind = "chopper" THEN ChopIncoming(pr) ELSE ChunkIncoming(pr)
StreamProcessor == INSTANCE StreamProcessor WITH ProcessIncoming <- Process

Init ==
  /\ \/ /\ stream \in ChopStreams
        /\ proc \in {[kind |-> "chopper"] @@ Chopper(isbc) @@ StreamProcessor!Fresh :
                       isbc \in {"yes", "no", "maybe"}}
     \/ /\ stream \in TelnetStreams
        /\ proc = [kind |-> "telnet", p |-> NewParser, cuts |-> <<>>] @@ StreamProcessor!Fresh
     \/ /\ stream \in XMLStreams
        /\ \E nonwsok \in BOOLEAN :
             proc = [kind |-> "xml", lexer |-> NewLexer(nonwsok),
                     begins |-> <<>>, kept |-> 1, lost |-> FALSE]
     \/ /\ stream \in ValueStreams
        /\ \E size \in BufferSizes : \E out \in {OutSerializer(size), OutSerializerOf(size)} :
             proc = [kind |-> "serial", out |-> out, in |-> None]
  /\ fed = 0 /\ chunks = 0 /\ got = <<>>

Chopping == proc.kind = "chopper"
Telnet == proc.kind = "telnet"
XML == proc.kind = "xml"
Serial == proc.kind = "serial"
Streaming == Chopping \/ Telnet
Crashed == Telnet /\ proc.p.crashed

\* What a reader makes of a chunk: its bytes, as one piece or, of a telnet chunker,
\* as elements of the stream.
Bytes(chnk) == FlattenSeq(StartVisit(chnk))
IsData(chnk) == chnk.kind \in {"buffer", "sub", "group"}
ElementsOf(chnk) ==
  CASE IsData(chnk) -> [n \in DOMAIN Bytes(chnk) |-> <<"data", Bytes(chnk)[n]>>]
    [] chnk.kind = "char" -> <<<<"char", chnk.command>>>>
    [] chnk.kind = "neg" -> <<<<"neg", chnk.request, chnk.opttype>>>>
    [] chnk.kind = "subopt" -> <<<<"subopt", chnk.opttype, Bytes(chnk.raw), chnk.cooked>>>>
PiecesOf(chnk) == IF Telnet THEN ElementsOf(chnk) ELSE <<Bytes(chnk)>>

\* The chunks that hold these bytes: a buffer, a part of one, a group, and a part
\* of a group.
Forms(bytes) ==
  LET padded == <<Junk>> \o bytes \o <<Junk>>
      used == Extent(1, Len(bytes))
      cut(data, n) == Group(<<Buffer(SubSeq(data, 1, n)), Buffer(<<>>),
                              Buffer(SubSeq(data, n + 1, Len(data)))>>)
  IN  IF bytes = <<>> THEN {Buffer(bytes), Group(<<>>)}
      ELSE IF Telnet THEN {Sub(cut(padded, 2), used)}
      ELSE {Buffer(bytes), Sub(Buffer(padded), used), cut(bytes, 1), Sub(cut(padded, 2), used),
            Sub(Sub(cut(padded, 1), Extent(1, Len(bytes) + 1)), Extent(0, Len(bytes)))}

\* cuts, history: how many bytes had been fed with each chunk a telnet chunker got.
Cut(pr, at) == IF Telnet THEN [pr EXCEPT !.cuts = Append(@, at)] ELSE pr

Write ==
  /\ Streaming /\ ~Crashed /\ StreamProcessor!CanWriteTo(proc) /\ chunks < MaxChunks
  /\ chunks' = chunks + 1
  /\ \E n \in 0..Len(stream) - fed :
       /\ \E chnk \in Forms(SubSeq(stream, fed + 1, fed + n)) :
            proc' = Cut(StreamProcessor!WriteTo(proc, chnk), fed + n)
       /\ fed' = fed + n
  /\ UNCHANGED <<stream, got>>

Read ==
  /\ Streaming /\ ~Crashed /\ StreamProcessor!CanReadFrom(proc)
  /\ got' = got \o PiecesOf(proc.outgoing)
  /\ proc' = StreamProcessor!ReadFrom(proc)
  /\ UNCHANGED <<stream, fed, chunks>>

\* begins: the place in the stream, from 1, of each buffer's first byte.  kept:
\* the oldest buffer the caller has to keep, which is the next one where lex
\* returns FALSE.  lost, history: whether a token was told to be in an older one.
InStream(token, begins) ==
  [token EXCEPT !.at = [n \in DOMAIN @ |-> begins[@[n].bufhdl] + @[n].offset]]

LexBuffer ==
  /\ XML /\ chunks < MaxChunks /\ ~proc.lexer.thrown
  /\ chunks' = chunks + 1
  /\ \E n \in 0..Len(stream) - fed :
       LET lexer == Lex(proc.lexer, SubSeq(stream, fed + 1, fed + n), chunks + 1)
           begins == Append(proc.begins, fed + 1)
       IN  /\ fed' = fed + n
           /\ got' = got \o [k \in DOMAIN lexer.told |-> InStream(lexer.told[k], begins)]
           /\ proc' = [proc EXCEPT
                !.lexer = lexer, !.begins = begins,
                !.kept = IF Keeps(lexer) THEN LastBuf(lexer) ELSE chunks + 2,
                !.lost = @ \/ \E token \in ToSet(lexer.told) :
                                \E place \in ToSet(token.at) : place.bufhdl < proc.kept]
  /\ UNCHANGED stream

WriteValue ==
  /\ Serial /\ proc.in = None /\ ~proc.out.crashed /\ fed < Len(stream)
  /\ proc' = [proc EXCEPT !.out = AddValue(@, stream[fed + 1])]
  /\ fed' = fed + 1
  /\ UNCHANGED <<stream, chunks, got>>

\* The chunk is taken, and read from as much of it as the reader has been given.
HandOver ==
  /\ Serial /\ proc.in = None /\ ~proc.out.crashed
  /\ \E n \in 0..proc.out.pos : \E chnk \in Forms(SubSeq(TakeChunk(proc.out).data, 1, n)) :
       proc' = [proc EXCEPT !.in = InSerializer(chnk)]
  /\ chunks' = chunks + 1
  /\ UNCHANGED <<stream, fed, got>>

\* The values are read in the order they were written in, and one more than there are.
ReadValue ==
  /\ Serial /\ proc.in # None /\ Len(got) <= fed
  /\ LET in == GetValue(proc.in, stream[(Len(got) % Len(stream)) + 1])
     IN  proc' = [proc EXCEPT !.in = in] /\ got' = Append(got, in.val)
  /\ UNCHANGED <<stream, fed, chunks>>

Next == Write \/ Read \/ LexBuffer \/ WriteValue \/ HandOver \/ ReadValue
Spec == Init /\ [][Next]_vars

-----------------------------------------------------------------------------
(* What is to come out.                                                    *)

BytesOf(chnks) == FlattenSeq([n \in DOMAIN chnks |-> Bytes(chnks[n])])
Some(chnk) == IF chnk = None THEN <<>> ELSE <<chnk>>
\* What a chopper holds: what has been cut, what has been copied, what is to be cut.
Held == BytesOf(Some(proc.outgoing))
          \o (IF proc.curdata = None THEN <<>> ELSE SubSeq(proc.curdata, 1, proc.used))

\* The elements of a stream of telnet, by the grammar.  A suboption that is not
\* complete counts if it is given up.
RECURSIVE Unescaped(_)
Unescaped(raw) ==
  IF Len(raw) < 2 THEN SelectSeq(raw, LAMBDA b : b # "IAC")
  ELSE IF raw[1] = "IAC" /\ raw[2] = "IAC" THEN <<"IAC">> \o Unescaped(SubSeq(raw, 3, Len(raw)))
  ELSE IF raw[1] = "IAC" THEN <<"IAC", raw[2]>> \o Unescaped(SubSeq(raw, 3, Len(raw)))
  ELSE <<raw[1]>> \o Unescaped(Tail(raw))

\* Where the suboption whose data begins at n ends: at the first IAC that SE
\* follows, the IACs before it read in pairs.
RECURSIVE SuboptEnd(_, _)
SuboptEnd(s, n) ==
  IF n >= Len(s) THEN 0
  ELSE IF s[n] # "IAC" THEN SuboptEnd(s, n + 1)
  ELSE IF s[n + 1] = "SE" THEN n ELSE SuboptEnd(s, n + 2)

\* The first element of a stream: what it gives, how many bytes it takes, and, if it
\* is not complete, how many are held back.  The skipped suboption gives nothing.
Complete(gives, takes) == [gives |-> gives, takes |-> takes, left |-> 0]
Begun(gives, left) == [gives |-> gives, takes |-> 0, left |-> left]
Subopt(opttype, raw) == <<<<"subopt", opttype, raw, Unescaped(raw)>>>>
FirstSubopt(s, end) ==
  IF end # 0 THEN Complete(Subopt(s[3], SubSeq(s, 4, end - 1)), end + 1)
  ELSE Begun(Subopt(s[3], SubSeq(s, 4, Len(s))), Len(s) - 3)
First(s) ==
  CASE s[1] # "IAC" -> Complete(<<<<"data", s[1]>>>>, 1)
    [] s = <<"IAC">> -> Begun(<<>>, 1)
    [] s[1] = "IAC" /\ Len(s) > 1 ->
         CASE s[2] = "IAC" -> Complete(<<<<"data", "IAC">>>>, 2)
           [] s[2] \in Commands -> Complete(<<<<"char", s[2]>>>>, 2)
           [] s[2] \in Negotiations \cup {"SB"} /\ Len(s) = 2 -> Begun(<<>>, 2)
           [] s[2] \in Negotiations /\ Len(s) > 2 -> Complete(<<<<"neg", s[2], s[3]>>>>, 3)
           [] s[2] = "SB" /\ Len(s) > 2 ->
                IF s[3] = "IAC" THEN Complete(<<>>, 3) ELSE FirstSubopt(s, SuboptEnd(s, 4))
           [] OTHER -> Complete(<<<<"data", "IAC">>, <<"data", s[2]>>>>, 2)

\* What a stream is, by the grammar: the elements told in it, and what has been begun
\* at its end and how many bytes of that are held back.
RECURSIVE Reading(_)
Preceded(told, reading) == [reading EXCEPT !.told = told \o @]
ReadingFrom(first, s) ==
  IF first.takes # 0 THEN Preceded(first.gives, Reading(SubSeq(s, first.takes + 1, Len(s))))
  ELSE [told |-> <<>>, begun |-> first.gives, left |-> first.left]
Reading(s) ==
  IF s = <<>> THEN [told |-> <<>>, begun |-> <<>>, left |-> 0] ELSE ReadingFrom(First(s), s)

\* What is told of a stream cut like this.  What has been begun is given up, and the
\* grammar starts anew, at an empty chunk or where too much is held back.  before: what
\* was told up to there.  barren: whether a chunk with bytes in it completed no element.
Extended(sofar, size, reading) ==
  LET told == sofar.before \o reading.told
      ended == told \o reading.begun
      barren == sofar.barren \/ (size > 0 /\ Len(told) = Len(sofar.told))
  IN  IF reading.left > (IF size = 0 THEN 0 ELSE MaxSuboptSize)
      THEN [from |-> sofar.upto + size, upto |-> sofar.upto + size, before |-> ended,
            told |-> ended, barren |-> sofar.barren]
      ELSE [sofar EXCEPT !.upto = @ + size, !.told = told, !.barren = barren]
Expected(cuts) ==
  FoldLeft(LAMBDA sofar, cut :
             Extended(sofar, cut - sofar.upto, Reading(SubSeq(stream, sofar.from + 1, cut))),
           [from |-> 0, upto |-> 0, before |-> <<>>, told |-> <<>>, barren |-> FALSE], cuts)

\* A chunk that waits for its turn has not been parsed.
ParsedCuts ==
  IF proc.incoming # None /\ proc.p.chunks = <<>> /\ ~Crashed THEN Front(proc.cuts)
  ELSE proc.cuts
EmptySuboption(element) == element[1] = "subopt" /\ element[3] = <<>>

\* The tokens of an XML text from place n on, by the grammar: between the tags,
\* in a tag behind the element's name or a value, and in a comment.
Token(kind, at, name) == [kind |-> kind, at |-> at, name |-> name]
At(s, n) == IF n <= Len(s) THEN s[n] ELSE ""
Skip(s, n, bytes) ==
  CHOOSE m \in n..Len(s) + 1 : At(s, m) \notin bytes /\ \A k \in n..m - 1 : s[k] \in bytes
NameAt(s, n) == SubSeq(s, n, Skip(s, n, NameBody) - 1)

\* Two dashes end a comment, or else what follows them is a part of it.
RECURSIVE CommentEnd(_, _)
CommentEnd(s, n) ==
  IF n >= Len(s) - 1 THEN Len(s) + 1
  ELSE IF <<s[n], s[n + 1]>> # <<"-", "-">> THEN CommentEnd(s, n + 1)
  ELSE IF s[n + 2] = ">" THEN n + 3 ELSE CommentEnd(s, n + 3)

RECURSIVE Text(_, _, _), InTag(_, _, _)
Text(s, n, nonwsok) ==
  LET name == NameAt(s, n + 1)
      closing == NameAt(s, n + 2)
      gt == Skip(s, n + 2 + Len(closing), White)
  IN  CASE At(s, n) = "" -> <<>>
        [] At(s, n) # "<" /\ (nonwsok \/ At(s, n) \in White) -> Text(s, n + 1, nonwsok)
        [] At(s, n) = "<" /\ <<At(s, n + 1), At(s, n + 2), At(s, n + 3)>> = <<"!", "-", "-">> ->
             Text(s, CommentEnd(s, n + 4), nonwsok)
        [] At(s, n) = "<" /\ At(s, n + 1) = "/" /\ At(s, n + 2) \in NameStart /\ At(s, gt) = ">" ->
             <<Token("close", <<n, gt + 1>>, closing)>> \o Text(s, gt + 1, nonwsok)
        [] At(s, n) = "<" /\ At(s, n + 1) \in NameStart /\ n + Len(name) < Len(s) ->
             <<Token("start", <<n>>, name)>> \o InTag(s, n + 1 + Len(name), nonwsok)
        [] OTHER -> <<>>
InTag(s, blank, nonwsok) ==
  LET n == Skip(s, blank, White)
      name == NameAt(s, n)
      eq == Skip(s, n + Len(name), White)
      quote == Skip(s, eq + 1, White)
      end == Skip(s, quote + 1, ToSet(s) \ {At(s, quote), "<"})
  IN  CASE At(s, n) = ">" -> <<Token("end", <<n + 1>>, <<>>)>> \o Text(s, n + 1, nonwsok)
        [] At(s, n) = "/" /\ At(s, n + 1) = ">" ->
             <<Token("empty", <<n + 2>>, <<>>)>> \o Text(s, n + 2, nonwsok)
        [] /\ At(s, n) \in NameStart /\ At(s, eq) = "="
           /\ At(s, quote) \in {"'", "\""} /\ At(s, end) = At(s, quote) ->
             <<Token("attr", <<n, end + 1, quote + 1, end>>, name)>> \o InTag(s, end + 1, nonwsok)
        [] OTHER -> <<>>

\* How many bytes a value takes, and what is read of it: a string that is too long
\* is cut.  Of what is not there, nothing.
Longest == Base * Base - 2
Size(value) ==
  CASE value.type \in DOMAIN Width -> Width[value.type]
    [] value.type = "bool" -> 1
    [] value.type = "string" -> 3 + Least(Len(value.is), Longest)
    [] value.type = "raw" -> Len(value.is)
Sizes(n) == FoldLeft(LAMBDA sum, value : sum + Size(value), 0, SubSeq(stream, 1, n))
Kept(value) ==
  IF value.type # "string" THEN value.is
  ELSE SubSeq(value.is, 1, Least(Len(value.is), Longest))
Nothing(value) ==
  CASE value.type \in DOMAIN Width -> 0
    [] value.type = "bool" -> FALSE
    [] value.type = "string" -> <<>>
    [] value.type = "raw" -> None

\* What an element that has been handed out says when it is sent on.  A suboption
\* that was given up in the middle of an escape ends in an IAC, and so runs into
\* what ends it; but one made anew from its cooked data says the same.
MidEscape(raw) ==
  LET last == SelectLastInSeq(raw, LAMBDA b : b # "IAC") IN (Len(raw) - last) % 2 = 1
SaysTheSame(data) ==
  /\ data.kind = "subopt" =>
       LET anew == Suboption(data.opttype, CookedToRaw(data.cooked))
       IN  Reading(Bytes(anew)).told
             = <<<<"subopt", data.opttype, CookedToRaw(data.cooked).data, data.cooked>>>>
  /\ \/ data.kind = "subopt" /\ MidEscape(Bytes(data.raw))
     \/ Reading(Bytes(AsSent(data))).told = ElementsOf(data)

-----------------------------------------------------------------------------
(* Properties.                                                             *)

\* StreamProcessor.h: a processor keeps a chunk it was given only while it has
\* something to read; and whatever could go out is offered.  Only a telnet chunker
\* whose program has used a NULL pointer keeps both.
NothingStuck ==
  Streaming /\ ~Crashed /\ ~proc.outgoing_ready =>
    /\ proc.incoming = None
    /\ Telnet => proc.p.chunks = <<>>
    /\ Chopping => \A n \in DOMAIN Held : ~IsChopChar(Held[n])

\* A chopper loses, doubles and reorders no byte, and what it hands out ends at
\* its first chop character.
Chopped ==
  Chopping =>
    /\ FlattenSeq(got) \o Held \o BytesOf(Some(proc.incoming)) = SubSeq(stream, 1, fed)
    /\ \A piece \in ToSet(got) :
         piece # <<>> /\ SelectInSeq(piece, IsChopChar) = Len(piece)

\* What a telnet chunker hands out depends on the bytes, and on where an empty chunk
\* or too long a suboption made it give up what was under way, but not on how the bytes
\* were cut in chunks.  As it is written it does not get past an empty suboption
\* (TelnetChunkerData.h:195), and nothing else stops it.  Its assert that a chunk brings
\* something to hand out (TelnetChunker.cxx:313) fails for the chunks that complete
\* no element, and for no others.
Parses ==
  LET chnks == Some(proc.outgoing) \o proc.p.chunks
      stops(elements) == SelectInSeq(elements, EmptySuboption)
      agrees(told, expected) ==
        /\ Crashed <=> stops(expected.told) # 0
        /\ told = IF Crashed THEN SubSeq(expected.told, 1, stops(expected.told) - 1)
                  ELSE expected.told
        /\ "hasData" \in proc.p.broken <=> expected.barren
  IN  Telnet =>
        /\ agrees(got \o FlattenSeq([n \in DOMAIN chnks |-> ElementsOf(chnks[n])]),
                  Expected(ParsedCuts))
        /\ \A chnk \in ToSet(chnks) : ~IsData(chnk) => SaysTheSame(chnk)

\* The lexer tells the tags and attributes that the grammar finds in the text,
\* with their places, however the text is cut in buffers; it gives up only at a
\* name that does not fit.  Lexer.h: lastbuf is the earliest buffer the lexer still
\* uses, so a caller that drops those before it is told of no place in one of them.
Lexed ==
  XML =>
    /\ IF proc.lexer.thrown
       THEN \E n \in 1..fed : n + NameSize <= fed /\ Len(NameAt(stream, n)) > NameSize
       ELSE got = Text(SubSeq(stream, 1, fed), 1, proc.lexer.nonwsok)
    /\ ~proc.lost

\* OutSerializer.h, InSerializer.h: the values that are read are those that were
\* written, however large the buffer was and however the chunk is put together.
\* From the first one on that the reader has not been given whole, it is in error
\* and reads nothing.
RoundTrip ==
  Serial /\ proc.in # None =>
    LET there(n) == n <= fed /\ Sizes(n) <= proc.in.end.abs
        value(n) == stream[((n - 1) % Len(stream)) + 1]
    IN  /\ ~proc.out.broken
        /\ \A n \in DOMAIN got : got[n] = IF there(n) THEN Kept(value(n)) ELSE Nothing(value(n))
        /\ proc.in.had_error <=> \E n \in DOMAIN got : ~there(n)
        /\ ~proc.in.had_error => BytesLeft(proc.in) = proc.in.end.abs - Sizes(Len(got))

\* The iterators meet the bytes of a chunk in their order, forward and backward,
\* however the chunk is put together; a function applied to a part of it is applied
\* to the bytes of that part; and whatever writev(2) has written of it, what it is
\* given next is the rest.
IteratorsRight ==
  \A chnk \in IF Chopping THEN ToSet(Some(proc.incoming) \o Some(proc.outgoing)) ELSE {} :
    IsData(chnk) =>
      LET content == Content(chnk)
          length == Len(content)
          list == StartChunk(chnk)
      IN  /\ Onward(Begin(chnk), End(chnk)) = content
          /\ Backward(End(chnk), Begin(chnk)) = content
          /\ \A off \in 0..length : \A len \in 0..length - off + 1 :
               Applied(chnk, Extent(off, len))
                 = SubSeq(content, off + 1, Least(off + len, length))
          /\ \A first \in 0..length : \A second \in 0..length - first :
               LET rest == AdvanceBy(AdvanceBy(list, first), second)
               IN  /\ FlattenSeq(GetIOVec(rest)) = SubSeq(content, first + second + 1, length)
                   /\ LeftIn(rest) = length - first - second

\* The asserts of the telnet parser and chunker hold, and an OutSerializer writes
\* to its buffer.
AssertsHold == (Telnet => proc.p.broken = {}) /\ (Serial => ~proc.out.crashed)

\* StrChunk.h: a chunk does not change once it has been made.
ChunksStay == Chopping => ~proc.spoilt
=============================================================================
