---------------------------- MODULE TelnetChunker ----------------------------
(***************************************************************************)
(* StrMod/TelnetChunker.cxx: the StreamProcessor that parses what goes     *)
(* through it, chunk by chunk, and hands out what it has parsed one piece  *)
(* at a time.  Chunks whose end belongs to something that is not complete  *)
(* are kept and put together with those that follow (curchunk).            *)
(***************************************************************************)
EXTENDS TelnetParser

CONSTANT MaxSuboptSize  \* MAX_SUBOPTSIZE

\* What is given up is a suboption, and so something goes out: processIncoming's
\* return for nothing (line 291) is never met.
ASSUME TelnetConstants == MaxSuboptSize \in Nat \ {0, 1}

HasData(p) == p.chunks # <<>>
ClearIncoming(p) == [p EXCEPT !.curchunk = None]

\* A group is made of what is held, unless it is one nobody else holds: what
\* has been handed out does not change.
AddIncoming(p, chnk) ==
  [p EXCEPT !.curchunk = IF @ = None THEN chnk
                         ELSE IF @.kind = "group" THEN Group(Append(@.parts, chnk))
                         ELSE Group(<<@, chnk>>)]

\* An empty chunk ends what is under way, and goes out behind it.
EmptyIncoming(p, chnk) ==
  LET begun == IF p.regionbegin = CurLen(p) THEN p ELSE Reset(p)
      dropped == ClearIncoming(DropBytes(begun, begun.regionbegin))
  IN  [dropped EXCEPT !.chunks = Append(@, chnk)]

Parsed(p, chnk) == FoldLeft(ProcessData, AddIncoming(p, chnk), StartVisit(chnk))

\* Mutant: what is held is dropped although a part of it is not parsed.
DropsTooMuch(p, chnk) ==
  LET total == CurLen(p)
      inlen == Length(chnk)
  IN  IF p.regionbegin # 0 THEN [DropBytes(p, total - inlen) EXCEPT !.curchunk = chnk] ELSE p

\* What of a suboption under way goes on for too long is given up; what is
\* parsed is dropped, by the chunk.
Dropped(p, chnk) ==
  LET total == CurLen(p)
      inlen == Length(chnk)
      left == total - p.regionbegin
  IN  IF left > MaxSuboptSize THEN ClearIncoming(DropBytes(Reset(p), total))
      ELSE IF left = 0 THEN ClearIncoming(DropBytes(p, total))
      ELSE IF p.regionbegin # 0 /\ left <= inlen
      THEN [DropBytes(p, total - inlen) EXCEPT !.curchunk = chnk]
      ELSE p

\* A crash ends it all.
Ended(p, chnk) == IF p.crashed THEN p ELSE Dropped(EndOfChunk(p), chnk)

ParseIncoming(p, chnk) ==
  CASE HasData(p) -> p
    [] ~HasData(p) /\ Length(chnk) = 0 -> EmptyIncoming(p, chnk)
    [] ~HasData(p) /\ Length(chnk) > 0 -> Ended(Parsed(p, chnk), chnk)

\* Nothing goes out of a chunk that has only the beginning of something.
HandOut(proc, p) ==
  LET given == [p EXCEPT !.chunks = Tail(@)]
  IN  IF p.crashed THEN [proc EXCEPT !.p = p]
      ELSE IF ~HasData(p)
      THEN [proc EXCEPT !.p = Asserted(p, FALSE, "hasData"), !.incoming = None]
      ELSE [proc EXCEPT !.p = given, !.outgoing = Head(p.chunks), !.outgoing_ready = TRUE,
                        !.incoming = IF HasData(given) THEN @ ELSE None]

\* processIncoming without asserts: the parser goes on where one would fail, unless
\* it crashes.
ChunkIncoming(proc) == HandOut(proc, ParseIncoming(proc.p, proc.incoming))

-----------------------------------------------------------------------------
(* TelnetChunkerData.h: the chunks that hold the elements of the stream as *)
(* they are sent.  acceptVisitor shows a suboption's data between the      *)
(* bytes around it, as a group would.                                      *)

SingleChar(command) == Buffer(<<"IAC", command>>)
OptionNegotiation(request, opttype) == Buffer(<<"IAC", request, opttype>>)
Suboption(opttype, raw) ==
  Group(<<Buffer(<<"IAC", "SB", opttype>>), raw, Buffer(<<"IAC", "SE">>)>>)

\* The data of a suboption that is made from what it is to mean.
CookedToRaw(cooked) ==
  Buffer(FlattenSeq([n \in DOMAIN cooked |-> IF cooked[n] = "IAC" THEN <<"IAC", "IAC">>
                                             ELSE <<cooked[n]>>]))

AsSent(data) ==
  CASE data.kind = "char" -> SingleChar(data.command)
    [] data.kind = "neg" -> OptionNegotiation(data.request, data.opttype)
    [] data.kind = "subopt" -> Suboption(data.opttype, data.raw)
=============================================================================
