------------------------------ MODULE XMLLexer ------------------------------
(***************************************************************************)
(* xml/utf8/Lexer.h, utf8_Lexer.cpp and utf8_LexerSane.cpp: finds the tags *)
(* and attributes in a text that comes buffer by buffer, and tells a       *)
(* Builder where they begin and end.  A place is a buffer's handle and an  *)
(* offset in that buffer, from 0.                                          *)
(*                                                                         *)
(* A byte stands for those the lexer treats alike.  Nothing enters the     *)
(* lexer's entity substates, so they are not here.                         *)
(***************************************************************************)
EXTENDS Naturals, Sequences, SequencesExt

CONSTANTS White, NameStart, NameBody,  \* the bytes of iswhite, isnamestart, isnamebody
          NameSize                     \* 256, how long a name may be

ASSUME LexerConstants == NameSize \in Nat \ {0} /\ NameStart \subseteq NameBody

iswhite(c) == c \in White
isnamestart(c) == c \in NameStart
isnamebody(c) == c \in NameBody

Position(bufhdl, offset) == [bufhdl |-> bufhdl, offset |-> offset]
Nowhere == Position(0, 0)

\* usedel, usedattr: whether elbegin, and attrbegin and valbegin, are in use.
NewLexer(nonwsok) ==
  [state |-> "Start", substate |-> "None", name |-> <<>>, usedel |-> FALSE, usedattr |-> FALSE,
   elbegin |-> Nowhere, attrbegin |-> Nowhere, valbegin |-> Nowhere,
   nonwsok |-> nonwsok, told |-> <<>>, thrown |-> FALSE]

Goes(ss, state) == [ss EXCEPT !.state = state]

\* The Builder is called; told is what it has been told in this buffer.
Tell(ss, kind, at, name) ==
  [ss EXCEPT !.told = Append(@, [kind |-> kind, at |-> at, name |-> name])]
StartElementTag(ss) == Tell(ss, "start", <<ss.elbegin>>, ss.name)
EndElementTag(ss, end, wasempty) == Tell(ss, IF wasempty THEN "empty" ELSE "end", <<end>>, <<>>)
CloseElementTag(ss, end) == Tell(ss, "close", <<ss.elbegin, end>>, ss.name)
AddAttribute(ss, end, valend) ==
  Tell(ss, "attr", <<ss.attrbegin, end, ss.valbegin, valend>>, ss.name)

\* A byte of a name, or the first one behind it.
AdvanceSubstate(ss, c) ==
  CASE ss.substate = "StartName" ->
         IF isnamestart(c)
         THEN [ss EXCEPT !.substate = "InName", !.name = Append(@, c)]
         ELSE [ss EXCEPT !.substate = "Bad"]
    [] ss.substate = "InName" ->
         IF ~isnamebody(c) THEN [ss EXCEPT !.substate = "None"]
         ELSE IF Len(ss.name) >= NameSize THEN [ss EXCEPT !.thrown = TRUE]
         ELSE [ss EXCEPT !.name = Append(@, c)]
    [] ss.substate \in {"None", "Bad"} -> ss

-----------------------------------------------------------------------------
(* The states, at the byte c in place at.                                  *)

NameBegins(ss, c) == [ss EXCEPT !.substate = "InName", !.name = <<c>>]
Behind(at) == [at EXCEPT !.offset = @ + 1]

OnStart(ss, c, at) ==
  IF c = "<" THEN [ss EXCEPT !.elbegin = at, !.usedel = TRUE, !.state = "Less"]
  ELSE IF ss.nonwsok \/ iswhite(c) THEN ss ELSE Goes(ss, "Bad")

OnLess(ss, c) ==
  CASE c = "!" -> [ss EXCEPT !.state = "CommentExcl", !.usedel = FALSE]
    [] isnamestart(c) -> Goes(NameBegins(ss, c), "OpenElement")
    [] c = "/" -> [ss EXCEPT !.state = "CloseElement", !.substate = "StartName", !.name = <<>>]
    [] OTHER -> Goes(ss, "Bad")

\* A comment ends where > follows two dashes; a third dash is nothing special.
OnComment(ss, c) ==
  Goes(ss, CASE ss.state = "CommentExcl" -> IF c = "-" THEN "CommentExclDash" ELSE "Bad"
             [] ss.state = "CommentExclDash" -> IF c = "-" THEN "InComment" ELSE "Bad"
             [] ss.state = "InComment" -> IF c = "-" THEN "DashInComment" ELSE "InComment"
             [] ss.state = "DashInComment" -> IF c = "-" THEN "DashDashInComment" ELSE "InComment"
             [] ss.state = "DashDashInComment" -> IF c = ">" THEN "Start" ELSE "InComment")

\* Mutant: the place where an attribute begins is not kept.
ForgetsAttr(ss, c, at) ==
  CASE c = ">" -> Goes(EndElementTag(ss, Behind(at), FALSE), "Start")
    [] c = "/" -> Goes(ss, "EmptyElementEnd")
    [] isnamestart(c) -> [NameBegins(ss, c) EXCEPT !.state = "Attr", !.attrbegin = at]
    [] iswhite(c) -> ss
    [] OTHER -> Goes(ss, "Bad")

OnInOpenElement(ss, c, at) ==
  CASE c = ">" -> Goes(EndElementTag(ss, Behind(at), FALSE), "Start")
    [] c = "/" -> Goes(ss, "EmptyElementEnd")
    [] isnamestart(c) -> [NameBegins(ss, c) EXCEPT !.state = "Attr", !.attrbegin = at,
                                                     !.usedattr = TRUE]
    [] iswhite(c) -> ss
    [] OTHER -> Goes(ss, "Bad")

\* The element's name is known, and c is not a part of a name.
OnOpenElement(ss, c, at) ==
  LET started == [StartElementTag(ss) EXCEPT !.usedel = FALSE]
  IN  IF iswhite(c) THEN Goes(started, "InOpenElement") ELSE OnInOpenElement(started, c, at)

OnEmptyElementEnd(ss, c, at) ==
  IF c = ">" THEN Goes(EndElementTag(ss, Behind(at), TRUE), "Start") ELSE Goes(ss, "Bad")

\* CloseElement and InCloseElement.
OnCloseElement(ss, c, at) ==
  CASE c = ">" -> [CloseElementTag(ss, Behind(at)) EXCEPT !.usedel = FALSE, !.state = "Start"]
    [] iswhite(c) -> Goes(ss, "InCloseElement")
    [] OTHER -> Goes(ss, "Bad")

OnAttr(ss, c) ==
  IF c = "=" THEN Goes(ss, "AttrAfterEq") ELSE IF iswhite(c) THEN ss ELSE Goes(ss, "Bad")

\* The state of a value is its quote.
OnAttrAfterEq(ss, c, at) ==
  IF c \in {"'", "\""} THEN [ss EXCEPT !.state = c, !.valbegin = Behind(at)]
  ELSE IF iswhite(c) THEN ss ELSE Goes(ss, "Bad")

OnAttrValue(ss, c, at) ==
  CASE c = ss.state -> [AddAttribute(ss, Behind(at), at) EXCEPT !.usedattr = FALSE,
                                                                !.state = "InOpenElement"]
    [] c = "<" -> Goes(ss, "Bad")
    [] OTHER -> ss

AdvanceState(old, c, at) ==
  LET ss == AdvanceSubstate(old, c)
  IN  CASE ss.substate = "Bad" -> Goes(ss, "Bad")
        [] ss.substate \in {"StartName", "InName"} -> ss
        [] OTHER ->
             CASE ss.state = "Start" -> OnStart(ss, c, at)
               [] ss.state = "Less" -> OnLess(ss, c)
               [] ss.state = "OpenElement" -> OnOpenElement(ss, c, at)
               [] ss.state = "InOpenElement" -> OnInOpenElement(ss, c, at)
               [] ss.state = "EmptyElementEnd" -> OnEmptyElementEnd(ss, c, at)
               [] ss.state \in {"CloseElement", "InCloseElement"} -> OnCloseElement(ss, c, at)
               [] ss.state = "Attr" -> OnAttr(ss, c)
               [] ss.state = "AttrAfterEq" -> OnAttrAfterEq(ss, c, at)
               [] ss.state \in {"'", "\""} -> OnAttrValue(ss, c, at)
               [] OTHER -> OnComment(ss, c)

\* The bytes of one buffer.  What is thrown leaves the lexer's state as it was,
\* but the Builder has been told.
Lex(lexer, buf, bufhdl) ==
  LET step(ss, n) == IF ss.state = "Bad" \/ ss.thrown THEN ss
                     ELSE AdvanceState(ss, buf[n], Position(bufhdl, n - 1))
      stackstate == FoldLeftDomain(step, [lexer EXCEPT !.told = <<>>], buf)
  IN  IF stackstate.thrown THEN [lexer EXCEPT !.thrown = TRUE, !.told = stackstate.told]
      ELSE stackstate

\* lastbuf, where lex returns TRUE.
Keeps(lexer) == lexer.usedel \/ lexer.usedattr
LastBuf(lexer) ==
  IF lexer.usedel THEN lexer.elbegin.bufhdl ELSE lexer.attrbegin.bufhdl
=============================================================================
