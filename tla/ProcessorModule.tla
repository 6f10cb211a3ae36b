--------------------------- MODULE ProcessorModule ---------------------------
(***************************************************************************)
(* StrMod/ProcessorModule.h and ProcessorModule.cxx: two plugs with a      *)
(* stream processor for each direction between them; here each processor   *)
(* is a PassThrough (StrMod/PassThrough.h).                                *)
(***************************************************************************)
EXTENDS StreamModule

CONSTANTS OneSide, OtherSide  \* the two plugs

VARIABLE proc  \* by plug, the processor written by that plug: from_one, from_other

PMPlugs == {OneSide, OtherSide}
sibling == [p \in PMPlugs |-> IF p = OneSide THEN OtherSide ELSE OneSide]
writeproc(p) == proc[p]
readproc(p) == proc[sibling[p]]

\* PassThrough::processIncoming
PassOn(p) == [p EXCEPT !.outgoing = p.incoming, !.outgoing_ready = TRUE,
                       !.incoming = None]

PassThrough == INSTANCE StreamProcessor WITH ProcessIncoming <- PassOn

ProcessorInit == proc = [p \in PMPlugs |-> PassThrough!Fresh]

\* What setWriteableFlagFor is told after a chunk has been taken out.
SiblingOpens(p) == PassThrough!CanWriteTo(PassThrough!ReadFrom(readproc(p)))

\* PMPlug::i_Read: the sibling hears of the room before the plug looks whether
\* there is more to read.
PMRead ==
  LET p == Top.plug
  IN  /\ Running("i_Read") /\ p \in PMPlugs
      /\ proc' = [proc EXCEPT ![sibling[p]] = PassThrough!ReadFrom(@)]
      /\ Calls(<<Set("setWriteable", sibling[p], SiblingOpens(p)),
                 Frame("processorRead", p),
                 Set("return", p, readproc(p).outgoing)>>)
      /\ UNCHANGED <<other, flags, made, ret>>

PMWrite ==
  LET p == Top.plug
      fed == PassThrough!WriteTo(writeproc(p), ret)
  IN  /\ Running("i_Write") /\ p \in PMPlugs
      /\ proc' = [proc EXCEPT ![p] = fed]
      /\ Calls(<<Set("setReadable", sibling[p], PassThrough!CanReadFrom(fed)),
                 Frame("processorWritten", p), Frame("written", p)>>)
      /\ ret' = None
      /\ UNCHANGED <<other, flags, made>>

\* The last lines of i_Read and i_Write ask the processor anew: the sibling's
\* loop may have used it.
PMGoesOn ==
  LET p == Top.plug
  IN  /\ \/ /\ Running("processorRead")
            /\ Calls(<<Set("setReadable", p, PassThrough!CanReadFrom(readproc(p)))>>)
         \/ /\ Running("processorWritten")
            /\ Calls(<<Set("setWriteable", p, PassThrough!CanWriteTo(writeproc(p)))>>)
      /\ UNCHANGED <<other, flags, made, ret, proc>>

\* The module has no plugDisconnected of its own.
PMDisconnected ==
  /\ Running("plugDisconnected") /\ Top.plug \in PMPlugs
  /\ Return
  /\ UNCHANGED <<other, flags, made, ret, proc>>

\* deletePlug: what is in the processors stays there for the next plug.
PMDeletePlug(p) ==
  /\ p \in PMPlugs \cap made
  /\ stack' = <<Frame("unPlug", p)>> \o stack
  /\ made' = made \ {p}
  /\ UNCHANGED <<other, flags, ret, proc>>

ProcessorCalls == PMRead \/ PMWrite \/ PMGoesOn \/ PMDisconnected
=============================================================================
