--------------------------- MODULE StreamProcessor ---------------------------
(***************************************************************************)
(* StrMod/StreamProcessor.h: something that turns incoming chunks into     *)
(* outgoing ones and holds at most one of each.  processIncoming belongs   *)
(* to the kind of processor.                                               *)
(***************************************************************************)
CONSTANTS None, ProcessIncoming(_)

Fresh == [incoming |-> None, outgoing |-> None, outgoing_ready |-> FALSE]

CanWriteTo(proc) == proc.incoming = None
CanReadFrom(proc) == proc.outgoing_ready

WriteTo(proc, chnk) ==
  LET fed == [proc EXCEPT !.incoming = chnk]
  IN  IF proc.outgoing_ready THEN fed ELSE ProcessIncoming(fed)

\* Mutant: the chunk that waits is not processed when its turn comes.
NeverGoesOn(proc) == [proc EXCEPT !.outgoing = None, !.outgoing_ready = FALSE]

\* readFrom returns proc.outgoing and leaves the processor like this.
ReadFrom(proc) ==
  LET taken == [proc EXCEPT !.outgoing = None, !.outgoing_ready = FALSE]
  IN  IF proc.incoming = None THEN taken ELSE ProcessIncoming(taken)
=============================================================================
