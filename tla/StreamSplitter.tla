--------------------------- MODULE StreamSplitter ---------------------------
(***************************************************************************)
(* StrMod/StreamSplitter.h and StreamSplitter.cxx: a plug for both         *)
(* directions split into a plug for each.  The module holds no chunk: a    *)
(* plug that is read reads the plug its partner is plugged into, and is    *)
(* readable when that one is.                                              *)
(***************************************************************************)
EXTENDS StreamModule

CONSTANTS SideIn, SideOut, SideBiDir

SPPlugs == {SideIn, SideOut, SideBiDir}

\* getReadPartner and getWritePartner, None for NULL.
ReadPartner(p) == IF p = SideOut THEN SideBiDir
                  ELSE IF p = SideBiDir THEN SideIn ELSE None
WritePartner(p) == IF p = SideIn THEN SideBiDir
                   ELSE IF p = SideBiDir THEN SideOut ELSE None

\* A chunk can be read from (written to) what p is plugged into.
CanReadOther(p) == other[p] # None /\ other[p] \in canread
CanWriteOther(p) == other[p] # None /\ other[p] \in canwrite

\* SPPlug::i_Read; the asserts at its start are ReadsSomething below.
SPRead ==
  LET p == Top.plug
      o == other[ReadPartner(p)]
  IN  /\ Running("i_Read") /\ p \in SPPlugs
      /\ isreading' = isreading \cup {o}
      /\ Calls(<<Frame("i_Read", o), With("splitterRead", p, o)>>)
      /\ UNCHANGED <<other, canread, canwrite, iswriting, notifyonread,
                     notifyonwrite, made, ret>>

SPReadGoesOn ==
  LET p == Top.plug
  IN  /\ Running("splitterRead")
      /\ isreading' = isreading \ {Top.peer}
      /\ Calls(<<Set("setReadable", p, CanReadOther(ReadPartner(p))),
                 Set("return", p, ret)>>)
      /\ UNCHANGED <<other, canread, canwrite, iswriting, notifyonread,
                     notifyonwrite, made, ret>>

SPWrite ==
  LET p == Top.plug
      o == other[WritePartner(p)]
  IN  /\ Running("i_Write") /\ p \in SPPlugs
      /\ iswriting' = iswriting \cup {o}
      /\ Calls(<<Frame("i_Write", o), With("splitterWritten", p, o),
                 Frame("written", p)>>)
      /\ UNCHANGED <<other, canread, canwrite, isreading, notifyonread,
                     notifyonwrite, made, ret>>

SPWriteGoesOn ==
  LET p == Top.plug
  IN  /\ Running("splitterWritten")
      /\ iswriting' = iswriting \ {Top.peer}
      /\ Calls(<<Set("setWriteable", p, CanWriteOther(WritePartner(p)))>>)
      /\ UNCHANGED <<other, canread, canwrite, isreading, notifyonread,
                     notifyonwrite, made, ret>>

\* Mutant: the partner is only told of room, never that it is gone.
PartnerOnlyOpens(p) ==
  If(ReadPartner(p) # None /\ CanWriteOther(p),
     <<Set("setWriteable", ReadPartner(p), TRUE)>>)

\* otherIsReadable and otherIsWriteable pass the state of the other plug on.
TellsWritePartner(p) ==
  If(WritePartner(p) # None,
     <<Set("setReadable", WritePartner(p), CanReadOther(p))>>)
TellsReadPartner(p) ==
  If(ReadPartner(p) # None,
     <<Set("setWriteable", ReadPartner(p), CanWriteOther(p))>>)

SPNotified ==
  LET p == Top.plug
  IN  /\ \/ /\ Running("otherIsReadable") /\ p \in SPPlugs
            /\ Calls(TellsWritePartner(p))
         \/ /\ Running("otherIsWriteable") /\ p \in SPPlugs
            /\ Calls(TellsReadPartner(p))
      /\ UNCHANGED <<other, flags, made, ret>>

\* Mutant: losing the plug on SideBiDir only shuts SideIn.
ShutsOnlyIn(p) ==
  IF p = SideIn THEN <<Set("setReadable", SideBiDir, FALSE)>>
  ELSE IF p = SideOut THEN <<Set("setWriteable", SideBiDir, FALSE)>>
  ELSE <<Set("setWriteable", SideIn, FALSE)>>

\* What plugDisconnected shuts.
Shuts(p) ==
  IF p = SideIn THEN <<Set("setReadable", SideBiDir, FALSE)>>
  ELSE IF p = SideOut THEN <<Set("setWriteable", SideBiDir, FALSE)>>
  ELSE <<Set("setWriteable", SideIn, FALSE), Set("setReadable", SideOut, FALSE)>>

SPDisconnected ==
  /\ Running("plugDisconnected") /\ Top.plug \in SPPlugs
  /\ Calls(Shuts(Top.plug))
  /\ UNCHANGED <<other, flags, made, ret>>

SPDeletePlug(p) ==
  /\ p \in SPPlugs \cap made
  /\ made' = made \ {p}
  /\ stack' = If(other[p] # None, <<Frame("unPlug", p)>>) \o stack
  /\ UNCHANGED <<other, flags, ret>>

SplitterCalls ==
  SPRead \/ SPReadGoesOn \/ SPWrite \/ SPWriteGoesOn \/ SPNotified \/ SPDisconnected

\* The asserts of i_Read and i_Write: whoever reads (writes) a plug of the
\* splitter finds the plug on the far side plugged in, and able.
ReadsSomething ==
  Running("i_Read") /\ Top.plug \in SPPlugs => CanReadOther(ReadPartner(Top.plug))
WritesSomewhere ==
  Running("i_Write") /\ Top.plug \in SPPlugs => CanWriteOther(WritePartner(Top.plug))
=============================================================================
