------------------------------ MODULE PlugRing ------------------------------
(***************************************************************************)
(* StreamSplitter, ProcessorModule, EchoModule and InfiniteModule plugged  *)
(* together by a program, the way StrMod's tests do it:                    *)
(*                                                                         *)
(*   source -> SideIn  \                                                   *)
(*                      SideBiDir <-> OneSide | OtherSide <-> echo         *)
(*   sink  <- SideOut  /                                                   *)
(*                                                                         *)
(* A chunk from the source goes through the processor to the echo and back *)
(* to the sink.  An InfiniteModule may take the place of the source or of  *)
(* the sink.  Source and sink are ends: plugs of modules of the program,   *)
(* with chunks to give and room for chunks, or not.  The program plugs,    *)
(* unplugs and deletes plugs in any order.                                 *)
(***************************************************************************)
EXTENDS StreamSplitter, EchoModule, ProcessorModule

CONSTANTS Source, Sink, MaxChunks, MaxPlugIns

VARIABLES given,   \* chunks are numbered in the order they are given
          got,     \* history: the chunks that arrived
          plugins  \* how often something was plugged in, at most MaxPlugIns

vars == <<plugvars, proc, given, got, plugins>>

Pairs == {{Source, SideIn}, {IPlug, SideIn}, {SideBiDir, OneSide},
          {OtherSide, EPlug}, {Sink, SideOut}, {IPlug, SideOut}}

Init ==
  /\ PlugInit(PMPlugs, Plugs \ {IPlug}) /\ ProcessorInit
  /\ given = 0 /\ got = <<>> /\ plugins = 0

-----------------------------------------------------------------------------
(* The program and its ends.                                               *)

MakePlug(p) ==
  /\ p \notin made \cup {IPlug}
  /\ made' = made \cup {p}
  /\ UNCHANGED <<other, flags, stack, ret>>

Plug(p, o) ==
  /\ {p, o} \in Pairs /\ {p, o} \subseteq made
  /\ plugins < MaxPlugIns /\ plugins' = plugins + 1
  /\ PlugInto(p, o)

CallUnPlug(p) ==
  /\ other[p] # None
  /\ stack' = <<Frame("unPlug", p)>>
  /\ UNCHANGED <<other, flags, made, ret>>

EndSpeaksUp ==
  /\ \/ /\ Source \notin canread /\ given < MaxChunks
        /\ stack' = <<Set("setReadable", Source, TRUE)>>
     \/ /\ Sink \notin canwrite /\ Len(got) < MaxChunks
        /\ stack' = <<Set("setWriteable", Sink, TRUE)>>
  /\ UNCHANGED <<other, flags, made, ret>>

\* Only plugs that are plugged in are deleted: deleting another shows nothing.
\* EchoModule::plugDisconnected asserts that its plug has not been deleted
\* (EchoModule.cxx:60); the ring goes on, as a build without asserts does.
PluggedIn == {p \in Plugs : other[p] # None}

Program ==
  /\ Idle
  /\ \/ /\ \/ \E p \in Plugs : MakePlug(p) \/ CallUnPlug(p)
           \/ \E p \in PluggedIn : SPDeletePlug(p)
           \/ EPlug \in PluggedIn /\ EPDeletePlug
           \/ IPlug \in PluggedIn /\ IPDeletePlug
           \/ EndSpeaksUp \/ IPMakePlug
        /\ UNCHANGED <<proc, plugins>>
     \/ \E p \in PluggedIn : PMDeletePlug(p) /\ UNCHANGED plugins
     \/ \E p, o \in Plugs : Plug(p, o) /\ UNCHANGED proc
  /\ UNCHANGED <<given, got>>

\* i_Read and i_Write of the ends, and of the InfiniteModule, whose one chunk
\* is numbered here as if it were many.  An end may unplug itself when it is
\* out of chunks or of room.
EndRead ==
  /\ Running("i_Read") /\ Top.plug \in {Source, IPlug}
  /\ given' = given + 1
  /\ \E more, stays \in BOOLEAN :
       /\ Top.plug = IPlug => more
       /\ given' >= MaxChunks /\ Top.plug = Source => ~more
       /\ more => stays
       /\ Calls(If(~more, <<Set("setReadable", Source, FALSE)>>)
                \o If(~stays, <<Frame("unPlug", Source)>>)
                \o <<Set("return", Top.plug, given')>>)
  /\ UNCHANGED <<other, flags, made, ret, proc, got, plugins>>

EndWrite ==
  /\ Running("i_Write") /\ Top.plug \in {Sink, IPlug}
  /\ got' = Append(got, ret)
  /\ ret' = None
  /\ \E room, stays \in BOOLEAN :
       /\ Top.plug = IPlug => room
       /\ Len(got') >= MaxChunks /\ Top.plug = Sink => ~room
       /\ room => stays
       /\ Calls(If(~room, <<Set("setWriteable", Sink, FALSE)>>)
                \o If(~stays, <<Frame("unPlug", Sink)>>)
                \o <<Frame("written", Top.plug)>>)
  /\ UNCHANGED <<other, flags, made, proc, given, plugins>>

EndDisconnected ==
  /\ Running("plugDisconnected") /\ Top.plug \in {Source, Sink}
  /\ Return
  /\ UNCHANGED <<other, flags, made, ret, proc, given, got, plugins>>

Ends == EndRead \/ EndWrite \/ EndDisconnected

Step ==
  \/ (Engine \/ SplitterCalls \/ EchoCalls \/ IPDisconnected)
     /\ UNCHANGED <<proc, given, got, plugins>>
  \/ ProcessorCalls /\ UNCHANGED <<given, got, plugins>>
  \/ Ends

Next == Program \/ Step

Spec == Init /\ [][Next]_vars

-----------------------------------------------------------------------------
(* Properties.                                                             *)

\* The chunks the two processors hold, the oldest first.
Held ==
  SelectSeq(<<proc[OtherSide].outgoing, proc[OtherSide].incoming,
              proc[OneSide].outgoing, proc[OneSide].incoming>>,
            LAMBDA c : c # None)

\* No chunk is lost, none arrives twice or out of order, whatever is
\* unplugged, deleted and plugged in again between two chunks.
AllInOrder == Idle => got \o Held = [n \in 1..given |-> n]

\* Whoever reads (writes) a plug of the splitter finds the plug on the far side
\* able; and when everything has returned the splitter's flags say exactly what
\* the plugs on the far side can do, whatever was plugged in and out.
SplitterFollows ==
  /\ ReadsSomething /\ WritesSomewhere
  /\ Idle => /\ SideBiDir \in canread <=> CanReadOther(SideIn)
             /\ SideBiDir \in canwrite <=> CanWriteOther(SideOut)
             /\ SideOut \in canread <=> CanReadOther(SideBiDir)
             /\ SideIn \in canwrite <=> CanWriteOther(SideBiDir)
=============================================================================
