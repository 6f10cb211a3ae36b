----------------------------- MODULE EchoModule -----------------------------
(***************************************************************************)
(* StrMod/EchoModule.h and EchoModule.cxx: one plug that is read by        *)
(* reading, and written by writing, the plug it is plugged into; and       *)
(* StrMod/InfiniteModule.h and InfiniteModule.cxx: one plug that can       *)
(* always be read and always be written.                                   *)
(***************************************************************************)
EXTENDS StreamModule

CONSTANTS EPlug, \* EchoModule's plug
          IPlug  \* InfiniteModule's plug

\* The two lines that end i_Read and i_Write, and the notifications.
Follows(flag, of) ==
  Set(flag, EPlug, other[EPlug] # None /\ other[EPlug] \in of)
BothOff(p) == <<Set("setReadable", p, FALSE), Set("setWriteable", p, FALSE)>>

EPRead ==
  /\ Running("i_Read") /\ Top.plug = EPlug
  /\ Calls(<<Frame("i_Read", other[EPlug]), Frame("echoRead", EPlug)>>)
  /\ UNCHANGED <<other, flags, made, ret>>

EPWrite ==
  /\ Running("i_Write") /\ Top.plug = EPlug
  /\ Calls(<<Frame("i_Write", other[EPlug]), Frame("echoWritten", EPlug),
             Frame("written", EPlug)>>)
  /\ UNCHANGED <<other, flags, made, ret>>

EPGoesOn ==
  /\ \/ /\ Running("echoRead")
        /\ Calls((IF other[EPlug] = None THEN BothOff(EPlug)
                  ELSE <<Follows("setReadable", canread)>>)
                 \o <<Set("return", EPlug, ret)>>)
     \/ /\ Running("echoWritten")
        /\ Calls(IF other[EPlug] = None THEN BothOff(EPlug)
                 ELSE <<Follows("setWriteable", canwrite)>>)
  /\ UNCHANGED <<other, flags, made, ret>>

EPNotified ==
  /\ \/ /\ Running("otherIsReadable") /\ Top.plug = EPlug
        /\ Calls(<<Follows("setReadable", canread)>>)
     \/ /\ Running("otherIsWriteable") /\ Top.plug = EPlug
        /\ Calls(<<Follows("setWriteable", canwrite)>>)
  /\ UNCHANGED <<other, flags, made, ret>>

EPDisconnected ==
  /\ Running("plugDisconnected") /\ Top.plug = EPlug
  /\ Calls(BothOff(EPlug))
  /\ UNCHANGED <<other, flags, made, ret>>

\* deletePlug: the flag falls first.
EPDeletePlug ==
  /\ EPlug \in made
  /\ made' = made \ {EPlug}
  /\ stack' = <<Frame("unPlug", EPlug)>> \o stack
  /\ UNCHANGED <<other, flags, ret>>

EchoCalls == EPRead \/ EPWrite \/ EPGoesOn \/ EPNotified \/ EPDisconnected

\* EchoModule::plugDisconnected asserts that its plug is there.
EchoDisconnectAssert ==
  Running("plugDisconnected") /\ Top.plug = EPlug => EPlug \in made

-----------------------------------------------------------------------------
(* InfiniteModule, without the chunk it hands out or takes: its i_Read and *)
(* i_Write change nothing.                                                 *)

\* i_MakePlug: nobody can be plugged in yet, so no loop runs.
IPMakePlug ==
  /\ IPlug \notin made
  /\ made' = made \cup {IPlug}
  /\ canread' = canread \cup {IPlug} /\ canwrite' = canwrite \cup {IPlug}
  /\ UNCHANGED <<other, isreading, iswriting, notifyonread, notifyonwrite,
                 stack, ret>>

IPDeletePlug ==
  /\ IPlug \in made
  /\ made' = made \ {IPlug}
  /\ stack' = <<Frame("unPlug", IPlug)>> \o BothOff(IPlug) \o stack
  /\ UNCHANGED <<other, flags, ret>>

IPDisconnected ==
  /\ Running("plugDisconnected") /\ Top.plug = IPlug
  /\ Return
  /\ UNCHANGED <<other, flags, made, ret>>
=============================================================================
