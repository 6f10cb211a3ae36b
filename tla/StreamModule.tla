---------------------------- MODULE StreamModule ----------------------------
(***************************************************************************)
(* StrMod/StreamModule.h and StreamModule.cxx: plugs, the loops that move  *)
(* chunks between two plugs that are plugged into each other, and the      *)
(* notifications one plug sends the other.                                 *)
(*                                                                         *)
(* Everything happens in one thread by nested calls.  stack is the call    *)
(* stack, top first.  A frame is what remains to be done of a call: the    *)
(* frames of the calls a function makes stand above the frame of the rest  *)
(* of the function, and are read when their turn comes, as the code reads  *)
(* its flags again after each call.  ret is the chunk on its way between   *)
(* the i_Read that returned it and the i_Write that takes it.              *)
(*                                                                         *)
(* The kinds of modules extend this module with the actions of their       *)
(* plugs' virtual functions, which are the frames                          *)
(*   i_Read, i_Write, otherIsReadable, otherIsWriteable, plugDisconnected  *)
(***************************************************************************)
EXTENDS Integers, Sequences, SequencesExt, FiniteSets

CONSTANTS Plugs, None,
          NotifyReadable, \* the plugs whose needsNotifyReadable returns true
          NotifyWriteable

ASSUME PlugConstants ==
  /\ None \notin Plugs
  /\ NotifyReadable \subseteq Plugs /\ NotifyWriteable \subseteq Plugs

VARIABLES other,                         \* other_: the plug plugged into, or None
          canread, canwrite, isreading, iswriting,
          notifyonread, notifyonwrite,   \* flags, each the set of plugs that have it
          made,                          \* the plugs makePlug has handed out
          stack, ret

flags == <<canread, canwrite, isreading, iswriting, notifyonread, notifyonwrite>>
plugvars == <<other, flags, made, stack, ret>>

Frame(op, p) == [op |-> op, plug |-> p, peer |-> None, val |-> FALSE]
With(op, p, o) == [Frame(op, p) EXCEPT !.peer = o]
Set(op, p, v) == [Frame(op, p) EXCEPT !.val = v]

Idle == stack = <<>>
Running(op) == ~Idle /\ Head(stack).op = op
Top == Head(stack)

\* What is left of the top frame is to make these calls and to return.
Calls(frames) == stack' = frames \o Tail(stack)
Return == Calls(<<>>)
If(cond, frames) == IF cond THEN frames ELSE <<>>

Put(set, p, v) == IF v THEN set \cup {p} ELSE set \ {p}
IsReadable(p) == p \in canread \ isreading
IsWriteable(p) == p \in canwrite \ iswriting

\* Plugs start apart; the constructors of their modules say which are writeable.
PlugInit(writeable, there) ==
  /\ other = [p \in Plugs |-> None]
  /\ canread = {} /\ canwrite = writeable /\ isreading = {} /\ iswriting = {}
  /\ notifyonread = {} /\ notifyonwrite = {}
  /\ made = there
  /\ stack = <<>> /\ ret = None

-----------------------------------------------------------------------------
(* Flags and notifications.                                                *)

\* i_Read returns the chunk it has kept while it made its last calls; i_Write
\* returns.
ReturnChunk == Running("return") /\ ret' = Top.val /\ Return
               /\ UNCHANGED <<other, flags, made>>
Written == Running("written") /\ Return /\ UNCHANGED <<other, flags, made, ret>>

\* Mutant: no loop is started while another plug's is running.
OnlyAlone(p, marked) ==
  Top.val /\ other[p] # None /\ isreading = {} /\ iswriting = {}

\* Whether a flag just set starts the plug's loop.
StartsLoop(p, marked) == Top.val /\ p \notin marked /\ other[p] # None

SetReadable ==
  LET p == Top.plug
  IN  /\ Running("setReadable")
      /\ canread' = Put(canread, p, Top.val)
      /\ Calls(If(StartsLoop(p, isreading), <<Frame("pushLoop", p)>>)
               \o <<Set("readableChanged", p, p \in canread)>>)
      /\ UNCHANGED <<other, canwrite, isreading, iswriting, notifyonread,
                     notifyonwrite, made, ret>>

SetWriteable ==
  LET p == Top.plug
  IN  /\ Running("setWriteable")
      /\ canwrite' = Put(canwrite, p, Top.val)
      /\ Calls(If(StartsLoop(p, iswriting), <<Frame("pullLoop", p)>>)
               \o <<Set("writeableChanged", p, p \in canwrite)>>)
      /\ UNCHANGED <<other, canread, isreading, iswriting, notifyonread,
                     notifyonwrite, made, ret>>

\* notifyOtherReadable and notifyOtherWriteable.
TellReadable(p) ==
  If(p \in notifyonread, <<Frame("otherIsReadable", other[p])>>)
TellWriteable(p) ==
  If(p \in notifyonwrite, <<Frame("otherIsWriteable", other[p])>>)

\* The end of setReadable and setWriteable: val is the flag before.
FlagChanged ==
  LET p == Top.plug
  IN  /\ \/ /\ Running("readableChanged")
            /\ Calls(IF (p \in canread) # Top.val THEN TellReadable(p) ELSE <<>>)
         \/ /\ Running("writeableChanged")
            /\ Calls(IF (p \in canwrite) # Top.val THEN TellWriteable(p) ELSE <<>>)
      /\ UNCHANGED <<other, flags, made, ret>>

-----------------------------------------------------------------------------
(* plugInto and unPlug.                                                    *)

\* What plugInto calls at its end: the loops, if there is something to move.
Loops(p) == <<Frame("readAway", p), Frame("writeAway", p)>>

PlugInto(p, o) ==
  /\ other[p] = None /\ other[o] = None /\ p # o
  /\ other' = [other EXCEPT ![p] = o, ![o] = p]
  /\ notifyonread' = Put(Put(notifyonread, p, o \in NotifyReadable),
                         o, p \in NotifyReadable)
  /\ notifyonwrite' = Put(Put(notifyonwrite, p, o \in NotifyWriteable),
                          o, p \in NotifyWriteable)
  /\ stack' = <<Frame("tellReadable", p), Frame("peerTellsReadable", p),
                Frame("tellWriteable", p), Frame("peerTellsWriteable", p)>>
                \o Loops(p) \o stack
  /\ UNCHANGED <<canread, canwrite, isreading, iswriting, made, ret>>

PlugIntoGoesOn ==
  LET p == Top.plug
      o == other[p]
  IN  /\ \/ Running("tellReadable") /\ Calls(TellReadable(p))
         \/ Running("tellWriteable") /\ Calls(TellWriteable(p))
         \/ /\ Running("peerTellsReadable")
            /\ Calls(IF o # None THEN TellReadable(o) ELSE <<>>)
         \/ /\ Running("peerTellsWriteable")
            /\ Calls(IF o # None THEN TellWriteable(o) ELSE <<>>)
         \/ /\ Running("readAway")
            /\ Calls(If(IsReadable(p) /\ o # None, <<Frame("pushLoop", p)>>))
         \/ /\ Running("writeAway")
            /\ Calls(If(IsWriteable(p) /\ o # None, <<Frame("pullLoop", p)>>))
      /\ UNCHANGED <<other, flags, made, ret>>

\* Each of the two plugs forgets the other, then both modules hear of it, the
\* other's first.
UnPlug ==
  LET p == Top.plug
  IN  /\ Running("unPlug")
      /\ other' = [other EXCEPT ![p] = None]
      /\ notifyonread' = IF other[p] = None THEN notifyonread ELSE notifyonread \ {p}
      /\ notifyonwrite' = IF other[p] = None THEN notifyonwrite ELSE notifyonwrite \ {p}
      /\ Calls(If(other[p] # None,
                  <<Frame("unPlug", other[p]), Frame("plugDisconnected", p)>>))
      /\ UNCHANGED <<canread, canwrite, isreading, iswriting, made, ret>>

\* ~Plug: the plug forgets the other first, so its own module, which is being
\* destroyed, does not hear of it.
DestroyPlug(p) ==
  /\ other' = [other EXCEPT ![p] = None]
  /\ notifyonread' = notifyonread \ {p} /\ notifyonwrite' = notifyonwrite \ {p}
  /\ stack' = If(other[p] # None, <<Frame("unPlug", other[p])>>) \o stack

-----------------------------------------------------------------------------
(* The loops.  peer is the local variable other.                           *)

\* Mutant: the loop marks its own plug only.
MarksNothing(set, able, o) == set

\* The flag that keeps peer from being written (read) while the loop runs.
Marked(set, able, o) == IF o \in able THEN set \cup {o} ELSE set

PushLoop ==
  LET p == Top.plug
  IN  /\ Running("pushLoop")
      /\ isreading' = isreading \cup {p}
      /\ iswriting' = Marked(iswriting, canwrite, other[p])
      /\ Calls(<<With("pushing", p, other[p])>>)
      /\ UNCHANGED <<other, canread, canwrite, notifyonread, notifyonwrite, made, ret>>

\* One turn: other->i_Write(i_Read()).  Both flags fall when the loop ends.
Pushing ==
  LET p == Top.plug
      o == Top.peer
  IN  /\ Running("pushing")
      /\ IF p \in canread /\ o # None /\ o \in canwrite
         THEN /\ Calls(<<Frame("i_Read", p), Frame("i_Write", o),
                         With("pushed", p, o)>>)
              /\ UNCHANGED <<isreading, iswriting>>
         ELSE /\ isreading' = isreading \ {p}
              /\ iswriting' = iswriting \ {o}
              /\ Return
      /\ UNCHANGED <<other, canread, canwrite, notifyonread, notifyonwrite, made, ret>>

\* A nested call may have plugged the plug into another, or into nothing.
Pushed ==
  LET p == Top.plug
      o == Top.peer
  IN  /\ Running("pushed")
      /\ iswriting' = IF other[p] = o THEN iswriting
                      ELSE Marked(iswriting \ {o}, canwrite, other[p])
      /\ Calls(<<With("pushing", p, other[p])>>)
      /\ UNCHANGED <<other, canread, canwrite, isreading, notifyonread,
                     notifyonwrite, made, ret>>

PullLoop ==
  LET p == Top.plug
  IN  /\ Running("pullLoop")
      /\ iswriting' = iswriting \cup {p}
      /\ isreading' = Marked(isreading, canread, other[p])
      /\ Calls(<<With("pulling", p, other[p])>>)
      /\ UNCHANGED <<other, canread, canwrite, notifyonread, notifyonwrite, made, ret>>

Pulling ==
  LET p == Top.plug
      o == Top.peer
  IN  /\ Running("pulling")
      /\ IF p \in canwrite /\ o # None /\ o \in canread
         THEN /\ Calls(<<Frame("i_Read", o), Frame("i_Write", p),
                         With("pulled", p, o)>>)
              /\ UNCHANGED <<isreading, iswriting>>
         ELSE /\ iswriting' = iswriting \ {p}
              /\ isreading' = isreading \ {o}
              /\ Return
      /\ UNCHANGED <<other, canread, canwrite, notifyonread, notifyonwrite, made, ret>>

Pulled ==
  LET p == Top.plug
      o == Top.peer
  IN  /\ Running("pulled")
      /\ isreading' = IF other[p] = o THEN isreading
                      ELSE Marked(isreading \ {o}, canread, other[p])
      /\ Calls(<<With("pulling", p, other[p])>>)
      /\ UNCHANGED <<other, canread, canwrite, iswriting, notifyonread,
                     notifyonwrite, made, ret>>

Engine ==
  \/ ReturnChunk \/ Written \/ SetReadable \/ SetWriteable \/ FlagChanged
  \/ PlugIntoGoesOn \/ UnPlug
  \/ PushLoop \/ Pushing \/ Pushed \/ PullLoop \/ Pulling \/ Pulled

-----------------------------------------------------------------------------
(* Properties of every module built on this one.                           *)

\* No wakeup is missed: when everything has returned, no chunk is left that
\* could move from a plug to the plug it is plugged into.
NothingLeftToMove ==
  Idle => \A p \in canread : other[p] \notin canwrite

\* StreamModule.h on isreading_: a plug is never read (written) by two calls
\* at once.
OneReaderOneWriter ==
  \A j, k \in 1..Len(stack) :
    /\ stack[j].op \in {"return", "written"}
    /\ stack[j].op = stack[k].op /\ stack[j].plug = stack[k].plug
    => j = k
=============================================================================
