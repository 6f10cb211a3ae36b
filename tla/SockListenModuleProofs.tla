----------------------- MODULE SockListenModuleProofs -----------------------
(***************************************************************************)
(* What holds of SockListenModule for any number of connections, failures  *)
(* and errors cleared, as long as fcntl(F_SETFL) does not fail: after that *)
(* failure the plug is not told that it has nothing to read.               *)
(***************************************************************************)
EXTENDS SockListenModule, ListsProofs, SequenceTheorems

Vals == Nat \cup BOOLEAN

\* The calls of each plug: the module's plug is only read, the other one only
\* written.
ReadOps == {"readableChanged", "pushLoop", "pushing", "pushed", "i_Read", "return",
            "setReadable", "tellReadable", "peerTellsReadable", "tellWriteable",
            "peerTellsWriteable", "readAway", "writeAway"}
WriteOps == {"writeableChanged", "pullLoop", "pulling", "pulled", "i_Write", "written",
             "setWriteable"}
UnplugOps == {"unPlug", "plugDisconnected"}
Ops == ReadOps \cup WriteOps \cup UnplugOps

Frames ==
  {f \in [op : Ops, plug : Plugs, peer : Plugs \cup {None}, val : Vals] :
     /\ f.op \in ReadOps => f.plug = LPlug
     /\ f.op \in WriteOps => f.plug = End
     /\ f.op \in {"pushed", "pulled"} => f.peer # None
     /\ f.peer # f.plug
     /\ f.op \in {"setReadable", "setWriteable"} => f.val \in BOOLEAN
     /\ f.op = "return" => f.val \in Nat}

-----------------------------------------------------------------------------
(* The call stack s.                                                       *)

\* The calls that move a chunk or set a flag; the loops that run, those that move
\* chunks at the moment, and the calls that start a loop.
Moves == {"i_Read", "i_Write", "return", "setReadable", "setWriteable"}
TurnOps == {"pushed", "pulled"}
TestOps == {"pushing", "pulling"}
LoopOps == TurnOps \cup TestOps
StartOps == {"pushLoop", "pullLoop", "readAway", "writeAway"}
Coverers == LoopOps \cup {"pushLoop", "pullLoop", "readAway"}

Free(s, X) == \A k \in 1..Len(s) : s[k].op \notin X
Quiet(s) == Free(s, Moves)
Starts(op, s) == s # <<>> /\ Head(s).op = op

\* Above a loop there is no loop, nor a call that may start one.
Nested(s) ==
  \A j, k \in 1..Len(s) :
    j < k /\ s[k].op \in LoopOps => s[j].op \notin LoopOps \cup StartOps
\* What a loop tests, it tests when it runs; it waits for a chunk to be written.
TestedOnTop(s) == \A k \in 1..Len(s) : s[k].op \in TestOps => k = 1
WrittenOver(s) ==
  \A k \in 1..Len(s) : s[k].op = "written" => k < Len(s) /\ s[k+1].op \in TurnOps
Sound(s) == Nested(s) /\ TestedOnTop(s) /\ WrittenOver(s)

\* A connection that is on its way is written next, and its loop goes on.
Taking(s) ==
  /\ Starts("i_Write", s) /\ Quiet(Tail(s))
  /\ Tail(s) # <<>> /\ Head(Tail(s)).op \in TurnOps
Returning(s) == Starts("return", s) /\ Taking(Tail(s))
Reading(s) == Starts("i_Read", s) /\ Taking(Tail(s))
Showing(s) ==
  /\ s # <<>> /\ Head(s).op \in {"setReadable", "readableChanged"}
  /\ Returning(Tail(s))

\* A flag that is set to true is set by the dispatcher or by the other plug's module.
Setting(s) ==
  /\ s # <<>> /\ Head(s).op \in {"setReadable", "setWriteable"} /\ Quiet(Tail(s))
  /\ Head(s).val = TRUE => Tail(s) = <<>>

Shaped(s, r, c) ==
  \/ Quiet(s) \/ Setting(s) \/ Showing(s) \/ Returning(s)
  \/ Reading(s) /\ LPlug \in r
  \/ Taking(s) /\ c \in Nat

\* The connection that has left the module and not reached the other plug.
Carried(s) == IF Starts("return", s) THEN <<Head(s).val>> ELSE <<>>
Passing(s, c) ==
  IF s = <<>> THEN <<>>
  ELSE IF Starts("i_Write", s) THEN <<c>>
  ELSE IF Starts("return", s) THEN Carried(s) ELSE Carried(Tail(s))

\* What the plug's flag is once the call on top of the stack has set it.
WillRead(s, r) == IF Starts("setReadable", s) THEN Head(s).val = TRUE ELSE LPlug \in r

-----------------------------------------------------------------------------
(* The invariant.                                                          *)

PlugsOK ==
  /\ other \in [Plugs -> Plugs \cup {None}] /\ \A p \in Plugs : other[p] # p
  /\ canread \subseteq {LPlug} /\ canwrite \subseteq {End}
  /\ isreading \subseteq {LPlug} /\ iswriting \subseteq {End}
  /\ notifyonread = {} /\ notifyonwrite = {}
  /\ stack \in Seq(Frames)

ListenerOK ==
  /\ sockopen \in BOOLEAN /\ alive \in BOOLEAN /\ checking_read \in BOOLEAN
  /\ newmodule \in Nat \cup {None}
  /\ registered \in [{"read", "error"} -> Nat] /\ queue \in Seq({"read", "error"})
  /\ accepted \in Nat /\ got \in Seq(Nat) /\ dropped \subseteq 1..accepted

StackOK == Shaped(stack, canread, ret) /\ Sound(stack)

\* Each plug is plugged into the other, or neither is, but in unPlug.
Symmetric ==
  \/ other[LPlug] = End /\ other[End] = LPlug
  \/ other[LPlug] = None /\ other[End] = None
  \/ /\ Running("unPlug") /\ other[Top.plug] # None
     /\ \A p \in Plugs : p # Top.plug => other[p] = None

\* The plugs that are marked are those of the loop that runs.
MarksOK ==
  /\ Free(stack, LoopOps) => isreading = {} /\ iswriting = {}
  /\ ~Free(stack, TurnOps) => LPlug \in isreading
  /\ Running("pushing") =>
       /\ LPlug \in isreading /\ Top.peer = other[LPlug]
       /\ Top.peer = None => iswriting = {}
  /\ Running("pulling") =>
       /\ Top.peer = other[End]
       /\ Top.peer = None => isreading = {}
       /\ Top.peer # None /\ LPlug \in canread => LPlug \in isreading

\* As long as a connection could move, a loop runs or is about to.
Covered ==
  LPlug \in canread /\ other[LPlug] = End /\ End \in canwrite
    => ~Free(stack, Coverers)

Plugged == PlugsOK /\ StackOK /\ Symmetric /\ MarksOK /\ Covered

Some(n) == IF n = None THEN <<>> ELSE <<n>>
Flow == got \o (Passing(stack, ret) \o Some(newmodule)) = Kept

ReadAhead == newmodule # None <=> WillRead(stack, canread)

Poll ==
  alive => /\ Pending = (IF checking_read THEN 1 ELSE 0)
           /\ newmodule # None => ~checking_read

IInv ==
  /\ ListenerOK /\ Plugged
  /\ Flow /\ ReadAhead /\ Poll

-----------------------------------------------------------------------------
(* Call stacks.                                                            *)

LEMMA FrameIs ==
  ASSUME NEW op \in Ops, NEW p \in Plugs,
         op \in ReadOps => p = LPlug, op \in WriteOps => p = End
  PROVE  /\ op \notin TurnOps \cup {"return"}
              => Frame(op, p) \in Frames /\ Frame(op, p).op = op
                 /\ Frame(op, p).plug = p /\ Frame(op, p).peer = None
         /\ \A v \in Vals :
              /\ op \notin TurnOps
              /\ op \in {"setReadable", "setWriteable"} => v \in BOOLEAN
              /\ op = "return" => v \in Nat
              => Set(op, p, v) \in Frames /\ Set(op, p, v).op = op
                 /\ Set(op, p, v).val = v
         /\ \A o \in Plugs \cup {None} :
              /\ op \notin {"setReadable", "setWriteable", "return"}
              /\ o # p /\ (op \in TurnOps => o # None)
              => With(op, p, o) \in Frames /\ With(op, p, o).op = op
                 /\ With(op, p, o).plug = p /\ With(op, p, o).peer = o
<1>1. FALSE \in Vals /\ FALSE \in BOOLEAN /\ p # None
  BY PlugConstants DEF Vals
<1> USE DEF Frames, TurnOps
<1>2. op \notin TurnOps \cup {"return"}
        => Frame(op, p) \in Frames /\ Frame(op, p).op = op
           /\ Frame(op, p).plug = p /\ Frame(op, p).peer = None
  BY <1>1 DEF Frame
<1>3. ASSUME NEW v \in Vals, op \notin TurnOps,
             op \in {"setReadable", "setWriteable"} => v \in BOOLEAN,
             op = "return" => v \in Nat
      PROVE  Set(op, p, v) \in Frames /\ Set(op, p, v).op = op
             /\ Set(op, p, v).val = v
  BY <1>1, <1>3 DEF Set, Frame
<1>4. ASSUME NEW o \in Plugs \cup {None}, o # p, op \in TurnOps => o # None,
             op \notin {"setReadable", "setWriteable", "return"}
      PROVE  With(op, p, o) \in Frames /\ With(op, p, o).op = op
             /\ With(op, p, o).plug = p /\ With(op, p, o).peer = o
  BY <1>1, <1>4 DEF With, Frame
<1> QED
  BY <1>2, <1>3, <1>4

LEMMA FreeEmpty == \A X : Free(<<>>, X)
  BY DEF Free

LEMMA FreePush ==
  ASSUME NEW s \in Seq(Frames), NEW f \in Frames, NEW X
  PROVE  Free(<<f>> \o s, X) <=> f.op \notin X /\ Free(s, X)
<1> DEFINE t == <<f>> \o s
<1>1. /\ Len(t) = Len(s) + 1 /\ Len(s) \in Nat /\ t[1] = f
      /\ \A k \in 1..Len(s) : t[k+1] = s[k]
  BY PushedOn
<1> HIDE DEF t
<1>2. Free(t, X) => f.op \notin X /\ Free(s, X)
  BY <1>1 DEF Free
<1>3. ASSUME f.op \notin X, Free(s, X), NEW k \in 1..Len(t) PROVE t[k].op \notin X
  <2>1. k = 1 \/ (k - 1 \in 1..Len(s) /\ t[(k-1)+1] = s[k-1] /\ (k-1)+1 = k)
    BY <1>1
  <2> QED
    BY <1>1, <1>3, <2>1 DEF Free
<1> QED
  BY <1>2, <1>3 DEF Free, t

LEMMA FreeTop ==
  ASSUME NEW s \in Seq(Frames), s # <<>>, NEW X
  PROVE  Free(s, X) <=> Head(s).op \notin X /\ Free(Tail(s), X)
<1>1. Head(s) \in Frames /\ Tail(s) \in Seq(Frames) /\ s = <<Head(s)>> \o Tail(s)
  BY PoppedOff
<1> QED
  BY <1>1, FreePush

\* Where no loop tests, none is on top.
LEMMA NoneTests ==
  ASSUME NEW s \in Seq(Frames), Free(s, TestOps)
  PROVE  ~Starts("pushing", s) /\ ~Starts("pulling", s)
<1>1. s # <<>> => Head(s).op \notin TestOps
  BY FreeTop
<1> QED
  BY <1>1 DEF Starts, TestOps

LEMMA FreeMore ==
  ASSUME NEW s, NEW X, NEW Y, Free(s, X), Y \subseteq X
  PROVE  Free(s, Y)
  BY DEF Free

\* Where no loop runs and nothing was written, there is nothing to be nested.
LEMMA SoundFree ==
  ASSUME NEW s \in Seq(Frames), Free(s, LoopOps), Free(s, {"written"})
  PROVE  Sound(s)
  BY DEF Sound, Nested, TestedOnTop, WrittenOver, Free, LoopOps

LEMMA SoundPush ==
  ASSUME NEW s \in Seq(Frames), NEW f \in Frames, Sound(s), Free(s, TestOps),
         f.op \in LoopOps \cup StartOps => Free(s, LoopOps),
         f.op = "written" => s # <<>> /\ Head(s).op \in TurnOps
  PROVE  Sound(<<f>> \o s)
<1> DEFINE t == <<f>> \o s
<1>1. /\ Len(t) = Len(s) + 1 /\ Len(s) \in Nat /\ t[1] = f
      /\ \A k \in 1..Len(s) : t[k+1] = s[k]
      /\ \A k \in 1..Len(t) : k = 1 \/ (k - 1 \in 1..Len(s) /\ t[k] = s[k-1])
  <2>1. /\ Len(t) = Len(s) + 1 /\ Len(s) \in Nat /\ t[1] = f
        /\ \A k \in 1..Len(s) : t[k+1] = s[k]
    BY PushedOn
  <2> HIDE DEF t
  <2>2. ASSUME NEW k \in 1..Len(t)
        PROVE  k = 1 \/ (k - 1 \in 1..Len(s) /\ t[k] = s[k-1])
    <3>1. k = 1 \/ (k - 1 \in 1..Len(s) /\ (k-1)+1 = k)
      BY <2>1
    <3> QED
      BY <2>1, <3>1
  <2> QED
    BY <2>1, <2>2
<1> HIDE DEF t
<1>2. Nested(t)
  <2> SUFFICES ASSUME NEW j \in 1..Len(t), NEW k \in 1..Len(t),
                      j < k, t[k].op \in LoopOps
               PROVE  t[j].op \notin LoopOps \cup StartOps
    BY DEF Nested
  <2>1. k - 1 \in 1..Len(s) /\ t[k] = s[k-1]
    BY <1>1
  <2>2. CASE j = 1
    BY <1>1, <2>1, <2>2 DEF Free
  <2>3. CASE j - 1 \in 1..Len(s) /\ t[j] = s[j-1]
    BY <1>1, <2>1, <2>3, j - 1 < k - 1 DEF Sound, Nested
  <2> QED
    BY <1>1, <2>2, <2>3
<1>3. TestedOnTop(t)
  BY <1>1 DEF TestedOnTop, Free
<1>4. WrittenOver(t)
  <2> SUFFICES ASSUME NEW k \in 1..Len(t), t[k].op = "written"
               PROVE  k < Len(t) /\ t[k+1].op \in TurnOps
    BY DEF WrittenOver
  <2>1. CASE k = 1
    <3>1. Len(s) # 0 /\ Head(s) = s[1]
      BY <1>1, <2>1
    <3> QED
      BY <1>1, <2>1, <3>1
  <2>2. CASE k - 1 \in 1..Len(s) /\ t[k] = s[k-1]
    <3>1. k - 1 < Len(s) /\ s[(k-1)+1].op \in TurnOps
      BY <2>2 DEF Sound, WrittenOver
    <3>2. k \in 1..Len(s) /\ (k-1)+1 = k /\ t[k+1] = s[k]
      BY <1>1, <2>2, <3>1
    <3> QED
      BY <1>1, <3>1, <3>2
  <2> QED
    BY <1>1, <2>1, <2>2
<1> QED
  BY <1>2, <1>3, <1>4 DEF Sound, t

LEMMA SoundPop ==
  ASSUME NEW s \in Seq(Frames), Sound(s), s # <<>>
  PROVE  /\ Tail(s) \in Seq(Frames) /\ Sound(Tail(s)) /\ Free(Tail(s), TestOps)
         /\ Head(s).op \in LoopOps \cup StartOps => Free(Tail(s), LoopOps)
<1> DEFINE t == Tail(s)
<1>1. /\ t \in Seq(Frames) /\ Len(s) \in Nat \ {0} /\ Len(t) = Len(s) - 1
      /\ Head(s) = s[1] /\ \A k \in 1..Len(s)-1 : t[k] = s[k+1]
  BY PoppedOff
<1> HIDE DEF t
<1>2. \A k \in 1..Len(t) : k + 1 \in 1..Len(s) /\ t[k] = s[k+1] /\ k + 1 # 1
  BY <1>1
<1>3. Nested(t)
  <2> SUFFICES ASSUME NEW j \in 1..Len(t), NEW k \in 1..Len(t),
                      j < k, t[k].op \in LoopOps
               PROVE  t[j].op \notin LoopOps \cup StartOps
    BY DEF Nested
  <2>1. j + 1 \in 1..Len(s) /\ k + 1 \in 1..Len(s) /\ j + 1 < k + 1
    BY <1>1
  <2>2. s[k+1].op \in LoopOps => s[j+1].op \notin LoopOps \cup StartOps
    BY <2>1 DEF Sound, Nested
  <2> QED
    BY <1>2, <2>2
<1>4. TestedOnTop(t) /\ Free(t, TestOps)
  BY <1>2 DEF TestedOnTop, Sound, Free
<1>5. WrittenOver(t)
  <2> SUFFICES ASSUME NEW k \in 1..Len(t), t[k].op = "written"
               PROVE  k < Len(t) /\ t[k+1].op \in TurnOps
    BY DEF WrittenOver
  <2>1. k + 1 < Len(s) /\ s[(k+1)+1].op \in TurnOps
    BY <1>2 DEF Sound, WrittenOver
  <2> QED
    BY <1>1, <2>1
<1>6. Head(s).op \in LoopOps \cup StartOps => Free(t, LoopOps)
  BY <1>1, <1>2 DEF Nested, Sound, Free
<1> QED
  BY <1>1, <1>3, <1>4, <1>5, <1>6 DEF Sound, t

\* A call stack on which a call is made.
Base(s) == s \in Seq(Frames) /\ Quiet(s) /\ Sound(s) /\ Free(s, TestOps)

LEMMA BaseEmpty == Base(<<>>)
<1>1. <<>> \in Seq(Frames)
  OBVIOUS
<1> QED
  BY <1>1, FreeEmpty, SoundFree DEF Base, Quiet

LEMMA QuietPush ==
  ASSUME NEW s, Base(s), NEW f \in Frames, f.op \notin Moves,
         f.op \in LoopOps \cup StartOps => Free(s, LoopOps),
         f.op = "written" => s # <<>> /\ Head(s).op \in TurnOps
  PROVE  /\ <<f>> \o s \in Seq(Frames) /\ <<f>> \o s # <<>>
         /\ Head(<<f>> \o s) = f /\ Tail(<<f>> \o s) = s
         /\ Quiet(<<f>> \o s) /\ Sound(<<f>> \o s)
         /\ f.op \notin TestOps => Base(<<f>> \o s)
         /\ \A X : Free(<<f>> \o s, X) <=> f.op \notin X /\ Free(s, X)
<1>1. s \in Seq(Frames) /\ Quiet(s) /\ Sound(s) /\ Free(s, TestOps)
  BY DEF Base
<1>2. /\ <<f>> \o s \in Seq(Frames) /\ <<f>> \o s # <<>>
      /\ Head(<<f>> \o s) = f /\ Tail(<<f>> \o s) = s
  BY <1>1, PushedOn
<1>3. \A X : Free(<<f>> \o s, X) <=> f.op \notin X /\ Free(s, X)
  BY <1>1, FreePush
<1>4. Sound(<<f>> \o s)
  BY <1>1, SoundPush
<1> QED
  BY <1>1, <1>2, <1>3, <1>4 DEF Base, Quiet

LEMMA PushTwo ==
  ASSUME NEW s \in Seq(Frames), NEW a \in Frames, NEW b \in Frames
  PROVE  /\ <<a, b>> \o s = <<a>> \o (<<b>> \o s)
         /\ <<a>> \o (<<b>> \o s) \in Seq(Frames)
<1>1. <<a>> \in Seq(Frames) /\ <<b>> \in Seq(Frames) /\ <<a, b>> \in Seq(Frames)
  OBVIOUS
<1>2. <<a, b>> = <<a>> \o <<b>>
  <2> DEFINE u == <<a>> \o <<b>>
  <2>1. u \in Seq(Frames) /\ Len(u) = 2 /\ u[1] = a /\ u[2] = b
    BY <1>1
  <2>2. Len(<<a, b>>) = 2 /\ <<a, b>>[1] = a /\ <<a, b>>[2] = b
    OBVIOUS
  <2> HIDE DEF u
  <2>3. <<a, b>> = u
    BY <1>1, <2>1, <2>2, SeqEqual, \A i \in 1..2 : i = 1 \/ i = 2
  <2> QED
    BY <2>3 DEF u
<1> QED
  BY <1>1, <1>2, ConcatAssociative, ConcatProperties

LEMMA PushThree ==
  ASSUME NEW s \in Seq(Frames), NEW a \in Frames, NEW b \in Frames, NEW c \in Frames,
         NEW call \in Seq(Frames), Len(call) = 3,
         call[1] = a, call[2] = b, call[3] = c
  PROVE  call \o s = <<a>> \o (<<b>> \o (<<c>> \o s))
<1>1. <<a>> \in Seq(Frames) /\ <<b, c>> \in Seq(Frames)
  OBVIOUS
<1>2. call = <<a>> \o <<b, c>>
  <2> DEFINE u == <<a>> \o <<b, c>>
  <2>1. u \in Seq(Frames) /\ Len(u) = 3 /\ u[1] = a /\ u[2] = b /\ u[3] = c
    BY <1>1
  <2> HIDE DEF u
  <2>2. call = u
    BY <2>1, SeqEqual, \A i \in 1..3 : i = 1 \/ i = 2 \/ i = 3
  <2> QED
    BY <2>2 DEF u
<1>3. <<b, c>> \o s = <<b>> \o (<<c>> \o s)
  BY PushTwo
<1> QED
  BY <1>1, <1>2, <1>3, ConcatAssociative

LEMMA TopFrame ==
  ASSUME PlugsOK, ~Idle
  PROVE  /\ stack \in Seq(Frames) /\ stack # <<>> /\ Tail(stack) \in Seq(Frames)
         /\ Top \in Frames /\ Top = Head(stack)
         /\ Top.plug \in Plugs /\ Top.peer \in Plugs \cup {None} /\ Top.peer # Top.plug
         /\ Top.op \in ReadOps => Top.plug = LPlug
         /\ Top.op \in WriteOps => Top.plug = End
         /\ Top.op \in TurnOps => Top.peer # None
         /\ Top.op = "return" => Top.val \in Nat
<1>1. stack # <<>> /\ stack \in Seq(Frames)
  BY DEF Idle, PlugsOK
<1>2. Head(stack) \in Frames /\ Tail(stack) \in Seq(Frames)
  BY <1>1, PoppedOff
<1> QED
  BY <1>1, <1>2 DEF Top, Frames, TurnOps

\* What the frame on top says of the frames below.
LEMMA TopSays ==
  ASSUME NEW s \in Seq(Frames), NEW r, NEW c, Shaped(s, r, c), s # <<>>
  PROVE  /\ Head(s).op = "i_Read" => Reading(s) /\ LPlug \in r
         /\ Head(s).op = "return" => Returning(s)
         /\ Head(s).op = "i_Write" => Taking(s) /\ c \in Nat
         /\ Head(s).op = "setReadable" => Setting(s) \/ Showing(s)
         /\ Head(s).op = "setWriteable" => Setting(s)
         /\ Head(s).op = "readableChanged" => Quiet(s) \/ Showing(s)
         /\ Head(s).op \notin Moves \cup {"readableChanged"} => Quiet(s)
<1>1. Quiet(s) => Head(s).op \notin Moves
  BY FreeTop DEF Quiet
<1> QED
  BY <1>1 DEF Shaped, Setting, Reading, Showing, Returning, Taking, Starts, Moves

\* What is quiet carries nothing, and changes no flag.
LEMMA AtRest ==
  ASSUME NEW s \in Seq(Frames), Quiet(s), NEW r, NEW c
  PROVE  /\ Shaped(s, r, c) /\ Passing(s, c) = <<>>
         /\ WillRead(s, r) <=> LPlug \in r
<1>1. s # <<>> => Head(s).op \notin Moves /\ Tail(s) \in Seq(Frames) /\ Quiet(Tail(s))
  BY FreeTop, PoppedOff DEF Quiet
<1>2. s # <<>> /\ Tail(s) # <<>> => Head(Tail(s)).op \notin Moves
  BY <1>1, FreeTop DEF Quiet
<1> QED
  BY <1>1, <1>2 DEF Moves, Shaped, Passing, Carried, WillRead, Starts

\* Under a quiet call, or one that sets a flag, a call can be made.
LEMMA BaseUnder ==
  ASSUME PlugsOK, StackOK, ~Idle, Quiet(Tail(stack))
  PROVE  /\ Base(Tail(stack))
         /\ Top.op \in LoopOps \cup StartOps => Free(Tail(stack), LoopOps)
         /\ \A X : Free(stack, X) <=> Top.op \notin X /\ Free(Tail(stack), X)
<1>1. stack \in Seq(Frames) /\ stack # <<>> /\ Tail(stack) \in Seq(Frames)
      /\ Top = Head(stack)
  BY TopFrame
<1> QED
  BY <1>1, SoundPop, FreeTop DEF Base, StackOK

LEMMA QuietUnder ==
  ASSUME PlugsOK, ~Idle, Quiet(stack)
  PROVE  Quiet(Tail(stack))
  BY TopFrame, FreeTop DEF Quiet

-----------------------------------------------------------------------------
(* The plugs: one step of the calls that move chunks, set flags and plug.  *)

\* The step changes what SockListenModule keeps in no way that the rest of the
\* invariant speaks of.
SameFlow ==
  /\ Passing(stack, ret)' = Passing(stack, ret)
  /\ WillRead(stack, canread)' <=> WillRead(stack, canread)

LEMMA QuietStep ==
  ASSUME stack \in Seq(Frames), Quiet(stack), canread' = canread,
         stack' \in Seq(Frames), Quiet(stack'), Sound(stack')
  PROVE  StackOK' /\ SameFlow
<1>1. /\ Shaped(stack', canread', ret') /\ Passing(stack', ret') = <<>>
      /\ WillRead(stack', canread') <=> LPlug \in canread'
  BY AtRest
<1>2. Passing(stack, ret) = <<>> /\ (WillRead(stack, canread) <=> LPlug \in canread)
  BY AtRest
<1> QED
  BY <1>1, <1>2 DEF StackOK, SameFlow

\* A step that leaves the plugs and their flags alone.
SamePlugs == /\ other' = other /\ canread' = canread /\ canwrite' = canwrite
             /\ notifyonread' = notifyonread /\ notifyonwrite' = notifyonwrite
SameMarks == isreading' = isreading /\ iswriting' = iswriting

LEMMA PlugsSame ==
  ASSUME PlugsOK, SamePlugs, stack' \in Seq(Frames),
         isreading' \subseteq {LPlug}, iswriting' \subseteq {End}
  PROVE  PlugsOK'
  BY DEF PlugsOK, SamePlugs

LEMMA SymmetricSame ==
  ASSUME Symmetric, other' = other, ~Running("unPlug")
  PROVE  Symmetric'
  BY DEF Symmetric

LEMMA CoveredSame ==
  ASSUME Covered, SamePlugs, Free(stack', Coverers) => Free(stack, Coverers)
  PROVE  Covered'
  BY DEF Covered, SamePlugs

LEMMA MarksSame ==
  ASSUME MarksOK, SameMarks,
         Free(stack', LoopOps) => Free(stack, LoopOps),
         Free(stack, TurnOps) => Free(stack', TurnOps),
         ~Starts("pushing", stack'), ~Starts("pulling", stack')
  PROVE  MarksOK'
<1>1. ~(Running("pushing")') /\ ~(Running("pulling")')
  BY DEF Running, Idle, Starts
<1> QED
  BY <1>1 DEF MarksOK, SameMarks

\* The step only replaces the frame on top, by one that is no more of a loop.
LEMMA CallsSame ==
  ASSUME Plugged, ~Idle, SamePlugs, SameMarks, Top.op # "unPlug",
         Top.op \notin LoopOps, StackOK', stack' \in Seq(Frames),
         Free(stack', LoopOps) => Free(Tail(stack), LoopOps),
         Free(Tail(stack), TurnOps) => Free(stack', TurnOps),
         ~Starts("pushing", stack'), ~Starts("pulling", stack'),
         Free(stack', Coverers) => Free(Tail(stack), Coverers) /\ Top.op \notin Coverers
  PROVE  Plugged'
<1>1. stack \in Seq(Frames) /\ stack # <<>> /\ Top = Head(stack)
  BY TopFrame DEF Plugged
<1>2. \A X : Free(stack, X) <=> Top.op \notin X /\ Free(Tail(stack), X)
  BY <1>1, FreeTop
<1>3. /\ Free(stack', LoopOps) => Free(stack, LoopOps)
      /\ Free(stack, TurnOps) => Free(stack', TurnOps)
      /\ Free(stack', Coverers) => Free(stack, Coverers)
  BY <1>2
<1>4. ~Running("unPlug")
  BY DEF Running, Top
<1>5. isreading' \subseteq {LPlug} /\ iswriting' \subseteq {End}
  BY DEF Plugged, PlugsOK, SameMarks
<1>6. PlugsOK'
  BY <1>5, PlugsSame DEF Plugged
<1>7. Symmetric' /\ MarksOK' /\ Covered'
  BY <1>3, <1>4, SymmetricSame, MarksSame, CoveredSame DEF Plugged, SamePlugs
<1> QED
  BY <1>6, <1>7 DEF Plugged

\* A quiet call that returns.
LEMMA Returns ==
  ASSUME Plugged, ~Idle, Quiet(stack), stack' = Tail(stack), SamePlugs, SameMarks,
         Top.op \notin LoopOps \cup Coverers \cup {"unPlug"}
  PROVE  Plugged' /\ SameFlow
<1>1. PlugsOK /\ StackOK /\ stack \in Seq(Frames)
  BY DEF Plugged, PlugsOK
<1>2. Base(Tail(stack))
  BY <1>1, QuietUnder, BaseUnder
<1>3. StackOK' /\ SameFlow
  BY <1>1, <1>2, QuietStep DEF Base, SamePlugs
<1>4. ~Starts("pushing", stack') /\ ~Starts("pulling", stack')
  BY <1>2, NoneTests DEF Base
<1>5. /\ stack' \in Seq(Frames) /\ Top.op # "unPlug"
      /\ Top.op \notin LoopOps /\ Top.op \notin Coverers
      /\ \A X : Free(stack', X) <=> Free(Tail(stack), X)
  BY <1>2 DEF Base
<1>6. Plugged'
  BY <1>3, <1>4, <1>5, CallsSame
<1> QED
  BY <1>3, <1>6

LEMMA WrittenStep ==
  ASSUME Plugged, Written
  PROVE  Plugged' /\ SameFlow
<1>1. /\ ~Idle /\ SamePlugs /\ SameMarks /\ Top.op = "written"
      /\ stack' = <<>> \o Tail(stack)
  BY DEF Written, Return, Calls, Running, Top, flags, SamePlugs, SameMarks
<1>2. stack \in Seq(Frames) /\ stack # <<>> /\ Tail(stack) \in Seq(Frames) /\ StackOK
      /\ Top = Head(stack)
  BY <1>1, TopFrame DEF Plugged
<1>3. Quiet(stack)
  BY <1>1, <1>2, TopSays DEF StackOK, Moves
<1> QED
  BY <1>1, <1>2, <1>3, Returns DEF LoopOps, TurnOps, TestOps, Coverers

LEMMA DisconnectedStep ==
  ASSUME Plugged, Disconnected
  PROVE  Plugged' /\ SameFlow
<1>1. /\ ~Idle /\ SamePlugs /\ SameMarks /\ Top.op = "plugDisconnected"
      /\ stack' = <<>> \o Tail(stack)
  BY DEF Disconnected, Return, Calls, Running, Top, flags, SamePlugs, SameMarks
<1>2. stack \in Seq(Frames) /\ stack # <<>> /\ Tail(stack) \in Seq(Frames) /\ StackOK
      /\ Top = Head(stack)
  BY <1>1, TopFrame DEF Plugged
<1>3. Quiet(stack)
  BY <1>1, <1>2, TopSays DEF StackOK, Moves
<1> QED
  BY <1>1, <1>2, <1>3, Returns DEF LoopOps, TurnOps, TestOps, Coverers

\* A connection that is on its way is moved by a loop.
LEMMA MovedByLoop ==
  ASSUME NEW s \in Seq(Frames), Taking(s) \/ Returning(s) \/ Reading(s) \/ Showing(s)
  PROVE  ~Free(s, TurnOps)
<1>1. ASSUME NEW t \in Seq(Frames), Taking(t) PROVE ~Free(t, TurnOps) /\ t # <<>>
  BY <1>1, FreeTop, PoppedOff DEF Taking, Starts
<1>2. ASSUME NEW t \in Seq(Frames), Returning(t) \/ Reading(t)
      PROVE  ~Free(t, TurnOps) /\ t # <<>>
  <2>1. t # <<>> /\ Taking(Tail(t))
    BY <1>2 DEF Returning, Reading, Starts
  <2> QED
    BY <1>1, <2>1, FreeTop, PoppedOff
<1>3. CASE Showing(s)
  <2>1. s # <<>> /\ Returning(Tail(s))
    BY <1>3 DEF Showing
  <2> QED
    BY <1>2, <2>1, FreeTop, PoppedOff
<1> QED
  BY <1>1, <1>2, <1>3

\* A connection that is returned is under the call that shows the next one.
LEMMA PassingUnder ==
  ASSUME NEW s \in Seq(Frames), Showing(s), NEW c
  PROVE  Passing(s, c) = Carried(Tail(s)) /\ Passing(Tail(s), c) = Carried(Tail(s))
<1>1. /\ s # <<>> /\ Head(s).op \notin {"i_Write", "return"}
      /\ Tail(s) # <<>> /\ Head(Tail(s)).op = "return"
  BY DEF Showing, Returning, Starts
<1> QED
  BY <1>1 DEF Passing, Carried, Starts

LEMMA FlagChangedStep ==
  ASSUME Plugged, FlagChanged
  PROVE  Plugged' /\ SameFlow
<1>1. /\ ~Idle /\ SamePlugs /\ SameMarks /\ ret' = ret
      /\ Top.op \in {"readableChanged", "writeableChanged"}
  BY DEF FlagChanged, Running, Top, flags, SamePlugs, SameMarks
<1>2. /\ stack \in Seq(Frames) /\ stack # <<>> /\ Tail(stack) \in Seq(Frames)
      /\ PlugsOK /\ StackOK /\ Top = Head(stack)
  BY <1>1, TopFrame DEF Plugged
<1>3. stack' = <<>> \o Tail(stack)
  BY <1>2 DEF FlagChanged, Calls, TellReadable, TellWriteable, If, PlugsOK
<1>4. stack' = Tail(stack) /\ Top.op \notin LoopOps \cup Coverers \cup {"unPlug"}
  BY <1>1, <1>2, <1>3 DEF LoopOps, TurnOps, TestOps, Coverers
<1>5. CASE Quiet(stack)
  BY <1>1, <1>4, <1>5, Returns
<1>6. CASE ~Quiet(stack)
  <2>1. Showing(stack)
    BY <1>1, <1>2, <1>6, TopSays DEF StackOK, Moves
  <2>2. Returning(stack')
    BY <1>4, <2>1 DEF Showing
  <2>3. Sound(stack') /\ ~Starts("pushing", stack') /\ ~Starts("pulling", stack')
    BY <1>2, <1>4, SoundPop, NoneTests DEF StackOK
  <2>4. StackOK'
    BY <2>2, <2>3 DEF StackOK, Shaped
  <2>5. Plugged'
    BY <1>1, <1>2, <1>4, <2>3, <2>4, CallsSame
  <2>6. Passing(stack', ret') = Passing(stack, ret)
    BY <1>1, <1>2, <1>4, <2>1, PassingUnder
  <2>7. WillRead(stack', canread') <=> WillRead(stack, canread)
    BY <1>1, <1>2, <2>2 DEF WillRead, Starts, Returning, SamePlugs
  <2> QED
    BY <2>5, <2>6, <2>7 DEF SameFlow
<1> QED
  BY <1>5, <1>6

LEMMA ReturnChunkStep ==
  ASSUME Plugged, ReturnChunk
  PROVE  Plugged' /\ SameFlow
<1>1. /\ ~Idle /\ SamePlugs /\ SameMarks /\ ret' = Top.val /\ Top.op = "return"
      /\ stack' = <<>> \o Tail(stack)
  BY DEF ReturnChunk, Return, Calls, Running, Top, flags, SamePlugs, SameMarks
<1>2. /\ stack \in Seq(Frames) /\ stack # <<>> /\ Tail(stack) \in Seq(Frames)
      /\ PlugsOK /\ StackOK /\ Top = Head(stack) /\ Top.val \in Nat
  BY <1>1, TopFrame DEF Plugged
<1>3. stack' = Tail(stack) /\ Top.op \notin LoopOps \cup Coverers \cup {"unPlug"}
  BY <1>1, <1>2 DEF LoopOps, TurnOps, TestOps, Coverers
<1>4. Returning(stack)
  BY <1>1, <1>2, TopSays DEF StackOK
<1>5. Taking(stack') /\ ret' \in Nat
  BY <1>1, <1>2, <1>3, <1>4 DEF Returning
<1>6. Sound(stack') /\ ~Starts("pushing", stack') /\ ~Starts("pulling", stack')
  BY <1>2, <1>3, SoundPop, NoneTests DEF StackOK
<1>7. StackOK'
  BY <1>5, <1>6 DEF StackOK, Shaped
<1>8. Plugged'
  BY <1>1, <1>2, <1>3, <1>6, <1>7, CallsSame
<1>9. Passing(stack', ret') = Passing(stack, ret)
  BY <1>1, <1>2, <1>4, <1>5 DEF Passing, Carried, Returning, Taking, Starts
<1>10. WillRead(stack', canread') <=> WillRead(stack, canread)
  BY <1>1, <1>2, <1>5 DEF WillRead, Starts, Taking, SamePlugs
<1> QED
  BY <1>8, <1>9, <1>10 DEF SameFlow

\* A flag is set.
LEMMA FlagSet ==
  ASSUME Plugged, SameMarks, other' = other, ~Running("unPlug"),
         canread' \subseteq {LPlug}, canwrite' = canwrite \/ canwrite' \subseteq {End},
         notifyonread' = notifyonread, notifyonwrite' = notifyonwrite,
         stack' \in Seq(Frames), StackOK', Covered', Free(stack', TestOps),
         Free(stack', LoopOps) => Free(stack, LoopOps),
         Free(stack, TurnOps) => Free(stack', TurnOps)
  PROVE  Plugged'
<1>1. ~Starts("pushing", stack') /\ ~Starts("pulling", stack')
  BY NoneTests
<1>2. Symmetric' /\ MarksOK'
  BY <1>1, MarksSame, SymmetricSame DEF Plugged
<1>3. PlugsOK'
  BY DEF Plugged, PlugsOK, SameMarks
<1> QED
  BY <1>2, <1>3 DEF Plugged

\* Nothing is on its way while a flag is set above a quiet call.
LEMMA PassingFlag ==
  ASSUME NEW s \in Seq(Frames), s # <<>>, Quiet(Tail(s)), NEW c,
         Head(s).op \in {"setReadable", "setWriteable"}
  PROVE  Passing(s, c) = <<>>
<1>1. Tail(s) # <<>> => Head(Tail(s)).op \notin Moves
  BY PoppedOff, FreeTop DEF Quiet
<1> QED
  BY <1>1 DEF Passing, Carried, Starts, Moves

LEMMA SetReadableStep ==
  ASSUME Plugged, SetReadable
  PROVE  Plugged' /\ SameFlow
<1> DEFINE p == Top.plug
           g == Set("readableChanged", p, p \in canread)
           l == Frame("pushLoop", p)
           loop == If(StartsLoop(p, isreading), <<l>>)
<1>1. /\ ~Idle /\ other' = other /\ canwrite' = canwrite /\ ret' = ret
      /\ notifyonread' = notifyonread /\ notifyonwrite' = notifyonwrite /\ SameMarks
      /\ Top.op = "setReadable" /\ canread' = Put(canread, p, Top.val)
      /\ stack' = (loop \o <<g>>) \o Tail(stack)
  BY DEF SetReadable, Running, Top, Calls, SameMarks
<1>2. /\ stack \in Seq(Frames) /\ stack # <<>> /\ Tail(stack) \in Seq(Frames)
      /\ PlugsOK /\ StackOK /\ Top = Head(stack) /\ p = LPlug /\ LPlug \in Plugs
      /\ Top.val \in BOOLEAN
  BY <1>1, TopFrame, ListenConstants DEF Plugged, ReadOps, Frames
<1>3. /\ g \in Frames /\ g.op = "readableChanged"
      /\ l \in Frames /\ l.op = "pushLoop"
  <2>1. (p \in canread) \in Vals
    BY DEF Vals
  <2>2. {"readableChanged", "pushLoop"} \subseteq ReadOps \ (WriteOps \cup TurnOps)
        /\ ReadOps \subseteq Ops
    BY DEF Ops, ReadOps, WriteOps, TurnOps
  <2> QED
    BY <1>2, <2>1, <2>2, FrameIs
<1>4. /\ (LPlug \in canread' <=> Top.val = TRUE) /\ canread' \subseteq {LPlug}
      /\ (WillRead(stack, canread) <=> LPlug \in canread')
  BY <1>1, <1>2 DEF Put, PlugsOK, WillRead, Starts
<1>5. loop \in {<<>>, <<l>>} /\ (loop # <<>> <=> StartsLoop(p, isreading))
  BY DEF If
<1>6. StartsLoop(p, isreading) <=> Top.val /\ LPlug \notin isreading /\ other[LPlug] # None
  BY <1>2 DEF StartsLoop
<1> HIDE DEF g, l, loop
<1>7. /\ loop = <<>> => stack' = <<g>> \o Tail(stack)
      /\ loop = <<l>> => stack' = <<l>> \o (<<g>> \o Tail(stack))
  <2>1. <<g>> \in Seq(Frames) /\ <<l>> \in Seq(Frames)
    BY <1>3
  <2>2. <<>> \o <<g>> = <<g>>
    BY <2>1
  <2>3. (<<l>> \o <<g>>) \o Tail(stack) = <<l>> \o (<<g>> \o Tail(stack))
    BY <1>2, <2>1, ConcatAssociative
  <2> QED
    BY <1>1, <2>2, <2>3
<1>8. g.op \notin LoopOps \cup StartOps \cup Moves \cup Coverers \cup {"written"}
      /\ l.op \notin LoopOps \cup Moves \cup {"written"}
      /\ l.op \in Coverers /\ l.op \notin TestOps
  BY <1>3 DEF LoopOps, TurnOps, TestOps, StartOps, Coverers, Moves
<1>9. /\ Sound(Tail(stack)) /\ Free(Tail(stack), TestOps)
      /\ \A X : Free(stack, X) <=> Top.op \notin X /\ Free(Tail(stack), X)
  BY <1>2, SoundPop, FreeTop DEF StackOK
<1>10. Top.op \notin LoopOps \cup Coverers /\ ~Running("unPlug")
  BY <1>1 DEF LoopOps, TurnOps, TestOps, Coverers, Running, Top
<1>11. CASE Setting(stack)
  <2>1. Quiet(Tail(stack)) /\ (Top.val = TRUE => Tail(stack) = <<>>)
    BY <1>2, <1>11 DEF Setting
  <2> DEFINE s == <<g>> \o Tail(stack)
  <2>2. Base(Tail(stack))
    BY <1>2, <1>9, <2>1 DEF Base
  <2>3. /\ s \in Seq(Frames) /\ Base(s) /\ Quiet(s) /\ Sound(s)
        /\ \A X : Free(s, X) <=> g.op \notin X /\ Free(Tail(stack), X)
    <3>1. g.op \notin TestOps
      BY <1>8 DEF LoopOps
    <3> QED
      BY <1>3, <1>8, <2>2, <3>1, QuietPush DEF Base
  <2> HIDE DEF s
  <2>6. Passing(stack, ret) = <<>>
    BY <1>1, <1>2, <2>1, PassingFlag
  <2>4. CASE loop = <<>>
    <3>1. stack' = s
      BY <1>7, <2>4 DEF s
    <3>2. Quiet(stack') /\ stack' \in Seq(Frames) /\ Sound(stack')
          /\ Free(stack', TestOps)
      BY <2>3, <3>1 DEF Base
    <3>3. /\ Free(stack', LoopOps) => Free(stack, LoopOps)
          /\ Free(stack, TurnOps) => Free(stack', TurnOps)
      BY <1>8, <1>9, <1>10, <2>3, <3>1 DEF LoopOps
    <3>4. Covered'
      <4>1. SUFFICES ASSUME LPlug \in canread', other'[LPlug] = End PROVE FALSE
        BY DEF Covered
      <4>2. Tail(stack) = <<>> /\ Free(stack, LoopOps)
        BY <1>4, <1>9, <1>10, <2>1, <4>1, FreeEmpty
      <4>3. isreading = {} /\ other[LPlug] # None
        BY <1>1, <1>2, <4>1, <4>2, ListenConstants, PlugConstants DEF Plugged, MarksOK
      <4> QED
        BY <1>4, <1>5, <1>6, <2>4, <4>1, <4>3
    <3>8. /\ Shaped(stack', canread', ret') /\ Passing(stack', ret') = <<>>
          /\ WillRead(stack', canread') <=> LPlug \in canread'
      BY <3>2, AtRest
    <3>9. Plugged'
      BY <1>1, <1>4, <1>10, <3>2, <3>3, <3>4, <3>8, FlagSet DEF StackOK
    <3> QED
      BY <1>4, <2>6, <3>8, <3>9 DEF SameFlow
  <2>5. CASE loop # <<>>
    <3>1. stack' = <<l>> \o s /\ Tail(stack) = <<>>
      BY <1>5, <1>6, <1>7, <2>1, <2>5 DEF s
    <3>2. Free(s, LoopOps) /\ Free(stack, LoopOps)
      BY <1>8, <1>9, <1>10, <2>3, <3>1, FreeEmpty
    <3>3. /\ stack' \in Seq(Frames) /\ Quiet(stack') /\ Sound(stack')
          /\ Free(stack', TestOps)
          /\ \A X : Free(stack', X) <=> l.op \notin X /\ Free(s, X)
      BY <1>3, <1>8, <2>3, <3>1, <3>2, QuietPush DEF Base
    <3>4. /\ Free(stack', LoopOps) => Free(stack, LoopOps)
          /\ Free(stack, TurnOps) => Free(stack', TurnOps)
          /\ ~Free(stack', Coverers)
      <4>1. Free(s, TurnOps) /\ l.op \notin TurnOps
        BY <1>8, <3>2, FreeMore DEF LoopOps
      <4> QED
        BY <1>8, <3>2, <3>3, <4>1
    <3>5. Covered'
      BY <3>4 DEF Covered
    <3>8. /\ Shaped(stack', canread', ret') /\ Passing(stack', ret') = <<>>
          /\ WillRead(stack', canread') <=> LPlug \in canread'
      BY <3>3, AtRest
    <3>9. Plugged'
      BY <1>1, <1>4, <1>10, <3>3, <3>4, <3>5, <3>8, FlagSet DEF StackOK
    <3> QED
      BY <1>4, <2>6, <3>8, <3>9 DEF SameFlow
  <2> QED
    BY <2>4, <2>5
<1>12. CASE ~Setting(stack)
  <2>1. Showing(stack)
    BY <1>1, <1>2, <1>12, TopSays DEF StackOK
  <2>2. ~Free(stack, TurnOps) /\ LPlug \in isreading
    BY <1>2, <2>1, MovedByLoop DEF Plugged, MarksOK
  <2>3. loop = <<>>
    BY <1>5, <1>6, <2>2
  <2>4. /\ stack' \in Seq(Frames) /\ stack' # <<>>
        /\ Head(stack') = g /\ Tail(stack') = Tail(stack)
        /\ \A X : Free(stack', X) <=> g.op \notin X /\ Free(Tail(stack), X)
    <3>1. stack' = <<g>> \o Tail(stack)
      BY <1>7, <2>3
    <3>2. \A X : Free(<<g>> \o Tail(stack), X) <=> g.op \notin X /\ Free(Tail(stack), X)
      BY <1>2, <1>3, FreePush
    <3>3. /\ <<g>> \o Tail(stack) \in Seq(Frames) /\ <<g>> \o Tail(stack) # <<>>
          /\ Head(<<g>> \o Tail(stack)) = g /\ Tail(<<g>> \o Tail(stack)) = Tail(stack)
      BY <1>2, <1>3, PushedOn
    <3> QED
      BY <3>1, <3>2, <3>3
  <2>5. Showing(stack')
    BY <1>3, <2>1, <2>4 DEF Showing
  <2>6. Sound(stack')
    BY <1>2, <1>3, <1>7, <1>8, <1>9, <2>3, SoundPush
  <2>7. /\ Free(stack', LoopOps) => Free(stack, LoopOps)
        /\ Free(stack, TurnOps) => Free(stack', TurnOps)
        /\ Free(stack', TestOps) /\ ~Free(stack', Coverers)
    <3>1. ~Free(stack', TurnOps)
      BY <1>8, <1>9, <2>2, <2>4, <2>5, MovedByLoop
    <3>2. ~Free(stack', Coverers)
      BY <3>1, FreeMore DEF LoopOps, Coverers
    <3> QED
      BY <1>8, <1>9, <1>10, <2>2, <2>4, <3>2 DEF LoopOps
  <2>8. Passing(stack', ret') = Passing(stack, ret)
    BY <1>1, <1>2, <2>1, <2>4, <2>5, PassingUnder
  <2>9. WillRead(stack', canread') <=> WillRead(stack, canread)
    BY <1>3, <1>4, <2>4 DEF WillRead, Starts
  <2>10. Covered' /\ StackOK'
    BY <2>5, <2>6, <2>7 DEF Covered, StackOK, Shaped
  <2>11. Plugged'
    BY <1>1, <1>4, <1>10, <2>4, <2>7, <2>10, FlagSet
  <2> QED
    BY <2>8, <2>9, <2>11 DEF SameFlow
<1> QED
  BY <1>11, <1>12

LEMMA SetWriteableStep ==
  ASSUME Plugged, SetWriteable
  PROVE  Plugged' /\ SameFlow
<1> DEFINE p == Top.plug
           g == Set("writeableChanged", p, p \in canwrite)
           l == Frame("pullLoop", p)
           loop == If(StartsLoop(p, iswriting), <<l>>)
<1>1. /\ ~Idle /\ other' = other /\ canread' = canread /\ ret' = ret
      /\ notifyonread' = notifyonread /\ notifyonwrite' = notifyonwrite /\ SameMarks
      /\ Top.op = "setWriteable" /\ canwrite' = Put(canwrite, p, Top.val)
      /\ stack' = (loop \o <<g>>) \o Tail(stack)
  BY DEF SetWriteable, Running, Top, Calls, SameMarks
<1>2. /\ stack \in Seq(Frames) /\ stack # <<>> /\ Tail(stack) \in Seq(Frames)
      /\ PlugsOK /\ StackOK /\ Top = Head(stack) /\ p = End /\ End \in Plugs
      /\ Top.val \in BOOLEAN
  BY <1>1, TopFrame, ListenConstants DEF Plugged, WriteOps, Frames
<1>3. /\ g \in Frames /\ g.op = "writeableChanged"
      /\ l \in Frames /\ l.op = "pullLoop"
  <2>1. (p \in canwrite) \in Vals
    BY DEF Vals
  <2>2. {"writeableChanged", "pullLoop"} \subseteq WriteOps \ (ReadOps \cup TurnOps)
        /\ WriteOps \subseteq Ops
    BY DEF Ops, ReadOps, WriteOps, TurnOps
  <2> QED
    BY <1>2, <2>1, <2>2, FrameIs
<1>4. /\ (End \in canwrite' => Top.val = TRUE) /\ canwrite' \subseteq {End}
      /\ canread' \subseteq {LPlug}
      /\ (WillRead(stack, canread) <=> LPlug \in canread')
  BY <1>1, <1>2 DEF Put, PlugsOK, WillRead, Starts
<1>5. loop \in {<<>>, <<l>>} /\ (loop # <<>> <=> StartsLoop(p, iswriting))
  BY DEF If
<1>6. StartsLoop(p, iswriting) <=> Top.val /\ End \notin iswriting /\ other[End] # None
  BY <1>2 DEF StartsLoop
<1> HIDE DEF g, l, loop
<1>7. /\ loop = <<>> => stack' = <<g>> \o Tail(stack)
      /\ loop = <<l>> => stack' = <<l>> \o (<<g>> \o Tail(stack))
  <2>1. <<g>> \in Seq(Frames) /\ <<l>> \in Seq(Frames)
    BY <1>3
  <2>2. <<>> \o <<g>> = <<g>>
    BY <2>1
  <2>3. (<<l>> \o <<g>>) \o Tail(stack) = <<l>> \o (<<g>> \o Tail(stack))
    BY <1>2, <2>1, ConcatAssociative
  <2> QED
    BY <1>1, <2>2, <2>3
<1>8. g.op \notin LoopOps \cup StartOps \cup Moves \cup Coverers \cup {"written"}
      /\ l.op \notin LoopOps \cup Moves \cup {"written"}
      /\ l.op \in Coverers /\ l.op \notin TestOps
  BY <1>3 DEF LoopOps, TurnOps, TestOps, StartOps, Coverers, Moves
<1>9. /\ Sound(Tail(stack)) /\ Free(Tail(stack), TestOps)
      /\ \A X : Free(stack, X) <=> Top.op \notin X /\ Free(Tail(stack), X)
  BY <1>2, SoundPop, FreeTop DEF StackOK
<1>10. Top.op \notin LoopOps \cup Coverers /\ ~Running("unPlug")
  BY <1>1 DEF LoopOps, TurnOps, TestOps, Coverers, Running, Top
<1>11. Quiet(Tail(stack)) /\ (Top.val = TRUE => Tail(stack) = <<>>)
  BY <1>1, <1>2, TopSays DEF StackOK, Setting
<1> DEFINE s == <<g>> \o Tail(stack)
<1>12. Base(Tail(stack))
  BY <1>2, <1>9, <1>11 DEF Base
<1>13. /\ s \in Seq(Frames) /\ Base(s) /\ Quiet(s) /\ Sound(s)
       /\ \A X : Free(s, X) <=> g.op \notin X /\ Free(Tail(stack), X)
  <2>1. g.op \notin TestOps
    BY <1>8 DEF LoopOps
  <2> QED
    BY <1>3, <1>8, <1>12, <2>1, QuietPush DEF Base
<1> HIDE DEF s
<1>14. Passing(stack, ret) = <<>>
  BY <1>1, <1>2, <1>11, PassingFlag
<1>15. CASE loop = <<>>
  <2>1. stack' = s
    BY <1>7, <1>15 DEF s
  <2>2. Quiet(stack') /\ stack' \in Seq(Frames) /\ Sound(stack') /\ Free(stack', TestOps)
    BY <1>13, <2>1 DEF Base
  <2>3. /\ Free(stack', LoopOps) => Free(stack, LoopOps)
        /\ Free(stack, TurnOps) => Free(stack', TurnOps)
    BY <1>8, <1>9, <1>10, <1>13, <2>1 DEF LoopOps
  <2>4. Covered'
    <3>1. SUFFICES ASSUME End \in canwrite', other'[LPlug] = End PROVE FALSE
      BY DEF Covered
    <3>2. Tail(stack) = <<>> /\ Free(stack, LoopOps)
      BY <1>4, <1>9, <1>10, <1>11, <3>1, FreeEmpty
    <3>3. iswriting = {}
      BY <3>2 DEF Plugged, MarksOK
    <3>4. other[End] = LPlug
      BY <1>1, <1>2, <1>10, <3>1, ListenConstants, PlugConstants DEF Plugged, Symmetric
    <3> QED
      BY <1>4, <1>5, <1>6, <1>15, <3>1, <3>3, <3>4, ListenConstants, PlugConstants
  <2>5. /\ Shaped(stack', canread', ret') /\ Passing(stack', ret') = <<>>
        /\ WillRead(stack', canread') <=> LPlug \in canread'
    BY <2>2, AtRest
  <2>6. Plugged'
    BY <1>1, <1>4, <1>10, <2>2, <2>3, <2>4, <2>5, FlagSet DEF StackOK
  <2> QED
    BY <1>4, <1>14, <2>5, <2>6 DEF SameFlow
<1>16. CASE loop # <<>>
  <2>1. stack' = <<l>> \o s /\ Tail(stack) = <<>>
    BY <1>5, <1>6, <1>7, <1>11, <1>16 DEF s
  <2>2. Free(s, LoopOps) /\ Free(stack, LoopOps)
    BY <1>8, <1>9, <1>10, <1>13, <2>1, FreeEmpty
  <2>3. /\ stack' \in Seq(Frames) /\ Quiet(stack') /\ Sound(stack')
        /\ Free(stack', TestOps)
        /\ \A X : Free(stack', X) <=> l.op \notin X /\ Free(s, X)
    BY <1>3, <1>8, <1>13, <2>1, <2>2, QuietPush DEF Base
  <2>4. /\ Free(stack', LoopOps) => Free(stack, LoopOps)
        /\ Free(stack, TurnOps) => Free(stack', TurnOps)
        /\ ~Free(stack', Coverers)
    <3>1. Free(s, TurnOps) /\ l.op \notin TurnOps
      BY <1>8, <2>2, FreeMore DEF LoopOps
    <3> QED
      BY <1>8, <2>2, <2>3, <3>1
  <2>5. Covered'
    BY <2>4 DEF Covered
  <2>6. /\ Shaped(stack', canread', ret') /\ Passing(stack', ret') = <<>>
        /\ WillRead(stack', canread') <=> LPlug \in canread'
    BY <2>3, AtRest
  <2>7. Plugged'
    BY <1>1, <1>4, <1>10, <2>3, <2>4, <2>5, <2>6, FlagSet DEF StackOK
  <2> QED
    BY <1>4, <1>14, <2>6, <2>7 DEF SameFlow
<1> QED
  BY <1>15, <1>16

LEMMA PlugIntoGoesOnStep ==
  ASSUME Plugged, PlugIntoGoesOn
  PROVE  Plugged' /\ SameFlow
<1> DEFINE p == Top.plug
           a == Frame("pushLoop", p)
           b == Frame("pullLoop", p)
<1>1. /\ ~Idle /\ SamePlugs /\ SameMarks
      /\ Top.op \in {"tellReadable", "tellWriteable", "peerTellsReadable",
                     "peerTellsWriteable", "readAway", "writeAway"}
  BY DEF PlugIntoGoesOn, Running, Top, flags, SamePlugs, SameMarks
<1>2. /\ stack \in Seq(Frames) /\ stack # <<>> /\ Tail(stack) \in Seq(Frames)
      /\ PlugsOK /\ StackOK /\ Top = Head(stack) /\ p = LPlug /\ LPlug \in Plugs
  BY <1>1, TopFrame, ListenConstants DEF Plugged, ReadOps
<1>3. Quiet(stack)
  BY <1>1, <1>2, TopSays DEF StackOK, Moves
<1>4. Base(Tail(stack)) /\ \A X : Free(stack, X) <=> Top.op \notin X /\ Free(Tail(stack), X)
  BY <1>1, <1>2, <1>3, QuietUnder, BaseUnder
<1>5. <<>> \o Tail(stack) = Tail(stack)
  BY <1>2
<1>6. IsWriteable(p) = FALSE
  BY <1>2, ListenConstants DEF IsWriteable, PlugsOK
<1>7. \/ stack' = Tail(stack) /\ Top.op # "readAway"
      \/ /\ Top.op = "readAway"
         /\ stack' = (IF IsReadable(p) /\ other[p] # None THEN <<a>> \o Tail(stack)
                                                          ELSE Tail(stack))
  <2>1. TellReadable(LPlug) = <<>> /\ TellWriteable(LPlug) = <<>>
        /\ TellReadable(other[LPlug]) = <<>> /\ TellWriteable(other[LPlug]) = <<>>
    BY <1>2 DEF TellReadable, TellWriteable, If, PlugsOK
  <2> HIDE DEF a, b
  <2>2. \/ Top.op # "readAway" /\ stack' = <<>> \o Tail(stack)
        \/ Top.op = "readAway" /\ Calls(If(IsReadable(p) /\ other[p] # None, <<a>>))
    BY <1>2, <1>6, <2>1 DEF PlugIntoGoesOn, Running, Top, Calls, If, a
  <2> QED
    BY <1>5, <2>2 DEF Calls, If
<1> HIDE DEF a, b
<1>8. Top.op \notin LoopOps \cup {"unPlug"}
      /\ (Top.op # "readAway" => Top.op \notin Coverers)
      /\ (Top.op = "readAway" => Top.op \in StartOps)
  BY <1>1 DEF LoopOps, TurnOps, TestOps, Coverers, StartOps
<1>9. CASE Top.op # "readAway"
  BY <1>1, <1>3, <1>7, <1>8, <1>9, Returns
<1>10. CASE Top.op = "readAway" /\ ~(IsReadable(p) /\ other[p] # None)
  <2>1. stack' = Tail(stack)
    BY <1>7, <1>10
  <2>2. /\ stack' \in Seq(Frames) /\ Quiet(stack') /\ Sound(stack') /\ Free(stack', TestOps)
    BY <1>4, <2>1 DEF Base
  <2>3. Free(Tail(stack), LoopOps) /\ Free(stack, LoopOps)
    BY <1>1, <1>2, <1>3, <1>4, <1>8, <1>10, QuietUnder, BaseUnder
  <2>4. isreading = {}
    BY <2>3 DEF Plugged, MarksOK
  <2>5. Covered'
    BY <1>1, <1>2, <1>10, <2>4, ListenConstants, PlugConstants
       DEF Covered, IsReadable, SamePlugs
  <2>6. StackOK' /\ SameFlow
    BY <1>1, <1>2, <1>3, <2>2, QuietStep DEF SamePlugs
  <2>7. Free(stack', LoopOps) => Free(stack, LoopOps)
    BY <2>3
  <2>8. Free(stack, TurnOps) => Free(stack', TurnOps)
    BY <1>4, <2>1
  <2>9. canread' \subseteq {LPlug} /\ ~Running("unPlug")
    BY <1>1, <1>2, <1>10 DEF PlugsOK, SamePlugs, Running, Top
  <2> QED
    BY <1>1, <2>2, <2>5, <2>6, <2>7, <2>8, <2>9, FlagSet DEF SamePlugs
<1>11. CASE Top.op = "readAway" /\ IsReadable(p) /\ other[p] # None
  <2>1. stack' = <<a>> \o Tail(stack)
    BY <1>7, <1>11
  <2>2. Free(Tail(stack), LoopOps) /\ Free(stack, LoopOps)
    BY <1>1, <1>2, <1>3, <1>4, <1>8, <1>11, QuietUnder, BaseUnder
  <2>3. a \in Frames /\ a.op = "pushLoop"
    <3>1. "pushLoop" \in ReadOps \ (WriteOps \cup TurnOps \cup {"return"}) /\ ReadOps \subseteq Ops
      BY DEF Ops, ReadOps, WriteOps, TurnOps
    <3> QED
      BY <1>2, <3>1, FrameIs DEF a
  <2>4. a.op \notin LoopOps \cup Moves \cup TestOps \cup {"written"} /\ a.op \in Coverers
    BY <2>3 DEF LoopOps, TurnOps, TestOps, Coverers, Moves
  <2>5. /\ stack' \in Seq(Frames) /\ Quiet(stack') /\ Sound(stack')
        /\ Free(stack', TestOps)
        /\ \A X : Free(stack', X) <=> a.op \notin X /\ Free(Tail(stack), X)
    BY <1>4, <2>1, <2>2, <2>3, <2>4, QuietPush DEF Base
  <2>6. Covered'
    BY <2>4, <2>5 DEF Covered
  <2>7. StackOK' /\ SameFlow
    BY <1>1, <1>2, <1>3, <2>5, QuietStep DEF SamePlugs
  <2>8. /\ Free(stack', LoopOps) => Free(stack, LoopOps)
        /\ Free(stack, TurnOps) => Free(stack', TurnOps)
    BY <1>4, <2>2, <2>4, <2>5 DEF LoopOps
  <2>9. canread' \subseteq {LPlug} /\ ~Running("unPlug")
    BY <1>1, <1>2, <1>11 DEF PlugsOK, SamePlugs, Running, Top
  <2> QED
    BY <1>1, <2>5, <2>6, <2>7, <2>8, <2>9, FlagSet DEF SamePlugs
<1> QED
  BY <1>9, <1>10, <1>11

LEMMA UnPlugStep ==
  ASSUME Plugged, UnPlug
  PROVE  Plugged' /\ SameFlow
<1> DEFINE p == Top.plug
           o == other[p]
           a == Frame("unPlug", o)
           b == Frame("plugDisconnected", p)
<1>1. /\ ~Idle /\ SameMarks /\ canread' = canread /\ canwrite' = canwrite
      /\ Top.op = "unPlug" /\ Running("unPlug")
      /\ other' = [other EXCEPT ![p] = None]
      /\ stack' = If(o # None, <<a, b>>) \o Tail(stack)
  BY DEF UnPlug, Running, Top, SameMarks, Calls
<1>2. /\ stack \in Seq(Frames) /\ stack # <<>> /\ Tail(stack) \in Seq(Frames)
      /\ PlugsOK /\ StackOK /\ Top = Head(stack) /\ p \in Plugs
      /\ Plugs = {LPlug, End} /\ LPlug # End /\ None \notin Plugs
  BY <1>1, TopFrame, ListenConstants, PlugConstants DEF Plugged
<1>3. o \in Plugs \cup {None} /\ o # p
  BY <1>2 DEF PlugsOK
<1>4. notifyonread' = {} /\ notifyonwrite' = {}
  BY <1>2 DEF UnPlug, PlugsOK
<1>5. /\ other' \in [Plugs -> Plugs \cup {None}] /\ other'[p] = None
      /\ \A q \in Plugs : q # p => other'[q] = other[q]
  BY <1>1, <1>2 DEF PlugsOK
<1>6. Quiet(stack)
  BY <1>1, <1>2, TopSays DEF StackOK, Moves
<1>7. Base(Tail(stack)) /\ \A X : Free(stack, X) <=> Top.op \notin X /\ Free(Tail(stack), X)
  BY <1>1, <1>2, <1>6, QuietUnder, BaseUnder
<1>8. Top.op \notin LoopOps \cup TurnOps \cup Coverers
  BY <1>1 DEF LoopOps, TurnOps, TestOps, Coverers
<1>9. /\ Base(stack') /\ (\A X : "unPlug" \notin X /\ "plugDisconnected" \notin X
                               => (Free(stack', X) <=> Free(Tail(stack), X)))
      /\ o # None => Starts("unPlug", stack') /\ Head(stack').plug = o
  <2>1. CASE o = None
    <3>1. stack' = Tail(stack)
      BY <1>1, <1>2, <2>1 DEF If
    <3> QED
      BY <1>7, <2>1, <3>1
  <2>2. CASE o # None
    <3>1. a \in Frames /\ a.op = "unPlug" /\ a.plug = o /\ b \in Frames /\ b.op = "plugDisconnected"
      <4>1. {"unPlug", "plugDisconnected"}
              \subseteq Ops \ (ReadOps \cup WriteOps \cup TurnOps \cup {"return"})
        BY DEF Ops, ReadOps, WriteOps, TurnOps, UnplugOps
      <4> QED
        BY <1>2, <1>3, <2>2, <4>1, FrameIs
    <3> HIDE DEF a, b
    <3>2. stack' = <<a>> \o (<<b>> \o Tail(stack))
      BY <1>1, <1>2, <2>2, <3>1, PushTwo DEF If
    <3>3. {"unPlug", "plugDisconnected"} \cap (Moves \cup LoopOps \cup StartOps \cup TestOps \cup {"written"}) = {}
      BY DEF Moves, LoopOps, TurnOps, TestOps, StartOps
    <3> DEFINE s == <<b>> \o Tail(stack)
    <3>4. Base(s) /\ \A X : Free(s, X) <=> b.op \notin X /\ Free(Tail(stack), X)
      BY <1>7, <3>1, <3>3, QuietPush
    <3> HIDE DEF s
    <3>5. /\ Base(stack') /\ stack' # <<>> /\ Head(stack') = a
          /\ \A X : Free(stack', X) <=> a.op \notin X /\ Free(s, X)
      BY <3>1, <3>2, <3>3, <3>4, QuietPush DEF s
    <3> QED
      BY <2>2, <3>1, <3>4, <3>5 DEF Starts
  <2> QED
    BY <2>1, <2>2
<1> HIDE DEF p, o, a, b
<1>10. StackOK' /\ SameFlow /\ stack' \in Seq(Frames)
  BY <1>1, <1>2, <1>6, <1>9, QuietStep DEF Base
<1>11. PlugsOK'
  BY <1>1, <1>2, <1>4, <1>5, <1>10 DEF PlugsOK, SameMarks
<1>12. Symmetric'
  <2>1. CASE o = None
    <3>1. \A q \in Plugs : other[q] = None
      BY <1>1, <1>2, <2>1 DEF Plugged, Symmetric, o, p
    <3> QED
      BY <1>2, <1>5, <3>1 DEF Symmetric
  <2>2. CASE o # None /\ other[o] = None
    <3>1. \A q \in Plugs : other'[q] = None
      BY <1>2, <1>3, <1>5, <2>2
    <3> QED
      BY <1>2, <3>1 DEF Symmetric
  <2>3. CASE o # None /\ other[o] # None
    <3>1. Running("unPlug")' /\ Top'.plug = o
      BY <1>9, <2>3 DEF Running, Idle, Starts, Top
    <3>2. other'[o] # None /\ \A q \in Plugs : q # o => other'[q] = None
      BY <1>2, <1>3, <1>5, <2>3
    <3> QED
      BY <3>1, <3>2 DEF Symmetric
  <2> QED
    BY <2>1, <2>2, <2>3
<1>13. Covered'
  <2>1. Free(stack', Coverers) => Free(stack, Coverers)
    BY <1>7, <1>8, <1>9 DEF Coverers, LoopOps, TurnOps, TestOps
  <2>2. other'[LPlug] = End => other[LPlug] = End
    BY <1>2, <1>5
  <2> QED
    BY <1>1, <2>1, <2>2 DEF Covered, Plugged
<1>14. MarksOK'
  <2>1. /\ Free(stack', LoopOps) => Free(stack, LoopOps)
        /\ Free(stack, TurnOps) => Free(stack', TurnOps)
    BY <1>7, <1>8, <1>9 DEF LoopOps, TurnOps, TestOps
  <2> QED
    BY <1>1, <1>9, <2>1, NoneTests, MarksSame DEF Plugged, Base
<1> QED
  BY <1>10, <1>11, <1>12, <1>13, <1>14 DEF Plugged

\* A loop begins, or goes on, with a test.
LEMMA TestStep ==
  ASSUME Plugged, ~Idle, Quiet(stack), Top.op \in TurnOps \cup {"pushLoop", "pullLoop"},
         NEW f \in Frames, f.op \in TestOps, stack' = <<f>> \o Tail(stack), SamePlugs,
         isreading' \subseteq {LPlug}, iswriting' \subseteq {End},
         f.op = "pushing" => /\ LPlug \in isreading' /\ f.peer = other[LPlug]
                             /\ f.peer = None => iswriting' = {},
         f.op = "pulling" => /\ f.peer = other[End]
                             /\ f.peer = None => isreading' = {}
                             /\ f.peer # None /\ LPlug \in canread => LPlug \in isreading'
  PROVE  Plugged' /\ SameFlow
<1>1. /\ PlugsOK /\ StackOK /\ stack \in Seq(Frames)
  BY DEF Plugged, PlugsOK
<1>2. /\ Base(Tail(stack)) /\ Free(Tail(stack), LoopOps)
  <2>1. Top.op \in LoopOps \cup StartOps
    BY DEF LoopOps, StartOps
  <2> QED
    BY <1>1, <2>1, QuietUnder, BaseUnder
<1>3. /\ f.op \notin Moves \cup TurnOps \cup {"written", "unPlug"}
      /\ f.op \in LoopOps /\ f.op \in Coverers
  BY DEF Moves, LoopOps, TurnOps, TestOps, Coverers
<1>4. /\ stack' \in Seq(Frames) /\ stack' # <<>> /\ Head(stack') = f
      /\ Quiet(stack') /\ Sound(stack')
      /\ \A X : Free(stack', X) <=> f.op \notin X /\ Free(Tail(stack), X)
  BY <1>2, <1>3, QuietPush DEF Base
<1>5. StackOK' /\ SameFlow
  BY <1>1, <1>4, QuietStep DEF SamePlugs
<1>6. PlugsOK'
  BY <1>1, <1>4, PlugsSame
<1>7. ~Running("unPlug")
  BY DEF Running, Top, TurnOps
<1>8. Symmetric' /\ Covered'
  BY <1>3, <1>4, <1>7, SymmetricSame DEF Plugged, SamePlugs, Covered
<1>9. MarksOK'
  <2>1. Free(stack', TurnOps) /\ ~Free(stack', LoopOps)
    <3>1. Free(Tail(stack), TurnOps)
      BY <1>2, FreeMore DEF LoopOps
    <3> QED
      BY <1>3, <1>4, <3>1
  <2>2. /\ Running("pushing")' <=> f.op = "pushing"
        /\ Running("pulling")' <=> f.op = "pulling"
        /\ Top' = f
    BY <1>4 DEF Running, Idle, Top
  <2> QED
    BY <2>1, <2>2 DEF MarksOK, SamePlugs
<1> QED
  BY <1>5, <1>6, <1>8, <1>9 DEF Plugged

\* A loop has a connection read and then written.
LEMMA TurnStep ==
  ASSUME Plugged, ~Idle, Quiet(stack), Top.op \in TestOps,
         NEW f \in Frames, f.op \in TurnOps,
         Calls(<<Frame("i_Read", LPlug), Frame("i_Write", End), f>>),
         LPlug \in canread, LPlug \in isreading, SamePlugs, SameMarks
  PROVE  Plugged' /\ SameFlow
<1> DEFINE a == Frame("i_Read", LPlug)
           b == Frame("i_Write", End)
           t == <<f>> \o Tail(stack)
           u == <<b>> \o t
<1>1. a \in Frames /\ a.op = "i_Read" /\ b \in Frames /\ b.op = "i_Write"
  <2>1. /\ "i_Read" \in Ops \ (WriteOps \cup TurnOps \cup {"return"})
        /\ "i_Write" \in Ops \ (ReadOps \cup TurnOps \cup {"return"})
        /\ LPlug \in Plugs /\ End \in Plugs
    BY ListenConstants DEF Ops, ReadOps, WriteOps, TurnOps
  <2> QED
    BY <2>1, FrameIs
<1>2. stack' = <<a, b, f>> \o Tail(stack)
  BY DEF Calls
<1> HIDE DEF a, b
<1>3. /\ PlugsOK /\ StackOK /\ stack \in Seq(Frames) /\ stack # <<>>
      /\ Tail(stack) \in Seq(Frames)
  BY TopFrame DEF Plugged
<1>4. /\ Base(Tail(stack)) /\ Free(Tail(stack), LoopOps)
      /\ \A X : Free(stack, X) <=> Top.op \notin X /\ Free(Tail(stack), X)
  <2>1. Top.op \in LoopOps \cup StartOps
    BY DEF LoopOps
  <2> QED
    BY <1>3, <2>1, QuietUnder, BaseUnder
<1>5. /\ f.op \notin Moves \cup TestOps \cup {"written"} /\ f.op \in LoopOps /\ f.op \in Coverers
      /\ Top.op \notin TurnOps
      /\ {a.op, b.op} \cap (LoopOps \cup StartOps \cup TestOps \cup {"written"}) = {}
  BY <1>1 DEF Moves, LoopOps, TurnOps, TestOps, StartOps, Coverers
<1>6. /\ t \in Seq(Frames) /\ t # <<>> /\ Head(t) = f /\ Base(t)
      /\ \A X : Free(t, X) <=> f.op \notin X /\ Free(Tail(stack), X)
  BY <1>4, <1>5, QuietPush
<1> HIDE DEF t
<1>7. /\ u \in Seq(Frames) /\ u # <<>> /\ Head(u) = b /\ Tail(u) = t
      /\ Sound(u) /\ \A X : Free(u, X) <=> b.op \notin X /\ Free(t, X)
  <2>1. t \in Seq(Frames) /\ Sound(t) /\ Free(t, TestOps)
    BY <1>6 DEF Base
  <2>2. u \in Seq(Frames) /\ u # <<>> /\ Head(u) = b /\ Tail(u) = t
    BY <1>1, <2>1, PushedOn
  <2>3. b.op \notin LoopOps \cup StartOps \cup {"written"}
    BY <1>5
  <2>4. Sound(u)
    BY <1>1, <2>1, <2>3, SoundPush
  <2>5. \A X : Free(u, X) <=> b.op \notin X /\ Free(t, X)
    BY <1>1, <2>1, FreePush
  <2> QED
    BY <2>2, <2>4, <2>5
<1>8. Taking(u)
  BY <1>1, <1>6, <1>7 DEF Taking, Starts, Base
<1>9. stack' = <<a>> \o u
  <2>1. <<a, b, f>> \o Tail(stack) = <<a>> \o (<<b>> \o (<<f>> \o Tail(stack)))
    <3> DEFINE call == <<a, b, f>>
    <3>1. call \in Seq(Frames) /\ Len(call) = 3
          /\ call[1] = a /\ call[2] = b /\ call[3] = f
      BY <1>1
    <3> HIDE DEF call
    <3>2. call \o Tail(stack) = <<a>> \o (<<b>> \o (<<f>> \o Tail(stack)))
      BY <1>1, <1>3, <3>1, PushThree
    <3> QED
      BY <3>2 DEF call
  <2> QED
    BY <1>2, <2>1 DEF u, t
<1> HIDE DEF u
<1>10. Free(u, TestOps)
  BY <1>5, <1>6, <1>7 DEF Base
<1>11. /\ stack' \in Seq(Frames) /\ stack' # <<>> /\ Head(stack') = a /\ Tail(stack') = u
       /\ Sound(stack') /\ \A X : Free(stack', X) <=> a.op \notin X /\ Free(u, X)
  BY <1>1, <1>5, <1>7, <1>9, <1>10, PushedOn, FreePush, SoundPush
<1>12. Reading(stack')
  BY <1>1, <1>8, <1>11 DEF Reading, Starts
<1>13. StackOK'
  BY <1>11, <1>12 DEF StackOK, Shaped, SamePlugs
<1>14. /\ ~Free(stack', LoopOps) /\ ~Free(stack', Coverers) /\ Free(stack', TestOps)
  BY <1>5, <1>6, <1>7, <1>10, <1>11
<1>15. MarksOK'
  <2>1. ~(Running("pushing")') /\ ~(Running("pulling")')
    BY <1>1, <1>11 DEF Running, Idle
  <2> QED
    BY <1>14, <2>1 DEF MarksOK, SameMarks
<1>16. PlugsOK'
  BY <1>3, <1>11, PlugsSame DEF SameMarks, PlugsOK
<1>17. Symmetric' /\ Covered'
  <2>1. ~Running("unPlug")
    BY DEF Running, Top, TestOps
  <2> QED
    BY <1>14, <2>1, SymmetricSame DEF Plugged, SamePlugs, Covered
<1>18. SameFlow
  <2>1. Passing(stack, ret) = <<>> /\ (WillRead(stack, canread) <=> LPlug \in canread)
    BY <1>3, AtRest
  <2>2. Passing(stack', ret') = <<>>
    BY <1>1, <1>7, <1>11 DEF Passing, Carried, Starts
  <2>3. WillRead(stack', canread') <=> LPlug \in canread
    BY <1>1, <1>11 DEF WillRead, Starts, SamePlugs
  <2> QED
    BY <2>1, <2>2, <2>3 DEF SameFlow
<1> QED
  BY <1>13, <1>15, <1>16, <1>17, <1>18 DEF Plugged

\* A loop ends.
LEMMA LoopEnds ==
  ASSUME Plugged, ~Idle, Quiet(stack), Top.op \in TestOps, stack' = <<>> \o Tail(stack),
         SamePlugs, isreading' = {}, iswriting' = {},
         ~ (LPlug \in canread /\ other[LPlug] = End /\ End \in canwrite)
  PROVE  Plugged' /\ SameFlow
<1>1. /\ PlugsOK /\ StackOK /\ stack \in Seq(Frames) /\ Tail(stack) \in Seq(Frames)
  BY TopFrame DEF Plugged
<1>2. stack' = Tail(stack)
  BY <1>1
<1>3. Base(stack') /\ Free(stack', LoopOps)
  <2>1. Top.op \in LoopOps \cup StartOps
    BY DEF LoopOps
  <2> QED
    BY <1>1, <1>2, <2>1, QuietUnder, BaseUnder
<1>4. StackOK' /\ SameFlow
  BY <1>1, <1>3, QuietStep DEF SamePlugs, Base
<1>5. Free(stack', TurnOps) /\ ~Starts("pushing", stack') /\ ~Starts("pulling", stack')
  BY <1>3, FreeMore, NoneTests DEF LoopOps, Base
<1>6. MarksOK'
  BY <1>5 DEF MarksOK, Running, Idle, Starts
<1>7. PlugsOK'
  BY <1>1, <1>3, PlugsSame DEF Base
<1>8. Symmetric' /\ Covered'
  <2>1. ~Running("unPlug")
    BY DEF Running, Top, TestOps
  <2> QED
    BY <2>1, SymmetricSame DEF Plugged, SamePlugs, Covered
<1> QED
  BY <1>4, <1>6, <1>7, <1>8 DEF Plugged

\* What is true when a frame of a loop is on top.
LEMMA LoopTop ==
  ASSUME Plugged, ~Idle, Top.op \in LoopOps \cup {"pushLoop", "pullLoop"}
  PROVE  /\ PlugsOK /\ stack \in Seq(Frames) /\ Quiet(stack)
         /\ Plugs = {LPlug, End} /\ LPlug # End /\ None \notin Plugs
         /\ Top.plug \in Plugs /\ Top.peer \in (Plugs \cup {None}) \ {Top.plug}
         /\ Top.op \in {"pushLoop", "pushing", "pushed"} => Top.plug = LPlug
         /\ Top.op \in {"pullLoop", "pulling", "pulled"} => Top.plug = End
         /\ Top.op \in TurnOps => Top.peer # None /\ LPlug \in isreading
         /\ Top.op \in {"pushLoop", "pullLoop"} => isreading = {} /\ iswriting = {}
         /\ other[LPlug] \in {End, None} /\ other[End] \in {LPlug, None}
         /\ other[LPlug] = End <=> other[End] = LPlug
<1>1. /\ PlugsOK /\ StackOK /\ stack \in Seq(Frames) /\ stack # <<>> /\ Top = Head(stack)
  BY TopFrame DEF Plugged
<1>2. Plugs = {LPlug, End} /\ LPlug # End /\ None \notin Plugs
  BY ListenConstants, PlugConstants
<1>3. Quiet(stack)
  BY <1>1, TopSays DEF StackOK, Moves, LoopOps, TurnOps, TestOps
<1>4. /\ Top.plug \in Plugs /\ Top.peer \in (Plugs \cup {None}) \ {Top.plug}
      /\ Top.op \in {"pushLoop", "pushing", "pushed"} => Top.plug = LPlug
      /\ Top.op \in {"pullLoop", "pulling", "pulled"} => Top.plug = End
      /\ Top.op \in TurnOps => Top.peer # None
  BY <1>1, TopFrame DEF ReadOps, WriteOps
<1>5. Top.op \in TurnOps => LPlug \in isreading
  BY <1>1, FreeTop DEF Plugged, MarksOK
<1>6. Top.op \in {"pushLoop", "pullLoop"} => isreading = {} /\ iswriting = {}
  <2>1. ASSUME Top.op \in {"pushLoop", "pullLoop"} PROVE Free(stack, LoopOps)
    <3>1. Top.op \in StartOps /\ Top.op \notin LoopOps
      BY <2>1 DEF StartOps, LoopOps, TurnOps, TestOps
    <3> QED
      BY <1>1, <1>3, <3>1, QuietUnder, BaseUnder
  <2> QED
    BY <2>1 DEF Plugged, MarksOK
<1>7. other[LPlug] \in {End, None} /\ other[End] \in {LPlug, None}
  BY <1>1, <1>2 DEF PlugsOK
<1>8. other[LPlug] = End <=> other[End] = LPlug
  <2>1. ~Running("unPlug")
    BY DEF Running, Top, LoopOps, TurnOps, TestOps
  <2> QED
    BY <1>2, <2>1 DEF Plugged, Symmetric
<1> QED
  BY <1>1, <1>2, <1>3, <1>4, <1>5, <1>6, <1>7, <1>8

\* The frame of a loop.
LEMMA LoopFrame ==
  ASSUME LPlug # End, NEW o
  PROVE  /\ \A op \in {"pushing", "pushed"} :
              /\ o \in {End, None} /\ (op = "pushed" => o # None)
              => With(op, LPlug, o) \in Frames /\ With(op, LPlug, o).op = op
                 /\ With(op, LPlug, o).peer = o
         /\ \A op \in {"pulling", "pulled"} :
              /\ o \in {LPlug, None} /\ (op = "pulled" => o # None)
              => With(op, End, o) \in Frames /\ With(op, End, o).op = op
                 /\ With(op, End, o).peer = o
<1>1. /\ LPlug \in Plugs /\ End \in Plugs /\ None # LPlug /\ None # End
  BY ListenConstants, PlugConstants
<1>2. /\ {"pushing", "pushed"} \subseteq Ops \ WriteOps
      /\ {"pulling", "pulled"} \subseteq Ops \ ReadOps
      /\ \A op \in {"pushing", "pushed", "pulling", "pulled"} :
           /\ op \notin {"setReadable", "setWriteable", "return"}
           /\ op \in TurnOps => op \in {"pushed", "pulled"}
  BY DEF Ops, ReadOps, WriteOps, TurnOps
<1>3. ASSUME NEW op \in {"pushing", "pushed"}, o \in {End, None}, op = "pushed" => o # None
      PROVE  With(op, LPlug, o) \in Frames /\ With(op, LPlug, o).op = op
             /\ With(op, LPlug, o).peer = o
  <2>1. op \in TurnOps => op = "pushed"
    BY <1>3 DEF TurnOps
  <2> QED
    BY <1>1, <1>2, <1>3, <2>1, FrameIs
<1>4. ASSUME NEW op \in {"pulling", "pulled"}, o \in {LPlug, None}, op = "pulled" => o # None
      PROVE  With(op, End, o) \in Frames /\ With(op, End, o).op = op
             /\ With(op, End, o).peer = o
  <2>1. op \in TurnOps => op = "pulled"
    BY <1>4 DEF TurnOps
  <2> QED
    BY <1>1, <1>2, <1>4, <2>1, FrameIs
<1> QED
  BY <1>3, <1>4

LEMMA PushLoopStep ==
  ASSUME Plugged, PushLoop
  PROVE  Plugged' /\ SameFlow
<1> DEFINE p == Top.plug
           f == With("pushing", p, other[p])
<1>1. /\ ~Idle /\ SamePlugs /\ Top.op = "pushLoop"
      /\ isreading' = isreading \cup {p} /\ iswriting' = Marked(iswriting, canwrite, other[p])
      /\ stack' = <<f>> \o Tail(stack)
  BY DEF PushLoop, Running, Top, Calls, SamePlugs
<1>2. /\ PlugsOK /\ Quiet(stack) /\ p = LPlug /\ isreading = {} /\ iswriting = {}
      /\ other[LPlug] \in {End, None} /\ LPlug # End /\ None # End
  BY <1>1, LoopTop
<1>3. f \in Frames /\ f.op = "pushing" /\ f.peer = other[LPlug]
  BY <1>2, LoopFrame
<1> HIDE DEF f, p
<1>4. /\ LPlug \in isreading' /\ isreading' \subseteq {LPlug} /\ iswriting' \subseteq {End}
      /\ other[LPlug] = None => iswriting' = {}
  BY <1>1, <1>2 DEF Marked, PlugsOK
<1> QED
  BY <1>1, <1>2, <1>3, <1>4, TestStep DEF TestOps

LEMMA PushedStep ==
  ASSUME Plugged, Pushed
  PROVE  Plugged' /\ SameFlow
<1> DEFINE p == Top.plug
           o == Top.peer
           f == With("pushing", p, other[p])
<1>1. /\ ~Idle /\ SamePlugs /\ Top.op = "pushed" /\ Top.op \in TurnOps
      /\ isreading' = isreading
      /\ iswriting' = IF other[p] = o THEN iswriting
                      ELSE Marked(iswriting \ {o}, canwrite, other[p])
      /\ stack' = <<f>> \o Tail(stack)
  BY DEF Pushed, Running, Top, Calls, SamePlugs, TurnOps
<1>2. /\ PlugsOK /\ Quiet(stack) /\ p = LPlug /\ LPlug \in isreading /\ o = End
      /\ other[LPlug] \in {End, None} /\ LPlug # End /\ None # End
  BY <1>1, LoopTop DEF LoopOps
<1>3. f \in Frames /\ f.op = "pushing" /\ f.peer = other[LPlug]
  BY <1>2, LoopFrame
<1> HIDE DEF f, p, o
<1>4. /\ LPlug \in isreading' /\ isreading' \subseteq {LPlug} /\ iswriting' \subseteq {End}
      /\ other[LPlug] = None => iswriting' = {}
  BY <1>1, <1>2 DEF Marked, PlugsOK
<1> QED
  BY <1>1, <1>2, <1>3, <1>4, TestStep DEF TestOps

LEMMA PushingStep ==
  ASSUME Plugged, Pushing
  PROVE  Plugged' /\ SameFlow
<1> DEFINE p == Top.plug
           o == Top.peer
           f == With("pushed", p, o)
<1>1. /\ ~Idle /\ SamePlugs /\ Top.op = "pushing" /\ Running("pushing")
      /\ Top.op \in TestOps /\ Top.op \in LoopOps
  BY DEF Pushing, Running, Top, SamePlugs, TestOps, LoopOps
<1>2. /\ PlugsOK /\ Quiet(stack) /\ p = LPlug /\ LPlug \in isreading /\ o = other[LPlug]
      /\ o = None => iswriting = {}
      /\ other[LPlug] \in {End, None} /\ LPlug # End /\ None # End
  BY <1>1, LoopTop DEF Plugged, MarksOK
<1>3. CASE p \in canread /\ o # None /\ o \in canwrite
  <2>1. f \in Frames /\ f.op = "pushed" /\ f.op \in TurnOps
    BY <1>2, <1>3, LoopFrame DEF TurnOps
  <2>2. SameMarks /\ Calls(<<Frame("i_Read", p), Frame("i_Write", o), f>>)
    BY <1>3 DEF Pushing, SameMarks
  <2> HIDE DEF f
  <2> QED
    BY <1>1, <1>2, <1>3, <2>1, <2>2, TurnStep
<1>4. CASE ~ (p \in canread /\ o # None /\ o \in canwrite)
  <2>1. isreading' = isreading \ {p} /\ iswriting' = iswriting \ {o}
        /\ stack' = <<>> \o Tail(stack)
    BY <1>4 DEF Pushing, Return, Calls
  <2>2. isreading' = {} /\ iswriting' = {}
    BY <1>2, <2>1 DEF PlugsOK
  <2> HIDE DEF p, o
  <2> QED
    BY <1>1, <1>2, <1>4, <2>1, <2>2, LoopEnds
<1> QED
  BY <1>3, <1>4

LEMMA PullLoopStep ==
  ASSUME Plugged, PullLoop
  PROVE  Plugged' /\ SameFlow
<1> DEFINE p == Top.plug
           f == With("pulling", p, other[p])
<1>1. /\ ~Idle /\ SamePlugs /\ Top.op = "pullLoop"
      /\ iswriting' = iswriting \cup {p} /\ isreading' = Marked(isreading, canread, other[p])
      /\ stack' = <<f>> \o Tail(stack)
  BY DEF PullLoop, Running, Top, Calls, SamePlugs
<1>2. /\ PlugsOK /\ Quiet(stack) /\ p = End /\ isreading = {} /\ iswriting = {}
      /\ other[End] \in {LPlug, None} /\ LPlug # End /\ None # LPlug
  BY <1>1, LoopTop
<1>3. f \in Frames /\ f.op = "pulling" /\ f.peer = other[End]
  BY <1>2, LoopFrame
<1> HIDE DEF f, p
<1>4. /\ isreading' \subseteq {LPlug} /\ iswriting' \subseteq {End}
      /\ other[End] = None => isreading' = {}
      /\ other[End] # None /\ LPlug \in canread => LPlug \in isreading'
  BY <1>1, <1>2 DEF Marked, PlugsOK
<1> QED
  BY <1>1, <1>2, <1>3, <1>4, TestStep DEF TestOps

LEMMA PulledStep ==
  ASSUME Plugged, Pulled
  PROVE  Plugged' /\ SameFlow
<1> DEFINE p == Top.plug
           o == Top.peer
           f == With("pulling", p, other[p])
<1>1. /\ ~Idle /\ SamePlugs /\ Top.op = "pulled" /\ Top.op \in TurnOps
      /\ iswriting' = iswriting
      /\ isreading' = IF other[p] = o THEN isreading
                      ELSE Marked(isreading \ {o}, canread, other[p])
      /\ stack' = <<f>> \o Tail(stack)
  BY DEF Pulled, Running, Top, Calls, SamePlugs, TurnOps
<1>2. /\ PlugsOK /\ Quiet(stack) /\ p = End /\ LPlug \in isreading /\ o = LPlug
      /\ other[End] \in {LPlug, None} /\ LPlug # End /\ None # LPlug
  BY <1>1, LoopTop DEF LoopOps
<1>3. f \in Frames /\ f.op = "pulling" /\ f.peer = other[End]
  BY <1>2, LoopFrame
<1> HIDE DEF f, p, o
<1>4. /\ isreading' \subseteq {LPlug} /\ iswriting' \subseteq {End}
      /\ other[End] = None => isreading' = {}
      /\ other[End] # None /\ LPlug \in canread => LPlug \in isreading'
  BY <1>1, <1>2 DEF Marked, PlugsOK
<1> QED
  BY <1>1, <1>2, <1>3, <1>4, TestStep DEF TestOps

LEMMA PullingStep ==
  ASSUME Plugged, Pulling
  PROVE  Plugged' /\ SameFlow
<1> DEFINE p == Top.plug
           o == Top.peer
           f == With("pulled", p, o)
<1>1. /\ ~Idle /\ SamePlugs /\ Top.op = "pulling" /\ Running("pulling")
      /\ Top.op \in TestOps /\ Top.op \in LoopOps
  BY DEF Pulling, Running, Top, SamePlugs, TestOps, LoopOps
<1>2. /\ PlugsOK /\ Quiet(stack) /\ p = End /\ o = other[End]
      /\ o = None => isreading = {}
      /\ o # None /\ LPlug \in canread => LPlug \in isreading
      /\ other[End] \in {LPlug, None} /\ LPlug # End /\ None # LPlug
      /\ other[LPlug] = End <=> other[End] = LPlug
  BY <1>1, LoopTop DEF Plugged, MarksOK
<1>3. CASE p \in canwrite /\ o # None /\ o \in canread
  <2>1. f \in Frames /\ f.op = "pulled" /\ f.op \in TurnOps
    BY <1>2, <1>3, LoopFrame DEF TurnOps
  <2>2. SameMarks /\ Calls(<<Frame("i_Read", o), Frame("i_Write", p), f>>)
    BY <1>3 DEF Pulling, SameMarks
  <2> HIDE DEF f
  <2> QED
    BY <1>1, <1>2, <1>3, <2>1, <2>2, TurnStep
<1>4. CASE ~ (p \in canwrite /\ o # None /\ o \in canread)
  <2>1. iswriting' = iswriting \ {p} /\ isreading' = isreading \ {o}
        /\ stack' = <<>> \o Tail(stack)
    BY <1>4 DEF Pulling, Return, Calls
  <2>2. isreading' = {} /\ iswriting' = {}
    BY <1>2, <2>1 DEF PlugsOK
  <2> HIDE DEF p, o
  <2> QED
    BY <1>1, <1>2, <1>4, <2>1, <2>2, LoopEnds
<1> QED
  BY <1>3, <1>4

LEMMA EngineStep ==
  ASSUME Plugged, Engine
  PROVE  Plugged' /\ SameFlow
  BY ReturnChunkStep, WrittenStep, SetReadableStep, SetWriteableStep, FlagChangedStep,
     PlugIntoGoesOnStep, UnPlugStep, PushLoopStep, PushingStep, PushedStep,
     PullLoopStep, PullingStep, PulledStep
     DEF Engine

-----------------------------------------------------------------------------
(* Accepting.                                                              *)

Numbers(m) == [n \in 1..m |-> n]

LEMMA NumbersAre ==
  ASSUME NEW m \in Nat
  PROVE  /\ Numbers(m) \in Seq(Nat) /\ Len(Numbers(m)) = m
         /\ \A i \in 1..m : Numbers(m)[i] = i
<1>1. Numbers(m) \in [1..m -> Nat]
  BY DEF Numbers
<1> QED
  BY <1>1 DEF Numbers

LEMMA KeptIs ==
  ASSUME ListenerOK
  PROVE  Kept = Only(Numbers(accepted), (1..accepted) \ dropped) /\ Kept \in Seq(Nat)
<1>1. Kept = Only(Numbers(accepted), (1..accepted) \ dropped)
  BY DEF Kept, Numbers
<1>2. Numbers(accepted) \in Seq(Nat)
  BY NumbersAre DEF ListenerOK
<1> QED
  BY <1>1, <1>2, OnlyElements

LEMMA SomeIs ==
  ASSUME NEW n \in Nat \cup {None}
  PROVE  /\ Some(n) \in Seq(Nat) /\ Some(None) = <<>>
         /\ n # None => n \in Nat /\ Some(n) = <<n>>
  BY DEF Some

\* The four ways accept goes.
LEMMA OutcomeIs ==
  ASSUME "setfl" \notin Failures, NEW out \in Outcomes
  PROVE  /\ out.shows = TRUE
         /\ out.again \in BOOLEAN /\ out.fails \in BOOLEAN
         /\ \/ out.conn = None /\ out.kept = None
            \/ /\ out.conn = accepted + 1 /\ out.again = FALSE
               /\ \/ out.kept = accepted + 1 /\ out.fails = FALSE
                  \/ out.kept = None /\ out.fails = TRUE
<1> DEFINE conn == accepted + 1
<1>1. ~May("setfl")
  BY DEF May
<1>2. \/ out = Outcome(None, TRUE)
      \/ out = [Outcome(None, FALSE) EXCEPT !.again = TRUE]
      \/ out = [Outcome(conn, FALSE) EXCEPT !.kept = conn]
      \/ out = Outcome(conn, TRUE)
  BY <1>1, Zenon DEF Outcomes
<1> HIDE DEF conn
<1>3. CASE out = Outcome(None, TRUE)
  BY <1>3 DEF Outcome
<1>4. CASE out = [Outcome(None, FALSE) EXCEPT !.again = TRUE]
  BY <1>4 DEF Outcome
<1>5. CASE out = [Outcome(conn, FALSE) EXCEPT !.kept = conn]
  BY <1>5 DEF Outcome, conn
<1>6. CASE out = Outcome(conn, TRUE)
  BY <1>6 DEF Outcome, conn
<1> QED
  BY <1>2, <1>3, <1>4, <1>5, <1>6

\* What DoAccept keeps: the connection accepted is the one kept, or is dropped.
LEMMA Accepts ==
  ASSUME ListenerOK, "setfl" \notin Failures, NEW out \in Outcomes, NEW checking \in BOOLEAN,
         DoAccept(out, checking)
  PROVE  /\ newmodule' \in Nat \cup {None} /\ accepted' \in Nat /\ dropped' \subseteq 1..accepted'
         /\ registered' \in [{"read", "error"} -> Nat]
         /\ sockopen' = sockopen /\ alive' = alive
         /\ out.again \in BOOLEAN /\ checking_read' = (checking \/ out.again)
         /\ registered'["read"] = registered["read"] + (IF out.again /\ ~checking THEN 1 ELSE 0)
         /\ out.again => newmodule' = None
         /\ Shows(out) = <<Set("setReadable", LPlug, newmodule' # None)>>
         /\ Kept' = Kept \o Some(newmodule')
<1> USE ListenConstants
<1>1. /\ out.shows = TRUE /\ out.again \in BOOLEAN
      /\ \/ out.conn = None /\ out.kept = None
         \/ /\ out.conn = accepted + 1 /\ out.again = FALSE
            /\ \/ out.kept = accepted + 1 /\ out.fails = FALSE
               \/ out.kept = None /\ out.fails = TRUE
  BY OutcomeIs
<1>2. accepted \in Nat /\ dropped \subseteq 1..accepted
      /\ registered \in [{"read", "error"} -> Nat]
  BY DEF ListenerOK
<1>3. /\ newmodule' = out.kept /\ checking_read' = (checking \/ out.again)
      /\ accepted' = IF out.conn = None THEN accepted ELSE out.conn
      /\ dropped' = IF out.fails /\ out.conn # None THEN dropped \cup {out.conn} ELSE dropped
      /\ registered' = [registered EXCEPT !["read"] =
                           IF out.again /\ ~checking THEN @ + 1 ELSE @]
      /\ sockopen' = sockopen /\ alive' = alive
  BY DEF DoAccept, Keeps
<1>4. /\ registered' \in [{"read", "error"} -> Nat]
      /\ registered'["read"] = registered["read"] + (IF out.again /\ ~checking THEN 1 ELSE 0)
  BY <1>2, <1>3
<1>5. /\ newmodule' \in Nat \cup {None} /\ accepted' \in Nat /\ dropped' \subseteq 1..accepted'
      /\ out.again => newmodule' = None
  <2>1. CASE out.conn = None /\ out.kept = None
    BY <1>2, <1>3, <2>1
  <2>2. CASE out.conn = accepted + 1 /\ out.again = FALSE
    <3>1. out.conn # None /\ out.kept \in {None, accepted + 1}
      BY <1>1, <1>2, <2>2
    <3> QED
      BY <1>2, <1>3, <2>2, <3>1
  <2> QED
    BY <1>1, <2>1, <2>2
<1>6. Shows(out) = <<Set("setReadable", LPlug, newmodule' # None)>>
  BY <1>1, <1>3 DEF Shows, If
<1>7. Kept' = Kept \o Some(newmodule')
  <2>1. Kept' = Only(Numbers(accepted'), (1..accepted') \ dropped')
    BY DEF Kept, Numbers
  <2>2. Kept = Only(Numbers(accepted), (1..accepted) \ dropped) /\ Kept \in Seq(Nat)
    BY KeptIs
  <2>3. CASE out.conn = None
    <3>1. accepted' = accepted /\ dropped' = dropped /\ newmodule' = None
      BY <1>1, <1>2, <1>3, <2>3
    <3>2. Some(None) = <<>> /\ Kept \o <<>> = Kept
      BY <2>2, SomeIs
    <3> QED
      BY <2>1, <2>2, <3>1, <3>2
  <2>4. CASE out.conn # None
    <3> DEFINE s == Numbers(accepted)
               t == Numbers(accepted + 1)
               S == (1..accepted) \ dropped
               T == (1..(accepted + 1)) \ dropped'
    <3>1. accepted' = accepted + 1 /\ out.conn = accepted + 1
      BY <1>1, <1>3, <2>4
    <3>2. /\ Len(s) = accepted /\ Len(t) = accepted + 1 /\ t[accepted + 1] = accepted + 1
          /\ \A i \in 1..accepted : s[i] = i /\ t[i] = i
      BY <1>2, NumbersAre
    <3>3. \A i \in 1..accepted : i \in S <=> i \in T
      BY <1>2, <1>3, <3>1
    <3>4. /\ out.fails = TRUE => accepted + 1 \notin T
          /\ out.fails = FALSE => accepted + 1 \in T
      <4>1. accepted + 1 \in 1..(accepted + 1) /\ accepted + 1 \notin dropped
        BY <1>2
      <4> QED
        BY <1>3, <2>4, <3>1, <4>1
    <3>5. Kept = Only(s, S) /\ Kept' = Only(t, T)
      BY <2>1, <2>2, <3>1
    <3> HIDE DEF s, t, S, T
    <3>6. Only(t, T) = IF t[Len(t)] \in T THEN Append(Only(s, S), t[Len(t)]) ELSE Only(s, S)
      BY <1>2, <3>2, <3>3, OnlyGrown
    <3>7. CASE out.kept = accepted + 1 /\ out.fails = FALSE
      <4>1. Kept' = Append(Kept, accepted + 1)
        BY <3>2, <3>4, <3>5, <3>6, <3>7
      <4>2. newmodule' = accepted + 1 /\ newmodule' # None
        BY <1>2, <1>3, <3>7
      <4>3. Some(newmodule') = <<accepted + 1>>
        BY <4>2 DEF Some
      <4>4. Append(Kept, accepted + 1) = Kept \o <<accepted + 1>>
        BY <1>2, <2>2
      <4> QED
        BY <4>1, <4>3, <4>4
    <3>8. CASE out.kept = None /\ out.fails = TRUE
      <4>1. Kept' = Kept /\ newmodule' = None
        BY <1>3, <3>2, <3>4, <3>5, <3>6, <3>8
      <4>2. Some(None) = <<>> /\ Kept \o <<>> = Kept
        BY <2>2, SomeIs
      <4> QED
        BY <4>1, <4>2
    <3> QED
      BY <1>1, <2>4, <3>7, <3>8
  <2> QED
    BY <2>3, <2>4
<1> QED
  BY <1>1, <1>3, <1>4, <1>5, <1>6, <1>7

-----------------------------------------------------------------------------
(* The actions of the module.                                              *)

LEMMA Joined == \A g, t, m \in Seq(Nat) : (g \o t) \o m = g \o (t \o m)
<1> DEFINE D == Nat
<1> HIDE DEF D
<1>1. \A g, t, m \in Seq(D) : (g \o t) \o m = g \o (t \o m)
  BY ConcatAssociative
<1> QED
  BY <1>1 DEF D

\* What the invariant says of the read event is about these variables.
LEMMA PendingIs ==
  ASSUME ListenerOK
  PROVE  /\ Pending = registered["read"] + Len(Only(queue, {"read"}))
         /\ Len(Only(queue, {"read"})) \in Nat /\ registered["read"] \in Nat
<1>1. Only(queue, {"read"}) \in Seq({"read", "error"})
  BY OnlyElements DEF ListenerOK
<1>2. Len(Only(queue, {"read"})) \in Nat /\ registered["read"] \in Nat
  BY <1>1 DEF ListenerOK
<1> QED
  BY <1>2 DEF Pending

\* A step of the plugs.
LEMMA PlugsStep ==
  ASSUME IInv, Plugged', SameFlow, UNCHANGED <<listener, socketvars, history>>
  PROVE  IInv'
<1>1. /\ ListenerOK' /\ Pending' = Pending /\ Kept' = Kept
      /\ alive' = alive /\ newmodule' = newmodule /\ checking_read' = checking_read /\ got' = got
  BY DEF IInv, ListenerOK, Pending, Kept, listener, socketvars, history
<1> QED
  BY <1>1 DEF IInv, SameFlow, Flow, ReadAhead, Poll

\* A step that leaves the plugs and what they do alone.
LEMMA PlugsRest ==
  ASSUME Plugged, other' = other, stack' = stack, ret' = ret, UNCHANGED flags
  PROVE  Plugged' /\ SameFlow
<1>1. PlugsOK' /\ StackOK' /\ SameFlow
  BY DEF Plugged, PlugsOK, StackOK, SameFlow, flags
<1>2. Symmetric' /\ MarksOK' /\ Covered'
  BY DEF Plugged, Symmetric, MarksOK, Covered, Running, Idle, Top, flags
<1> QED
  BY <1>1, <1>2 DEF Plugged

\* Nothing runs: no plug is marked, and nothing could move.
LEMMA AtIdle ==
  ASSUME Plugged, Idle
  PROVE  /\ isreading = {} /\ iswriting = {}
         /\ ~ (LPlug \in canread /\ other[LPlug] = End /\ End \in canwrite)
         /\ other[LPlug] \in {End, None} /\ other[End] \in {LPlug, None}
         /\ other[LPlug] = End <=> other[End] = LPlug
         /\ Passing(stack, ret) = <<>> /\ (WillRead(stack, canread) <=> LPlug \in canread)
<1>1. stack = <<>> /\ \A X : Free(stack, X)
  BY FreeEmpty DEF Idle
<1>2. LPlug # End /\ None # LPlug /\ None # End /\ Plugs = {LPlug, End}
  BY ListenConstants, PlugConstants
<1>3. other[LPlug] \in {End, None} /\ other[End] \in {LPlug, None}
  BY <1>2 DEF Plugged, PlugsOK
<1>4. isreading = {} /\ iswriting = {}
      /\ ~ (LPlug \in canread /\ other[LPlug] = End /\ End \in canwrite)
  BY <1>1 DEF Plugged, MarksOK, Covered
<1>5. other[LPlug] = End <=> other[End] = LPlug
  BY <1>2 DEF Plugged, Symmetric, Running
<1>6. Passing(stack, ret) = <<>> /\ (WillRead(stack, canread) <=> LPlug \in canread)
  BY <1>1 DEF Passing, WillRead, Starts
<1> QED
  BY <1>3, <1>4, <1>5, <1>6

\* A call the program, the dispatcher or the other plug makes when nothing runs.
LEMMA IdleCall ==
  ASSUME Plugged, Idle, UNCHANGED <<canread, canwrite, isreading, iswriting>>,
         notifyonread' = {}, notifyonwrite' = {},
         other' \in [Plugs -> Plugs \cup {None}], \A p \in Plugs : other'[p] # p,
         other'[LPlug] \in {other[LPlug], None}, Symmetric',
         NEW f \in Frames, f.op \in {"setReadable", "setWriteable", "unPlug"},
         stack' = <<f>>
  PROVE  /\ Plugged' /\ Passing(stack', ret') = <<>>
         /\ WillRead(stack', canread') <=> IF f.op = "setReadable" THEN f.val = TRUE
                                                               ELSE LPlug \in canread
<1>1. /\ stack' \in Seq(Frames) /\ stack' # <<>> /\ Head(stack') = f /\ Tail(stack') = <<>>
  OBVIOUS
<1>2. Base(<<>>) /\ \A X : Free(<<>>, X)
  BY BaseEmpty, FreeEmpty
<1>3. f.op \notin LoopOps \cup TurnOps \cup TestOps \cup {"written"}
  BY DEF LoopOps, TurnOps, TestOps
<1>4. \A X : f.op \notin X => Free(stack', X)
  BY <1>1, <1>2, FreeTop
<1>5. /\ Free(stack', LoopOps) /\ Free(stack', TurnOps) /\ Free(stack', TestOps)
      /\ Free(stack', {"written"})
  BY <1>3, <1>4
<1>6. StackOK'
  <2>1. Sound(stack')
    BY <1>1, <1>5, SoundFree
  <2>2. Setting(stack') \/ Quiet(stack')
    BY <1>1, <1>2, <1>4 DEF Setting, Quiet, Moves
  <2> QED
    BY <2>1, <2>2 DEF StackOK, Shaped
<1>7. MarksOK' /\ Covered'
  <2>1. ~(Running("pushing")') /\ ~(Running("pulling")')
    BY <1>1, <1>3 DEF Running, Idle, TestOps
  <2>2. ~ (LPlug \in canread' /\ other'[LPlug] = End /\ End \in canwrite')
    BY AtIdle, ListenConstants, PlugConstants
  <2> QED
    BY <1>5, <2>1, <2>2, AtIdle DEF MarksOK, Covered
<1>8. PlugsOK'
  BY <1>1 DEF Plugged, PlugsOK
<1>9. Passing(stack', ret') = <<>>
  BY <1>1 DEF Passing, Carried, Starts
<1>10. WillRead(stack', canread') <=> IF f.op = "setReadable" THEN f.val = TRUE
                                                          ELSE LPlug \in canread
  BY <1>1 DEF WillRead, Starts
<1> QED
  BY <1>6, <1>7, <1>8, <1>9, <1>10 DEF Plugged

\* What is made of the frame that shows whether there is a connection.
LEMMA ShowsFrame ==
  ASSUME NEW v \in BOOLEAN
  PROVE  /\ Set("setReadable", LPlug, v) \in Frames
         /\ Set("setReadable", LPlug, v).op = "setReadable"
         /\ Set("setReadable", LPlug, v).val = v
<1>1. "setReadable" \in Ops \ (WriteOps \cup TurnOps) /\ LPlug \in Plugs
  BY ListenConstants DEF Ops, ReadOps, WriteOps, TurnOps
<1>2. v \in Vals
  BY DEF Vals
<1> QED
  BY <1>1, <1>2, FrameIs

LEMMA RoomFrame ==
  ASSUME NEW v \in BOOLEAN
  PROVE  /\ Set("setWriteable", End, v) \in Frames
         /\ Set("setWriteable", End, v).op = "setWriteable"
         /\ Set("setWriteable", End, v).val = v
<1>1. "setWriteable" \in Ops \ (ReadOps \cup TurnOps) /\ End \in Plugs
  BY ListenConstants DEF Ops, ReadOps, WriteOps, TurnOps
<1>2. v \in Vals
  BY DEF Vals
<1> QED
  BY <1>1, <1>2, FrameIs

LEMMA ReadInv ==
  ASSUME "setfl" \notin Failures, IInv, Read
  PROVE  IInv'
<1>1. /\ ~Idle /\ Top.op = "i_Read" /\ SamePlugs /\ SameMarks
      /\ ret' = ret /\ queue' = queue /\ got' = got
      /\ GetNewModule(<<Set("return", LPlug, newmodule)>> \o Tail(stack))
  BY DEF Read, Running, Top, flags, SamePlugs, SameMarks
<1>2. /\ ListenerOK /\ Plugged /\ PlugsOK /\ StackOK /\ Flow /\ ReadAhead /\ Poll
      /\ stack \in Seq(Frames) /\ stack # <<>> /\ Tail(stack) \in Seq(Frames)
      /\ Top = Head(stack)
  BY <1>1, TopFrame DEF IInv, Plugged
<1>3. Reading(stack) /\ LPlug \in canread
  BY <1>1, <1>2, TopSays DEF StackOK
<1>4. newmodule # None /\ newmodule \in Nat
  BY <1>1, <1>2, <1>3 DEF ReadAhead, WillRead, Starts, ListenerOK
<1>5. PICK out \in Outcomes :
        /\ DoAccept(out, checking_read)
        /\ stack' = Shows(out) \o (<<Set("return", LPlug, newmodule)>> \o Tail(stack))
  BY <1>1, <1>4 DEF GetNewModule
<1>6. checking_read \in BOOLEAN
  BY <1>2 DEF ListenerOK
<1>7. /\ newmodule' \in Nat \cup {None} /\ accepted' \in Nat /\ dropped' \subseteq 1..accepted'
      /\ registered' \in [{"read", "error"} -> Nat]
      /\ sockopen' = sockopen /\ alive' = alive
      /\ out.again \in BOOLEAN /\ checking_read' = (checking_read \/ out.again)
      /\ registered'["read"] = registered["read"]
                                + (IF out.again /\ ~checking_read THEN 1 ELSE 0)
      /\ out.again => newmodule' = None
      /\ Shows(out) = <<Set("setReadable", LPlug, newmodule' # None)>>
      /\ Kept' = Kept \o Some(newmodule')
  BY <1>2, <1>5, <1>6, Accepts
<1> DEFINE a == Set("setReadable", LPlug, newmodule' # None)
           r == Set("return", LPlug, newmodule)
           u == <<r>> \o Tail(stack)
<1>8. r \in Frames /\ r.op = "return" /\ r.val = newmodule
  <2>1. "return" \in Ops \ (WriteOps \cup TurnOps) /\ LPlug \in Plugs /\ newmodule \in Vals
    BY <1>4, ListenConstants DEF Ops, ReadOps, WriteOps, TurnOps, Vals
  <2> QED
    BY <1>4, <2>1, FrameIs
<1>9. a \in Frames /\ a.op = "setReadable" /\ a.val = (newmodule' # None)
  BY ShowsFrame
<1>10. stack' = <<a>> \o u
  BY <1>5, <1>7
<1> HIDE DEF a, r
<1>11. Sound(Tail(stack)) /\ Free(Tail(stack), TestOps)
  BY <1>2, SoundPop DEF StackOK
<1>12. /\ {r.op, a.op, Top.op} \cap (LoopOps \cup TurnOps \cup StartOps \cup TestOps \cup Coverers
                                   \cup {"written", "unPlug"}) = {}
  BY <1>1, <1>8, <1>9 DEF LoopOps, TurnOps, StartOps, TestOps, Coverers
<1>13. /\ u \in Seq(Frames) /\ u # <<>> /\ Head(u) = r /\ Tail(u) = Tail(stack)
  BY <1>2, <1>8, PushedOn
<1>14. \A X : Free(u, X) <=> r.op \notin X /\ Free(Tail(stack), X)
  BY <1>2, <1>8, FreePush
<1>15. Sound(u) /\ Free(u, TestOps)
  <2>1. r.op \notin LoopOps \cup StartOps /\ r.op # "written" /\ r.op \notin TestOps
    BY <1>12
  <2> QED
    BY <1>2, <1>8, <1>11, <1>14, <2>1, SoundPush
<1> HIDE DEF u
<1>16. /\ stack' \in Seq(Frames) /\ stack' # <<>> /\ Head(stack') = a /\ Tail(stack') = u
  BY <1>9, <1>10, <1>13, PushedOn
<1>17. \A X : Free(stack', X) <=> a.op \notin X /\ Free(u, X)
  BY <1>9, <1>10, <1>13, FreePush
<1>18. Sound(stack')
  <2>1. a.op \notin LoopOps \cup StartOps /\ a.op # "written"
    BY <1>12
  <2> QED
    BY <1>9, <1>10, <1>13, <1>15, <2>1, SoundPush
<1>19. Showing(stack') /\ StackOK'
  <2>1. Showing(stack')
    BY <1>3, <1>8, <1>9, <1>13, <1>16 DEF Showing, Returning, Reading, Starts
  <2> QED
    BY <1>18, <2>1 DEF StackOK, Shaped
<1>20. Plugged'
  <2>1. ~Starts("pushing", stack') /\ ~Starts("pulling", stack')
    BY <1>9, <1>16 DEF Starts
  <2>2. /\ Free(stack', LoopOps) => Free(Tail(stack), LoopOps)
        /\ Free(Tail(stack), TurnOps) => Free(stack', TurnOps)
        /\ Free(stack', Coverers) => Free(Tail(stack), Coverers)
    BY <1>12, <1>14, <1>17
  <2>3. Top.op \notin LoopOps /\ Top.op # "unPlug" /\ Top.op \notin Coverers
    BY <1>12
  <2> QED
    BY <1>1, <1>2, <1>16, <1>19, <2>1, <2>2, <2>3, CallsSame
<1>21. /\ Passing(stack', ret') = <<newmodule>>
       /\ WillRead(stack', canread') <=> newmodule' # None
  <2>1. Passing(stack', ret') = Carried(u)
    BY <1>16, <1>19, PassingUnder
  <2>2. Carried(u) = <<newmodule>>
    BY <1>8, <1>13 DEF Carried, Starts
  <2> QED
    BY <1>9, <1>16, <2>1, <2>2 DEF WillRead, Starts
<1>22. Passing(stack, ret) = <<>>
  BY <1>1, <1>2, <1>3 DEF Passing, Carried, Reading, Taking, Starts
<1>23. Flow'
  <2> DEFINE c == <<newmodule>>
             m == Some(newmodule')
  <2>1. /\ got \in Seq(Nat) /\ m \in Seq(Nat) /\ c \in Seq(Nat)
        /\ Some(newmodule) = c
    BY <1>2, <1>4, <1>7, SomeIs DEF ListenerOK
  <2>2. Passing(stack', ret') = c /\ Kept' = Kept \o m
    BY <1>7, <1>21
  <2>3. Flow' <=> got' \o (Passing(stack', ret') \o m) = Kept'
    BY DEF Flow
  <2> HIDE DEF c, m
  <2>4. <<>> \o c = c
    BY <2>1
  <2>5. got \o c = Kept
    BY <1>2, <1>22, <2>1, <2>4 DEF Flow
  <2>6. got \o (c \o m) = (got \o c) \o m
    BY <2>1, Joined, Zenon
  <2> QED
    BY <1>1, <2>2, <2>3, <2>5, <2>6
<1>24. ListenerOK'
  BY <1>1, <1>2, <1>6, <1>7 DEF ListenerOK
<1>25. ReadAhead'
  BY <1>21 DEF ReadAhead
<1>26. Poll'
  <2>1. SUFFICES ASSUME alive
                 PROVE  /\ Pending' = (IF checking_read' THEN 1 ELSE 0)
                        /\ newmodule' # None => ~checking_read'
    BY <1>7 DEF Poll
  <2>2. Pending = 0 /\ ~checking_read
    BY <1>2, <1>4, <2>1 DEF Poll
  <2>3. /\ Pending = registered["read"] + Len(Only(queue, {"read"}))
        /\ Len(Only(queue, {"read"})) \in Nat /\ registered["read"] \in Nat
    BY <1>2, PendingIs
  <2>4. Pending' = registered'["read"] + Len(Only(queue, {"read"}))
    BY <1>1 DEF Pending
  <2>5. Pending' = IF out.again THEN 1 ELSE 0
    BY <1>7, <2>2, <2>3, <2>4
  <2> QED
    BY <1>7, <2>2, <2>5
<1> QED
  BY <1>20, <1>23, <1>24, <1>25, <1>26 DEF IInv

LEMMA EndWriteInv ==
  ASSUME IInv, EndWrite
  PROVE  IInv'
<1> DEFINE a == Set("setWriteable", End, FALSE)
           b == Frame("unPlug", End)
           w == Frame("written", End)
<1>1. /\ ~Idle /\ Top.op = "i_Write" /\ SamePlugs /\ SameMarks
      /\ got' = Append(got, ret) /\ UNCHANGED <<listener, socketvars, dropped>>
  BY DEF EndWrite, Running, Top, flags, SamePlugs, SameMarks
<1>2. \/ stack' = (<<>> \o <<>> \o <<w>>) \o Tail(stack)
      \/ stack' = (<<a>> \o <<>> \o <<w>>) \o Tail(stack)
      \/ stack' = (<<a>> \o <<b>> \o <<w>>) \o Tail(stack)
  <2>1. PICK room \in BOOLEAN, stays \in BOOLEAN :
          /\ room => stays
          /\ stack' = (If(~room, <<a>>) \o If(~stays, <<b>>) \o <<w>>) \o Tail(stack)
    BY DEF EndWrite, Calls
  <2> HIDE DEF a, b, w
  <2> QED
    BY <2>1 DEF If
<1>3. /\ ListenerOK /\ Plugged /\ PlugsOK /\ StackOK /\ Flow /\ ReadAhead /\ Poll
      /\ stack \in Seq(Frames) /\ stack # <<>> /\ Tail(stack) \in Seq(Frames)
      /\ Top = Head(stack)
  BY <1>1, TopFrame DEF IInv, Plugged
<1>4. Taking(stack) /\ ret \in Nat
  BY <1>1, <1>3, TopSays DEF StackOK
<1>5. /\ w \in Frames /\ w.op = "written" /\ b \in Frames /\ b.op = "unPlug"
      /\ a \in Frames /\ a.op = "setWriteable" /\ a.val = FALSE
  <2>1. /\ "written" \in Ops /\ "setWriteable" \in Ops /\ "unPlug" \in Ops
        /\ "written" \notin ReadOps \cup TurnOps \cup {"return"}
        /\ "setWriteable" \notin ReadOps \cup TurnOps \cup {"return"}
        /\ "unPlug" \notin ReadOps \cup WriteOps \cup TurnOps \cup {"return"}
        /\ End \in Plugs /\ FALSE \in Vals
    BY ListenConstants DEF Ops, ReadOps, WriteOps, UnplugOps, TurnOps, Vals
  <2>2. w \in Frames /\ w.op = "written"
    BY <2>1, FrameIs
  <2>3. b \in Frames /\ b.op = "unPlug"
    BY <2>1, FrameIs
  <2>4. a \in Frames /\ a.op = "setWriteable" /\ a.val = FALSE
    BY RoomFrame
  <2> QED
    BY <2>2, <2>3, <2>4
<1> HIDE DEF a, b, w
<1> DEFINE s == <<w>> \o Tail(stack)
           t == <<b>> \o s
<1>6. stack' \in {s, <<a>> \o s, <<a>> \o t}
  <2>1. <<a>> \in Seq(Frames) /\ <<b>> \in Seq(Frames) /\ <<w>> \in Seq(Frames)
        /\ s \in Seq(Frames)
    BY <1>3, <1>5
  <2>2. <<>> \o <<>> \o <<w>> = <<w>> /\ <<a>> \o <<>> \o <<w>> = <<a>> \o <<w>>
    BY <2>1
  <2>3. (<<a>> \o <<w>>) \o Tail(stack) = <<a>> \o s
    BY <1>3, <2>1, ConcatAssociative
  <2>4. (<<a>> \o <<b>> \o <<w>>) \o Tail(stack) = <<a>> \o t
    <3>1. <<a>> \o <<b>> \in Seq(Frames)
      BY <2>1
    <3>2. (<<a>> \o <<b>> \o <<w>>) \o Tail(stack) = (<<a>> \o <<b>>) \o s
      BY <1>3, <2>1, <3>1, ConcatAssociative
    <3>3. (<<a>> \o <<b>>) \o s = <<a>> \o t
      BY <2>1, ConcatAssociative
    <3> QED
      BY <3>2, <3>3
  <2> HIDE DEF s, t
  <2>5. s = <<w>> \o Tail(stack)
    BY DEF s
  <2> QED
    BY <1>2, <2>2, <2>3, <2>4, <2>5
<1>7. Base(Tail(stack)) /\ Head(Tail(stack)).op \in TurnOps /\ Tail(stack) # <<>>
  BY <1>1, <1>3, <1>4, BaseUnder DEF Taking
<1>8. /\ {w.op, b.op, a.op, Top.op} \cap (LoopOps \cup TurnOps \cup StartOps \cup TestOps
                                          \cup Coverers) = {}
      /\ {w.op, b.op} \cap Moves = {}
  BY <1>1, <1>5 DEF LoopOps, TurnOps, StartOps, TestOps, Coverers, Moves
<1>9. /\ s \in Seq(Frames) /\ Base(s) /\ s # <<>> /\ Head(s) = w
      /\ \A X : Free(s, X) <=> w.op \notin X /\ Free(Tail(stack), X)
  <2>1. w.op \notin Moves /\ w.op \notin LoopOps \cup StartOps /\ w.op \notin TestOps
    BY <1>8
  <2> QED
    BY <1>5, <1>7, <2>1, QuietPush
<1> HIDE DEF s
<1>10. /\ t \in Seq(Frames) /\ Base(t) /\ t # <<>> /\ Head(t) = b
       /\ \A X : Free(t, X) <=> b.op \notin X /\ Free(s, X)
  <2>1. b.op \notin Moves /\ b.op \notin LoopOps \cup StartOps /\ b.op \notin TestOps
        /\ b.op # "written"
    BY <1>5, <1>8
  <2> QED
    BY <1>5, <1>9, <2>1, QuietPush
<1> HIDE DEF t
<1>11. ASSUME NEW v \in {s, t}
       PROVE  /\ v \in Seq(Frames) /\ Quiet(v) /\ Sound(v) /\ v # <<>>
              /\ Head(v).op \in {"written", "unPlug"} /\ Free(v, TestOps)
              /\ \A X : X \cap {"written", "unPlug"} = {} => (Free(v, X) <=> Free(Tail(stack), X))
  BY <1>5, <1>9, <1>10 DEF Base
<1>12. /\ stack' \in Seq(Frames) /\ StackOK' /\ Passing(stack', ret') = <<>>
       /\ WillRead(stack', canread') <=> LPlug \in canread
       /\ ~Starts("pushing", stack') /\ ~Starts("pulling", stack')
       /\ \A X : X \cap {"written", "unPlug", "setWriteable"} = {}
                 => (Free(stack', X) <=> Free(Tail(stack), X))
  <2>1. CASE stack' \in {s, t}
    <3>1. /\ stack' \in Seq(Frames) /\ Quiet(stack') /\ Sound(stack') /\ stack' # <<>>
          /\ Head(stack').op \in {"written", "unPlug"} /\ Free(stack', TestOps)
          /\ \A X : X \cap {"written", "unPlug"} = {}
                    => (Free(stack', X) <=> Free(Tail(stack), X))
      BY <1>11, <2>1
    <3>2. /\ Shaped(stack', canread', ret') /\ Passing(stack', ret') = <<>>
          /\ WillRead(stack', canread') <=> LPlug \in canread'
      BY <3>1, AtRest
    <3>3. \A X : X \cap {"written", "unPlug", "setWriteable"} = {}
                => X \cap {"written", "unPlug"} = {}
      OBVIOUS
    <3>4. \A X : X \cap {"written", "unPlug", "setWriteable"} = {}
                 => (Free(stack', X) <=> Free(Tail(stack), X))
      BY <3>1, <3>3
    <3> QED
      BY <1>1, <3>1, <3>2, <3>4, NoneTests DEF StackOK, SamePlugs
  <2>2. ASSUME NEW v \in {s, t}, stack' = <<a>> \o v
        PROVE  /\ stack' \in Seq(Frames) /\ StackOK' /\ Passing(stack', ret') = <<>>
               /\ WillRead(stack', canread') <=> LPlug \in canread
               /\ ~Starts("pushing", stack') /\ ~Starts("pulling", stack')
               /\ \A X : X \cap {"written", "unPlug", "setWriteable"} = {}
                         => (Free(stack', X) <=> Free(Tail(stack), X))
    <3>1. /\ v \in Seq(Frames) /\ Quiet(v) /\ Sound(v) /\ v # <<>>
          /\ Head(v).op \in {"written", "unPlug"} /\ Free(v, TestOps)
          /\ \A X : X \cap {"written", "unPlug"} = {} => (Free(v, X) <=> Free(Tail(stack), X))
      BY <1>11
    <3>2. /\ stack' \in Seq(Frames) /\ stack' # <<>> /\ Head(stack') = a /\ Tail(stack') = v
      BY <1>5, <2>2, <3>1, PushedOn
    <3>3. \A X : Free(stack', X) <=> a.op \notin X /\ Free(v, X)
      BY <1>5, <2>2, <3>1, FreePush
    <3>4. Sound(stack')
      <4>1. a.op \notin LoopOps \cup StartOps /\ a.op # "written"
        BY <1>5, <1>8
      <4> QED
        BY <1>5, <2>2, <3>1, <4>1, SoundPush
    <3>5. StackOK'
      BY <1>5, <3>1, <3>2, <3>4 DEF StackOK, Shaped, Setting
    <3>6. Passing(stack', ret') = <<>>
      BY <1>5, <3>1, <3>2 DEF Passing, Carried, Starts
    <3>7. /\ WillRead(stack', canread') <=> LPlug \in canread
          /\ ~Starts("pushing", stack') /\ ~Starts("pulling", stack')
      BY <1>1, <1>5, <3>2 DEF WillRead, Starts, SamePlugs
    <3>8. \A X : X \cap {"written", "unPlug", "setWriteable"} = {}
                 => (Free(stack', X) <=> Free(Tail(stack), X))
      BY <1>5, <3>1, <3>3
    <3> QED
      BY <3>2, <3>5, <3>6, <3>7, <3>8
  <2> QED
    BY <1>6, <2>1, <2>2
<1>13. Plugged'
  <2>1. /\ LoopOps \cap {"written", "unPlug", "setWriteable"} = {}
        /\ TurnOps \cap {"written", "unPlug", "setWriteable"} = {}
        /\ Coverers \cap {"written", "unPlug", "setWriteable"} = {}
    BY DEF LoopOps, TurnOps, TestOps, Coverers
  <2>2. /\ Free(stack', LoopOps) => Free(Tail(stack), LoopOps)
        /\ Free(Tail(stack), TurnOps) => Free(stack', TurnOps)
        /\ Free(stack', Coverers) => Free(Tail(stack), Coverers)
    BY <1>12, <2>1
  <2>3. Top.op \notin LoopOps /\ Top.op # "unPlug" /\ Top.op \notin Coverers
    BY <1>1, <1>8
  <2> QED
    BY <1>1, <1>3, <1>12, <2>2, <2>3, CallsSame
<1>14. /\ Passing(stack, ret) = <<ret>>
       /\ WillRead(stack, canread) <=> LPlug \in canread
  BY <1>1, <1>3 DEF Passing, WillRead, Starts
<1>15. /\ newmodule' = newmodule /\ alive' = alive /\ checking_read' = checking_read
       /\ Kept' = Kept /\ Pending' = Pending /\ accepted' = accepted /\ queue' = queue
       /\ registered' = registered /\ sockopen' = sockopen /\ dropped' = dropped
  BY <1>1 DEF listener, socketvars, Kept, Pending
<1>16. ListenerOK'
  <2>1. got' \in Seq(Nat)
    BY <1>1, <1>3, <1>4 DEF ListenerOK
  <2> QED
    BY <1>3, <1>15, <2>1 DEF ListenerOK
<1>17. Flow'
  <2> DEFINE m == Some(newmodule)
             c == <<ret>>
  <2>1. newmodule \in Nat \cup {None} /\ got \in Seq(Nat)
    BY <1>3 DEF ListenerOK
  <2>2. m \in Seq(Nat)
    BY <2>1, SomeIs
  <2>3. c \in Seq(Nat) /\ got \o c = Append(got, ret)
    BY <1>4, <2>1
  <2>4. /\ got \o (Passing(stack, ret) \o m) = Kept
        /\ Flow' <=> got' \o (Passing(stack', ret') \o m) = Kept'
    BY <1>3, <1>15 DEF Flow
  <2>5. Passing(stack, ret) = c
    BY <1>14
  <2> HIDE DEF m, c
  <2>6. got \o (c \o m) = (got \o c) \o m
    BY <2>1, <2>2, <2>3, Joined, Zenon
  <2>7. <<>> \o m = m
    BY <2>2
  <2> QED
    BY <1>1, <1>12, <1>15, <2>3, <2>4, <2>5, <2>6, <2>7
<1>18. ReadAhead' /\ Poll'
  BY <1>3, <1>12, <1>14, <1>15 DEF ReadAhead, Poll
<1> QED
  BY <1>13, <1>16, <1>17, <1>18 DEF IInv

\* What the invariant says when nothing runs.
LEMMA RestsAt ==
  ASSUME IInv, Idle
  PROVE  /\ ListenerOK /\ Plugged /\ Poll /\ PlugsOK
         /\ got \o Some(newmodule) = Kept
         /\ newmodule # None <=> LPlug \in canread
         /\ got \in Seq(Nat) /\ newmodule \in Nat \cup {None}
<1>1. /\ ListenerOK /\ Plugged /\ Flow /\ ReadAhead /\ Poll /\ PlugsOK
      /\ got \in Seq(Nat) /\ newmodule \in Nat \cup {None}
  BY DEF IInv, Plugged, ListenerOK
<1>2. Passing(stack, ret) = <<>> /\ (WillRead(stack, canread) <=> LPlug \in canread)
  BY <1>1, AtIdle
<1>3. <<>> \o Some(newmodule) = Some(newmodule)
  BY <1>1, SomeIs
<1> QED
  BY <1>1, <1>2, <1>3 DEF Flow, ReadAhead

\* A call that is made then.
LEMMA CallInv ==
  ASSUME Plugged', ListenerOK', Poll', Passing(stack', ret') = <<>>,
         newmodule' # None <=> WillRead(stack', canread'),
         got' \o Some(newmodule') = Kept'
  PROVE  IInv'
<1>1. Some(newmodule') \in Seq(Nat)
  BY SomeIs DEF ListenerOK
<1>2. <<>> \o Some(newmodule') = Some(newmodule')
  BY <1>1
<1>3. Flow' /\ ReadAhead'
  BY <1>2 DEF Flow, ReadAhead
<1> QED
  BY <1>3 DEF IInv

\* A step of the dispatcher, the poll or the program that makes no call.
LEMMA RestInv ==
  ASSUME IInv, other' = other, stack' = stack, ret' = ret, UNCHANGED flags,
         ListenerOK', Poll', newmodule' = newmodule, got' = got,
         accepted' = accepted, dropped' = dropped
  PROVE  IInv'
<1>1. Plugged /\ Flow /\ ReadAhead
  BY DEF IInv
<1>2. Plugged' /\ SameFlow
  BY <1>1, PlugsRest
<1>3. Kept' = Kept
  BY DEF Kept
<1>4. Flow' /\ ReadAhead'
  BY <1>1, <1>2, <1>3 DEF SameFlow, Flow, ReadAhead
<1> QED
  BY <1>2, <1>4 DEF IInv

\* An event leaves the queue.
LEMMA QueueTail ==
  ASSUME ListenerOK, queue # <<>>
  PROVE  /\ Tail(queue) \in Seq({"read", "error"}) /\ Head(queue) \in {"read", "error"}
         /\ Len(Only(Tail(queue), {"read"})) \in Nat
         /\ Len(Only(queue, {"read"}))
              = (IF Head(queue) = "read" THEN 1 ELSE 0) + Len(Only(Tail(queue), {"read"}))
<1> DEFINE D == {"read", "error"}
           S == {"read"}
           c == IF Head(queue) \in S THEN <<Head(queue)>> ELSE <<>>
           r == Only(Tail(queue), S)
<1>1. queue \in Seq(D) /\ Tail(queue) \in Seq(D) /\ Head(queue) \in D
  BY DEF ListenerOK
<1>2. c \in Seq(D) /\ Len(c) = IF Head(queue) = "read" THEN 1 ELSE 0
  <2>1. CASE Head(queue) = "read"
    <3>1. c = <<"read">>
      BY <2>1
    <3>2. <<"read">> \in Seq(D) /\ Len(<<"read">>) = 1
      OBVIOUS
    <3> QED
      BY <2>1, <3>1, <3>2
  <2>2. CASE Head(queue) # "read"
    BY <2>2, c = <<>>
  <2> QED
    BY <2>1, <2>2
<1>3. r \in Seq(D)
  BY <1>1, OnlyElements
<1> HIDE DEF D
<1>4. Only(queue, S) = c \o r
  BY <1>1, OnlyTail
<1> HIDE DEF c, r, S
<1>5. Len(c \o r) = Len(c) + Len(r)
  BY <1>2, <1>3, ConcatProperties
<1>6. Len(r) \in Nat
  BY <1>3
<1> QED
  BY <1>1, <1>2, <1>4, <1>5, <1>6 DEF D, S, r

LEMMA EventReadInv ==
  ASSUME "setfl" \notin Failures, IInv, Idle, queue # <<>>, alive, Head(queue) = "read",
         EventRead
  PROVE  IInv'
<1>1. /\ ListenerOK /\ Plugged /\ Poll /\ PlugsOK
      /\ got \o Some(newmodule) = Kept /\ got \in Seq(Nat)
  BY RestsAt
<1>2. /\ Tail(queue) \in Seq({"read", "error"})
      /\ Len(Only(Tail(queue), {"read"})) \in Nat
      /\ Len(Only(queue, {"read"})) = 1 + Len(Only(Tail(queue), {"read"}))
  BY <1>1, QueueTail
<1>3. Pending = registered["read"] + Len(Only(queue, {"read"})) /\ registered["read"] \in Nat
  BY <1>1, PendingIs
<1>4. /\ registered["read"] + Len(Only(Tail(queue), {"read"})) = 0
      /\ newmodule = None
  BY <1>1, <1>2, <1>3 DEF Poll
<1>5. PICK out \in Outcomes : DoAccept(out, FALSE) /\ stack' = Shows(out)
  BY <1>4 DEF EventRead, Checking
<1>6. /\ newmodule' \in Nat \cup {None} /\ accepted' \in Nat /\ dropped' \subseteq 1..accepted'
      /\ registered' \in [{"read", "error"} -> Nat]
      /\ sockopen' = sockopen /\ alive' = alive
      /\ out.again \in BOOLEAN /\ checking_read' = (FALSE \/ out.again)
      /\ registered'["read"] = registered["read"]
                                 + (IF out.again /\ ~FALSE THEN 1 ELSE 0)
      /\ out.again => newmodule' = None
      /\ Shows(out) = <<Set("setReadable", LPlug, newmodule' # None)>>
      /\ Kept' = Kept \o Some(newmodule')
  BY <1>1, <1>5, Accepts
<1>7. /\ queue' = Tail(queue) /\ got' = got /\ ret' = ret /\ other' = other
      /\ UNCHANGED <<canread, canwrite, isreading, iswriting, notifyonread, notifyonwrite>>
  BY DEF EventRead, flags
<1> DEFINE a == Set("setReadable", LPlug, newmodule' # None)
<1>8. a \in Frames /\ a.op = "setReadable" /\ a.val = (newmodule' # None)
  BY ShowsFrame
<1>9. stack' = <<a>>
  BY <1>5, <1>6
<1> HIDE DEF a
<1>10. Symmetric'
  BY <1>1, <1>7, AtIdle, ListenConstants, PlugConstants DEF Symmetric
<1>11. /\ Plugged' /\ Passing(stack', ret') = <<>>
       /\ WillRead(stack', canread') <=> newmodule' # None
  BY <1>1, <1>7, <1>8, <1>9, <1>10, IdleCall DEF PlugsOK
<1>12. ListenerOK'
  BY <1>1, <1>2, <1>6, <1>7 DEF ListenerOK
<1>13. Poll'
  <2>1. Pending' = registered'["read"] + Len(Only(Tail(queue), {"read"}))
    BY <1>7 DEF Pending
  <2>2. Pending' = IF out.again THEN 1 ELSE 0
    BY <1>2, <1>3, <1>4, <1>6, <2>1
  <2> QED
    BY <1>6, <2>2 DEF Poll
<1>14. got' \o Some(newmodule') = Kept'
  <2>1. got = Kept
    BY <1>1, <1>4, SomeIs, got \o <<>> = got
  <2> QED
    BY <1>6, <1>7, <2>1
<1> QED
  BY <1>11, <1>12, <1>13, <1>14, CallInv

LEMMA EventErrorInv ==
  ASSUME IInv, queue # <<>>, Head(queue) = "error", EventError
  PROVE  IInv'
<1>1. ListenerOK /\ Poll
  BY DEF IInv
<1>2. /\ queue' = Tail(queue) /\ registered' = registered /\ alive' = alive
      /\ checking_read' = checking_read /\ newmodule' = newmodule
      /\ sockopen' = sockopen /\ accepted' = accepted /\ got' = got /\ dropped' = dropped
      /\ other' = other /\ stack' = stack /\ ret' = ret /\ UNCHANGED flags
  BY DEF EventError, plugvars, history
<1>3. /\ Tail(queue) \in Seq({"read", "error"})
      /\ Len(Only(Tail(queue), {"read"})) \in Nat
      /\ Len(Only(queue, {"read"})) = Len(Only(Tail(queue), {"read"}))
  BY <1>1, QueueTail
<1>4. ListenerOK'
  BY <1>1, <1>2, <1>3 DEF ListenerOK
<1>5. Pending' = Pending
  BY <1>2, <1>3 DEF Pending
<1>6. Poll'
  BY <1>1, <1>2, <1>5 DEF Poll
<1> QED
  BY <1>2, <1>4, <1>6, RestInv

LEMMA DispatchInv ==
  ASSUME "setfl" \notin Failures, IInv, Dispatch
  PROVE  IInv'
<1>1. CASE alive /\ Head(queue) = "read" /\ EventRead
  BY <1>1, EventReadInv DEF Dispatch
<1>2. CASE alive /\ Head(queue) = "error" /\ EventError
  BY <1>2, EventErrorInv DEF Dispatch
<1>3. CASE ~alive /\ queue' = Tail(queue)
           /\ UNCHANGED <<plugvars, listener, registered, came, accepted, history>>
  <2>1. ListenerOK /\ queue # <<>>
    BY DEF IInv, Dispatch
  <2>2. Tail(queue) \in Seq({"read", "error"})
    BY <2>1, QueueTail
  <2>3. /\ alive' = alive /\ newmodule' = newmodule /\ got' = got
        /\ accepted' = accepted /\ dropped' = dropped
        /\ other' = other /\ stack' = stack /\ ret' = ret /\ UNCHANGED flags
    BY <1>3 DEF plugvars, listener, history
  <2>4. ListenerOK' /\ Poll'
    BY <1>3, <2>1, <2>2, <2>3 DEF ListenerOK, Poll, listener
  <2> QED
    BY <2>3, <2>4, RestInv
<1> QED
  BY <1>1, <1>2, <1>3 DEF Dispatch

LEMMA GetConnectionInv ==
  ASSUME "setfl" \notin Failures, IInv, Idle, GetConnection
  PROVE  IInv'
<1>1. /\ ListenerOK /\ Plugged /\ Poll /\ PlugsOK
      /\ got \o Some(newmodule) = Kept /\ got \in Seq(Nat)
      /\ newmodule \in Nat \cup {None}
  BY RestsAt
<1>2. newmodule # None /\ newmodule \in Nat /\ checking_read \in BOOLEAN
  BY <1>1 DEF GetConnection, ListenerOK
<1>3. PICK out \in Outcomes : DoAccept(out, checking_read) /\ stack' = Shows(out) \o <<>>
  BY <1>2 DEF GetConnection, GetNewModule
<1>4. /\ newmodule' \in Nat \cup {None} /\ accepted' \in Nat /\ dropped' \subseteq 1..accepted'
      /\ registered' \in [{"read", "error"} -> Nat]
      /\ sockopen' = sockopen /\ alive' = alive
      /\ out.again \in BOOLEAN /\ checking_read' = (checking_read \/ out.again)
      /\ registered'["read"] = registered["read"]
                                + (IF out.again /\ ~checking_read THEN 1 ELSE 0)
      /\ out.again => newmodule' = None
      /\ Shows(out) = <<Set("setReadable", LPlug, newmodule' # None)>>
      /\ Kept' = Kept \o Some(newmodule')
  BY <1>1, <1>2, <1>3, Accepts
<1>5. /\ queue' = queue /\ got' = Append(got, newmodule) /\ ret' = ret /\ other' = other
      /\ UNCHANGED <<canread, canwrite, isreading, iswriting, notifyonread, notifyonwrite>>
  BY DEF GetConnection, flags
<1> DEFINE a == Set("setReadable", LPlug, newmodule' # None)
<1>6. a \in Frames /\ a.op = "setReadable" /\ a.val = (newmodule' # None)
  BY ShowsFrame
<1>7. stack' = <<a>> \o <<>>
  BY <1>3, <1>4
<1> HIDE DEF a
<1>8. stack' = <<a>>
  BY <1>6, <1>7
<1>9. Symmetric'
  BY <1>1, <1>5, AtIdle, ListenConstants, PlugConstants DEF Symmetric
<1>10. /\ Plugged' /\ Passing(stack', ret') = <<>>
       /\ WillRead(stack', canread') <=> newmodule' # None
  BY <1>1, <1>5, <1>6, <1>8, <1>9, IdleCall DEF PlugsOK
<1>11. ListenerOK'
  <2>1. Append(got, newmodule) \in Seq(Nat)
    BY <1>1, <1>2
  <2> QED
    BY <1>1, <1>4, <1>5, <2>1 DEF ListenerOK
<1>12. Poll'
  <2>1. SUFFICES ASSUME alive
                 PROVE  /\ Pending' = (IF checking_read' THEN 1 ELSE 0)
                        /\ newmodule' # None => ~checking_read'
    BY <1>4 DEF Poll
  <2>2. Pending = 0 /\ ~checking_read
    BY <1>1, <1>2, <2>1 DEF Poll
  <2>3. /\ Pending = registered["read"] + Len(Only(queue, {"read"}))
        /\ Len(Only(queue, {"read"})) \in Nat /\ registered["read"] \in Nat
    BY <1>1, PendingIs
  <2>4. Pending' = registered'["read"] + Len(Only(queue, {"read"}))
    BY <1>5 DEF Pending
  <2>5. Pending' = IF out.again THEN 1 ELSE 0
    BY <1>4, <2>2, <2>3, <2>4
  <2> QED
    BY <1>4, <2>2, <2>5
<1>13. got' \o Some(newmodule') = Kept'
  <2>1. got \o <<newmodule>> = Append(got, newmodule) /\ Some(newmodule) = <<newmodule>>
    BY <1>1, <1>2 DEF Some
  <2> QED
    BY <1>1, <1>4, <1>5, <2>1
<1> QED
  BY <1>10, <1>11, <1>12, <1>13, CallInv

\* The frame of unPlug.
LEMMA UnPlugFrame ==
  ASSUME NEW p \in Plugs
  PROVE  /\ Frame("unPlug", p) \in Frames /\ Frame("unPlug", p).op = "unPlug"
         /\ Frame("unPlug", p).plug = p
<1>1. "unPlug" \in Ops /\ "unPlug" \notin ReadOps \cup WriteOps \cup TurnOps \cup {"return"}
  BY DEF Ops, ReadOps, WriteOps, UnplugOps, TurnOps
<1> QED
  BY <1>1, FrameIs

LEMMA DeletePlugInv ==
  ASSUME IInv, Idle, DeletePlug
  PROVE  IInv'
<1> DEFINE f == Frame("unPlug", LPlug)
<1>1. f \in Frames /\ f.op = "unPlug"
  BY UnPlugFrame, ListenConstants
<1>2. stack' = <<f>>
  BY DEF DeletePlug
<1> HIDE DEF f
<1>3. /\ ListenerOK /\ Plugged /\ Poll /\ PlugsOK /\ got \o Some(newmodule) = Kept
      /\ newmodule # None <=> LPlug \in canread
  BY RestsAt
<1>4. /\ UNCHANGED <<canread, canwrite, isreading, iswriting, notifyonread, notifyonwrite>>
      /\ other' = other /\ ret' = ret
      /\ newmodule' = newmodule /\ got' = got /\ Kept' = Kept /\ alive' = alive
      /\ UNCHANGED <<listener, socketvars, history>>
  BY DEF DeletePlug, flags, listener, socketvars, history, Kept
<1>5. Symmetric'
  BY <1>3, <1>4, AtIdle, ListenConstants, PlugConstants DEF Symmetric
<1>6. /\ Plugged' /\ Passing(stack', ret') = <<>>
      /\ WillRead(stack', canread') <=> LPlug \in canread
  BY <1>1, <1>2, <1>3, <1>4, <1>5, IdleCall DEF PlugsOK
<1>7. ListenerOK' /\ Poll'
  BY <1>3, <1>4 DEF ListenerOK, Poll, Pending, listener, socketvars, history
<1> QED
  BY <1>3, <1>4, <1>6, <1>7, CallInv

LEMMA EndHasRoomInv ==
  ASSUME IInv, EndHasRoom
  PROVE  IInv'
<1> DEFINE f == Set("setWriteable", End, TRUE)
<1>1. f \in Frames /\ f.op = "setWriteable"
  BY RoomFrame
<1>2. stack' = <<f>> /\ Idle
  BY DEF EndHasRoom
<1> HIDE DEF f
<1>3. /\ ListenerOK /\ Plugged /\ Poll /\ PlugsOK /\ got \o Some(newmodule) = Kept
      /\ newmodule # None <=> LPlug \in canread
  BY <1>2, RestsAt
<1>4. /\ UNCHANGED <<canread, canwrite, isreading, iswriting, notifyonread, notifyonwrite>>
      /\ other' = other /\ ret' = ret
      /\ newmodule' = newmodule /\ got' = got /\ Kept' = Kept /\ alive' = alive
      /\ UNCHANGED <<listener, socketvars, history>>
  BY DEF EndHasRoom, flags, listener, socketvars, history, Kept
<1>5. Symmetric'
  BY <1>2, <1>3, <1>4, AtIdle, ListenConstants, PlugConstants DEF Symmetric
<1>6. /\ Plugged' /\ Passing(stack', ret') = <<>>
      /\ WillRead(stack', canread') <=> LPlug \in canread
  BY <1>1, <1>2, <1>3, <1>4, <1>5, IdleCall DEF PlugsOK
<1>7. ListenerOK' /\ Poll'
  BY <1>3, <1>4 DEF ListenerOK, Poll, Pending, listener, socketvars, history
<1> QED
  BY <1>3, <1>4, <1>6, <1>7, CallInv

LEMMA DestroyInv ==
  ASSUME IInv, Idle, Destroy
  PROVE  IInv'
<1>1. /\ ListenerOK /\ Plugged /\ Poll /\ PlugsOK /\ got \o Some(newmodule) = Kept
      /\ newmodule # None <=> LPlug \in canread
  BY RestsAt
<1>2. /\ alive' = FALSE /\ sockopen' = FALSE
      /\ registered' = [cond \in {"read", "error"} |-> 0]
      /\ other' = [other EXCEPT ![LPlug] = None]
      /\ notifyonread' = notifyonread \ {LPlug} /\ notifyonwrite' = notifyonwrite \ {LPlug}
      /\ stack' = If(other[LPlug] # None, <<Frame("unPlug", other[LPlug])>>) \o stack
      /\ UNCHANGED <<canread, canwrite, isreading, iswriting, ret, checking_read,
                     newmodule, queue, accepted, got, dropped>>
  BY DEF Destroy, DestroyPlug, history
<1>3. stack = <<>>
  BY DEF Idle
<1>4. /\ LPlug # End /\ Plugs = {LPlug, End} /\ None \notin Plugs
      /\ other \in [Plugs -> Plugs \cup {None}]
  BY <1>1, ListenConstants, PlugConstants DEF PlugsOK
<1>5. notifyonread' = {} /\ notifyonwrite' = {}
  BY <1>1, <1>2 DEF PlugsOK
<1>6. ListenerOK' /\ Poll'
  <2>1. [cond \in {"read", "error"} |-> 0] \in [{"read", "error"} -> Nat]
    OBVIOUS
  <2> QED
    BY <1>1, <1>2, <2>1 DEF ListenerOK, Poll
<1>7. Kept' = Kept
  BY <1>2 DEF Kept
<1>8. CASE other[LPlug] = None
  <2>1. other' = other
    BY <1>2, <1>4, <1>8
  <2>2. stack' = stack
    BY <1>2, <1>3, <1>8 DEF If
  <2> QED
    BY <1>1, <1>2, <1>5, <1>6, <2>1, <2>2, RestInv DEF PlugsOK, flags
<1>9. CASE other[LPlug] # None
  <2>1. other[LPlug] = End /\ other[End] = LPlug
    BY <1>1, <1>9, AtIdle
  <2> DEFINE f == Frame("unPlug", End)
  <2>2. f \in Frames /\ f.op = "unPlug" /\ f.plug = End
    BY UnPlugFrame, ListenConstants
  <2>3. stack' = <<f>> \o <<>>
    BY <1>2, <1>3, <1>9, <2>1 DEF If
  <2> HIDE DEF f
  <2>4. stack' = <<f>> /\ stack' # <<>> /\ Head(stack') = f
    BY <2>2, <2>3
  <2>5. /\ other' \in [Plugs -> Plugs \cup {None}] /\ other'[LPlug] = None
        /\ other'[End] = LPlug
    BY <1>2, <1>4, <2>1
  <2>6. Symmetric'
    BY <1>4, <2>2, <2>4, <2>5 DEF Symmetric, Running, Idle, Top
  <2>7. \A p \in Plugs : other'[p] # p
    BY <1>4, <2>5
  <2>8. /\ Plugged' /\ Passing(stack', ret') = <<>>
        /\ WillRead(stack', canread') <=> LPlug \in canread
    BY <1>1, <1>2, <1>5, <2>2, <2>4, <2>5, <2>6, <2>7, IdleCall
  <2> QED
    BY <1>1, <1>2, <1>6, <1>7, <2>8, CallInv
<1> QED
  BY <1>8, <1>9

\* An event is put into the queue.
LEMMA QueueAppend ==
  ASSUME ListenerOK, NEW cond \in {"read", "error"}
  PROVE  /\ Append(queue, cond) \in Seq({"read", "error"})
         /\ Len(Only(Append(queue, cond), {"read"}))
              = Len(Only(queue, {"read"})) + (IF cond = "read" THEN 1 ELSE 0)
<1> DEFINE D == {"read", "error"}
           S == {"read"}
           r == Only(queue, S)
<1>1. queue \in Seq(D) /\ cond \in D
  BY DEF ListenerOK
<1>2. r \in Seq(D)
  BY <1>1, OnlyElements
<1>3. cond \in S <=> cond = "read"
  OBVIOUS
<1> HIDE DEF D, S
<1>4. Only(Append(queue, cond), S) = IF cond \in S THEN Append(r, cond) ELSE r
  BY <1>1, OnlyAppend DEF r
<1> HIDE DEF r
<1>5. Len(Append(r, cond)) = Len(r) + 1 /\ Len(r) \in Nat
  BY <1>1, <1>2
<1>6. Append(queue, cond) \in Seq(D)
  BY <1>1
<1>7. Len(Only(Append(queue, cond), S)) = Len(r) + (IF cond = "read" THEN 1 ELSE 0)
  BY <1>3, <1>4, <1>5
<1> QED
  BY <1>6, <1>7 DEF D, S, r

LEMMA PostsInv ==
  ASSUME IInv, NEW cond \in {"read", "error"}, Posts(cond)
  PROVE  IInv'
<1>1. ListenerOK /\ Poll
  BY DEF IInv
<1>2. /\ registered[cond] > 0 /\ registered' = [registered EXCEPT ![cond] = @ - 1]
      /\ queue' = Append(queue, cond) /\ UNCHANGED listener
      /\ other' = other /\ stack' = stack /\ ret' = ret /\ UNCHANGED flags
      /\ newmodule' = newmodule /\ got' = got /\ accepted' = accepted /\ dropped' = dropped
      /\ alive' = alive /\ checking_read' = checking_read /\ sockopen' = sockopen
  BY DEF Posts, plugvars, listener, history
<1>3. /\ Append(queue, cond) \in Seq({"read", "error"})
      /\ Len(Only(Append(queue, cond), {"read"}))
           = Len(Only(queue, {"read"})) + (IF cond = "read" THEN 1 ELSE 0)
  BY <1>1, QueueAppend
<1>4. /\ Pending = registered["read"] + Len(Only(queue, {"read"}))
      /\ Len(Only(queue, {"read"})) \in Nat /\ registered["read"] \in Nat
  BY <1>1, PendingIs
<1>5. /\ registered' \in [{"read", "error"} -> Nat]
      /\ registered'["read"] = registered["read"] - (IF cond = "read" THEN 1 ELSE 0)
  BY <1>1, <1>2 DEF ListenerOK
<1>6. Pending' = registered'["read"] + Len(Only(Append(queue, cond), {"read"}))
  BY <1>2 DEF Pending
<1>7. Pending' = Pending
  BY <1>3, <1>4, <1>5, <1>6
<1>8. ListenerOK' /\ Poll'
  BY <1>1, <1>2, <1>3, <1>5, <1>7 DEF ListenerOK, Poll
<1> QED
  BY <1>2, <1>8, RestInv

\* Steps that concern neither the plugs nor what the invariant says of the module.
LEMMA OtherInv ==
  ASSUME IInv, MakePlug \/ ClearError \/ ConnectionComes \/ UNCHANGED vars
  PROVE  IInv'
<1>1. /\ other' = other /\ stack' = stack /\ ret' = ret /\ UNCHANGED flags
      /\ UNCHANGED <<sockopen, alive, checking_read, newmodule, registered, queue,
                     accepted, got, dropped>>
  BY DEF MakePlug, ClearError, ConnectionComes, vars, plugvars, listener, socketvars,
         history
<1>2. ListenerOK' /\ Poll'
  BY <1>1 DEF IInv, ListenerOK, Poll, Pending
<1> QED
  BY <1>1, <1>2, RestInv

LEMMA PlugIntoInv ==
  ASSUME IInv, Idle, PlugInto(LPlug, End), UNCHANGED <<listener, socketvars, history>>
  PROVE  IInv'
<1> DEFINE f1 == Frame("tellReadable", LPlug)
           f2 == Frame("peerTellsReadable", LPlug)
           f3 == Frame("tellWriteable", LPlug)
           f4 == Frame("peerTellsWriteable", LPlug)
           f5 == Frame("readAway", LPlug)
           f6 == Frame("writeAway", LPlug)
<1>1. /\ ListenerOK /\ Plugged /\ Poll /\ PlugsOK /\ got \o Some(newmodule) = Kept
      /\ newmodule # None <=> LPlug \in canread
  BY RestsAt
<1>2. /\ LPlug # End /\ Plugs = {LPlug, End} /\ None \notin Plugs
      /\ other \in [Plugs -> Plugs \cup {None}] /\ notifyonread = {} /\ notifyonwrite = {}
      /\ stack = <<>>
  BY <1>1, ListenConstants, PlugConstants DEF PlugsOK, Idle
<1>3. /\ other' = [other EXCEPT ![LPlug] = End, ![End] = LPlug]
      /\ notifyonread' = {} /\ notifyonwrite' = {}
      /\ UNCHANGED <<canread, canwrite, isreading, iswriting, ret>>
      /\ stack' = <<f1, f2, f3, f4>> \o <<f5, f6>> \o <<>>
  BY <1>2, ListenConstants DEF PlugInto, Put, Loops
<1>4. /\ f1 \in Frames /\ f1.op = "tellReadable" /\ f2 \in Frames /\ f2.op = "peerTellsReadable"
      /\ f3 \in Frames /\ f3.op = "tellWriteable"
      /\ f4 \in Frames /\ f4.op = "peerTellsWriteable"
  <2>1. \A op \in {"tellReadable", "peerTellsReadable", "tellWriteable", "peerTellsWriteable"} :
          op \in Ops /\ op \notin WriteOps \cup TurnOps \cup {"return"}
    BY DEF Ops, ReadOps, WriteOps, TurnOps
  <2> QED
    BY <1>2, <2>1, FrameIs
<1>5. f5 \in Frames /\ f5.op = "readAway" /\ f6 \in Frames /\ f6.op = "writeAway"
  <2>1. \A op \in {"readAway", "writeAway"} :
          op \in Ops /\ op \notin WriteOps \cup TurnOps \cup {"return"}
    BY DEF Ops, ReadOps, WriteOps, TurnOps
  <2> QED
    BY <1>2, <2>1, FrameIs
<1> HIDE DEF f1, f2, f3, f4, f5, f6
<1>6. /\ stack' \in Seq(Frames) /\ Len(stack') = 6
      /\ stack'[1] = f1 /\ stack'[2] = f2 /\ stack'[3] = f3 /\ stack'[4] = f4
      /\ stack'[5] = f5 /\ stack'[6] = f6
  BY <1>3, <1>4, <1>5
<1>7. \A k \in 1..6 : k = 1 \/ k = 2 \/ k = 3 \/ k = 4 \/ k = 5 \/ k = 6
  OBVIOUS
<1>8. \A k \in 1..Len(stack') :
        stack'[k].op \in {"tellReadable", "peerTellsReadable", "tellWriteable",
                          "peerTellsWriteable", "readAway", "writeAway"}
  BY <1>4, <1>5, <1>6, <1>7
<1>9. /\ Quiet(stack') /\ Free(stack', LoopOps) /\ Free(stack', {"written"})
      /\ Free(stack', TurnOps) /\ Free(stack', TestOps)
  BY <1>8 DEF Free, Quiet, Moves, LoopOps, TurnOps, TestOps
<1>10. /\ StackOK' /\ Passing(stack', ret') = <<>>
       /\ WillRead(stack', canread') <=> LPlug \in canread
  BY <1>3, <1>6, <1>9, SoundFree, AtRest DEF StackOK
<1>11. ~Free(stack', Coverers)
  <2>1. stack'[5].op \in Coverers /\ 5 \in 1..Len(stack')
    BY <1>5, <1>6 DEF Coverers
  <2> QED
    BY <2>1 DEF Free
<1>12. /\ other' \in [Plugs -> Plugs \cup {None}] /\ other'[LPlug] = End /\ other'[End] = LPlug
  BY <1>2, <1>3
<1>13. PlugsOK'
  BY <1>1, <1>2, <1>3, <1>6, <1>12 DEF PlugsOK
<1>14. MarksOK'
  <2>1. ~Starts("pushing", stack') /\ ~Starts("pulling", stack')
    BY <1>6, <1>9, NoneTests
  <2>2. ~(Running("pushing")') /\ ~(Running("pulling")')
    BY <2>1 DEF Starts, Running, Idle
  <2>3. isreading' = {} /\ iswriting' = {}
    BY <1>1, <1>3, AtIdle
  <2> QED
    BY <1>9, <2>2, <2>3 DEF MarksOK
<1>15. Plugged'
  BY <1>10, <1>11, <1>12, <1>13, <1>14 DEF Plugged, Symmetric, Covered
<1>16. ListenerOK' /\ Poll' /\ newmodule' = newmodule /\ got' = got /\ Kept' = Kept
  BY <1>1 DEF ListenerOK, Poll, Pending, Kept, listener, socketvars, history
<1> QED
  BY <1>1, <1>10, <1>15, <1>16, CallInv

LEMMA StepInv ==
  ASSUME "setfl" \notin Failures, IInv, Step
  PROVE  IInv'
<1>1. CASE Engine /\ UNCHANGED <<listener, socketvars, history>>
  BY <1>1, EngineStep, PlugsStep DEF IInv
<1>2. CASE Disconnected
  <2>1. UNCHANGED <<listener, socketvars, history>>
    BY <1>2 DEF Disconnected
  <2> QED
    BY <1>2, <2>1, DisconnectedStep, PlugsStep DEF IInv
<1> QED
  BY <1>1, <1>2, ReadInv, EndWriteInv DEF Step

-----------------------------------------------------------------------------
(* Every step keeps the invariant.                                         *)

LEMMA OnlyNone ==
  ASSUME NEW s, Len(s) = 0, NEW S
  PROVE  Only(s, S) = <<>>
<1>1. PICK k : k[0] = <<>> /\ Only(s, S) = k[Len(s)]
  BY OnlyTurns
<1> QED
  BY <1>1

LEMMA InitInv ==
  ASSUME Init
  PROVE  IInv
<1>1. /\ LPlug # End /\ Plugs = {LPlug, End} /\ None \notin Plugs /\ LPlug \in Plugs
      /\ End \in Plugs
  BY ListenConstants, PlugConstants
<1>2. /\ other = [p \in Plugs |-> None] /\ canread = {} /\ canwrite = {End}
      /\ isreading = {} /\ iswriting = {} /\ notifyonread = {} /\ notifyonwrite = {}
      /\ stack = <<>>
  BY DEF Init, PlugInit
<1>3. /\ sockopen \in BOOLEAN /\ alive = TRUE /\ checking_read = sockopen /\ newmodule = None
      /\ registered = [cond \in {"read", "error"} |-> IF sockopen THEN 1 ELSE 0]
      /\ queue = <<>> /\ accepted = 0 /\ got = <<>> /\ dropped = {}
  BY DEF Init
<1>4. ListenerOK
  BY <1>3 DEF ListenerOK
<1>5. stack \in Seq(Frames) /\ \A X : Free(stack, X)
  BY <1>2, FreeEmpty
<1>6. StackOK
  BY <1>5, SoundFree, AtRest DEF StackOK, Quiet
<1>7. PlugsOK
  BY <1>1, <1>2, <1>5 DEF PlugsOK
<1>8. Symmetric /\ MarksOK /\ Covered
  BY <1>1, <1>2 DEF Symmetric, MarksOK, Covered, Running, Idle, Free
<1>9. Passing(stack, ret) = <<>> /\ (WillRead(stack, canread) <=> LPlug \in canread)
  BY <1>2 DEF Passing, WillRead, Starts
<1>10. ReadAhead
  BY <1>2, <1>3, <1>9 DEF ReadAhead
<1>11. Flow
  <2>1. Kept = Only(Numbers(accepted), (1..accepted) \ dropped) /\ Len(Numbers(accepted)) = 0
    BY <1>3, <1>4, KeptIs, NumbersAre
  <2>2. Kept = <<>>
    BY <2>1, OnlyNone
  <2>3. Some(newmodule) = <<>>
    BY <1>3 DEF Some
  <2> QED
    BY <1>3, <1>9, <2>2, <2>3 DEF Flow
<1>12. Poll
  <2>1. Only(queue, {"read"}) = <<>>
    BY <1>3, OnlyNone
  <2> QED
    BY <1>3, <2>1 DEF Poll, Pending
<1> QED
  BY <1>4, <1>6, <1>7, <1>8, <1>10, <1>11, <1>12 DEF IInv, Plugged

LEMMA NextInv ==
  ASSUME "setfl" \notin Failures, IInv, [Next]_vars
  PROVE  IInv'
<1>1. CASE Program
  <2>1. Idle
    BY <1>1 DEF Program
  <2>2. CASE MakePlug \/ ClearError
    BY <2>2, OtherInv
  <2>3. CASE PlugInto(LPlug, End) /\ UNCHANGED <<listener, socketvars, history>>
    BY <2>1, <2>3, PlugIntoInv
  <2> QED
    BY <1>1, <2>1, <2>2, <2>3, DeletePlugInv, GetConnectionInv, DestroyInv DEF Program
<1>2. CASE ConnectionComes \/ UNCHANGED vars
  BY <1>2, OtherInv
<1>3. CASE \E cond \in {"read", "error"} : Posts(cond)
  BY <1>3, PostsInv
<1> QED
  BY <1>1, <1>2, <1>3, StepInv, DispatchInv, EndHasRoomInv DEF Next

THEOREM Inductive ==
  ASSUME "setfl" \notin Failures
  PROVE  Spec => []IInv
<1>1. Init => IInv
  BY InitInv
<1>2. IInv /\ [Next]_vars => IInv'
  BY NextInv
<1> QED
  BY <1>1, <1>2, PTL DEF Spec

-----------------------------------------------------------------------------
(* What follows.                                                           *)

\* Every variable of the module and of its plug keeps to its values, the calls
\* on the stack among them: the listening plug is only ever read, and the plug it
\* is plugged into only written (SockListenModule.h).
THEOREM TypeCorrect ==
  ASSUME "setfl" \notin Failures
  PROVE  Spec => [](ListenerOK /\ PlugsOK)
<1>1. IInv => ListenerOK /\ PlugsOK
  BY DEF IInv, Plugged
<1> QED
  BY <1>1, Inductive, PTL

\* Every connection accept returns is handed out once and in its order, or was
\* closed because a call on it failed, whatever comes in between: getNewModule,
\* eventRead and the loops that move the chunks never lose one, hand one out
\* twice or accept over the one that waits (SockListenModule.cxx).
THEOREM HandedOutOnce ==
  ASSUME "setfl" \notin Failures
  PROVE  Spec => []ConnectionsOnce
<1>1. IInv => ConnectionsOnce
  <2>1. SUFFICES ASSUME IInv, Idle
                 PROVE  got \o Some(newmodule) = Kept
    BY DEF ConnectionsOnce, Some
  <2> QED
    BY <2>1, RestsAt
<1> QED
  BY <1>1, Inductive, PTL

\* checking_read_ is true exactly when the read event is with the poll or in the
\* dispatcher's queue, where it is once; it is in neither while a connection
\* waits, and the plug is readable just then (doAccept, eventRead).
THEOREM EventRegisteredOnce ==
  ASSUME "setfl" \notin Failures
  PROVE  Spec => []OneReadEvent
<1>1. IInv => OneReadEvent
  <2>1. SUFFICES ASSUME IInv, alive
                 PROVE  /\ Pending = (IF checking_read THEN 1 ELSE 0)
                        /\ newmodule # None => Pending = 0
                        /\ Idle => (newmodule # None <=> LPlug \in canread)
    BY DEF OneReadEvent
  <2>2. /\ Pending = (IF checking_read THEN 1 ELSE 0)
        /\ newmodule # None => ~checking_read
    BY <2>1 DEF IInv, Poll
  <2>3. Idle => (newmodule # None <=> LPlug \in canread)
    BY <2>1, RestsAt
  <2> QED
    BY <2>2, <2>3
<1> QED
  BY <1>1, Inductive, PTL

\* i_Read is only called when there is a connection to return: the loops of
\* StreamModule read the plug only while it is readable, and it is readable only
\* while newmodule_ is set; else i_Read would return a chunk without a module.
THEOREM ReadsWhatIsThere ==
  ASSUME "setfl" \notin Failures
  PROVE  Spec => []ReadsAConnection
<1>1. IInv => ReadsAConnection
  <2>1. SUFFICES ASSUME IInv, Running("i_Read")
                 PROVE  newmodule # None
    BY DEF ReadsAConnection
  <2>2. /\ stack \in Seq(Frames) /\ stack # <<>> /\ Head(stack).op = "i_Read"
        /\ Shaped(stack, canread, ret) /\ ReadAhead
    BY <2>1 DEF IInv, Plugged, PlugsOK, StackOK, Running, Idle
  <2>3. LPlug \in canread
    BY <2>2, TopSays
  <2> QED
    BY <2>2, <2>3 DEF ReadAhead, WillRead, Starts
<1> QED
  BY <1>1, Inductive, PTL

\* The engine of StreamModule misses no wakeup: when all calls have returned, no
\* connection waits at the plug while the plug it is plugged into has room, in
\* whatever order the plugs were plugged, filled, emptied and unplugged.
THEOREM NoWakeupMissed ==
  ASSUME "setfl" \notin Failures
  PROVE  Spec => []NothingLeftToMove
<1>1. IInv => NothingLeftToMove
  <2>1. SUFFICES ASSUME IInv, Idle, NEW p \in canread, other[p] \in canwrite
                 PROVE  FALSE
    BY DEF NothingLeftToMove
  <2>2. Plugged /\ canread \subseteq {LPlug} /\ canwrite \subseteq {End}
    BY <2>1 DEF IInv, Plugged, PlugsOK
  <2> QED
    BY <2>1, <2>2, AtIdle
<1> QED
  BY <1>1, Inductive, PTL

\* One connection at most is on its way to be returned: what is below it, and what
\* is above, moves nothing.
Once(s) ==
  \A j, k \in 1..Len(s) : s[j].op = "return" /\ s[k].op = "return" => j = k

LEMMA OnceUnder ==
  ASSUME NEW s \in Seq(Frames), s # <<>>
  PROVE  /\ Free(Tail(s), {"return"}) => Once(s)
         /\ Once(Tail(s)) /\ Head(s).op # "return" => Once(s)
<1>1. /\ Head(s) = s[1] /\ Len(Tail(s)) = Len(s) - 1 /\ Len(s) \in Nat
      /\ \A i \in 1..Len(s)-1 : Tail(s)[i] = s[i+1]
  BY PoppedOff
<1>2. \A i \in 1..Len(s) : i # 1 => i - 1 \in 1..Len(Tail(s)) /\ Tail(s)[i-1] = s[i]
  <2>1. \A i \in 1..Len(s) : i # 1 => i - 1 \in 1..Len(s)-1 /\ (i - 1) + 1 = i
    BY <1>1
  <2> QED
    BY <1>1, <2>1
<1>3. Free(Tail(s), {"return"}) => Once(s)
  BY <1>2 DEF Free, Once
<1>4. ASSUME Once(Tail(s)), Head(s).op # "return",
             NEW j \in 1..Len(s), NEW k \in 1..Len(s), s[j].op = "return", s[k].op = "return"
      PROVE  j = k
  <2>1. j # 1 /\ k # 1
    BY <1>1, <1>4
  <2>2. j - 1 = k - 1
    BY <1>2, <1>4, <2>1 DEF Once
  <2> QED
    BY <2>2
<1> QED
  BY <1>3, <1>4 DEF Once

LEMMA ReturnsOnce ==
  ASSUME NEW s \in Seq(Frames), NEW r, NEW c, Shaped(s, r, c)
  PROVE  Once(s)
<1>1. \A t \in Seq(Frames) : Quiet(t) => Free(t, {"return"})
  BY FreeMore DEF Quiet, Moves
<1>2. CASE Quiet(s)
  BY <1>1, <1>2 DEF Once, Free
<1>3. CASE s # <<>>
  <2>1. Tail(s) \in Seq(Frames)
    BY <1>3, PoppedOff
  <2>2. ASSUME NEW t \in Seq(Frames), Taking(t)
        PROVE  Free(t, {"return"})
    <3>1. t # <<>> /\ Head(t).op = "i_Write" /\ Quiet(Tail(t)) /\ Tail(t) \in Seq(Frames)
      BY <2>2, PoppedOff DEF Taking, Starts
    <3>2. Free(Tail(t), {"return"})
      BY <1>1, <3>1
    <3> QED
      BY <3>1, <3>2, FreeTop
  <2>3. CASE Setting(s)
    BY <1>1, <1>3, <2>1, <2>3, OnceUnder DEF Setting
  <2>4. CASE Returning(s) \/ Reading(s)
    BY <1>3, <2>1, <2>2, <2>4, OnceUnder DEF Returning, Reading
  <2>5. CASE Taking(s)
    BY <2>2, <2>5 DEF Once, Free
  <2>6. CASE Showing(s)
    <3>1. /\ Head(s).op # "return" /\ Tail(s) # <<>> /\ Taking(Tail(Tail(s)))
          /\ Tail(Tail(s)) \in Seq(Frames)
      BY <2>1, <2>6, PoppedOff DEF Showing, Returning, Starts
    <3>2. Once(Tail(s))
      BY <2>1, <2>2, <3>1, OnceUnder
    <3> QED
      BY <1>3, <3>1, <3>2, OnceUnder
  <2> QED
    BY <1>2, <2>3, <2>4, <2>5, <2>6 DEF Shaped
<1> QED
  BY <1>2, <1>3 DEF Once

\* Only a loop writes, and loops do not run in each other.
LEMMA WrittenOnce ==
  ASSUME NEW s \in Seq(Frames), Sound(s), NEW j \in 1..Len(s), NEW k \in 1..Len(s),
         s[j].op = "written", s[k].op = "written"
  PROVE  ~ (j < k)
<1>1. SUFFICES ASSUME j < k PROVE FALSE
  OBVIOUS
<1>2. j < Len(s) /\ s[j+1].op \in TurnOps /\ k < Len(s) /\ s[k+1].op \in TurnOps
  BY DEF Sound, WrittenOver
<1>3. j + 1 \in 1..Len(s) /\ k + 1 \in 1..Len(s) /\ j + 1 < k + 1
  BY <1>1, <1>2
<1> QED
  BY <1>2, <1>3 DEF Sound, Nested, LoopOps

\* A plug is never read by two calls at once, nor written: isreading_ and
\* iswriting_ keep the loops apart that a flag set in the middle of a loop, a
\* plugInto or an unPlug would start (StreamModule.h).
THEOREM NeverTwoReaders ==
  ASSUME "setfl" \notin Failures
  PROVE  Spec => []OneReaderOneWriter
<1>1. IInv => OneReaderOneWriter
  <2>1. SUFFICES ASSUME IInv, NEW j \in 1..Len(stack), NEW k \in 1..Len(stack),
                        stack[j].op \in {"return", "written"},
                        stack[j].op = stack[k].op
                 PROVE  j = k
    BY DEF OneReaderOneWriter
  <2>2. stack \in Seq(Frames) /\ Shaped(stack, canread, ret) /\ Sound(stack)
    BY <2>1 DEF IInv, Plugged, PlugsOK, StackOK
  <2>3. CASE stack[j].op = "return"
    BY <2>1, <2>2, <2>3, ReturnsOnce DEF Once
  <2>4. CASE stack[j].op = "written"
    <3>1. ~ (j < k) /\ ~ (k < j)
      BY <2>1, <2>2, <2>4, WrittenOnce
    <3> QED
      BY <3>1
  <2> QED
    BY <2>1, <2>3, <2>4
<1> QED
  BY <1>1, Inductive, PTL
=============================================================================
