------------------------ MODULE StreamFDModuleProofs ------------------------
(***************************************************************************)
(* What holds of StreamFDModule for blocks, limits and chunks of any size, *)
(* and for any number of bytes, errors and errors reset.                   *)
(***************************************************************************)
EXTENDS StreamFDModule, ListsProofs, SequenceTheorems

Chunks == {c \in [len : Nat, eof : BOOLEAN] : c.eof => c.len = 0}
Vals == Chunks \cup BOOLEAN

Ops == {"setReadable", "readableChanged", "setWriteable", "writeableChanged",
        "tellReadable", "peerTellsReadable", "tellWriteable", "peerTellsWriteable",
        "readAway", "writeAway", "pushLoop", "pushing", "pushed",
        "pullLoop", "pulling", "pulled", "i_Read", "return", "i_Write", "written",
        "otherIsReadable", "otherIsWriteable", "unPlug", "plugDisconnected"}

\* Only the plug a notification is for may be gone; the peer a loop remembers is
\* not the loop's own plug.
Frames ==
  {f \in [op : Ops, plug : Plugs \cup {None}, peer : Plugs \cup {None}, val : Vals] :
     /\ f.op \notin {"otherIsReadable", "otherIsWriteable"} => f.plug \in Plugs
     /\ f.peer # None => f.peer # f.plug}

Conditions == {"read", "write", "error"}
Posted == Conditions \cup {"resumeread", "resumewrite"} \cup ErrTypes

-----------------------------------------------------------------------------
(* The call stack s, with the plugs in r readable and those in w           *)
(* writeable.                                                              *)

\* The calls that move a chunk or set a flag.
Moves == {"i_Read", "i_Write", "return", "setReadable", "setWriteable"}
Quiet(s) == \A k \in 1..Len(s) : s[k].op \notin Moves

Starts(op, s) == s # <<>> /\ Head(s).op = op

\* A chunk that is on its way is written next, to another plug than it is read from.
Taking(s, w) ==
  /\ Starts("i_Write", s) /\ Quiet(Tail(s))
  /\ Head(s).plug = FPlug => FPlug \in w
Between(s, w) ==
  /\ s # <<>> /\ Taking(Tail(s), w)
  /\ Head(s).plug # Head(Tail(s)).plug
Returning(s, w) == Starts("return", s) /\ Between(s, w) /\ Head(s).val \in Chunks
Reading(s, r, w) ==
  /\ Starts("i_Read", s) /\ Between(s, w)
  /\ Head(s).plug = FPlug => FPlug \in r

\* i_Read stops the reading before it returns the chunk.
Stops(f) == /\ f.op \in {"setReadable", "readableChanged", "otherIsReadable"}
            /\ f.op = "setReadable" => f.val = FALSE
Stopping(s, w) == s # <<>> /\ Stops(Head(s)) /\ Returning(Tail(s), w)

Setting(s) == /\ s # <<>> /\ Quiet(Tail(s)) /\ Head(s).val \in BOOLEAN
              /\ Head(s).op \in {"setReadable", "setWriteable"}

Shaped(s, r, w, c) ==
  \/ Quiet(s) \/ Setting(s)
  \/ Reading(s, r, w) \/ Stopping(s, w) \/ Returning(s, w)
  \/ Taking(s, w) /\ c \in Chunks

\* The bytes of the chunk that has left the module and not reached End.
Carried(s) == IF Starts("return", s) /\ Head(s).plug = FPlug THEN Head(s).val.len ELSE 0
Flight(s, c) ==
  IF s = <<>> THEN 0
  ELSE IF Starts("i_Write", s) /\ Head(s).plug = End THEN c.len
  ELSE Carried(s) + Carried(Tail(s))

\* What the plug's flag is once the call on top of the stack has set it.
WillBe(op, s, set) ==
  IF Starts(op, s) /\ Head(s).plug = FPlug THEN Head(s).val = TRUE ELSE FPlug \in set
WillRead == WillBe("setReadable", stack, canread)
WillWrite == WillBe("setWriteable", stack, canwrite)

-----------------------------------------------------------------------------
(* The invariant.                                                          *)

PlugsOK ==
  /\ other \in [Plugs -> Plugs \cup {None}] /\ \A p \in Plugs : other[p] # p
  /\ stack \in Seq(Frames)

FDOK ==
  /\ alive \in BOOLEAN /\ fdopen \in BOOLEAN /\ (fdopen => alive)
  /\ eofwritten \in BOOLEAN
  /\ used \subseteq ErrTypes /\ readeof \in BOOLEAN
  /\ checkingrd \in BOOLEAN /\ checkingwr \in BOOLEAN
  /\ registered \subseteq Conditions /\ queue \in Seq(Posted)
  /\ buffed_read \in Chunks \cup {None} /\ cur_write \in Chunks \cup {None}
  /\ left \in Nat /\ arrived \in Nat
  /\ taken \in Int /\ delivered \in Int /\ accepted \in Int /\ written \in Int

TypeOK == PlugsOK /\ FDOK

StackOK == Shaped(stack, canread, canwrite, ret)

\* A condition that is being checked for is looked for by the poll or has its event
\* on the queue q, once, as long as the descriptor is open.
OnceIn(cond, q) == \A j, k \in 1..Len(q) : q[j] = cond /\ q[k] = cond => j = k
Polled(cond, checking, reg, q, open) ==
  /\ cond \in reg \cup ToSet(q) => checking
  /\ cond \in reg => cond \notin ToSet(q)
  /\ OnceIn(cond, q)
  /\ open /\ checking => cond \in reg \cup ToSet(q)

\* What is read ahead, and the plug's flag that says so.
ReadPoll ==
  /\ checkingrd => buffed_read = None
  /\ Polled("read", checkingrd, registered, queue, fdopen)
  /\ fdopen /\ buffed_read = None /\ ~HasErrorIn(ReadErrors) => checkingrd
ReadAhead ==
  /\ WillRead => buffed_read # None
  /\ alive /\ buffed_read # None => WillRead \/ "resumeread" \in ToSet(queue)

\* What is left to write, and the plug's flag that says whether there is room.
WritePoll ==
  /\ checkingwr => cur_write # None
  /\ Polled("write", checkingwr, registered, queue, fdopen)
  /\ fdopen /\ cur_write # None /\ ~cur_write.eof /\ ~HasErrorIn(WriteErrors)
       => checkingwr
WriteAhead ==
  /\ WillWrite => cur_write = None
  /\ fdopen /\ cur_write = None /\ ~HasErrorIn(WriteErrors)
       => WillWrite \/ "resumewrite" \in ToSet(queue)

\* The bytes left are those of a chunk begun; the descriptor is closed by the end
\* of what is written, which stays in cur_write.
Partial ==
  /\ left > 0 <=> cur_write # None /\ ~cur_write.eof
  /\ fdopen \/ (cur_write # None /\ cur_write.eof)
  /\ written = accepted + left

BytesIn == taken = delivered + Len0(buffed_read) + Flight(stack, ret)

IInv ==
  /\ TypeOK /\ StackOK
  /\ ReadPoll /\ ReadAhead
  /\ WritePoll /\ WriteAhead
  /\ alive => Partial
  /\ BytesIn

-----------------------------------------------------------------------------
(* Call stacks.                                                            *)

LEMMA FrameIs ==
  ASSUME NEW op \in Ops, NEW p \in Plugs
  PROVE  /\ Frame(op, p) \in Frames /\ Frame(op, p).op = op /\ Frame(op, p).plug = p
         /\ \A v \in Vals : /\ Set(op, p, v) \in Frames /\ Set(op, p, v).op = op
                            /\ Set(op, p, v).plug = p /\ Set(op, p, v).val = v
         /\ \A o \in Plugs \cup {None} :
              o # p => /\ With(op, p, o) \in Frames /\ With(op, p, o).op = op
                       /\ With(op, p, o).plug = p /\ With(op, p, o).peer = o
<1>1. FALSE \in Vals /\ p # None
  BY PlugConstants DEF Vals
<1>2. /\ Frame(op, p) \in Frames /\ Frame(op, p).op = op /\ Frame(op, p).plug = p
  BY <1>1 DEF Frame, Frames
<1>3. ASSUME NEW v \in Vals
      PROVE  /\ Set(op, p, v) \in Frames /\ Set(op, p, v).op = op
             /\ Set(op, p, v).plug = p /\ Set(op, p, v).val = v
  BY <1>1, <1>2 DEF Set, Frame, Frames
<1>4. ASSUME NEW o \in Plugs \cup {None}, o # p
      PROVE  /\ With(op, p, o) \in Frames /\ With(op, p, o).op = op
             /\ With(op, p, o).plug = p /\ With(op, p, o).peer = o
  BY <1>1, <1>2, <1>4 DEF With, Frame, Frames
<1> QED
  BY <1>2, <1>3, <1>4

LEMMA SetIs ==
  ASSUME NEW op \in Ops, NEW p \in Plugs
  PROVE  /\ Set(op, p, TRUE) \in Frames /\ Set(op, p, TRUE).op = op
         /\ Set(op, p, TRUE).plug = p /\ Set(op, p, TRUE).val = TRUE
         /\ Set(op, p, FALSE) \in Frames /\ Set(op, p, FALSE).op = op
         /\ Set(op, p, FALSE).plug = p /\ Set(op, p, FALSE).val = FALSE
<1>1. ASSUME NEW v \in Vals
      PROVE  /\ Set(op, p, v) \in Frames /\ Set(op, p, v).op = op
             /\ Set(op, p, v).plug = p /\ Set(op, p, v).val = v
  BY FrameIs
<1>2. TRUE \in Vals /\ FALSE \in Vals
  BY DEF Vals
<1> QED
  BY <1>1, <1>2

LEMMA PushTwo ==
  ASSUME NEW s \in Seq(Frames), NEW a \in Frames, NEW b \in Frames
  PROVE  /\ <<a, b>> \o s = <<a>> \o (<<b>> \o s)
         /\ <<a>> \o (<<b>> \o s) \in Seq(Frames)
<1>1. <<a>> \in Seq(Frames) /\ <<b>> \in Seq(Frames) /\ <<a, b>> \in Seq(Frames)
  OBVIOUS
<1>2. <<a, b>> = <<a>> \o <<b>>
  <2> DEFINE u == <<a>> \o <<b>>
  <2>1. u \in Seq(Frames) /\ Len(u) = 2 /\ u[1] = a /\ u[2] = b
    BY <1>1
  <2>2. Len(<<a, b>>) = 2 /\ <<a, b>>[1] = a /\ <<a, b>>[2] = b
    OBVIOUS
  <2> HIDE DEF u
  <2>3. Len(<<a, b>>) = Len(u) /\ \A i \in 1..2 : <<a, b>>[i] = u[i]
    BY <2>1, <2>2
  <2>4. <<a, b>> = u
    BY <1>1, <2>1, <2>2, <2>3, SeqEqual
  <2> QED
    BY <2>4 DEF u
<1> QED
  BY <1>1, <1>2, ConcatAssociative, ConcatProperties

LEMMA PushThree ==
  ASSUME NEW s \in Seq(Frames), NEW u \in Seq(Frames), Len(u) = 3
  PROVE  /\ u \o s = <<u[1]>> \o (<<u[2]>> \o (<<u[3]>> \o s))
         /\ <<u[1]>> \o (<<u[2]>> \o (<<u[3]>> \o s)) \in Seq(Frames)
<1> DEFINE t == <<u[3]>> \o s
           v == <<u[2]>> \o t
           w == <<u[1]>> \o v
<1>1. u[1] \in Frames /\ u[2] \in Frames /\ u[3] \in Frames
  <2>1. u \in [1..3 -> Frames]
    BY LenProperties
  <2> HIDE DEF t, v, w
  <2> QED
    BY <2>1
<1>2. t \in Seq(Frames) /\ Len(t) = Len(s) + 1 /\ Len(s) \in Nat
      /\ t[1] = u[3] /\ \A k \in 1..Len(s) : t[k+1] = s[k]
  BY <1>1, PushedOn
<1> HIDE DEF t
<1>3. v \in Seq(Frames) /\ Len(v) = Len(s) + 2
      /\ v[1] = u[2] /\ v[2] = u[3] /\ \A k \in 1..Len(s) : v[k+2] = s[k]
  BY <1>1, <1>2
<1> HIDE DEF v
<1>4. w \in Seq(Frames) /\ Len(w) = Len(s) + 3
      /\ w[1] = u[1] /\ w[2] = u[2] /\ w[3] = u[3] /\ \A k \in 1..Len(s) : w[k+3] = s[k]
  BY <1>1, <1>2, <1>3
<1> HIDE DEF w
<1>5. /\ u \o s \in Seq(Frames) /\ Len(u \o s) = Len(s) + 3
      /\ \A k \in 1..3 : (u \o s)[k] = u[k]
      /\ \A k \in 4..Len(s)+3 : (u \o s)[k] = s[k-3]
  <2>1. /\ u \o s \in Seq(Frames) /\ Len(u \o s) = Len(u) + Len(s)
        /\ \A k \in 1..Len(u) + Len(s) :
             (u \o s)[k] = IF k <= Len(u) THEN u[k] ELSE s[k - Len(u)]
    BY ConcatProperties
  <2> QED
    BY <1>2, <2>1
<1>6. \A k \in 1..Len(s)+3 : (u \o s)[k] = w[k]
  <2>1. ASSUME NEW k \in 1..Len(s)+3, k > 3 PROVE (u \o s)[k] = w[k]
    <3>1. k - 3 \in 1..Len(s) /\ (k - 3) + 3 = k
      BY <1>2, <2>1
    <3>2. w[k] = s[k-3]
      BY <1>4, <3>1
    <3> QED
      BY <1>2, <1>5, <2>1, <3>2
  <2>2. \A k \in 1..3 : (u \o s)[k] = w[k]
    BY <1>4, <1>5
  <2> QED
    <3> SUFFICES ASSUME NEW k \in 1..Len(s)+3 PROVE (u \o s)[k] = w[k]
      OBVIOUS
    <3>1. k > 3 \/ k \in 1..3
      BY <1>2
    <3> QED
      BY <2>1, <2>2, <3>1
<1>7. u \o s = w
  BY <1>4, <1>5, <1>6, SeqEqual
<1> QED
  BY <1>4, <1>7 DEF t, v, w

LEMMA QuietConcat ==
  ASSUME NEW s \in Seq(Frames), NEW t \in Seq(Frames), Quiet(s), Quiet(t)
  PROVE  s \o t \in Seq(Frames) /\ Quiet(s \o t)
<1>1. /\ s \o t \in Seq(Frames) /\ Len(s \o t) = Len(s) + Len(t)
      /\ Len(s) \in Nat /\ Len(t) \in Nat
      /\ \A k \in 1..Len(s) : (s \o t)[k] = s[k]
      /\ \A k \in Len(s)+1..Len(s)+Len(t) : (s \o t)[k] = t[k - Len(s)]
  OBVIOUS
<1>2. ASSUME NEW k \in 1..Len(s \o t) PROVE (s \o t)[k].op \notin Moves
  <2>1. CASE k <= Len(s)
    BY <1>1, <2>1 DEF Quiet
  <2>2. CASE k > Len(s)
    <3>1. k - Len(s) \in 1..Len(t) /\ (s \o t)[k] = t[k - Len(s)]
      BY <1>1, <2>2
    <3> QED
      BY <3>1 DEF Quiet
  <2> QED
    BY <1>1, <2>1, <2>2
<1> QED
  BY <1>1, <1>2 DEF Quiet

LEMMA QuietPush ==
  ASSUME NEW s \in Seq(Frames), NEW f \in Frames, Quiet(s), f.op \notin Moves
  PROVE  <<f>> \o s \in Seq(Frames) /\ Quiet(<<f>> \o s)
<1>1. <<f>> \in Seq(Frames) /\ Quiet(<<f>>)
  BY DEF Quiet
<1> QED
  BY <1>1, QuietConcat

LEMMA QuietPop ==
  ASSUME NEW s \in Seq(Frames), Quiet(s), s # <<>>
  PROVE  Head(s).op \notin Moves /\ Tail(s) \in Seq(Frames) /\ Quiet(Tail(s))
<1>1. /\ Tail(s) \in Seq(Frames) /\ Len(s) \in Nat \ {0} /\ Len(Tail(s)) = Len(s) - 1
      /\ Head(s) = s[1] /\ \A k \in 1..Len(s)-1 : Tail(s)[k] = s[k+1]
  BY PoppedOff
<1> QED
  BY <1>1 DEF Quiet

LEMMA QuietEmpty == <<>> \in Seq(Frames) /\ Quiet(<<>>)
  BY DEF Quiet

\* What is quiet carries nothing, and changes no flag.
LEMMA AtRest ==
  ASSUME NEW s \in Seq(Frames), Quiet(s), NEW r, NEW w, NEW c
  PROVE  /\ Shaped(s, r, w, c) /\ Flight(s, c) = 0
         /\ WillBe("setReadable", s, r) <=> FPlug \in r
         /\ WillBe("setWriteable", s, w) <=> FPlug \in w
<1>1. s # <<>> => Head(s).op \notin Moves /\ Tail(s) \in Seq(Frames) /\ Quiet(Tail(s))
  BY QuietPop
<1>2. s # <<>> /\ Tail(s) # <<>> => Head(Tail(s)).op \notin Moves
  BY <1>1, QuietPop
<1> QED
  BY <1>1, <1>2 DEF Moves, Shaped, Flight, Carried, WillBe, Starts

\* What the frame on top says of the frames below.
LEMMA TopSays ==
  ASSUME NEW s \in Seq(Frames), NEW r, NEW w, NEW c, Shaped(s, r, w, c), s # <<>>
  PROVE  /\ Head(s).op = "i_Read" => Reading(s, r, w)
         /\ Head(s).op = "return" => Returning(s, w)
         /\ Head(s).op = "i_Write" => Taking(s, w) /\ c \in Chunks
         /\ Head(s).op = "setReadable" => Setting(s) \/ Stopping(s, w)
         /\ Head(s).op = "setWriteable" => Setting(s)
         /\ Head(s).op = "readableChanged" => Quiet(s) \/ Stopping(s, w)
         /\ Head(s).op \notin Moves \cup {"readableChanged", "otherIsReadable"} => Quiet(s)
<1>1. Quiet(s) => Head(s).op \notin Moves
  BY QuietPop
<1> QED
  BY <1>1 DEF Shaped, Setting, Reading, Stopping, Stops, Returning, Taking, Starts, Moves

-----------------------------------------------------------------------------
(* The plugs: one step of the calls that move chunks, set flags and plug.  *)

\* The step changes what StreamFDModule keeps in no way that the rest of the
\* invariant speaks of.
SameFlow ==
  /\ WillRead' <=> WillRead
  /\ WillWrite' <=> WillWrite
  /\ Flight(stack, ret)' = Flight(stack, ret)

LEMMA QuietCalls ==
  ASSUME stack \in Seq(Frames), ~Idle, Quiet(stack),
         NEW fs \in Seq(Frames), Quiet(fs), Calls(fs),
         canread' = canread, canwrite' = canwrite
  PROVE  stack' \in Seq(Frames) /\ StackOK' /\ SameFlow
<1>1. Tail(stack) \in Seq(Frames) /\ Quiet(Tail(stack))
  BY QuietPop DEF Idle
<1>2. stack' \in Seq(Frames) /\ Quiet(stack')
  BY <1>1, QuietConcat DEF Calls
<1>3. /\ Shaped(stack', canread', canwrite', ret') /\ Flight(stack', ret') = 0
      /\ WillBe("setReadable", stack', canread') <=> FPlug \in canread'
      /\ WillBe("setWriteable", stack', canwrite') <=> FPlug \in canwrite'
  BY <1>2, AtRest
<1>4. /\ Flight(stack, ret) = 0
      /\ WillBe("setReadable", stack, canread) <=> FPlug \in canread
      /\ WillBe("setWriteable", stack, canwrite) <=> FPlug \in canwrite
  BY AtRest
<1> QED
  BY <1>2, <1>3, <1>4 DEF StackOK, SameFlow, WillRead, WillWrite

LEMMA TopFrame ==
  ASSUME PlugsOK, ~Idle
  PROVE  /\ Top \in Frames /\ stack # <<>> /\ Tail(stack) \in Seq(Frames)
         /\ Top.op \notin {"otherIsReadable", "otherIsWriteable"} => Top.plug \in Plugs
         /\ Top.peer \in Plugs \cup {None} /\ (Top.peer # None => Top.peer # Top.plug)
<1>1. stack # <<>> /\ stack \in Seq(Frames)
  BY DEF Idle, PlugsOK
<1>2. Head(stack) \in Frames /\ Tail(stack) \in Seq(Frames)
  BY <1>1, PoppedOff
<1> QED
  BY <1>1, <1>2 DEF Top, Frames

LEMMA OneFrame ==
  ASSUME NEW f \in Frames, f.op \notin Moves
  PROVE  <<f>> \in Seq(Frames) /\ Quiet(<<f>>)
  BY DEF Quiet

\* A chunk that is returned is under the call that stops the reading.
LEMMA FlightUnder ==
  ASSUME NEW s, s # <<>>, Head(s).op \notin {"i_Write", "return"},
         Carried(Tail(s)) \in Nat
  PROVE  \A c : Flight(s, c) = Carried(Tail(s))
<1>1. Carried(s) = 0 /\ ~Starts("i_Write", s)
  BY DEF Carried, Starts
<1> QED
  BY <1>1 DEF Flight

\* At most one notification.
LEMMA TellFrames ==
  ASSUME PlugsOK, NEW p \in Plugs
  PROVE  /\ TellReadable(p) \in Seq(Frames) /\ Quiet(TellReadable(p))
         /\ TellWriteable(p) \in Seq(Frames) /\ Quiet(TellWriteable(p))
         /\ \/ TellReadable(p) = <<>>
            \/ \E f \in Frames : f.op = "otherIsReadable" /\ TellReadable(p) = <<f>>
<1>1. other[p] \in Plugs \cup {None} /\ FALSE \in Vals
  BY DEF PlugsOK, Vals
<1>2. ASSUME NEW op \in Ops, op \in {"otherIsReadable", "otherIsWriteable"}
      PROVE  Frame(op, other[p]) \in Frames /\ Frame(op, other[p]).op = op
  <2>2. Frame(op, other[p]) \in [op : Ops, plug : Plugs \cup {None},
                                 peer : Plugs \cup {None}, val : Vals]
    BY <1>1 DEF Frame
  <2>3. /\ Frame(op, other[p]).op = op /\ Frame(op, other[p]).peer = None
    BY DEF Frame
  <2> QED
    BY <1>2, <2>2, <2>3 DEF Frames
<1> DEFINE rd == Frame("otherIsReadable", other[p])
           wr == Frame("otherIsWriteable", other[p])
<1>3. rd \in Frames /\ rd.op = "otherIsReadable" /\ wr \in Frames /\ wr.op = "otherIsWriteable"
  BY <1>2 DEF Ops
<1>4. TellReadable(p) \in {<<>>, <<rd>>} /\ TellWriteable(p) \in {<<>>, <<wr>>}
  BY DEF TellReadable, TellWriteable, If
<1> HIDE DEF rd, wr
<1>5. /\ <<rd>> \in Seq(Frames) /\ Quiet(<<rd>>)
      /\ <<wr>> \in Seq(Frames) /\ Quiet(<<wr>>)
  BY <1>3, OneFrame DEF Moves
<1> QED
  BY <1>3, <1>4, <1>5, QuietEmpty

\* PlugsOK but for the stack.
LEMMA OtherSame ==
  ASSUME PlugsOK, other' = other, stack' \in Seq(Frames)
  PROVE  PlugsOK'
  BY DEF PlugsOK

EngineOK == PlugsOK' /\ StackOK' /\ SameFlow

LEMMA FlagChangedStep ==
  ASSUME PlugsOK, StackOK, FlagChanged
  PROVE  EngineOK
<1> DEFINE p == Top.plug
<1>1. ~Idle /\ other' = other /\ canread' = canread /\ canwrite' = canwrite /\ ret' = ret
      /\ Top.op \in {"readableChanged", "writeableChanged"}
  BY DEF FlagChanged, Running, Top, flags
<1>2. p \in Plugs /\ stack \in Seq(Frames) /\ stack # <<>> /\ Tail(stack) \in Seq(Frames)
  BY <1>1, TopFrame DEF PlugsOK
<1>3. PICK fs \in {<<>>, TellReadable(p), TellWriteable(p)} :
        /\ Calls(fs)
        /\ Top.op = "readableChanged" => fs \in {<<>>, TellReadable(p)}
  BY DEF FlagChanged, Running, Top
<1>4. fs \in Seq(Frames) /\ Quiet(fs)
  BY <1>2, <1>3, TellFrames, QuietEmpty
<1>5. CASE Quiet(stack)
  BY <1>1, <1>2, <1>4, <1>3, <1>5, QuietCalls, OtherSame DEF EngineOK
<1>6. CASE ~Quiet(stack)
  <2>1. Stopping(stack, canwrite) /\ Top.op = "readableChanged"
    BY <1>1, <1>2, <1>6, TopSays DEF StackOK, Top, Moves
  <2>2. Returning(Tail(stack), canwrite) /\ stack' = fs \o Tail(stack)
    BY <1>3, <2>1 DEF Stopping, Calls
  <2>3. Carried(stack) = 0 /\ Head(stack).op \notin Moves
    BY <2>1 DEF Carried, Starts, Top, Moves
  <2>4. Flight(stack, ret) = Carried(Tail(stack)) /\ Carried(Tail(stack)) \in Nat
    BY <1>2, <2>2, <2>3 DEF Flight, Starts, Moves, Carried, Returning, Chunks
  <2>5. CASE fs = <<>>
    <3>1. stack' = Tail(stack)
      BY <1>2, <2>2, <2>5
    <3>2. Taking(Tail(Tail(stack)), canwrite) /\ Tail(stack) # <<>>
          /\ Head(Tail(stack)).op = "return"
      BY <2>2 DEF Returning, Between, Starts
    <3>3. Carried(Tail(Tail(stack))) = 0
      BY <3>2 DEF Taking, Carried, Starts
    <3>4. Flight(stack', ret') = Carried(Tail(stack))
      BY <2>4, <3>1, <3>2, <3>3 DEF Flight, Starts
    <3>5. Shaped(stack', canread', canwrite', ret')
      BY <1>1, <2>2, <3>1 DEF Shaped
    <3>6. SameFlow
      BY <1>1, <2>3, <2>4, <3>1, <3>2, <3>4
         DEF SameFlow, WillRead, WillWrite, WillBe, Starts, Moves
    <3> QED
      BY <1>1, <1>2, <3>1, <3>5, <3>6, OtherSame DEF EngineOK, StackOK
  <2>6. CASE fs # <<>>
    <3>1. PICK f \in Frames : f.op = "otherIsReadable" /\ fs = <<f>>
      BY <1>2, <1>3, <2>1, <2>6, TellFrames
    <3>2. /\ stack' \in Seq(Frames) /\ stack' # <<>>
          /\ Head(stack') = f /\ Tail(stack') = Tail(stack)
      BY <1>2, <2>2, <3>1, PushedOn
    <3>3. Flight(stack', ret') = Carried(Tail(stack))
      <4>1. Carried(Tail(stack')) \in Nat /\ Head(stack').op \notin {"i_Write", "return"}
        BY <2>4, <3>1, <3>2
      <4>2. \A c : Flight(stack', c) = Carried(Tail(stack'))
        BY <3>2, <4>1, FlightUnder
      <4> QED
        BY <2>4, <3>2, <4>2
    <3>4. Shaped(stack', canread', canwrite', ret')
      <4>1. Stopping(stack', canwrite)
        BY <2>2, <3>1, <3>2 DEF Stopping, Stops
      <4> QED
        BY <1>1, <4>1 DEF Shaped
    <3>5. SameFlow
      BY <1>1, <2>3, <2>4, <3>1, <3>2, <3>3
         DEF SameFlow, WillRead, WillWrite, WillBe, Starts, Moves
    <3> QED
      BY <1>1, <3>2, <3>4, <3>5, OtherSame DEF EngineOK, StackOK
  <2> QED
    BY <2>5, <2>6
<1> QED
  BY <1>5, <1>6

LEMMA SetReadableStep ==
  ASSUME PlugsOK, StackOK, SetReadable
  PROVE  EngineOK
<1> DEFINE p == Top.plug
           g == Set("readableChanged", p, p \in canread)
           loop == If(StartsLoop(p, isreading), <<Frame("pushLoop", p)>>)
<1>1. /\ ~Idle /\ other' = other /\ canwrite' = canwrite /\ ret' = ret
      /\ Top.op = "setReadable" /\ canread' = Put(canread, p, Top.val)
      /\ Calls(loop \o <<g>>)
  BY DEF SetReadable, Running, Top
<1>2. p \in Plugs /\ stack \in Seq(Frames) /\ stack # <<>> /\ Tail(stack) \in Seq(Frames)
  BY <1>1, TopFrame DEF PlugsOK
<1>3. g \in Frames /\ g.op = "readableChanged"
  <2>1. (p \in canread) \in Vals
    BY DEF Vals
  <2> QED
    BY <1>2, <2>1, FrameIs DEF Ops
<1>4. loop \in Seq(Frames) /\ Quiet(loop)
  <2> DEFINE l == Frame("pushLoop", p)
  <2>1. l \in Frames /\ l.op \notin Moves /\ loop \in {<<>>, <<l>>}
    BY <1>2, FrameIs DEF Ops, Moves, If
  <2> HIDE DEF l, loop
  <2> QED
    BY <2>1, OneFrame, QuietEmpty
<1>5. WillRead <=> FPlug \in canread'
  BY <1>1, <1>2, FDConstants DEF WillRead, WillBe, Starts, Put, Top
<1>6. WillWrite <=> FPlug \in canwrite'
  BY <1>1 DEF WillWrite, WillBe, Starts, Top
<1>7. CASE Setting(stack)
  <2>1. Quiet(Tail(stack)) /\ Head(stack).op = "setReadable"
    BY <1>1, <1>7 DEF Setting, Top
  <2> HIDE DEF g, loop
  <2>2. <<g>> \in Seq(Frames) /\ Quiet(<<g>>)
    BY <1>3, OneFrame DEF Moves
  <2>3. loop \o <<g>> \in Seq(Frames) /\ Quiet(loop \o <<g>>)
    BY <1>4, <2>2, QuietConcat
  <2>4. stack' \in Seq(Frames) /\ Quiet(stack')
    BY <1>1, <1>2, <2>1, <2>3, QuietConcat DEF Calls
  <2>5. /\ Shaped(stack', canread', canwrite', ret') /\ Flight(stack', ret') = 0
        /\ WillBe("setReadable", stack', canread') <=> FPlug \in canread'
        /\ WillBe("setWriteable", stack', canwrite') <=> FPlug \in canwrite'
    BY <2>4, AtRest
  <2>6. Carried(Tail(stack)) = 0
    BY <1>2, <2>1, QuietPop DEF Carried, Starts, Moves
  <2>7. \A c : Flight(stack, c) = 0
    BY <1>2, <2>1, <2>6, FlightUnder
  <2> QED
    BY <1>1, <1>5, <1>6, <2>4, <2>5, <2>7, OtherSame
       DEF EngineOK, StackOK, SameFlow, WillRead, WillWrite
<1>8. CASE ~Setting(stack)
  <2>1. Stopping(stack, canwrite)
    BY <1>1, <1>2, <1>8, TopSays DEF StackOK, Top
  <2>2. Returning(Tail(stack), canwrite) /\ Top.val = FALSE
    BY <1>1, <2>1 DEF Stopping, Stops, Top
  <2>3. loop = <<>>
    BY <2>2 DEF If, StartsLoop
  <2> HIDE DEF g, loop
  <2>4. loop \o <<g>> = <<g>>
    BY <1>3, <2>3
  <2>5. stack' = <<g>> \o Tail(stack)
    BY <1>1, <2>4 DEF Calls
  <2>6. /\ stack' \in Seq(Frames) /\ stack' # <<>>
        /\ Head(stack') = g /\ Tail(stack') = Tail(stack)
    BY <1>2, <1>3, <2>5, PushedOn
  <2>7. Stopping(stack', canwrite)
    BY <1>3, <2>2, <2>6 DEF Stopping, Stops
  <2>8. Carried(Tail(stack)) \in Nat
    BY <2>2 DEF Carried, Returning, Chunks
  <2>9. (\A c : Flight(stack, c) = Carried(Tail(stack)))
        /\ (\A c : Flight(stack', c) = Carried(Tail(stack')))
    <3>1. Head(stack).op \notin {"i_Write", "return"} /\ Head(stack').op \notin {"i_Write", "return"}
      BY <1>1, <1>3, <2>6 DEF Top
    <3> QED
      BY <1>2, <2>6, <2>8, <3>1, FlightUnder
  <2>10. SameFlow
    BY <1>1, <1>3, <1>5, <1>6, <2>6, <2>9
       DEF SameFlow, WillRead, WillWrite, WillBe, Starts
  <2> QED
    BY <1>1, <2>6, <2>7, <2>10, OtherSame DEF EngineOK, StackOK, Shaped
<1> QED
  BY <1>7, <1>8

LEMMA SetWriteableStep ==
  ASSUME PlugsOK, StackOK, SetWriteable
  PROVE  EngineOK
<1> DEFINE p == Top.plug
           g == Set("writeableChanged", p, p \in canwrite)
           loop == If(StartsLoop(p, iswriting), <<Frame("pullLoop", p)>>)
<1>1. /\ ~Idle /\ other' = other /\ canread' = canread /\ ret' = ret
      /\ Top.op = "setWriteable" /\ canwrite' = Put(canwrite, p, Top.val)
      /\ Calls(loop \o <<g>>)
  BY DEF SetWriteable, Running, Top
<1>2. p \in Plugs /\ stack \in Seq(Frames) /\ stack # <<>> /\ Tail(stack) \in Seq(Frames)
  BY <1>1, TopFrame DEF PlugsOK
<1>3. g \in Frames /\ g.op = "writeableChanged"
  <2>1. (p \in canwrite) \in Vals
    BY DEF Vals
  <2> QED
    BY <1>2, <2>1, FrameIs DEF Ops
<1>4. loop \in Seq(Frames) /\ Quiet(loop)
  <2> DEFINE l == Frame("pullLoop", p)
  <2>1. l \in Frames /\ l.op \notin Moves /\ loop \in {<<>>, <<l>>}
    BY <1>2, FrameIs DEF Ops, Moves, If
  <2> HIDE DEF l, loop
  <2> QED
    BY <2>1, OneFrame, QuietEmpty
<1>5. WillWrite <=> FPlug \in canwrite'
  BY <1>1, <1>2, FDConstants DEF WillWrite, WillBe, Starts, Put, Top
<1>6. WillRead <=> FPlug \in canread'
  BY <1>1 DEF WillRead, WillBe, Starts, Top
<1>7. Quiet(Tail(stack)) /\ Head(stack).op = "setWriteable"
  BY <1>1, <1>2, TopSays DEF StackOK, Setting, Top
<1> HIDE DEF g, loop
<1>8. <<g>> \in Seq(Frames) /\ Quiet(<<g>>)
  BY <1>3, OneFrame DEF Moves
<1>9. loop \o <<g>> \in Seq(Frames) /\ Quiet(loop \o <<g>>)
  BY <1>4, <1>8, QuietConcat
<1>10. stack' \in Seq(Frames) /\ Quiet(stack')
  BY <1>1, <1>2, <1>7, <1>9, QuietConcat DEF Calls
<1>11. /\ Shaped(stack', canread', canwrite', ret') /\ Flight(stack', ret') = 0
       /\ WillBe("setReadable", stack', canread') <=> FPlug \in canread'
       /\ WillBe("setWriteable", stack', canwrite') <=> FPlug \in canwrite'
  BY <1>10, AtRest
<1>12. Carried(Tail(stack)) = 0
  BY <1>2, <1>7, QuietPop DEF Carried, Starts, Moves
<1>13. \A c : Flight(stack, c) = 0
  BY <1>2, <1>7, <1>12, FlightUnder
<1> QED
  BY <1>1, <1>5, <1>6, <1>10, <1>11, <1>13, OtherSame
     DEF EngineOK, StackOK, SameFlow, WillRead, WillWrite

LEMMA ReturnChunkStep ==
  ASSUME PlugsOK, StackOK, ReturnChunk
  PROVE  EngineOK
<1>1. /\ ~Idle /\ other' = other /\ canread' = canread /\ canwrite' = canwrite
      /\ Top.op = "return" /\ ret' = Top.val /\ stack' = <<>> \o Tail(stack)
  BY DEF ReturnChunk, Return, Calls, Running, Top, flags
<1>2. stack \in Seq(Frames) /\ stack # <<>> /\ Tail(stack) \in Seq(Frames)
      /\ Top.plug \in Plugs
  BY <1>1, TopFrame DEF PlugsOK
<1>3. stack' = Tail(stack)
  BY <1>1, <1>2
<1>4. /\ Taking(Tail(stack), canwrite) /\ Top.val \in Chunks
      /\ Top.plug # Head(Tail(stack)).plug
  BY <1>1, <1>2, TopSays DEF StackOK, Returning, Between, Top
<1>5. Head(Tail(stack)) \in Frames /\ Tail(stack) # <<>>
      /\ Head(Tail(stack)).op = "i_Write" /\ Quiet(Tail(Tail(stack)))
      /\ Tail(Tail(stack)) \in Seq(Frames)
  BY <1>2, <1>4, PoppedOff DEF Taking, Starts
<1>6. Head(Tail(stack)).plug \in Plugs
  BY <1>5 DEF Frames
<1>7. Carried(Tail(stack)) = 0 /\ Carried(Tail(Tail(stack))) = 0
  BY <1>5, QuietPop DEF Carried, Starts, Moves
<1>8. Flight(stack', ret') = Flight(stack, ret)
  <2>1. Flight(stack, ret) = IF Top.plug = FPlug THEN Top.val.len ELSE 0
    BY <1>1, <1>2, <1>4, <1>7 DEF Flight, Carried, Starts, Top, Chunks
  <2>2. Flight(stack', ret') = IF Head(Tail(stack)).plug = End THEN Top.val.len ELSE 0
    BY <1>1, <1>3, <1>5, <1>7 DEF Flight, Starts
  <2>3. Head(Tail(stack)).plug = End <=> Top.plug = FPlug
    BY <1>2, <1>4, <1>6, FDConstants
  <2>4. CASE Top.plug = FPlug
    <3>1. Flight(stack, ret) = Top.val.len /\ Flight(stack', ret') = Top.val.len
      BY <2>1, <2>2, <2>3, <2>4
    <3> QED
      BY <3>1
  <2>5. CASE Top.plug # FPlug
    <3>1. Flight(stack, ret) = 0 /\ Flight(stack', ret') = 0
      BY <2>1, <2>2, <2>3, <2>5
    <3> QED
      BY <3>1
  <2> QED
    BY <2>4, <2>5
<1>9. SameFlow
  BY <1>1, <1>3, <1>5, <1>8 DEF SameFlow, WillRead, WillWrite, WillBe, Starts, Top
<1>10. Taking(stack', canwrite') /\ ret' \in Chunks
  BY <1>1, <1>3, <1>4
<1>11. StackOK'
  BY <1>10 DEF StackOK, Shaped
<1>12. PlugsOK'
  BY <1>1, <1>2, <1>3, OtherSame
<1> QED
  BY <1>9, <1>11, <1>12 DEF EngineOK

\* A loop has the chunk read and then written.
LEMMA TurnStep ==
  ASSUME PlugsOK, ~Idle, Quiet(stack),
         NEW x \in Plugs, NEW y \in Plugs, x # y, NEW f \in Frames, f.op \notin Moves,
         Calls(<<Frame("i_Read", x), Frame("i_Write", y), f>>),
         x \in canread, y \in canwrite,
         other' = other, canread' = canread, canwrite' = canwrite
  PROVE  EngineOK
<1> DEFINE a == Frame("i_Read", x)
           b == Frame("i_Write", y)
           t == <<f>> \o Tail(stack)
           u == <<b>> \o t
<1>1. /\ a \in Frames /\ a.op = "i_Read" /\ a.plug = x
      /\ b \in Frames /\ b.op = "i_Write" /\ b.plug = y
  BY FrameIs DEF Ops
<1>0. stack' = <<a, b, f>> \o Tail(stack)
  BY DEF Calls
<1> HIDE DEF a, b
<1>2. /\ stack \in Seq(Frames) /\ Tail(stack) \in Seq(Frames) /\ Quiet(Tail(stack))
  BY QuietPop DEF PlugsOK, Idle
<1>3. t \in Seq(Frames) /\ Quiet(t)
  BY <1>2, QuietPush
<1>4. stack' = <<a>> \o u
  <2>1. <<a, b, f>> \o Tail(stack) = <<a>> \o (<<b>> \o (<<f>> \o Tail(stack)))
    <3> DEFINE call == <<a, b, f>>
    <3>1. call \in Seq(Frames) /\ Len(call) = 3
          /\ call[1] = a /\ call[2] = b /\ call[3] = f
      BY <1>1
    <3> HIDE DEF call
    <3>2. call \o Tail(stack) = <<call[1]>> \o (<<call[2]>> \o (<<call[3]>> \o Tail(stack)))
      BY <1>2, <3>1, PushThree
    <3>3. call \o Tail(stack) = <<a>> \o (<<b>> \o (<<f>> \o Tail(stack)))
      BY <3>1, <3>2
    <3> QED
      BY <3>3 DEF call
  <2> QED
    BY <1>0, <2>1
<1> HIDE DEF t
<1>5. u \in Seq(Frames) /\ u # <<>> /\ Head(u) = b /\ Tail(u) = t
  BY <1>1, <1>3, PushedOn
<1> HIDE DEF u
<1>6. stack' \in Seq(Frames) /\ stack' # <<>> /\ Head(stack') = a /\ Tail(stack') = u
  BY <1>1, <1>4, <1>5, PushedOn
<1>7. Taking(u, canwrite)
  BY <1>1, <1>3, <1>5 DEF Taking, Starts
<1>8. Reading(stack', canread, canwrite)
  BY <1>1, <1>5, <1>6, <1>7 DEF Reading, Between, Starts
<1>9. Carried(u) = 0 /\ 0 \in Nat
  BY <1>1, <1>5 DEF Carried, Starts
<1>10. Flight(stack', ret') = 0
  BY <1>1, <1>6, <1>9, FlightUnder
<1>11. /\ Flight(stack, ret) = 0
       /\ WillBe("setReadable", stack, canread) <=> FPlug \in canread
       /\ WillBe("setWriteable", stack, canwrite) <=> FPlug \in canwrite
  BY <1>2, AtRest
<1>12. SameFlow
  BY <1>1, <1>6, <1>10, <1>11 DEF SameFlow, WillRead, WillWrite, WillBe, Starts
<1>13. StackOK'
  BY <1>8 DEF StackOK, Shaped
<1>14. PlugsOK'
  BY <1>6, OtherSame
<1> QED
  BY <1>12, <1>13, <1>14 DEF EngineOK

\* The other calls only make quiet calls.
LEMMA QuietStep ==
  ASSUME PlugsOK, ~Idle, Quiet(stack), NEW fs \in Seq(Frames), Quiet(fs), Calls(fs),
         other' = other, canread' = canread, canwrite' = canwrite
  PROVE  EngineOK
<1>1. stack' \in Seq(Frames) /\ StackOK' /\ SameFlow
  BY QuietCalls DEF PlugsOK
<1> QED
  BY <1>1, OtherSame DEF EngineOK

LEMMA LoopStarts ==
  ASSUME PlugsOK, StackOK, PushLoop \/ PullLoop \/ Pushed \/ Pulled
  PROVE  EngineOK
<1> DEFINE p == Top.plug
           f(op) == With(op, p, other[p])
<1>1. /\ ~Idle /\ other' = other /\ canread' = canread /\ canwrite' = canwrite
      /\ Top.op \in {"pushLoop", "pushed", "pullLoop", "pulled"}
      /\ Calls(<<f("pushing")>>) \/ Calls(<<f("pulling")>>)
  BY DEF PushLoop, PullLoop, Pushed, Pulled, Running, Top
<1>2. stack \in Seq(Frames) /\ stack # <<>> /\ p \in Plugs
  BY <1>1, TopFrame DEF PlugsOK
<1>3. other[p] \in Plugs \cup {None} /\ other[p] # p
  BY <1>2 DEF PlugsOK
<1>4. Quiet(stack)
  BY <1>1, <1>2, TopSays DEF StackOK, Top, Moves
<1>5. \A op \in {"pushing", "pulling"} : f(op) \in Frames /\ f(op).op \notin Moves
  BY <1>2, <1>3, FrameIs DEF Ops, Moves
<1> HIDE DEF f
<1>6. \A op \in {"pushing", "pulling"} : <<f(op)>> \in Seq(Frames) /\ Quiet(<<f(op)>>)
  BY <1>5, OneFrame
<1> QED
  BY <1>1, <1>4, <1>6, QuietStep

LEMMA LoopTurns ==
  ASSUME PlugsOK, StackOK, Pushing \/ Pulling
  PROVE  EngineOK
<1> DEFINE p == Top.plug
           o == Top.peer
           f(op) == With(op, p, o)
<1>1. /\ ~Idle /\ other' = other /\ canread' = canread /\ canwrite' = canwrite
      /\ Top.op \in {"pushing", "pulling"}
  BY DEF Pushing, Pulling, Running, Top
<1>2. /\ stack \in Seq(Frames) /\ stack # <<>> /\ p \in Plugs
      /\ o \in Plugs \cup {None} /\ o # p
  BY <1>1, TopFrame, PlugConstants DEF PlugsOK
<1>3. Quiet(stack)
  BY <1>1, <1>2, TopSays DEF StackOK, Top, Moves
<1>4. \A op \in {"pushed", "pulled"} : f(op) \in Frames /\ f(op).op \notin Moves
  BY <1>2, FrameIs DEF Ops, Moves
<1>5. \/ Calls(<<>>)
      \/ /\ o # None /\ p \in canread /\ o \in canwrite
         /\ Calls(<<Frame("i_Read", p), Frame("i_Write", o), f("pushed")>>)
      \/ /\ o # None /\ o \in canread /\ p \in canwrite
         /\ Calls(<<Frame("i_Read", o), Frame("i_Write", p), f("pulled")>>)
  BY DEF Pushing, Pulling, Return
<1> HIDE DEF f, o, p
<1>6. CASE Calls(<<>>)
  BY <1>1, <1>3, <1>6, QuietStep, QuietEmpty
<1>7. CASE /\ o # None /\ p \in canread /\ o \in canwrite
           /\ Calls(<<Frame("i_Read", p), Frame("i_Write", o), f("pushed")>>)
  BY <1>1, <1>2, <1>3, <1>4, <1>7, TurnStep
<1>8. CASE /\ o # None /\ o \in canread /\ p \in canwrite
           /\ Calls(<<Frame("i_Read", o), Frame("i_Write", p), f("pulled")>>)
  BY <1>1, <1>2, <1>3, <1>4, <1>8, TurnStep
<1> QED
  BY <1>5, <1>6, <1>7, <1>8

LEMMA PlugIntoStep ==
  ASSUME PlugsOK, StackOK, PlugIntoGoesOn
  PROVE  EngineOK
<1> DEFINE p == Top.plug
           o == other[p]
           f(op) == Frame(op, p)
<1>1. /\ ~Idle /\ other' = other /\ canread' = canread /\ canwrite' = canwrite
      /\ Top.op \in {"tellReadable", "peerTellsReadable", "tellWriteable",
                     "peerTellsWriteable", "readAway", "writeAway"}
  BY DEF PlugIntoGoesOn, Running, Top, flags
<1>2. /\ stack \in Seq(Frames) /\ stack # <<>> /\ p \in Plugs
      /\ o \in Plugs \cup {None}
  BY <1>1, TopFrame DEF PlugsOK
<1>3. Quiet(stack)
  BY <1>1, <1>2, TopSays DEF StackOK, Top, Moves
<1>4. \A op \in {"pushLoop", "pullLoop"} : f(op) \in Frames /\ f(op).op \notin Moves
  BY <1>2, FrameIs DEF Ops, Moves
<1>5. \/ Calls(<<>>)
      \/ Calls(TellReadable(p)) \/ Calls(TellWriteable(p))
      \/ o # None /\ (Calls(TellReadable(o)) \/ Calls(TellWriteable(o)))
      \/ Calls(<<f("pushLoop")>>) \/ Calls(<<f("pullLoop")>>)
  BY DEF PlugIntoGoesOn, If
<1> HIDE DEF f, o, p
<1>6. \A op \in {"pushLoop", "pullLoop"} : <<f(op)>> \in Seq(Frames) /\ Quiet(<<f(op)>>)
  BY <1>4, OneFrame
<1>7. \A q \in Plugs : /\ TellReadable(q) \in Seq(Frames) /\ Quiet(TellReadable(q))
                       /\ TellWriteable(q) \in Seq(Frames) /\ Quiet(TellWriteable(q))
  BY TellFrames
<1>8. PICK fs \in Seq(Frames) : Quiet(fs) /\ Calls(fs)
  BY <1>2, <1>5, <1>6, <1>7, QuietEmpty
<1> QED
  BY <1>1, <1>3, <1>8, QuietStep

LEMMA UnPlugStep ==
  ASSUME PlugsOK, StackOK, UnPlug
  PROVE  EngineOK
<1> DEFINE p == Top.plug
           a == Frame("unPlug", other[p])
           b == Frame("plugDisconnected", p)
<1>1. /\ ~Idle /\ canread' = canread /\ canwrite' = canwrite /\ Top.op = "unPlug"
      /\ other' = [other EXCEPT ![p] = None]
      /\ Calls(IF other[p] # None THEN <<a, b>> ELSE <<>>)
  BY DEF UnPlug, Running, Top, If
<1>2. /\ stack \in Seq(Frames) /\ stack # <<>> /\ p \in Plugs
      /\ other[p] \in Plugs \cup {None}
  BY <1>1, TopFrame DEF PlugsOK
<1>3. Quiet(stack)
  BY <1>1, <1>2, TopSays DEF StackOK, Top, Moves
<1>4. other[p] # None => /\ a \in Frames /\ a.op \notin Moves
                         /\ b \in Frames /\ b.op \notin Moves
  BY <1>2, FrameIs DEF Ops, Moves
<1> HIDE DEF a, b
<1>5. other[p] # None => <<a, b>> \in Seq(Frames) /\ Quiet(<<a, b>>)
  <2> SUFFICES ASSUME other[p] # None PROVE <<a, b>> \in Seq(Frames) /\ Quiet(<<a, b>>)
    OBVIOUS
  <2> QED
    BY <1>4 DEF Quiet
<1>6. PICK fs \in Seq(Frames) : Quiet(fs) /\ Calls(fs)
  BY <1>1, <1>5, QuietEmpty
<1>7. stack' \in Seq(Frames) /\ StackOK' /\ SameFlow
  BY <1>1, <1>2, <1>3, <1>6, QuietCalls
<1>8. PlugsOK'
  BY <1>1, <1>2, <1>7, PlugConstants DEF PlugsOK
<1> QED
  BY <1>7, <1>8 DEF EngineOK

LEMMA EngineStep ==
  ASSUME PlugsOK, StackOK, Engine \/ Disconnected
  PROVE  EngineOK
<1>1. CASE Written \/ Disconnected
  <2>1. /\ ~Idle /\ other' = other /\ canread' = canread /\ canwrite' = canwrite
        /\ Top.op \in {"written", "plugDisconnected"} /\ Calls(<<>>)
    BY <1>1 DEF Written, Disconnected, Running, Top, Return, flags
  <2>2. Quiet(stack)
    BY <2>1, TopFrame, TopSays DEF PlugsOK, StackOK, Top, Moves
  <2> QED
    BY <2>1, <2>2, QuietEmpty, QuietStep
<1> QED
  BY <1>1, ReturnChunkStep, SetReadableStep, SetWriteableStep, FlagChangedStep,
     PlugIntoStep, UnPlugStep, LoopStarts, LoopTurns DEF Engine

\* i_Read returns the chunk, once it has stopped the reading if it does so.
LEMMA ReturnStep ==
  ASSUME PlugsOK, StackOK, Running("i_Read"), NEW chunk \in Chunks, NEW stop \in BOOLEAN,
         Calls(If(stop, <<Set("setReadable", Top.plug, FALSE)>>)
               \o <<Set("return", Top.plug, chunk)>>),
         other' = other, canread' = canread, canwrite' = canwrite
  PROVE  /\ PlugsOK' /\ StackOK'
         /\ Top.plug \in Plugs /\ (Top.plug = FPlug => FPlug \in canread)
         /\ WillRead <=> FPlug \in canread
         /\ WillRead' <=> FPlug \in canread /\ ~(stop /\ Top.plug = FPlug)
         /\ WillWrite' <=> WillWrite
         /\ Flight(stack, ret) = 0
         /\ Flight(stack, ret)' = IF Top.plug = FPlug THEN chunk.len ELSE 0
<1> DEFINE p == Top.plug
           g == Set("return", p, chunk)
           h == Set("setReadable", p, FALSE)
           u == <<g>> \o Tail(stack)
<1>1. ~Idle /\ Top.op = "i_Read"
  BY DEF Running, Top
<1>2. /\ stack \in Seq(Frames) /\ stack # <<>> /\ Tail(stack) \in Seq(Frames) /\ p \in Plugs
  BY <1>1, TopFrame DEF PlugsOK
<1>3. Reading(stack, canread, canwrite)
  BY <1>1, <1>2, TopSays DEF StackOK, Top
<1>4. /\ g \in Frames /\ g.op = "return" /\ g.plug = p /\ g.val = chunk
      /\ h \in Frames /\ h.op = "setReadable" /\ h.plug = p /\ h.val = FALSE
  <2>1. "return" \in Ops /\ "setReadable" \in Ops /\ chunk \in Vals
    BY DEF Ops, Vals
  <2>2. g \in Frames /\ g.op = "return" /\ g.plug = p /\ g.val = chunk
    BY <1>2, <2>1, FrameIs
  <2>3. h \in Frames /\ h.op = "setReadable" /\ h.plug = p /\ h.val = FALSE
    BY <1>2, <2>1, SetIs
  <2> QED
    BY <2>2, <2>3
<1>5. stack' = IF stop THEN <<h>> \o u ELSE u
  <2>1. CASE stop
    <3>1. stack' = (<<h>> \o <<g>>) \o Tail(stack)
      BY <2>1 DEF Calls, If
    <3> HIDE DEF g, h
    <3>2. <<h>> \in Seq(Frames) /\ <<g>> \in Seq(Frames)
      BY <1>4
    <3>3. (<<h>> \o <<g>>) \o Tail(stack) = <<h>> \o (<<g>> \o Tail(stack))
      BY <1>2, <3>2, ConcatAssociative
    <3> QED
      BY <2>1, <3>1, <3>3
  <2>2. CASE ~stop
    <3>1. stack' = (<<>> \o <<g>>) \o Tail(stack)
      BY <2>2 DEF Calls, If
    <3> HIDE DEF g, h
    <3>2. <<>> \o <<g>> = <<g>>
      BY <1>4
    <3> QED
      BY <2>2, <3>1, <3>2
  <2> QED
    BY <2>1, <2>2
<1> HIDE DEF g, h
<1>6. u \in Seq(Frames) /\ u # <<>> /\ Head(u) = g /\ Tail(u) = Tail(stack)
  BY <1>2, <1>4, PushedOn
<1> HIDE DEF u
<1>7. Returning(u, canwrite)
  BY <1>3, <1>4, <1>6 DEF Reading, Returning, Between, Starts, Top
<1>8. /\ Taking(Tail(stack), canwrite) /\ Carried(Tail(stack)) = 0
      /\ p = FPlug => FPlug \in canread
  BY <1>3 DEF Reading, Between, Taking, Carried, Starts, Top
<1>9. Flight(stack, ret) = 0
  <2>1. \A c : Flight(stack, c) = Carried(Tail(stack))
    BY <1>1, <1>2, <1>8, FlightUnder DEF Top
  <2> QED
    BY <1>8, <2>1
<1>10. Carried(u) = (IF p = FPlug THEN chunk.len ELSE 0) /\ Carried(u) \in Nat
  <2>1. chunk.len \in Nat
    BY DEF Chunks
  <2>2. Carried(u) = IF p = FPlug THEN chunk.len ELSE 0
    BY <1>4, <1>6 DEF Carried, Starts
  <2> QED
    BY <2>1, <2>2
<1>11. Flight(u, ret') = IF p = FPlug THEN chunk.len ELSE 0
  <2>1. Flight(u, ret') = Carried(u) + Carried(Tail(u)) /\ Carried(Tail(u)) = 0
    BY <1>4, <1>6, <1>8 DEF Flight, Starts
  <2> QED
    BY <1>10, <2>1
<1>12. CASE stop
  <2>1. /\ stack' \in Seq(Frames) /\ stack' # <<>> /\ Head(stack') = h /\ Tail(stack') = u
    BY <1>4, <1>5, <1>6, <1>12, PushedOn
  <2>2. Stopping(stack', canwrite)
    BY <1>4, <1>7, <2>1 DEF Stopping, Stops
  <2>3. Flight(stack', ret') = IF p = FPlug THEN chunk.len ELSE 0
    <3>1. \A c : Flight(stack', c) = Carried(Tail(stack'))
      <4>1. Carried(Tail(stack')) \in Nat /\ Head(stack').op \notin {"i_Write", "return"}
        BY <1>4, <1>10, <2>1
      <4> QED
        BY <2>1, <4>1, FlightUnder
    <3> QED
      BY <1>10, <2>1, <3>1
  <2>4. StackOK' /\ PlugsOK'
    BY <2>1, <2>2, OtherSame DEF StackOK, Shaped
  <2> QED
    BY <1>1, <1>2, <1>4, <1>8, <1>9, <1>12, <2>1, <2>3, <2>4
       DEF WillRead, WillWrite, WillBe, Starts, Top
<1>13. CASE ~stop
  <2>1. stack' = u
    BY <1>5, <1>13
  <2>2. StackOK' /\ PlugsOK'
    BY <1>6, <1>7, <2>1, OtherSame DEF StackOK, Shaped
  <2> QED
    BY <1>1, <1>2, <1>4, <1>6, <1>8, <1>9, <1>11, <1>13, <2>1, <2>2
       DEF WillRead, WillWrite, WillBe, Starts, Top
<1> QED
  BY <1>12, <1>13

\* i_Write returns, once it has stopped the writing if it does so.
LEMMA WrittenStep ==
  ASSUME PlugsOK, StackOK, Running("i_Write"), NEW stop \in BOOLEAN,
         Calls(If(stop, <<Set("setWriteable", Top.plug, FALSE)>>)
               \o <<Frame("written", Top.plug)>>),
         other' = other, canread' = canread, canwrite' = canwrite
  PROVE  /\ PlugsOK' /\ StackOK' /\ ret \in Chunks
         /\ Top.plug \in Plugs /\ (Top.plug = FPlug => FPlug \in canwrite)
         /\ WillWrite <=> FPlug \in canwrite
         /\ WillWrite' <=> FPlug \in canwrite /\ ~(stop /\ Top.plug = FPlug)
         /\ WillRead' <=> WillRead
         /\ Flight(stack, ret) = IF Top.plug = End THEN ret.len ELSE 0
         /\ Flight(stack, ret)' = 0
<1> DEFINE p == Top.plug
           g == Frame("written", p)
           h == Set("setWriteable", p, FALSE)
           u == <<g>> \o Tail(stack)
<1>1. ~Idle /\ Top.op = "i_Write"
  BY DEF Running, Top
<1>2. /\ stack \in Seq(Frames) /\ stack # <<>> /\ Tail(stack) \in Seq(Frames) /\ p \in Plugs
  BY <1>1, TopFrame DEF PlugsOK
<1>3. Taking(stack, canwrite) /\ ret \in Chunks
  BY <1>1, <1>2, TopSays DEF StackOK, Top
<1>4. /\ g \in Frames /\ g.op = "written" /\ g.plug = p
      /\ h \in Frames /\ h.op = "setWriteable" /\ h.plug = p /\ h.val = FALSE
  <2>1. "written" \in Ops /\ "setWriteable" \in Ops
    BY DEF Ops
  <2>2. g \in Frames /\ g.op = "written" /\ g.plug = p
    BY <1>2, <2>1, FrameIs
  <2>3. h \in Frames /\ h.op = "setWriteable" /\ h.plug = p /\ h.val = FALSE
    BY <1>2, <2>1, SetIs
  <2> QED
    BY <2>2, <2>3
<1>5. stack' = IF stop THEN <<h>> \o u ELSE u
  <2>1. CASE stop
    <3>1. stack' = (<<h>> \o <<g>>) \o Tail(stack)
      BY <2>1 DEF Calls, If
    <3> HIDE DEF g, h
    <3>2. <<h>> \in Seq(Frames) /\ <<g>> \in Seq(Frames)
      BY <1>4
    <3>3. (<<h>> \o <<g>>) \o Tail(stack) = <<h>> \o (<<g>> \o Tail(stack))
      BY <1>2, <3>2, ConcatAssociative
    <3> QED
      BY <2>1, <3>1, <3>3
  <2>2. CASE ~stop
    <3>1. stack' = (<<>> \o <<g>>) \o Tail(stack)
      BY <2>2 DEF Calls, If
    <3> HIDE DEF g, h
    <3>2. <<>> \o <<g>> = <<g>>
      BY <1>4
    <3> QED
      BY <2>2, <3>1, <3>2
  <2> QED
    BY <2>1, <2>2
<1> HIDE DEF g, h
<1>6. Quiet(Tail(stack)) /\ (p = FPlug => FPlug \in canwrite)
  BY <1>3 DEF Taking, Top
<1>7. u \in Seq(Frames) /\ Quiet(u)
  BY <1>2, <1>4, <1>6, QuietPush DEF Moves
<1> HIDE DEF u
<1>8. Carried(Tail(stack)) = 0 /\ Carried(stack) = 0 /\ Carried(u) = 0 /\ Carried(u) \in Nat
  BY <1>1, <1>2, <1>6, <1>7, QuietPop DEF Carried, Starts, Moves, Top
<1>9. Flight(stack, ret) = IF p = End THEN ret.len ELSE 0
  <2>1. CASE p = End
    BY <1>1, <1>2, <2>1 DEF Flight, Starts, Top
  <2>2. CASE p # End
    <3>1. Flight(stack, ret) = Carried(stack) + Carried(Tail(stack))
      BY <1>1, <1>2, <2>2 DEF Flight, Starts, Top
    <3> QED
      BY <1>8, <2>2, <3>1
  <2> QED
    BY <2>1, <2>2
<1>10. CASE stop
  <2>1. /\ stack' \in Seq(Frames) /\ stack' # <<>> /\ Head(stack') = h /\ Tail(stack') = u
    BY <1>4, <1>5, <1>7, <1>10, PushedOn
  <2>2. Setting(stack')
    BY <1>4, <1>7, <2>1 DEF Setting
  <2>3. Flight(stack', ret') = 0
    <3>1. Carried(Tail(stack')) \in Nat /\ Head(stack').op \notin {"i_Write", "return"}
      BY <1>4, <1>8, <2>1
    <3>2. \A c : Flight(stack', c) = Carried(Tail(stack'))
      BY <2>1, <3>1, FlightUnder
    <3> QED
      BY <1>8, <2>1, <3>2
  <2>4. StackOK' /\ PlugsOK'
    BY <2>1, <2>2, OtherSame DEF StackOK, Shaped
  <2> QED
    BY <1>1, <1>2, <1>3, <1>4, <1>6, <1>9, <1>10, <2>1, <2>3, <2>4
       DEF WillRead, WillWrite, WillBe, Starts, Top
<1>11. CASE ~stop
  <2>1. stack' = u
    BY <1>5, <1>11
  <2>2. /\ Shaped(stack', canread', canwrite', ret') /\ Flight(stack', ret') = 0
        /\ WillBe("setReadable", stack', canread') <=> FPlug \in canread'
        /\ WillBe("setWriteable", stack', canwrite') <=> FPlug \in canwrite'
    BY <1>7, <2>1, AtRest
  <2>3. StackOK' /\ PlugsOK'
    BY <1>7, <2>1, <2>2, OtherSame DEF StackOK
  <2>4. (WillRead <=> FPlug \in canread) /\ (WillWrite <=> FPlug \in canwrite)
    BY <1>1 DEF WillRead, WillWrite, WillBe, Starts, Top
  <2> QED
    BY <1>2, <1>3, <1>6, <1>9, <1>11, <2>2, <2>3, <2>4 DEF WillRead, WillWrite
<1> QED
  BY <1>10, <1>11

LEMMA AtIdle ==
  ASSUME Idle
  PROVE  /\ WillRead <=> FPlug \in canread
         /\ WillWrite <=> FPlug \in canwrite
         /\ Flight(stack, ret) = 0
  BY QuietEmpty, AtRest DEF Idle, WillRead, WillWrite

\* An event, or a plug, sets a flag.
LEMMA SetStep ==
  ASSUME PlugsOK, Idle, NEW op \in {"setReadable", "setWriteable"}, NEW x \in Plugs,
         NEW sets \in BOOLEAN, stack' = If(sets, <<Set(op, x, TRUE)>>),
         other' = other, canread' = canread, canwrite' = canwrite
  PROVE  /\ PlugsOK' /\ StackOK' /\ Flight(stack, ret)' = 0
         /\ WillRead' <=> WillRead \/ (sets /\ op = "setReadable" /\ x = FPlug)
         /\ WillWrite' <=> WillWrite \/ (sets /\ op = "setWriteable" /\ x = FPlug)
<1> DEFINE h == Set(op, x, TRUE)
<1>1. h \in Frames /\ h.op = op /\ h.plug = x /\ h.val = TRUE
  <2>1. op \in Ops
    BY DEF Ops
  <2> QED
    BY <2>1, SetIs
<1>2. stack' = IF sets THEN <<h>> ELSE <<>>
  BY DEF If
<1> HIDE DEF h
<1>3. CASE sets
  <2>1. /\ stack' \in Seq(Frames) /\ stack' # <<>> /\ Head(stack') = h /\ Tail(stack') = <<>>
    <3>1. <<h>> \in Seq(Frames) /\ <<h>> # <<>> /\ Head(<<h>>) = h /\ Tail(<<h>>) = <<>>
      BY <1>1
    <3> QED
      BY <1>2, <1>3, <3>1
  <2>2. Setting(stack')
    BY <1>1, <2>1, QuietEmpty DEF Setting
  <2>3. Carried(<<>>) = 0 /\ Carried(<<>>) \in Nat /\ Head(stack').op \notin {"i_Write", "return"}
    BY <1>1, <2>1 DEF Carried, Starts
  <2>4. Flight(stack', ret') = 0
    <3>1. \A c : Flight(stack', c) = Carried(Tail(stack'))
      BY <2>1, <2>3, FlightUnder
    <3> QED
      BY <2>1, <2>3, <3>1
  <2>5. StackOK' /\ PlugsOK'
    BY <2>1, <2>2, OtherSame DEF StackOK, Shaped
  <2> QED
    BY <1>1, <1>3, <2>1, <2>4, <2>5, AtIdle DEF WillRead, WillWrite, WillBe, Starts
<1>4. CASE ~sets
  <2>1. stack' = <<>>
    BY <1>2, <1>4
  <2>2. /\ Shaped(stack', canread', canwrite', ret') /\ Flight(stack', ret') = 0
        /\ WillBe("setReadable", stack', canread') <=> FPlug \in canread'
        /\ WillBe("setWriteable", stack', canwrite') <=> FPlug \in canwrite'
    BY <2>1, QuietEmpty, AtRest
  <2>3. StackOK' /\ PlugsOK'
    BY <2>1, <2>2, QuietEmpty, OtherSame DEF StackOK
  <2> QED
    BY <1>4, <2>2, <2>3, AtIdle DEF WillRead, WillWrite
<1> QED
  BY <1>3, <1>4

-----------------------------------------------------------------------------
(* The poll and the queue.                                                 *)

LEMMA PolledMore ==
  ASSUME NEW cond, NEW ch, NEW reg, NEW q \in Seq(Posted), NEW open,
         NEW t \in Seq(Posted), cond \notin ToSet(t), Polled(cond, ch, reg, q, open)
  PROVE  Polled(cond, ch, reg, q \o t, open)
<1>1. ToSet(q \o t) = ToSet(q) \cup ToSet(t)
  BY ConcatElements
<1>2. /\ Len(q \o t) = Len(q) + Len(t) /\ Len(q) \in Nat /\ Len(t) \in Nat
      /\ \A k \in 1..Len(q) : (q \o t)[k] = q[k]
      /\ \A k \in Len(q)+1..Len(q)+Len(t) : (q \o t)[k] = t[k - Len(q)]
  OBVIOUS
<1>3. \A k \in 1..Len(t) : t[k] # cond
  BY DEF ToSet
<1>4. ASSUME NEW k \in 1..Len(q \o t), (q \o t)[k] = cond
      PROVE  k \in 1..Len(q) /\ q[k] = cond
  <2>1. CASE k > Len(q)
    <3>1. k - Len(q) \in 1..Len(t) /\ (q \o t)[k] = t[k - Len(q)]
      BY <1>2, <2>1
    <3> QED
      BY <1>3, <1>4, <3>1
  <2> QED
    BY <1>2, <1>4, <2>1
<1>5. OnceIn(cond, q \o t)
  BY <1>4 DEF OnceIn, Polled
<1> QED
  BY <1>1, <1>5 DEF Polled

LEMMA PolledPop ==
  ASSUME NEW cond, NEW ch, NEW reg, NEW q \in Seq(Posted), NEW open,
         q # <<>>, Polled(cond, ch, reg, q, open)
  PROVE  /\ Head(q) # cond => Polled(cond, ch, reg, Tail(q), open)
         /\ Head(q) = cond => ch /\ Polled(cond, FALSE, reg, Tail(q), open)
<1>1. ToSet(q) = {Head(q)} \cup ToSet(Tail(q))
  BY TailElements
<1>2. /\ Len(q) \in Nat \ {0} /\ Len(Tail(q)) = Len(q) - 1 /\ Head(q) = q[1]
      /\ \A k \in 1..Len(q)-1 : Tail(q)[k] = q[k+1]
  BY PoppedOff
<1>3. OnceIn(cond, Tail(q))
  <2> SUFFICES ASSUME NEW j \in 1..Len(q)-1, NEW k \in 1..Len(q)-1,
                      q[j+1] = cond, q[k+1] = cond
               PROVE  j = k
    BY <1>2 DEF OnceIn
  <2>1. j + 1 \in 1..Len(q) /\ k + 1 \in 1..Len(q)
    BY <1>2
  <2>2. j + 1 = k + 1
    BY <2>1 DEF Polled, OnceIn
  <2> QED
    BY <2>2
<1>4. Head(q) = cond => cond \notin ToSet(Tail(q))
  <2> SUFFICES ASSUME q[1] = cond, NEW k \in 1..Len(q)-1, q[k+1] = cond PROVE FALSE
    BY <1>2 DEF ToSet
  <2>1. 1 \in 1..Len(q) /\ k + 1 \in 1..Len(q)
    BY <1>2
  <2>2. 1 = k + 1
    BY <2>1 DEF Polled, OnceIn
  <2> QED
    BY <2>2
<1> QED
  BY <1>1, <1>3, <1>4 DEF Polled

LEMMA PolledAsk ==
  ASSUME NEW cond, NEW reg, NEW q, NEW open, Polled(cond, FALSE, reg, q, open)
  PROVE  Polled(cond, TRUE, reg \cup {cond}, q, open)
  BY DEF Polled

LEMMA PolledSame ==
  ASSUME NEW cond, NEW ch, NEW reg, NEW q, NEW open, Polled(cond, ch, reg, q, open),
         NEW to, cond \in to <=> cond \in reg
  PROVE  Polled(cond, ch, to, q, open)
  BY DEF Polled

LEMMA PolledClosed ==
  ASSUME NEW cond, NEW ch, NEW reg, NEW q, NEW open, Polled(cond, ch, reg, q, open)
  PROVE  Polled(cond, ch, {}, q, FALSE)
  BY DEF Polled

LEMMA PolledPost ==
  ASSUME NEW cond, NEW ch, NEW reg, NEW q \in Seq(Posted), NEW open, NEW x \in Posted,
         Polled(cond, ch, reg, q, open), x = cond => cond \in reg
  PROVE  Polled(cond, ch, reg \ {x}, Append(q, x), open)
<1>1. ToSet(Append(q, x)) = ToSet(q) \cup {x}
  BY AppendElements
<1>2. /\ Len(Append(q, x)) = Len(q) + 1 /\ Len(q) \in Nat /\ Append(q, x)[Len(q)+1] = x
      /\ \A k \in 1..Len(q) : Append(q, x)[k] = q[k]
  OBVIOUS
<1>3. x = cond => \A k \in 1..Len(q) : q[k] # cond
  BY DEF Polled, ToSet
<1>4. OnceIn(cond, Append(q, x))
  <2> SUFFICES ASSUME NEW j \in 1..Len(q)+1, NEW k \in 1..Len(q)+1,
                      Append(q, x)[j] = cond, Append(q, x)[k] = cond
               PROVE  j = k
    BY <1>2 DEF OnceIn
  <2>1. CASE x = cond
    <3>1. j = Len(q) + 1 /\ k = Len(q) + 1
      BY <1>2, <1>3, <2>1
    <3> QED
      BY <3>1
  <2>2. CASE x # cond
    <3>1. j \in 1..Len(q) /\ k \in 1..Len(q)
      BY <1>2, <2>2
    <3> QED
      BY <1>2, <3>1 DEF Polled, OnceIn
  <2> QED
    BY <2>1, <2>2
<1> QED
  BY <1>1, <1>4 DEF Polled

-----------------------------------------------------------------------------
(* What a read and a write come to.                                        *)

LEMMA ShortLists ==
  /\ ToSet(<<>>) = {}
  /\ \A x : ToSet(<<x>>) = {x}
  /\ \A D : <<>> \in Seq(D) /\ \A x \in D : <<x>> \in Seq(D)
  BY DEF ToSet

LEMMA ReadResultsAre ==
  ASSUME FDOK, NEW res \in ReadResults
  PROVE  /\ res.chunk \in Chunks \cup {None} /\ res.errors \in Seq(ErrTypes)
         /\ res.again \in BOOLEAN /\ res.eof \in BOOLEAN
         /\ res.again => res.chunk = None
         /\ res.chunk = None => \/ res.again \/ ~fdopen \/ HasErrorIn(ReadErrors)
                                \/ "ErrRead" \in ToSet(res.errors)
         /\ arrived - Len0(res.chunk) \in Nat
<1>1. <<>> \in Seq(ErrTypes) /\ <<"ErrRead">> \in Seq(ErrTypes)
      /\ "ErrRead" \in ToSet(<<"ErrRead">>)
  BY ShortLists DEF ErrTypes
<1>2. arrived \in Nat
  BY DEF FDOK
<1>3. Len0(None) = 0 /\ EOFStrChunk \in Chunks /\ Len0(EOFStrChunk) = 0
  <2>1. EOFStrChunk \in Chunks /\ EOFStrChunk.len = 0
    BY DEF EOFStrChunk, Chunks
  <2> QED
    BY <2>1 DEF Len0
<1>4. CASE res = ReadOf(None, <<>>) /\ (~fdopen \/ HasErrorIn(ReadErrors))
  BY <1>1, <1>2, <1>3, <1>4 DEF ReadOf
<1>5. CASE res = ReadOf(None, <<"ErrRead">>)
  BY <1>1, <1>2, <1>3, <1>5 DEF ReadOf
<1>6. CASE res = [ReadOf(None, <<>>) EXCEPT !.again = TRUE]
  BY <1>1, <1>2, <1>3, <1>6 DEF ReadOf
<1>7. CASE res = [ReadOf(IF ChunkEOF THEN EOFStrChunk ELSE None, <<"ErrRead">>)
                    EXCEPT !.eof = TRUE]
  BY <1>1, <1>2, <1>3, <1>7 DEF ReadOf
<1>8. CASE \E n \in 1..MaxBlock : n <= arrived /\ res = ReadOf(Chunk(n), <<>>)
  <2>1. PICK n \in 1..MaxBlock : n <= arrived /\ res = ReadOf(Chunk(n), <<>>)
    BY <1>8
  <2>2. n \in Nat /\ arrived - n \in Nat
    BY <1>2, <2>1, FDConstants
  <2>3. Chunk(n) \in Chunks /\ Chunk(n).len = n
    BY <2>2 DEF Chunk, Chunks
  <2>4. Chunk(n) # None /\ Len0(Chunk(n)) = n
    BY <2>3, FDConstants DEF Len0, Chunks
  <2> QED
    BY <1>1, <2>1, <2>2, <2>3, <2>4 DEF ReadOf
<1> QED
  BY <1>4, <1>5, <1>6, <1>7, <1>8 DEF ReadResults

LEMMA WriteResultsAre ==
  ASSUME FDOK, NEW chunk \in Chunks, NEW res \in WriteResults(chunk)
  PROVE  /\ res.chunk \in {chunk, None} /\ res.left \in Nat /\ res.errors \in Seq(ErrTypes)
         /\ res.again \in BOOLEAN /\ res.closes \in BOOLEAN
         /\ ~fdopen => /\ res.chunk = chunk /\ res.left = left
                       /\ ~res.again /\ ~res.closes
         /\ res.chunk = None => res.left = 0 /\ ~res.again /\ ~res.closes /\ ~chunk.eof
         /\ res.closes \/ chunk.eof => ~res.again /\ chunk.eof /\ res.chunk = chunk
         /\ fdopen /\ chunk.eof => res.left \in {0, left}
         /\ fdopen /\ res.chunk # None /\ ~chunk.eof
              => res.left > 0 /\ (res.again \/ "ErrWrite" \in ToSet(res.errors))
<1>1. /\ <<>> \in Seq(ErrTypes) /\ <<"ErrWrite">> \in Seq(ErrTypes)
      /\ "ErrWrite" \in ToSet(<<"ErrWrite">>)
  BY ShortLists DEF ErrTypes
<1> DEFINE all == <<"ErrWrite", "ErrFatal", "ErrRead">>
<1>2. all \in Seq(ErrTypes)
  BY DEF ErrTypes
<1>3. left \in Nat /\ chunk.len \in Nat /\ chunk.eof \in BOOLEAN /\ chunk # None
  BY FDConstants DEF FDOK, Chunks
<1>4. BytesLeft(chunk) \in Nat
  BY <1>3 DEF BytesLeft
<1>5. CASE ~fdopen \/ (chunk.eof /\ eofwritten)
  <2>1. res = WriteOf(chunk, left, <<>>)
    BY <1>5 DEF WriteResults
  <2> QED
    BY <1>1, <1>3, <1>5, <2>1 DEF WriteOf
<1>6. CASE fdopen /\ chunk.eof /\ ~eofwritten
  <2>1. res = WriteEOF(chunk)
    BY <1>6 DEF WriteResults
  <2>2. \/ res = WriteOf(chunk, 0, <<"ErrWrite">>)
        \/ res = [WriteOf(chunk, 0, all) EXCEPT !.closes = TRUE]
    BY <2>1 DEF WriteEOF
  <2> HIDE DEF all
  <2>3. CASE res = WriteOf(chunk, 0, <<"ErrWrite">>)
    BY <1>1, <1>3, <1>6, <2>3 DEF WriteOf
  <2>4. CASE res = [WriteOf(chunk, 0, all) EXCEPT !.closes = TRUE]
    BY <1>2, <1>3, <1>6, <2>4 DEF WriteOf
  <2> QED
    BY <2>2, <2>3, <2>4
<1>7. CASE fdopen /\ ~chunk.eof
  <2>1. CASE res = WriteOf(None, 0, <<>>)
    BY <1>1, <1>3, <1>7, <2>1 DEF WriteOf
  <2>2. CASE \E n \in 1..BytesLeft(chunk) : res = [WriteOf(chunk, n, <<>>) EXCEPT !.again = TRUE]
    BY <1>1, <1>3, <1>4, <1>7, <2>2 DEF WriteOf
  <2>3. CASE \E n \in 1..BytesLeft(chunk) : res = WriteOf(chunk, n, <<"ErrWrite">>)
    BY <1>1, <1>3, <1>4, <1>7, <2>3 DEF WriteOf
  <2> QED
    BY <1>7, <2>1, <2>2, <2>3 DEF WriteResults
<1> QED
  BY <1>3, <1>5, <1>6, <1>7 DEF FDOK

LEMMA MoreQueue ==
  ASSUME NEW q \in Seq(Posted), NEW list \in Seq(ErrTypes),
         NEW more \in {<<>>, <<"resumeread">>, <<"resumewrite">>}
  PROVE  /\ q \o Told(list) \o more \in Seq(Posted)
         /\ ToSet(q) \cup ToSet(more) \subseteq ToSet(q \o Told(list) \o more)
         /\ \A cond \in {"read", "write"} : \A ch, reg, open :
              Polled(cond, ch, reg, q, open)
                => Polled(cond, ch, reg, q \o Told(list) \o more, open)
<1> DEFINE t == Told(list)
<1>1. t \in Seq(ErrTypes) /\ t \in Seq(Posted) /\ ToSet(t) \subseteq ErrTypes
  <2>1. t \in Seq(ErrTypes)
    BY OnlyElements DEF Told
  <2>2. ErrTypes \subseteq Posted
    BY DEF Posted
  <2> HIDE DEF t
  <2>3. t \in Seq(Posted)
    BY <2>1, <2>2
  <2> QED
    BY <2>1, <2>3, ListElements
<1>2. more \in Seq(Posted) /\ ToSet(more) \subseteq {"resumeread", "resumewrite"}
  <2>1. "resumeread" \in Posted /\ "resumewrite" \in Posted
    BY DEF Posted
  <2> QED
    BY <2>1, ShortLists
<1> HIDE DEF t
<1>3. /\ q \o t \in Seq(Posted) /\ ToSet(q \o t) = ToSet(q) \cup ToSet(t)
      /\ (q \o t) \o more \in Seq(Posted)
      /\ ToSet((q \o t) \o more) = ToSet(q \o t) \cup ToSet(more)
  <2>1. q \o t \in Seq(Posted) /\ ToSet(q \o t) = ToSet(q) \cup ToSet(t)
    BY <1>1, ConcatElements
  <2> DEFINE u == q \o t
  <2> HIDE DEF u
  <2>2. u \in Seq(Posted)
    BY <2>1 DEF u
  <2>3. u \o more \in Seq(Posted) /\ ToSet(u \o more) = ToSet(u) \cup ToSet(more)
    BY <1>2, <2>2, ConcatElements
  <2> QED
    BY <2>1, <2>3 DEF u
<1>4. ASSUME NEW cond \in {"read", "write"}, NEW ch, NEW reg, NEW open,
             Polled(cond, ch, reg, q, open)
      PROVE  Polled(cond, ch, reg, (q \o t) \o more, open)
  <2>1. cond \notin ToSet(t) /\ cond \notin ToSet(more)
    BY <1>1, <1>2 DEF ErrTypes
  <2>2. Polled(cond, ch, reg, q \o t, open)
    BY <1>1, <1>4, <2>1, PolledMore
  <2> QED
    BY <1>2, <1>3, <2>1, <2>2, PolledMore
<1> QED
  BY <1>3, <1>4 DEF t

\* A read that is not waited for by the poll, or has just been.
LEMMA DoRead ==
  ASSUME FDOK, NEW res \in ReadResults, DoReadFD(res, FALSE),
         NEW q \in Seq(Posted), NEW more \in {<<>>, <<"resumeread">>, <<"resumewrite">>},
         queue' = q \o Told(res.errors) \o more,
         Polled("read", FALSE, registered, q, fdopen),
         Polled("write", checkingwr, registered, q, fdopen), WritePoll,
         UNCHANGED <<writes, delivered, written>>
  PROVE  /\ FDOK' /\ ReadPoll' /\ WritePoll'
         /\ used \subseteq used' /\ buffed_read' = res.chunk
         /\ taken' = taken + Len0(buffed_read')
         /\ ToSet(q) \cup ToSet(more) \subseteq ToSet(queue')
<1>1. /\ res.chunk \in Chunks \cup {None} /\ res.errors \in Seq(ErrTypes)
      /\ res.again \in BOOLEAN /\ res.eof \in BOOLEAN
      /\ res.again => res.chunk = None
      /\ res.chunk = None => \/ res.again \/ ~fdopen \/ HasErrorIn(ReadErrors)
                             \/ "ErrRead" \in ToSet(res.errors)
      /\ arrived - Len0(res.chunk) \in Nat
  BY ReadResultsAre
<1>2. /\ queue' \in Seq(Posted) /\ ToSet(q) \cup ToSet(more) \subseteq ToSet(queue')
      /\ Polled("read", FALSE, registered, queue', fdopen)
      /\ Polled("write", checkingwr, registered, queue', fdopen)
  BY <1>1, MoreQueue
<1>3. /\ buffed_read' = res.chunk /\ taken' = taken + Len0(res.chunk)
      /\ arrived' = arrived - Len0(res.chunk)
      /\ used' = used \cup ToSet(res.errors)
      /\ readeof' = IF res.errors = <<>> THEN readeof ELSE res.eof
      /\ checkingrd' = res.again /\ checkingwr' = checkingwr
      /\ registered' = IF res.again THEN registered \cup {"read"} ELSE registered
      /\ alive' = alive /\ fdopen' = fdopen /\ eofwritten' = eofwritten
      /\ cur_write' = cur_write /\ left' = left /\ accepted' = accepted
      /\ delivered' = delivered /\ written' = written
  BY <1>1 DEF DoReadFD, SetErrorIn, AsksPoll, life, writes
<1>4. ToSet(res.errors) \subseteq ErrTypes
  BY <1>1, ListElements
<1>5. Len0(res.chunk) \in Int
  BY <1>1 DEF Len0, Chunks
<1>6. FDOK'
  BY <1>1, <1>2, <1>3, <1>4, <1>5 DEF FDOK, Conditions
<1>7. ReadPoll'
  <2>1. Polled("read", checkingrd', registered', queue', fdopen')
    <3>1. CASE res.again
      <4>1. checkingrd' = TRUE /\ registered' = registered \cup {"read"} /\ fdopen' = fdopen
        BY <1>1, <1>3, <3>1
      <4> QED
        BY <1>2, <4>1, PolledAsk
    <3>2. CASE ~res.again
      <4>1. checkingrd' = FALSE /\ registered' = registered /\ fdopen' = fdopen
        BY <1>1, <1>3, <3>2
      <4> QED
        BY <1>2, <4>1
    <3> QED
      BY <3>1, <3>2
  <2>2. HasErrorIn(ReadErrors) \/ "ErrRead" \in ToSet(res.errors) => HasErrorIn(ReadErrors)'
    BY <1>3 DEF HasErrorIn, ReadErrors
  <2> QED
    BY <1>1, <1>3, <2>1, <2>2 DEF ReadPoll
<1>8. WritePoll'
  <2>1. "write" \in registered' <=> "write" \in registered
    BY <1>3
  <2>2. Polled("write", checkingwr', registered', queue', fdopen')
    BY <1>2, <1>3, <2>1, PolledSame
  <2>3. HasErrorIn(WriteErrors) => HasErrorIn(WriteErrors)'
    BY <1>3 DEF HasErrorIn
  <2> QED
    BY <1>3, <2>2, <2>3 DEF WritePoll
<1> QED
  BY <1>2, <1>3, <1>6, <1>7, <1>8

LEMMA DoWrite ==
  ASSUME FDOK, NEW chunk \in Chunks, NEW res \in WriteResults(chunk),
         DoWriteFD(chunk, res, FALSE),
         NEW q \in Seq(Posted), NEW more \in {<<>>, <<"resumeread">>, <<"resumewrite">>},
         queue' = q \o Told(res.errors) \o more,
         Polled("write", FALSE, registered, q, fdopen),
         Polled("read", checkingrd, registered, q, fdopen), ReadPoll,
         UNCHANGED <<reads, delivered>>, written' \in Int
  PROVE  /\ FDOK' /\ ReadPoll' /\ WritePoll'
         /\ cur_write' = res.chunk /\ alive' = alive /\ (fdopen' => fdopen)
         /\ ToSet(q) \cup ToSet(more) \subseteq ToSet(queue')
         /\ HasErrorIn(WriteErrors) => HasErrorIn(WriteErrors)'
         /\ accepted' + left' = accepted + (IF fdopen THEN BytesLeft(chunk) ELSE left)
         /\ fdopen' \/ (cur_write' # None /\ cur_write'.eof) \/ (~fdopen /\ cur_write' = chunk)
         /\ fdopen => IF cur_write' # None /\ ~cur_write'.eof THEN left' > 0
                      ELSE left' \in {0, left} /\ (cur_write' = None => left' = 0)
         /\ ~fdopen => left' = left /\ cur_write' = chunk
<1>1. /\ res.chunk \in {chunk, None} /\ res.left \in Nat /\ res.errors \in Seq(ErrTypes)
      /\ res.again \in BOOLEAN /\ res.closes \in BOOLEAN
      /\ ~fdopen => /\ res.chunk = chunk /\ res.left = left
                    /\ ~res.again /\ ~res.closes
      /\ res.chunk = None => res.left = 0 /\ ~res.again /\ ~res.closes /\ ~chunk.eof
      /\ res.closes \/ chunk.eof => ~res.again /\ chunk.eof /\ res.chunk = chunk
      /\ fdopen /\ chunk.eof => res.left \in {0, left}
      /\ fdopen /\ res.chunk # None /\ ~chunk.eof
           => res.left > 0 /\ (res.again \/ "ErrWrite" \in ToSet(res.errors))
  BY WriteResultsAre
<1>2. chunk.len \in Nat /\ chunk.eof \in BOOLEAN /\ chunk # None
  BY FDConstants DEF Chunks
<1>3. /\ queue' \in Seq(Posted) /\ ToSet(q) \cup ToSet(more) \subseteq ToSet(queue')
      /\ Polled("write", FALSE, registered, queue', fdopen)
      /\ Polled("read", checkingrd, registered, queue', fdopen)
  BY <1>1, MoreQueue
<1>4. /\ cur_write' = res.chunk /\ left' = res.left
      /\ accepted' = accepted + (IF fdopen THEN BytesLeft(chunk) - res.left ELSE 0)
      /\ used' = used \cup ToSet(res.errors)
      /\ readeof' = (readeof /\ ~res.closes)
      /\ checkingwr' = res.again /\ checkingrd' = checkingrd
      /\ registered' = IF res.closes THEN {}
                       ELSE IF res.again THEN registered \cup {"write"} ELSE registered
      /\ fdopen' = (fdopen /\ ~res.closes) /\ alive' = alive
      /\ eofwritten' = (eofwritten \/ (chunk.eof /\ fdopen))
      /\ buffed_read' = buffed_read /\ arrived' = arrived /\ taken' = taken
      /\ delivered' = delivered
  BY <1>1 DEF DoWriteFD, SetErrorIn, reads
<1>5. BytesLeft(chunk) \in Nat /\ left \in Nat /\ accepted \in Int /\ fdopen \in BOOLEAN
  BY <1>2 DEF BytesLeft, FDOK
<1>6. ToSet(res.errors) \subseteq ErrTypes
  BY <1>1, ListElements
<1>7. FDOK'
  <2>1. accepted' \in Int
    BY <1>1, <1>4, <1>5
  <2>2. cur_write' \in Chunks \cup {None}
    BY <1>1, <1>4
  <2>3. registered' \subseteq Conditions
    BY <1>4 DEF FDOK, Conditions
  <2> QED
    BY <1>1, <1>2, <1>3, <1>4, <1>6, <2>1, <2>2, <2>3 DEF FDOK
<1>8. accepted' + left' = accepted + (IF fdopen THEN BytesLeft(chunk) ELSE left)
  BY <1>1, <1>4, <1>5
<1>9. WritePoll'
  <2>1. Polled("write", checkingwr', registered', queue', fdopen')
    <3>1. CASE res.closes
      <4>1. checkingwr' = FALSE /\ registered' = {} /\ fdopen' = FALSE
        BY <1>1, <1>4, <3>1
      <4> QED
        BY <1>3, <4>1, PolledClosed
    <3>2. CASE ~res.closes /\ res.again
      <4>1. checkingwr' = TRUE /\ registered' = registered \cup {"write"} /\ fdopen' = fdopen
        BY <1>1, <1>4, <1>5, <3>2
      <4> QED
        BY <1>3, <4>1, PolledAsk
    <3>3. CASE ~res.closes /\ ~res.again
      <4>1. checkingwr' = FALSE /\ registered' = registered /\ fdopen' = fdopen
        BY <1>1, <1>4, <1>5, <3>3
      <4> QED
        BY <1>3, <4>1
    <3> QED
      BY <3>1, <3>2, <3>3
  <2>2. "ErrWrite" \in ToSet(res.errors) => HasErrorIn(WriteErrors)'
    BY <1>4 DEF HasErrorIn, WriteErrors
  <2>3. checkingwr' => cur_write' # None
    BY <1>1, <1>2, <1>4
  <2>4. fdopen' /\ cur_write' # None /\ ~cur_write'.eof /\ ~HasErrorIn(WriteErrors)'
          => checkingwr'
    BY <1>1, <1>4, <2>2
  <2> QED
    BY <2>1, <2>3, <2>4 DEF WritePoll
<1>10. ReadPoll'
  <2>1. Polled("read", checkingrd', registered', queue', fdopen')
    <3>1. CASE res.closes
      <4>1. checkingrd' = checkingrd /\ registered' = {} /\ fdopen' = FALSE
        BY <1>1, <1>4, <3>1
      <4> QED
        BY <1>3, <4>1, PolledClosed
    <3>2. CASE ~res.closes
      <4>1. /\ checkingrd' = checkingrd /\ fdopen' = fdopen
            /\ "read" \in registered' <=> "read" \in registered
        BY <1>1, <1>4, <1>5, <3>2
      <4> QED
        BY <1>3, <4>1, PolledSame
    <3> QED
      BY <3>1, <3>2
  <2>2. HasErrorIn(ReadErrors) => HasErrorIn(ReadErrors)'
    BY <1>4 DEF HasErrorIn
  <2> QED
    BY <1>4, <2>1, <2>2 DEF ReadPoll
<1>11. HasErrorIn(WriteErrors) => HasErrorIn(WriteErrors)'
  BY <1>4 DEF HasErrorIn
<1>12. fdopen' \/ (cur_write' # None /\ cur_write'.eof) \/ (~fdopen /\ cur_write' = chunk)
  BY <1>1, <1>2, <1>4, <1>5
<1>13. fdopen => IF cur_write' # None /\ ~cur_write'.eof THEN left' > 0
                 ELSE left' \in {0, left} /\ (cur_write' = None => left' = 0)
  BY <1>1, <1>2, <1>4
<1>14. ~fdopen => left' = left /\ cur_write' = chunk
  BY <1>1, <1>4
<1> QED
  BY <1>3, <1>4, <1>5, <1>7, <1>8, <1>9, <1>10, <1>11, <1>12, <1>13, <1>14

-----------------------------------------------------------------------------
(* The invariant is preserved, one action at a time.                       *)

LEMMA InitInv == Init => IInv
<1> SUFFICES ASSUME Init PROVE IInv
  OBVIOUS
<1>1. /\ other = [p \in Plugs |-> None] /\ stack = <<>> /\ ret = None
      /\ canread = {} /\ canwrite = {FPlug, End}
      /\ alive = TRUE /\ fdopen = TRUE /\ eofwritten = FALSE
      /\ used = {} /\ readeof = FALSE /\ checkingrd = TRUE /\ checkingwr = FALSE
      /\ registered = {"error", "read"} /\ queue = <<>>
      /\ buffed_read = None /\ arrived = 0 /\ taken = 0
      /\ cur_write = None /\ left = 0 /\ accepted = 0 /\ delivered = 0 /\ written = 0
  BY DEF Init, PlugInit
<1>2. Idle
  BY <1>1 DEF Idle
<1>3. Quiet(stack) /\ stack \in Seq(Frames)
  BY <1>1, QuietEmpty
<1>4. PlugsOK
  BY <1>1, <1>3, PlugConstants DEF PlugsOK
<1>5. queue \in Seq(Posted) /\ ToSet(queue) = {}
  BY <1>1, ShortLists
<1>6. FDOK
  <2>1. registered \subseteq Conditions /\ used \subseteq ErrTypes
    BY <1>1 DEF Conditions
  <2>2. /\ alive \in BOOLEAN /\ fdopen \in BOOLEAN /\ (fdopen => alive)
        /\ eofwritten \in BOOLEAN /\ readeof \in BOOLEAN
        /\ checkingrd \in BOOLEAN /\ checkingwr \in BOOLEAN
    BY <1>1
  <2>3. buffed_read \in Chunks \cup {None} /\ cur_write \in Chunks \cup {None}
    BY <1>1
  <2>4. /\ left \in Nat /\ arrived \in Nat
        /\ taken \in Int /\ delivered \in Int /\ accepted \in Int /\ written \in Int
    BY <1>1
  <2> QED
    BY <1>5, <2>1, <2>2, <2>3, <2>4 DEF FDOK
<1>7. StackOK /\ Flight(stack, ret) = 0
  BY <1>3, AtRest DEF StackOK
<1>8. OnceIn("read", queue) /\ OnceIn("write", queue)
  BY <1>1 DEF OnceIn
<1>9. ReadPoll /\ WritePoll
  BY <1>1, <1>5, <1>8 DEF ReadPoll, WritePoll, Polled
<1>10. ReadAhead /\ WriteAhead
  BY <1>1, <1>2, AtIdle, FDConstants DEF ReadAhead, WriteAhead
<1>11. Partial
  BY <1>1 DEF Partial
<1>12. BytesIn
  BY <1>1, <1>7 DEF BytesIn, Len0
<1> QED
  BY <1>4, <1>6, <1>7, <1>9, <1>10, <1>11, <1>12 DEF IInv, TypeOK

\* A step of the plugs, or of the world, that leaves alone what the module keeps.
LEMMA SameInv ==
  ASSUME IInv, EngineOK, arrived' \in Nat,
         UNCHANGED <<alive, fdopen, eofwritten, used, readeof, checkingrd, checkingwr,
                     registered, queue, buffed_read, taken, cur_write, left, accepted,
                     delivered, written>>
  PROVE  IInv'
<1>1. /\ alive' = alive /\ fdopen' = fdopen /\ eofwritten' = eofwritten
      /\ used' = used /\ readeof' = readeof
      /\ checkingrd' = checkingrd /\ checkingwr' = checkingwr
      /\ registered' = registered /\ queue' = queue
      /\ buffed_read' = buffed_read /\ taken' = taken
      /\ cur_write' = cur_write /\ left' = left /\ accepted' = accepted
      /\ delivered' = delivered /\ written' = written
  OBVIOUS
<1>2. FDOK' /\ (alive => Partial)'
  BY <1>1 DEF IInv, TypeOK, FDOK, Partial
<1>3. ReadPoll' /\ WritePoll'
  BY <1>1 DEF IInv, ReadPoll, WritePoll, HasErrorIn
<1>4. ReadAhead' /\ WriteAhead'
  BY <1>1 DEF IInv, ReadAhead, WriteAhead, HasErrorIn, EngineOK, SameFlow
<1>5. BytesIn'
  BY <1>1 DEF IInv, BytesIn, EngineOK, SameFlow
<1> QED
  BY <1>2, <1>3, <1>4, <1>5 DEF IInv, TypeOK, EngineOK

LEMMA EngineInv ==
  ASSUME IInv, (Engine \/ Disconnected) /\ UNCHANGED fdvars
  PROVE  IInv'
<1>1. EngineOK
  BY EngineStep DEF IInv, TypeOK
<1>2. arrived' \in Nat
  BY DEF fdvars, reads, IInv, TypeOK, FDOK
<1> QED
  BY <1>1, <1>2, SameInv DEF fdvars, life, errs, watch, reads, writes, far

LEMMA PlugReadInv ==
  ASSUME IInv, PlugRead
  PROVE  IInv'
<1>1. PICK res \in ReadResults :
        /\ DoReadFD(res, checkingrd)
        /\ queue' = queue \o Told(res.errors) \o ResumesRead(since_read')
        /\ Calls(If(res.chunk = None \/ since_read' >= MaxBytes,
                    <<Set("setReadable", FPlug, FALSE)>>)
                 \o <<Set("return", FPlug, buffed_read)>>)
  BY DEF PlugRead
<1> DEFINE stop == res.chunk = None \/ since_read' >= MaxBytes
           more == ResumesRead(since_read')
<1>2. /\ Running("i_Read") /\ Top.plug = FPlug /\ other' = other /\ canread' = canread
      /\ canwrite' = canwrite /\ cur_write' = cur_write /\ left' = left
      /\ accepted' = accepted /\ delivered' = delivered /\ written' = written
      /\ UNCHANGED <<writes, delivered, written>>
  BY DEF PlugRead, flags, writes
<1>3. ~Idle /\ PlugsOK /\ StackOK /\ FDOK
  BY <1>2 DEF Running, IInv, TypeOK
<1>4. FPlug \in canread /\ (WillRead <=> FPlug \in canread)
  <2>1. stack \in Seq(Frames) /\ stack # <<>> /\ Head(stack).op = "i_Read"
    BY <1>2, <1>3 DEF PlugsOK, Idle, Running
  <2>2. Reading(stack, canread, canwrite)
    BY <1>3, <2>1, TopSays DEF StackOK
  <2> QED
    BY <1>2, <2>1, <2>2 DEF Reading, WillRead, WillBe, Starts, Top
<1>5. buffed_read \in Chunks /\ checkingrd = FALSE
  BY <1>3, <1>4 DEF IInv, ReadAhead, ReadPoll, FDOK
<1>6. stop \in BOOLEAN /\ more \in {<<>>, <<"resumeread">>, <<"resumewrite">>}
      /\ (~stop => res.chunk # None) /\ (stop /\ res.chunk # None => more = <<"resumeread">>)
  BY DEF ResumesRead, If
<1>7. /\ PlugsOK' /\ StackOK'
      /\ WillRead' <=> FPlug \in canread /\ ~stop
      /\ WillWrite' <=> WillWrite
      /\ Flight(stack, ret) = 0 /\ Flight(stack, ret)' = buffed_read.len
  <2> HIDE DEF stop
  <2>1. Calls(If(stop, <<Set("setReadable", Top.plug, FALSE)>>)
              \o <<Set("return", Top.plug, buffed_read)>>)
    BY <1>1, <1>2 DEF stop
  <2> QED
    BY <1>2, <1>3, <1>5, <1>6, <2>1, ReturnStep
<1>8. /\ FDOK' /\ ReadPoll' /\ WritePoll'
      /\ used \subseteq used' /\ buffed_read' = res.chunk
      /\ taken' = taken + Len0(buffed_read')
      /\ ToSet(queue) \cup ToSet(more) \subseteq ToSet(queue')
  <2>1. /\ Polled("read", FALSE, registered, queue, fdopen)
        /\ Polled("write", checkingwr, registered, queue, fdopen)
        /\ WritePoll /\ queue \in Seq(Posted)
    BY <1>3, <1>5 DEF IInv, ReadPoll, WritePoll, FDOK
  <2>2. DoReadFD(res, FALSE) /\ queue' = queue \o Told(res.errors) \o more
    BY <1>1, <1>5
  <2> HIDE DEF more
  <2> QED
    BY <1>2, <1>3, <1>6, <2>1, <2>2, DoRead
<1>9. alive' = alive /\ fdopen' = fdopen
  BY <1>1 DEF DoReadFD, life
<1>10. ReadAhead'
  <2>1. stop /\ res.chunk # None => "resumeread" \in ToSet(queue')
    BY <1>6, <1>8, ShortLists
  <2> HIDE DEF stop
  <2> QED
    BY <1>4, <1>6, <1>7, <1>8, <2>1 DEF ReadAhead
<1>11. WriteAhead'
  <2>1. HasErrorIn(WriteErrors) => HasErrorIn(WriteErrors)'
    BY <1>8 DEF HasErrorIn
  <2> QED
    BY <1>2, <1>7, <1>8, <1>9, <2>1 DEF IInv, WriteAhead
<1>12. (alive => Partial)'
  BY <1>2, <1>9 DEF IInv, Partial
<1>13. BytesIn'
  <2>1. taken = delivered + buffed_read.len /\ buffed_read.len \in Nat
    <3>1. Len0(buffed_read) = buffed_read.len /\ buffed_read.len \in Nat
      BY <1>5, FDConstants DEF Len0, Chunks
    <3> QED
      BY <1>3, <1>7, <3>1 DEF IInv, BytesIn, FDOK
  <2>2. Len0(buffed_read') \in Nat
    BY <1>8 DEF FDOK, Len0, Chunks
  <2> QED
    BY <1>2, <1>3, <1>7, <1>8, <2>1, <2>2 DEF BytesIn, FDOK
<1> QED
  BY <1>7, <1>8, <1>10, <1>11, <1>12, <1>13 DEF IInv, TypeOK

LEMMA PlugWriteInv ==
  ASSUME IInv, PlugWrite
  PROVE  IInv'
<1>1. PICK res \in WriteResults(ret) :
        /\ DoWriteFD(ret, res, checkingwr)
        /\ queue' = queue \o Told(res.errors) \o ResumesWrite(since_write')
        /\ Calls(If(res.chunk # None \/ since_write' > MaxBytes,
                    <<Set("setWriteable", FPlug, FALSE)>>)
                 \o <<Frame("written", FPlug)>>)
  BY DEF PlugWrite
<1> DEFINE stop == res.chunk # None \/ since_write' > MaxBytes
           more == ResumesWrite(since_write')
<1>2. /\ Running("i_Write") /\ Top.plug = FPlug /\ other' = other /\ canread' = canread
      /\ canwrite' = canwrite /\ written' = written + ret.len
      /\ buffed_read' = buffed_read /\ taken' = taken /\ delivered' = delivered
      /\ UNCHANGED <<reads, delivered>>
  BY DEF PlugWrite, flags, reads
<1>3. PlugsOK /\ StackOK /\ FDOK
  BY DEF IInv, TypeOK
<1>4. stop \in BOOLEAN /\ more \in {<<>>, <<"resumeread">>, <<"resumewrite">>}
      /\ (~stop => res.chunk = None)
      /\ (stop /\ res.chunk = None => more = <<"resumewrite">>)
  BY DEF ResumesWrite, If
<1>5. /\ PlugsOK' /\ StackOK' /\ ret \in Chunks /\ FPlug \in canwrite
      /\ WillWrite <=> FPlug \in canwrite
      /\ WillWrite' <=> FPlug \in canwrite /\ ~stop
      /\ WillRead' <=> WillRead
      /\ Flight(stack, ret) = 0 /\ Flight(stack, ret)' = 0
  <2> HIDE DEF stop
  <2>1. Calls(If(stop, <<Set("setWriteable", Top.plug, FALSE)>>)
              \o <<Frame("written", Top.plug)>>)
    BY <1>1, <1>2 DEF stop
  <2>2. FPlug # End
    BY FDConstants
  <2> QED
    BY <1>2, <1>3, <1>4, <2>1, <2>2, WrittenStep
<1>6. cur_write = None /\ checkingwr = FALSE
  BY <1>3, <1>5 DEF IInv, WriteAhead, WritePoll, FDOK
<1>7. ret.len \in Nat /\ ret.eof \in BOOLEAN /\ written' \in Int
  BY <1>2, <1>3, <1>5 DEF Chunks, FDOK
<1>8. /\ FDOK' /\ ReadPoll' /\ WritePoll'
      /\ cur_write' = res.chunk /\ alive' = alive /\ (fdopen' => fdopen)
      /\ ToSet(queue) \cup ToSet(more) \subseteq ToSet(queue')
      /\ HasErrorIn(WriteErrors) => HasErrorIn(WriteErrors)'
      /\ accepted' + left' = accepted + (IF fdopen THEN BytesLeft(ret) ELSE left)
      /\ fdopen' \/ (cur_write' # None /\ cur_write'.eof) \/ (~fdopen /\ cur_write' = ret)
      /\ fdopen => IF cur_write' # None /\ ~cur_write'.eof THEN left' > 0
                   ELSE left' \in {0, left} /\ (cur_write' = None => left' = 0)
      /\ ~fdopen => left' = left /\ cur_write' = ret
  <2>1. /\ Polled("write", FALSE, registered, queue, fdopen)
        /\ Polled("read", checkingrd, registered, queue, fdopen)
        /\ ReadPoll /\ queue \in Seq(Posted)
    BY <1>3, <1>6 DEF IInv, ReadPoll, WritePoll, FDOK
  <2>2. DoWriteFD(ret, res, FALSE) /\ queue' = queue \o Told(res.errors) \o more
    BY <1>1, <1>6
  <2> HIDE DEF more
  <2> QED
    BY <1>2, <1>3, <1>4, <1>5, <1>7, <2>1, <2>2, DoWrite
<1>9. ReadAhead'
  BY <1>2, <1>5, <1>8 DEF IInv, ReadAhead
<1>10. WriteAhead'
  <2>1. stop /\ res.chunk = None => "resumewrite" \in ToSet(queue')
    BY <1>4, <1>8, ShortLists
  <2> HIDE DEF stop
  <2> QED
    BY <1>4, <1>5, <1>8, <2>1 DEF WriteAhead
<1>11. (alive => Partial)'
  <2> SUFFICES ASSUME alive PROVE Partial'
    BY <1>8
  <2>1. fdopen /\ left = 0 /\ written = accepted + left
    BY <1>3, <1>6 DEF IInv, Partial, FDOK
  <2>2. BytesLeft(ret) = ret.len
    BY <2>1 DEF BytesLeft
  <2>3. left' \in Nat /\ accepted' \in Int
    BY <1>8 DEF FDOK
  <2>4. written' = accepted' + left'
    BY <1>2, <1>3, <1>7, <1>8, <2>1, <2>2 DEF FDOK
  <2>5. left' > 0 <=> cur_write' # None /\ ~cur_write'.eof
    BY <1>8, <2>1, <2>3
  <2>6. fdopen' \/ (cur_write' # None /\ cur_write'.eof)
    BY <1>8, <2>1
  <2> QED
    BY <2>4, <2>5, <2>6 DEF Partial
<1>12. BytesIn'
  BY <1>2, <1>5 DEF IInv, BytesIn
<1> QED
  BY <1>5, <1>8, <1>9, <1>10, <1>11, <1>12 DEF IInv, TypeOK

\* End's plug touches nothing of the module's.
LEMMA EndReadInv ==
  ASSUME IInv, EndRead
  PROVE  IInv'
<1>1. PICK chunk \in {Chunk(n) : n \in ChunkSizes} \cup {EOFStrChunk}, more \in BOOLEAN :
        Calls(If(~more, <<Set("setReadable", End, FALSE)>>) \o <<Set("return", End, chunk)>>)
  BY DEF EndRead
<1>2. /\ Running("i_Read") /\ Top.plug = End /\ other' = other /\ canread' = canread
      /\ canwrite' = canwrite
      /\ alive' = alive /\ fdopen' = fdopen /\ eofwritten' = eofwritten
      /\ used' = used /\ readeof' = readeof
      /\ checkingrd' = checkingrd /\ checkingwr' = checkingwr
      /\ registered' = registered /\ queue' = queue
      /\ buffed_read' = buffed_read /\ arrived' = arrived /\ taken' = taken
      /\ cur_write' = cur_write /\ left' = left /\ accepted' = accepted
      /\ delivered' = delivered /\ written' = written
  BY DEF EndRead, flags, life, errs, watch, reads, writes
<1>3. chunk \in Chunks
  <2>1. CASE chunk = EOFStrChunk
    BY <2>1 DEF Chunks, EOFStrChunk
  <2>2. CASE \E n \in ChunkSizes : chunk = Chunk(n)
    <3>1. PICK n \in ChunkSizes : chunk = Chunk(n)
      BY <2>2
    <3>2. n \in Nat
      BY FDConstants
    <3> QED
      BY <3>1, <3>2 DEF Chunk, Chunks
  <2> QED
    BY <2>1, <2>2
<1>4. PlugsOK /\ StackOK /\ FPlug # End
  BY FDConstants DEF IInv, TypeOK
<1>5. /\ PlugsOK' /\ StackOK'
      /\ WillRead <=> FPlug \in canread
      /\ WillRead' <=> FPlug \in canread
      /\ WillWrite' <=> WillWrite
      /\ Flight(stack, ret) = 0 /\ Flight(stack, ret)' = 0
  <2> DEFINE stop == ~more
  <2>1. stop \in BOOLEAN
    OBVIOUS
  <2>2. Calls(If(stop, <<Set("setReadable", Top.plug, FALSE)>>)
              \o <<Set("return", Top.plug, chunk)>>)
    BY <1>1, <1>2
  <2> HIDE DEF stop
  <2> QED
    BY <1>2, <1>3, <1>4, <2>1, <2>2, ReturnStep
<1>6. FDOK' /\ (alive => Partial)'
  BY <1>2 DEF IInv, TypeOK, FDOK, Partial
<1>7. ReadPoll' /\ WritePoll'
  BY <1>2 DEF IInv, ReadPoll, WritePoll, HasErrorIn
<1>8. ReadAhead' /\ WriteAhead'
  BY <1>2, <1>5 DEF IInv, ReadAhead, WriteAhead, HasErrorIn
<1>9. BytesIn'
  BY <1>2, <1>5 DEF IInv, BytesIn
<1> QED
  BY <1>5, <1>6, <1>7, <1>8, <1>9 DEF IInv, TypeOK

LEMMA EndWriteInv ==
  ASSUME IInv, EndWrite
  PROVE  IInv'
<1>1. PICK room \in BOOLEAN :
        Calls(If(~room, <<Set("setWriteable", End, FALSE)>>) \o <<Frame("written", End)>>)
  BY DEF EndWrite
<1>2. /\ Running("i_Write") /\ Top.plug = End /\ other' = other /\ canread' = canread
      /\ canwrite' = canwrite /\ delivered' = delivered + ret.len
      /\ alive' = alive /\ fdopen' = fdopen /\ eofwritten' = eofwritten
      /\ used' = used /\ readeof' = readeof
      /\ checkingrd' = checkingrd /\ checkingwr' = checkingwr
      /\ registered' = registered /\ queue' = queue
      /\ buffed_read' = buffed_read /\ arrived' = arrived /\ taken' = taken
      /\ cur_write' = cur_write /\ left' = left /\ accepted' = accepted
      /\ written' = written
  BY DEF EndWrite, flags, life, errs, watch, reads, writes
<1>3. PlugsOK /\ StackOK /\ FPlug # End
  BY FDConstants DEF IInv, TypeOK
<1>4. /\ PlugsOK' /\ StackOK' /\ ret \in Chunks
      /\ WillWrite <=> FPlug \in canwrite
      /\ WillWrite' <=> FPlug \in canwrite
      /\ WillRead' <=> WillRead
      /\ Flight(stack, ret) = ret.len /\ Flight(stack, ret)' = 0
  <2> DEFINE stop == ~room
  <2>1. stop \in BOOLEAN
    OBVIOUS
  <2>2. Calls(If(stop, <<Set("setWriteable", Top.plug, FALSE)>>)
              \o <<Frame("written", Top.plug)>>)
    BY <1>1, <1>2
  <2> HIDE DEF stop
  <2> QED
    BY <1>2, <1>3, <2>1, <2>2, WrittenStep
<1>5. ret.len \in Nat
  BY <1>4 DEF Chunks
<1>6. FDOK' /\ (alive => Partial)'
  BY <1>2, <1>5 DEF IInv, TypeOK, FDOK, Partial
<1>7. ReadPoll' /\ WritePoll'
  BY <1>2 DEF IInv, ReadPoll, WritePoll, HasErrorIn
<1>8. ReadAhead' /\ WriteAhead'
  BY <1>2, <1>4 DEF IInv, ReadAhead, WriteAhead, HasErrorIn
<1>9. BytesIn'
  <2>1. taken = delivered + Len0(buffed_read) + ret.len
    BY <1>4 DEF IInv, BytesIn
  <2>2. Len0(buffed_read) \in Int /\ delivered \in Int
    BY DEF IInv, TypeOK, FDOK, Len0, Chunks
  <2>3. taken = (delivered + ret.len) + Len0(buffed_read) + 0
    BY <1>5, <2>1, <2>2
  <2> QED
    BY <1>2, <1>4, <2>3 DEF BytesIn
<1> QED
  BY <1>4, <1>6, <1>7, <1>8, <1>9 DEF IInv, TypeOK

-----------------------------------------------------------------------------
(* What the dispatcher runs.                                               *)

\* The first event is off the queue.
LEMMA Popping ==
  ASSUME IInv, queue # <<>>
  PROVE  /\ Tail(queue) \in Seq(Posted)
         /\ ToSet(queue) = {Head(queue)} \cup ToSet(Tail(queue))
         /\ Head(queue) # "read"
              => Polled("read", checkingrd, registered, Tail(queue), fdopen)
         /\ Head(queue) = "read"
              => checkingrd /\ Polled("read", FALSE, registered, Tail(queue), fdopen)
         /\ Head(queue) # "write"
              => Polled("write", checkingwr, registered, Tail(queue), fdopen)
         /\ Head(queue) = "write"
              => checkingwr /\ Polled("write", FALSE, registered, Tail(queue), fdopen)
<1>1. /\ queue \in Seq(Posted)
      /\ Polled("read", checkingrd, registered, queue, fdopen)
      /\ Polled("write", checkingwr, registered, queue, fdopen)
  BY DEF IInv, TypeOK, FDOK, ReadPoll, WritePoll
<1>2. Tail(queue) \in Seq(Posted) /\ ToSet(queue) = {Head(queue)} \cup ToSet(Tail(queue))
  BY <1>1, TailElements, PoppedOff
<1> QED
  BY <1>1, <1>2, PolledPop

LEMMA ToldNoMore ==
  ASSUME NEW q \in Seq(Posted), NEW list \in Seq(ErrTypes)
  PROVE  q \o Told(list) = q \o Told(list) \o <<>>
<1> DEFINE t == Told(list)
<1>1. t \in Seq(ErrTypes) /\ ErrTypes \subseteq Posted
  BY OnlyElements DEF Told, Posted
<1> HIDE DEF t
<1>2. q \o t \in Seq(Posted)
  BY <1>1
<1>3. q \o t = (q \o t) \o <<>>
  BY <1>2
<1> QED
  BY <1>3 DEF t

LEMMA EventReadInv ==
  ASSUME IInv, Idle, queue # <<>>, Head(queue) = "read", EventRead
  PROVE  IInv'
<1>1. PICK res \in ReadResults :
        /\ DoReadFD(res, FALSE)
        /\ queue' = Tail(queue) \o Told(res.errors)
        /\ stack' = If(res.chunk # None, <<Set("setReadable", FPlug, TRUE)>>)
  BY DEF EventRead
<1>2. /\ other' = other /\ canread' = canread /\ canwrite' = canwrite
      /\ cur_write' = cur_write /\ left' = left /\ accepted' = accepted
      /\ delivered' = delivered /\ written' = written
      /\ UNCHANGED <<writes, delivered, written>>
  BY DEF EventRead, flags, writes
<1>3. PlugsOK /\ FDOK /\ WritePoll /\ FPlug \in Plugs
  BY FDConstants DEF IInv, TypeOK
<1>4. /\ Tail(queue) \in Seq(Posted)
      /\ ToSet(queue) = {"read"} \cup ToSet(Tail(queue)) /\ checkingrd
      /\ Polled("read", FALSE, registered, Tail(queue), fdopen)
      /\ Polled("write", checkingwr, registered, Tail(queue), fdopen)
  BY Popping
<1>5. buffed_read = None /\ ~WillRead
  BY <1>4 DEF IInv, ReadPoll, ReadAhead
<1>6. queue' = Tail(queue) \o Told(res.errors) \o <<>>
  <2>1. res.errors \in Seq(ErrTypes)
    BY <1>3, ReadResultsAre
  <2> QED
    BY <1>1, <1>4, <2>1, ToldNoMore
<1>7. /\ FDOK' /\ ReadPoll' /\ WritePoll'
      /\ used \subseteq used' /\ buffed_read' = res.chunk
      /\ taken' = taken + Len0(buffed_read')
      /\ ToSet(Tail(queue)) \subseteq ToSet(queue')
  BY <1>1, <1>2, <1>3, <1>4, <1>6, DoRead
<1> DEFINE sets == res.chunk # None
<1>8. /\ PlugsOK' /\ StackOK' /\ Flight(stack, ret)' = 0
      /\ WillRead' <=> WillRead \/ sets
      /\ WillWrite' <=> WillWrite
  <2>1. sets \in BOOLEAN /\ stack' = If(sets, <<Set("setReadable", FPlug, TRUE)>>)
    BY <1>1
  <2> HIDE DEF sets
  <2> QED
    BY <1>2, <1>3, <2>1, SetStep
<1>9. alive' = alive /\ fdopen' = fdopen
  BY <1>1 DEF DoReadFD, life
<1>10. ReadAhead'
  BY <1>5, <1>7, <1>8 DEF ReadAhead
<1>11. WriteAhead'
  <2>1. HasErrorIn(WriteErrors) => HasErrorIn(WriteErrors)'
    BY <1>7 DEF HasErrorIn
  <2>2. "resumewrite" \in ToSet(queue) => "resumewrite" \in ToSet(queue')
    BY <1>4, <1>7
  <2> QED
    BY <1>2, <1>8, <1>9, <2>1, <2>2 DEF IInv, WriteAhead
<1>12. (alive => Partial)'
  BY <1>2, <1>9 DEF IInv, Partial
<1>13. BytesIn'
  <2>1. taken = delivered /\ delivered \in Int
    BY <1>3, <1>5, AtIdle DEF IInv, BytesIn, Len0, FDOK
  <2>2. Len0(buffed_read') \in Nat
    BY <1>7 DEF FDOK, Len0, Chunks
  <2> QED
    BY <1>2, <1>7, <1>8, <2>1, <2>2 DEF BytesIn
<1> QED
  BY <1>7, <1>8, <1>10, <1>11, <1>12, <1>13 DEF IInv, TypeOK

LEMMA EventWriteInv ==
  ASSUME IInv, Idle, queue # <<>>, Head(queue) = "write", EventWrite
  PROVE  IInv'
<1>1. PICK res \in WriteResults(cur_write) :
        /\ DoWriteFD(cur_write, res, FALSE)
        /\ queue' = Tail(queue) \o Told(res.errors)
        /\ stack' = If(Opens(res), <<Set("setWriteable", FPlug, TRUE)>>)
  BY DEF EventWrite
<1>2. /\ other' = other /\ canread' = canread /\ canwrite' = canwrite
      /\ buffed_read' = buffed_read /\ taken' = taken
      /\ delivered' = delivered /\ written' = written
      /\ UNCHANGED <<reads, delivered>>
  BY DEF EventWrite, flags, reads
<1>3. PlugsOK /\ FDOK /\ ReadPoll /\ FPlug \in Plugs /\ written' \in Int
  BY <1>2, FDConstants DEF IInv, TypeOK, FDOK
<1>4. /\ Tail(queue) \in Seq(Posted)
      /\ ToSet(queue) = {"write"} \cup ToSet(Tail(queue)) /\ checkingwr
      /\ Polled("write", FALSE, registered, Tail(queue), fdopen)
      /\ Polled("read", checkingrd, registered, Tail(queue), fdopen)
  BY Popping
<1>5. cur_write \in Chunks /\ cur_write # None /\ ~WillWrite
  BY <1>3, <1>4 DEF IInv, WritePoll, WriteAhead, FDOK
<1>6. /\ res.errors \in Seq(ErrTypes) /\ res.chunk \in {cur_write, None}
      /\ queue' = Tail(queue) \o Told(res.errors) \o <<>>
  <2>1. res.errors \in Seq(ErrTypes) /\ res.chunk \in {cur_write, None}
    BY <1>3, <1>5, WriteResultsAre
  <2> QED
    BY <1>1, <1>4, <2>1, ToldNoMore
<1>7. /\ FDOK' /\ ReadPoll' /\ WritePoll'
      /\ cur_write' = res.chunk /\ alive' = alive /\ (fdopen' => fdopen)
      /\ ToSet(Tail(queue)) \subseteq ToSet(queue')
      /\ accepted' + left' = accepted + (IF fdopen THEN BytesLeft(cur_write) ELSE left)
      /\ \/ fdopen' \/ (cur_write' # None /\ cur_write'.eof)
         \/ ~fdopen /\ cur_write' = cur_write
      /\ fdopen => IF cur_write' # None /\ ~cur_write'.eof THEN left' > 0
                   ELSE left' \in {0, left} /\ (cur_write' = None => left' = 0)
      /\ ~fdopen => left' = left /\ cur_write' = cur_write
  BY <1>1, <1>2, <1>3, <1>4, <1>5, <1>6, DoWrite
<1>8. /\ PlugsOK' /\ StackOK' /\ Flight(stack, ret)' = 0
      /\ WillRead' <=> WillRead
      /\ WillWrite' <=> WillWrite \/ Opens(res)
  <2>1. Opens(res) \in BOOLEAN
    BY DEF Opens
  <2> QED
    BY <1>1, <1>2, <1>3, <2>1, SetStep
<1>9. ReadAhead'
  <2>1. "resumeread" \in ToSet(queue) => "resumeread" \in ToSet(queue')
    BY <1>4, <1>7
  <2> QED
    BY <1>2, <1>7, <1>8, <2>1 DEF IInv, ReadAhead
<1>10. WriteAhead'
  <2>1. used' = used \cup ToSet(res.errors)
    BY <1>1 DEF DoWriteFD, SetErrorIn
  <2>2. cur_write' = None /\ fdopen' /\ ~HasErrorIn(WriteErrors)' => Opens(res)
    BY <1>7, <2>1 DEF Opens, HasErrorIn
  <2>3. Opens(res) => cur_write' = None
    BY <1>7 DEF Opens
  <2> QED
    BY <1>5, <1>8, <2>2, <2>3 DEF WriteAhead
<1>11. (alive => Partial)'
  <2> SUFFICES ASSUME alive PROVE Partial'
    BY <1>7
  <2>1. /\ left > 0 <=> ~cur_write.eof
        /\ fdopen \/ cur_write.eof
        /\ written = accepted + left
    BY <1>5 DEF IInv, Partial
  <2>2. left \in Nat /\ left' \in Nat /\ accepted \in Int /\ accepted' \in Int
    BY <1>3, <1>7 DEF FDOK
  <2>3. BytesLeft(cur_write) = left
    BY <1>5, <2>1, <2>2 DEF BytesLeft, Chunks
  <2>4. written' = accepted' + left'
    BY <1>2, <1>7, <2>1, <2>2, <2>3
  <2>5. left' > 0 <=> cur_write' # None /\ ~cur_write'.eof
    BY <1>5, <1>6, <1>7, <2>1, <2>2
  <2>6. fdopen' \/ (cur_write' # None /\ cur_write'.eof)
    BY <1>5, <1>7, <2>1
  <2> QED
    BY <2>4, <2>5, <2>6 DEF Partial
<1>12. BytesIn'
  BY <1>2, <1>8, AtIdle DEF IInv, BytesIn
<1> QED
  BY <1>7, <1>8, <1>9, <1>10, <1>11, <1>12 DEF IInv, TypeOK

\* The other events leave alone what is read and written, and the poll: they may
\* bring errors, and set the flag they are there to set.
LEMMA PoppedInv ==
  ASSUME IInv, Idle, queue # <<>>, alive => Head(queue) \notin {"read", "write"},
         NEW t \in Seq(ErrTypes), queue' = Tail(queue) \o t,
         used \subseteq used', used' \subseteq ErrTypes,
         UNCHANGED <<alive, fdopen, eofwritten, readeof, checkingrd, checkingwr,
                     registered, buffed_read, arrived, taken, cur_write, left,
                     accepted, delivered, written>>,
         PlugsOK', StackOK', Flight(stack, ret)' = 0,
         WillRead' => WillRead \/ buffed_read # None,
         WillWrite' => WillWrite \/ cur_write = None,
         WillRead => WillRead', WillWrite => WillWrite',
         alive /\ Head(queue) = "resumeread" /\ buffed_read # None => WillRead',
         alive /\ Head(queue) = "resumewrite" /\ cur_write = None => WillWrite'
  PROVE  IInv'
<1>1. FDOK /\ Tail(queue) \in Seq(Posted)
      /\ ToSet(queue) = {Head(queue)} \cup ToSet(Tail(queue))
  BY Popping DEF IInv, TypeOK
<1>2. t \in Seq(Posted) /\ ToSet(t) \subseteq ErrTypes
  <2>1. ErrTypes \subseteq Posted
    BY DEF Posted
  <2>2. t \in Seq(Posted)
    BY <2>1
  <2>3. ToSet(t) \subseteq ErrTypes
    BY ListElements
  <2> QED
    BY <2>2, <2>3
<1>3. queue' \in Seq(Posted) /\ ToSet(queue') = ToSet(Tail(queue)) \cup ToSet(t)
  <2> DEFINE q == Tail(queue)
  <2>1. q \in Seq(Posted) /\ queue' = q \o t
    BY <1>1
  <2> HIDE DEF q
  <2>2. q \o t \in Seq(Posted) /\ ToSet(q \o t) = ToSet(q) \cup ToSet(t)
    BY <1>2, <2>1, ConcatElements
  <2> QED
    BY <2>1, <2>2 DEF q
<1>4. /\ Polled("read", checkingrd, registered, Tail(queue), fdopen)
      /\ Polled("write", checkingwr, registered, Tail(queue), fdopen)
  <2>1. CASE alive
    BY <2>1, Popping
  <2>2. CASE ~alive
    <3>1. fdopen = FALSE
      BY <1>1, <2>2 DEF FDOK
    <3> QED
      BY <3>1, Popping DEF Polled
  <2> QED
    BY <2>1, <2>2
<1>5. /\ Polled("read", checkingrd, registered, queue', fdopen)
      /\ Polled("write", checkingwr, registered, queue', fdopen)
  <2>1. "read" \notin ToSet(t) /\ "write" \notin ToSet(t)
    BY <1>2 DEF ErrTypes
  <2> QED
    BY <1>1, <1>2, <1>4, <2>1, PolledMore
<1>6. /\ HasErrorIn(ReadErrors) => HasErrorIn(ReadErrors)'
      /\ HasErrorIn(WriteErrors) => HasErrorIn(WriteErrors)'
  BY DEF HasErrorIn
<1>7. FDOK'
  BY <1>1, <1>3 DEF FDOK
<1>8. ReadPoll'
  BY <1>5, <1>6 DEF IInv, ReadPoll
<1>9. WritePoll'
  BY <1>5, <1>6 DEF IInv, WritePoll
<1>10. ReadAhead'
  BY <1>1, <1>3 DEF IInv, ReadAhead
<1>11. WriteAhead'
  <2>1. fdopen => alive
    BY <1>1 DEF FDOK
  <2> QED
    BY <1>1, <1>3, <1>6, <2>1 DEF IInv, WriteAhead
<1>12. (alive => Partial)' /\ BytesIn'
  BY AtIdle DEF IInv, Partial, BytesIn
<1> QED
  BY <1>7, <1>8, <1>9, <1>10, <1>11, <1>12 DEF IInv, TypeOK

\* The same for an event that sets no flag.
LEMMA PoppedOnly ==
  ASSUME IInv, Idle, queue # <<>>,
         alive => Head(queue) \notin {"read", "write", "resumeread", "resumewrite"},
         NEW t \in Seq(ErrTypes), queue' = Tail(queue) \o t,
         used \subseteq used', used' \subseteq ErrTypes,
         UNCHANGED <<plugvars, life, readeof, checkingrd, checkingwr, registered,
                     reads, writes, far>>
  PROVE  IInv'
<1>1. UNCHANGED <<alive, fdopen, eofwritten, readeof, checkingrd, checkingwr,
                  registered, buffed_read, arrived, taken, cur_write, left,
                  accepted, delivered, written>>
  BY DEF life, reads, writes, far
<1>2. /\ PlugsOK' /\ StackOK' /\ Flight(stack, ret)' = 0
      /\ (WillRead' <=> WillRead) /\ (WillWrite' <=> WillWrite)
  <2>1. /\ other' = other /\ stack' = stack /\ ret' = ret
        /\ canread' = canread /\ canwrite' = canwrite
    BY DEF plugvars, flags
  <2> QED
    BY <2>1, AtIdle DEF IInv, TypeOK, PlugsOK, StackOK, WillRead, WillWrite
<1> QED
  BY <1>1, <1>2, PoppedInv

LEMMA EventErrorInv ==
  ASSUME IInv, Idle, queue # <<>>, Head(queue) = "error", EventError
  PROVE  IInv'
<1> DEFINE t == Told(<<"ErrFatal">>)
<1>1. queue' = Tail(queue) \o t /\ used' = used \cup ToSet(<<"ErrFatal">>)
  BY DEF EventError, SetErrorIn
<1>2. <<"ErrFatal">> \in Seq(ErrTypes) /\ ToSet(<<"ErrFatal">>) \subseteq ErrTypes
  BY ShortLists DEF ErrTypes
<1>3. t \in Seq(ErrTypes)
  BY <1>2, OnlyElements DEF Told
<1>4. used \subseteq used' /\ used' \subseteq ErrTypes
  BY <1>1, <1>2 DEF IInv, TypeOK, FDOK
<1>5. UNCHANGED <<plugvars, life, readeof, checkingrd, checkingwr, registered,
                  reads, writes, far>>
  BY DEF EventError
<1> HIDE DEF t
<1> QED
  BY <1>1, <1>3, <1>4, <1>5, PoppedOnly

\* An event of the program's, or of a module that is gone.
LEMMA EventGoneInv ==
  ASSUME IInv, Idle, queue # <<>>, queue' = Tail(queue), used' = used,
         alive => Head(queue) \notin {"read", "write", "resumeread", "resumewrite"},
         UNCHANGED <<plugvars, life, readeof, checkingrd, checkingwr, registered,
                     reads, writes, far>>
  PROVE  IInv'
<1>1. queue' = Tail(queue) \o <<>> /\ <<>> \in Seq(ErrTypes)
  BY Popping, ShortLists
<1>2. used \subseteq used' /\ used' \subseteq ErrTypes
  BY DEF IInv, TypeOK, FDOK
<1> QED
  BY <1>1, <1>2, PoppedOnly

LEMMA EventResumeReadInv ==
  ASSUME IInv, Idle, queue # <<>>, alive, Head(queue) = "resumeread", EventResumeRead
  PROVE  IInv'
<1> DEFINE sets == buffed_read # None
<1>1. /\ queue' = Tail(queue) /\ used' = used
      /\ stack' = If(sets, <<Set("setReadable", FPlug, TRUE)>>)
      /\ other' = other /\ canread' = canread /\ canwrite' = canwrite
      /\ UNCHANGED <<alive, fdopen, eofwritten, readeof, checkingrd, checkingwr,
                     registered, buffed_read, arrived, taken, cur_write, left,
                     accepted, delivered, written>>
  BY DEF EventResumeRead, flags, life, errs, writes, far
<1>2. queue' = Tail(queue) \o <<>> /\ <<>> \in Seq(ErrTypes)
  BY <1>1, Popping, ShortLists
<1>3. used \subseteq used' /\ used' \subseteq ErrTypes /\ PlugsOK /\ FPlug \in Plugs
  BY <1>1, FDConstants DEF IInv, TypeOK, FDOK
<1>4. sets \in BOOLEAN
  OBVIOUS
<1> HIDE DEF sets
<1>5. /\ PlugsOK' /\ StackOK' /\ Flight(stack, ret)' = 0
      /\ WillRead' <=> WillRead \/ sets
      /\ WillWrite' <=> WillWrite
  BY <1>1, <1>3, <1>4, SetStep
<1> QED
  BY <1>1, <1>2, <1>3, <1>5, PoppedInv DEF sets

LEMMA EventResumeWriteInv ==
  ASSUME IInv, Idle, queue # <<>>, alive, Head(queue) = "resumewrite", EventResumeWrite
  PROVE  IInv'
<1> DEFINE sets == cur_write = None
<1>1. /\ queue' = Tail(queue) /\ used' = used
      /\ stack' = If(sets, <<Set("setWriteable", FPlug, TRUE)>>)
      /\ other' = other /\ canread' = canread /\ canwrite' = canwrite
      /\ UNCHANGED <<alive, fdopen, eofwritten, readeof, checkingrd, checkingwr,
                     registered, buffed_read, arrived, taken, cur_write, left,
                     accepted, delivered, written>>
  BY DEF EventResumeWrite, flags, life, errs, reads, far
<1>2. queue' = Tail(queue) \o <<>> /\ <<>> \in Seq(ErrTypes)
  BY <1>1, Popping, ShortLists
<1>3. used \subseteq used' /\ used' \subseteq ErrTypes /\ PlugsOK /\ FPlug \in Plugs
  BY <1>1, FDConstants DEF IInv, TypeOK, FDOK
<1>4. sets \in BOOLEAN
  OBVIOUS
<1> HIDE DEF sets
<1>5. /\ PlugsOK' /\ StackOK' /\ Flight(stack, ret)' = 0
      /\ WillRead' <=> WillRead
      /\ WillWrite' <=> WillWrite \/ sets
  BY <1>1, <1>3, <1>4, SetStep
<1> QED
  BY <1>1, <1>2, <1>3, <1>5, PoppedInv DEF sets

LEMMA DispatchInv ==
  ASSUME IInv, Dispatch
  PROVE  IInv'
<1>1. Idle /\ queue # <<>>
  BY DEF Dispatch
<1>2. CASE alive /\ Head(queue) = "read"
  <2>1. EventRead
    BY <1>2 DEF Dispatch
  <2> QED
    BY <1>1, <1>2, <2>1, EventReadInv
<1>3. CASE alive /\ Head(queue) = "write"
  <2>1. EventWrite
    BY <1>3 DEF Dispatch
  <2> QED
    BY <1>1, <1>3, <2>1, EventWriteInv
<1>4. CASE alive /\ Head(queue) = "error"
  <2>1. EventError
    BY <1>4 DEF Dispatch
  <2> QED
    BY <1>1, <1>4, <2>1, EventErrorInv
<1>5. CASE alive /\ Head(queue) = "resumeread"
  <2>1. EventResumeRead
    BY <1>5 DEF Dispatch
  <2> QED
    BY <1>1, <1>5, <2>1, EventResumeReadInv
<1>6. CASE alive /\ Head(queue) = "resumewrite"
  <2>1. EventResumeWrite
    BY <1>6 DEF Dispatch
  <2> QED
    BY <1>1, <1>6, <2>1, EventResumeWriteInv
<1>7. CASE alive /\ Head(queue) \notin {"read", "write", "error", "resumeread", "resumewrite"}
  <2>1. OnErrorIn(Head(queue))
    BY <1>7 DEF Dispatch
  <2> QED
    BY <1>1, <1>7, <2>1, EventGoneInv DEF OnErrorIn
<1>8. CASE ~alive
  <2>1. /\ queue' = Tail(queue)
        /\ UNCHANGED <<plugvars, life, errs, checkingrd, checkingwr, registered,
                       reads, writes, far>>
    BY <1>8 DEF Dispatch
  <2>2. used' = used /\ readeof' = readeof
    BY <2>1 DEF errs
  <2> QED
    BY <1>1, <1>8, <2>1, <2>2, EventGoneInv
<1> QED
  BY <1>2, <1>3, <1>4, <1>5, <1>6, <1>7, <1>8

-----------------------------------------------------------------------------
(* The poll, the far side, and the program.                                *)

\* Nothing happens to the plugs.
LEMMA PlugsSame ==
  ASSUME IInv, UNCHANGED plugvars
  PROVE  EngineOK
<1>1. /\ other' = other /\ stack' = stack /\ ret' = ret
      /\ canread' = canread /\ canwrite' = canwrite
  BY DEF plugvars, flags
<1> QED
  BY <1>1 DEF IInv, TypeOK, PlugsOK, StackOK, EngineOK, SameFlow, WillRead, WillWrite

\* Quiet calls are made when nothing runs.
LEMMA QuietFromIdle ==
  ASSUME Idle, stack' \in Seq(Frames), Quiet(stack'), canread' = canread,
         canwrite' = canwrite
  PROVE  StackOK' /\ SameFlow
<1>1. /\ Shaped(stack', canread', canwrite', ret') /\ Flight(stack', ret') = 0
      /\ WillBe("setReadable", stack', canread') <=> FPlug \in canread'
      /\ WillBe("setWriteable", stack', canwrite') <=> FPlug \in canwrite'
  BY AtRest
<1> QED
  BY <1>1, AtIdle DEF StackOK, SameFlow, WillRead, WillWrite

LEMMA PostsInv ==
  ASSUME IInv, NEW cond \in Conditions, Posts(cond)
  PROVE  IInv'
<1>1. /\ Idle /\ cond \in registered /\ registered' = registered \ {cond}
      /\ queue' = Append(queue, cond)
      /\ UNCHANGED plugvars
      /\ alive' = alive /\ fdopen' = fdopen /\ eofwritten' = eofwritten
      /\ used' = used /\ readeof' = readeof
      /\ checkingrd' = checkingrd /\ checkingwr' = checkingwr
      /\ buffed_read' = buffed_read /\ arrived' = arrived /\ taken' = taken
      /\ cur_write' = cur_write /\ left' = left /\ accepted' = accepted
      /\ delivered' = delivered /\ written' = written
  BY DEF Posts, life, errs, reads, writes, far
<1>2. EngineOK
  BY <1>1, PlugsSame
<1>3. queue \in Seq(Posted) /\ cond \in Posted
  BY DEF IInv, TypeOK, FDOK, Posted
<1>4. queue' \in Seq(Posted) /\ ToSet(queue') = ToSet(queue) \cup {cond}
  BY <1>1, <1>3, AppendElements
<1>5. /\ Polled("read", checkingrd, registered', queue', fdopen)
      /\ Polled("write", checkingwr, registered', queue', fdopen)
  <2>1. /\ Polled("read", checkingrd, registered, queue, fdopen)
        /\ Polled("write", checkingwr, registered, queue, fdopen)
    BY DEF IInv, ReadPoll, WritePoll
  <2> QED
    BY <1>1, <1>3, <2>1, PolledPost
<1>6. FDOK' /\ (alive => Partial)'
  BY <1>1, <1>4 DEF IInv, TypeOK, FDOK, Partial
<1>7. ReadPoll' /\ WritePoll'
  BY <1>1, <1>5 DEF IInv, ReadPoll, WritePoll, HasErrorIn
<1>8. ReadAhead' /\ WriteAhead'
  BY <1>1, <1>2, <1>4 DEF IInv, ReadAhead, WriteAhead, HasErrorIn, EngineOK, SameFlow
<1>9. BytesIn'
  BY <1>1, <1>2 DEF IInv, BytesIn, EngineOK, SameFlow
<1> QED
  BY <1>2, <1>6, <1>7, <1>8, <1>9 DEF IInv, TypeOK, EngineOK

LEMMA ArrivesInv ==
  ASSUME IInv, ByteArrives \/ FarCloses
  PROVE  IInv'
<1>1. /\ UNCHANGED plugvars /\ arrived' \in {arrived, arrived + 1}
      /\ UNCHANGED <<alive, fdopen, eofwritten, used, readeof, checkingrd, checkingwr,
                     registered, queue, buffed_read, taken, cur_write, left, accepted,
                     delivered, written>>
  BY DEF ByteArrives, FarCloses, life, errs, watch, reads, writes
<1>2. EngineOK
  BY <1>1, PlugsSame
<1>3. arrived' \in Nat
  BY <1>1 DEF IInv, TypeOK, FDOK
<1> QED
  BY <1>1, <1>2, <1>3, SameInv

LEMMA EndSetsInv ==
  ASSUME IInv, EndGives \/ EndHasRoom
  PROVE  IInv'
<1>1. PICK op \in {"setReadable", "setWriteable"} : EndCalls(Set(op, End, TRUE))
  BY DEF EndGives, EndHasRoom
<1>2. /\ Idle /\ other' = other /\ canread' = canread /\ canwrite' = canwrite
      /\ UNCHANGED fdvars
  BY <1>1 DEF EndGives, EndHasRoom, EndCalls, flags
<1>3. stack' = If(TRUE, <<Set(op, End, TRUE)>>)
  BY <1>1 DEF EndCalls, If
<1>4. PlugsOK /\ End \in Plugs /\ End # FPlug
  BY FDConstants DEF IInv, TypeOK
<1>5. /\ PlugsOK' /\ StackOK' /\ Flight(stack, ret)' = 0
      /\ WillRead' <=> WillRead
      /\ WillWrite' <=> WillWrite
  BY <1>2, <1>3, <1>4, SetStep
<1>6. EngineOK
  BY <1>2, <1>5, AtIdle DEF EngineOK, SameFlow
<1>7. arrived' \in Nat
  BY <1>2 DEF fdvars, reads, IInv, TypeOK, FDOK
<1> QED
  BY <1>2, <1>6, <1>7, SameInv DEF fdvars, life, errs, watch, reads, writes, far

LEMMA PlugIntoInv ==
  ASSUME IInv, Idle, PlugInto(FPlug, End), UNCHANGED fdvars
  PROVE  IInv'
<1>1. /\ other' = [other EXCEPT ![FPlug] = End, ![End] = FPlug]
      /\ canread' = canread /\ canwrite' = canwrite /\ stack = <<>>
      /\ stack' = <<Frame("tellReadable", FPlug), Frame("peerTellsReadable", FPlug),
                    Frame("tellWriteable", FPlug), Frame("peerTellsWriteable", FPlug)>>
                    \o <<Frame("readAway", FPlug), Frame("writeAway", FPlug)>> \o stack
  BY DEF PlugInto, Loops, Idle
<1>2. FPlug \in Plugs /\ End \in Plugs /\ FPlug # End /\ PlugsOK
  BY FDConstants DEF IInv, TypeOK
<1> DEFINE f(op) == Frame(op, FPlug)
           four == <<f("tellReadable"), f("peerTellsReadable"),
                     f("tellWriteable"), f("peerTellsWriteable")>>
           two == <<f("readAway"), f("writeAway")>>
<1>3. stack' = four \o two \o stack
  BY <1>1
<1>4. \A op \in {"tellReadable", "peerTellsReadable", "tellWriteable",
                 "peerTellsWriteable", "readAway", "writeAway"} :
        f(op) \in Frames /\ f(op).op \notin Moves
  BY <1>2, FrameIs DEF Ops, Moves
<1> HIDE DEF f
<1>5. four \in Seq(Frames) /\ Quiet(four)
  BY <1>4 DEF Quiet
<1>6. two \in Seq(Frames) /\ Quiet(two)
  BY <1>4 DEF Quiet
<1> HIDE DEF four, two
<1>7. four \o two \in Seq(Frames) /\ Quiet(four \o two)
  BY <1>5, <1>6, QuietConcat
<1>8. stack' \in Seq(Frames) /\ Quiet(stack')
  BY <1>1, <1>3, <1>7, QuietEmpty, QuietConcat
<1>9. StackOK' /\ SameFlow
  BY <1>1, <1>8, QuietFromIdle
<1>10. PlugsOK'
  BY <1>1, <1>2, <1>8 DEF PlugsOK
<1>11. arrived' \in Nat
  BY DEF fdvars, reads, IInv, TypeOK, FDOK
<1> QED
  BY <1>9, <1>10, <1>11, SameInv DEF EngineOK, fdvars, life, errs, watch, reads, writes, far

LEMMA DeletePlugInv ==
  ASSUME IInv, Idle, DeletePlug
  PROVE  IInv'
<1>1. /\ stack' = <<Frame("unPlug", FPlug)>> /\ other' = other
      /\ canread' = canread /\ canwrite' = canwrite /\ UNCHANGED fdvars
  BY DEF DeletePlug, flags
<1>2. Frame("unPlug", FPlug) \in Frames /\ Frame("unPlug", FPlug).op \notin Moves
  BY FDConstants, FrameIs DEF Ops, Moves
<1>3. stack' \in Seq(Frames) /\ Quiet(stack')
  BY <1>1, <1>2, OneFrame
<1>4. EngineOK
  BY <1>1, <1>3, QuietFromIdle, OtherSame DEF IInv, TypeOK, EngineOK
<1>5. arrived' \in Nat
  BY <1>1 DEF fdvars, reads, IInv, TypeOK, FDOK
<1> QED
  BY <1>1, <1>4, <1>5, SameInv DEF fdvars, life, errs, watch, reads, writes, far

LEMMA DestroyInv ==
  ASSUME IInv, Idle, Destroy
  PROVE  IInv'
<1>1. /\ alive' = FALSE /\ fdopen' = FALSE /\ registered' = {} /\ used' = {}
      /\ other' = [other EXCEPT ![FPlug] = None]
      /\ stack' = If(other[FPlug] # None, <<Frame("unPlug", other[FPlug])>>) \o stack
      /\ canread' = canread /\ canwrite' = canwrite /\ eofwritten' = eofwritten
      /\ readeof' = readeof /\ checkingrd' = checkingrd /\ checkingwr' = checkingwr
      /\ queue' = queue /\ buffed_read' = buffed_read /\ arrived' = arrived
      /\ taken' = taken /\ cur_write' = cur_write /\ left' = left
      /\ accepted' = accepted /\ delivered' = delivered /\ written' = written
  BY DEF Destroy, DestroyPlug, reads, writes, far
<1>2. PlugsOK /\ FDOK /\ FPlug \in Plugs /\ other[FPlug] \in Plugs \cup {None}
  BY FDConstants DEF IInv, TypeOK, PlugsOK
<1> DEFINE f == Frame("unPlug", other[FPlug])
           pre == IF other[FPlug] # None THEN <<f>> ELSE <<>>
<1>3. other[FPlug] # None => f \in Frames /\ f.op \notin Moves
  BY <1>2, FrameIs DEF Ops, Moves
<1>4. stack' = pre \o stack /\ stack = <<>>
  BY <1>1 DEF If, Idle
<1> HIDE DEF f
<1>5. pre \in Seq(Frames) /\ Quiet(pre)
  BY <1>3, OneFrame, QuietEmpty
<1> HIDE DEF pre
<1>6. stack' \in Seq(Frames) /\ Quiet(stack')
  BY <1>4, <1>5, QuietEmpty, QuietConcat
<1>7. StackOK' /\ SameFlow
  BY <1>1, <1>6, QuietFromIdle
<1>8. PlugsOK'
  BY <1>1, <1>2, <1>6, PlugConstants DEF PlugsOK
<1>9. FDOK'
  BY <1>1, <1>2 DEF FDOK
<1>10. /\ Polled("read", checkingrd, {}, queue, FALSE)
       /\ Polled("write", checkingwr, {}, queue, FALSE)
  BY PolledClosed DEF IInv, ReadPoll, WritePoll
<1>11. ReadPoll' /\ WritePoll'
  BY <1>1, <1>10 DEF IInv, ReadPoll, WritePoll
<1>12. ReadAhead' /\ WriteAhead'
  BY <1>1, <1>7 DEF IInv, ReadAhead, WriteAhead, SameFlow
<1>13. BytesIn'
  BY <1>1, <1>7 DEF IInv, BytesIn, SameFlow
<1> QED
  BY <1>1, <1>7, <1>8, <1>9, <1>11, <1>12, <1>13 DEF IInv, TypeOK

\* An error is forgotten: a direction free of errors again either waits for the
\* poll or has a resume event on the queue.
LEMMA ResetErrorInv ==
  ASSUME IInv, Idle, NEW e \in ErrTypes, ResetErrorIn(e)
  PROVE  IInv'
<1> DEFINE rest == used \ {e}
           rd == e \in {"ErrGeneral", "ErrRead"} /\ Reads(rest)
           wr == e \in {"ErrGeneral", "ErrWrite"} /\ Writes(rest)
           t == If(rd /\ buffed_read # None, <<"resumeread">>)
           u == If(wr /\ cur_write = None, <<"resumewrite">>)
<1>1. /\ e \in used \ {"ErrFatal"} /\ used' = rest
      /\ checkingrd' = (checkingrd \/ (rd /\ buffed_read = None))
      /\ checkingwr' = (checkingwr \/ (wr /\ cur_write # None))
      /\ registered' = registered
                         \cup (IF rd /\ buffed_read = None THEN {"read"} ELSE {})
                         \cup (IF wr /\ cur_write # None THEN {"write"} ELSE {})
      /\ queue' = queue \o t \o u
      /\ UNCHANGED plugvars
      /\ alive' = alive /\ fdopen' = fdopen /\ eofwritten' = eofwritten
      /\ readeof' = readeof /\ buffed_read' = buffed_read /\ arrived' = arrived
      /\ taken' = taken /\ cur_write' = cur_write /\ left' = left
      /\ accepted' = accepted /\ delivered' = delivered /\ written' = written
  BY DEF ResetErrorIn, life, reads, writes
<1>2. FDOK /\ queue \in Seq(Posted) /\ EngineOK
  BY <1>1, PlugsSame DEF IInv, TypeOK, FDOK
<1>3. /\ t \in Seq(Posted) /\ ToSet(t) \subseteq {"resumeread"}
      /\ rd /\ buffed_read # None => ToSet(t) = {"resumeread"}
  BY ShortLists DEF Posted, If
<1>4. /\ u \in Seq(Posted) /\ ToSet(u) \subseteq {"resumewrite"}
      /\ wr /\ cur_write = None => ToSet(u) = {"resumewrite"}
  BY ShortLists DEF Posted, If
<1> HIDE DEF t, u
<1>5. /\ queue' \in Seq(Posted)
      /\ ToSet(queue') = ToSet(queue) \cup ToSet(t) \cup ToSet(u)
  <2>1. queue \o t \in Seq(Posted) /\ ToSet(queue \o t) = ToSet(queue) \cup ToSet(t)
    BY <1>2, <1>3, ConcatElements
  <2> DEFINE v == queue \o t
  <2>2. v \in Seq(Posted) /\ queue' = v \o u
    BY <1>1, <2>1
  <2> HIDE DEF v
  <2>3. queue' \in Seq(Posted) /\ ToSet(queue') = ToSet(v) \cup ToSet(u)
    BY <1>4, <2>2, ConcatElements
  <2> QED
    BY <2>1, <2>3 DEF v
<1>6. ASSUME NEW cond \in {"read", "write"}, NEW ch, Polled(cond, ch, registered, queue, fdopen)
      PROVE  Polled(cond, ch, registered, queue', fdopen)
  <2>1. cond \notin ToSet(t) /\ cond \notin ToSet(u)
    BY <1>3, <1>4
  <2> DEFINE v == queue \o t
  <2>2. v \in Seq(Posted) /\ queue' = v \o u
    BY <1>1, <1>2, <1>3
  <2>3. Polled(cond, ch, registered, v, fdopen)
    BY <1>2, <1>3, <1>6, <2>1, PolledMore
  <2> HIDE DEF v
  <2> QED
    BY <1>4, <2>1, <2>2, <2>3, PolledMore
<1>7. /\ Polled("read", checkingrd, registered, queue', fdopen)
      /\ Polled("write", checkingwr, registered, queue', fdopen)
  BY <1>6 DEF IInv, ReadPoll, WritePoll
<1>8. (rd => ~checkingrd /\ fdopen) /\ (wr => ~checkingwr /\ fdopen)
  BY DEF Reads, Writes
<1>9. /\ ~HasErrorIn(ReadErrors)' /\ fdopen /\ ~checkingrd => rd \/ ~HasErrorIn(ReadErrors)
      /\ ~HasErrorIn(WriteErrors)' /\ fdopen /\ ~checkingwr => wr \/ ~HasErrorIn(WriteErrors)
  BY <1>1 DEF HasErrorIn, Reads, Writes, ReadErrors, WriteErrors, ErrTypes
<1>10. rd \in BOOLEAN /\ wr \in BOOLEAN /\ rest \subseteq ErrTypes
  BY <1>2 DEF FDOK
<1> HIDE DEF rd, wr, rest
<1>11. Polled("read", checkingrd', registered', queue', fdopen')
  <2>1. CASE rd /\ buffed_read = None
    <3>1. /\ checkingrd = FALSE /\ checkingrd' = TRUE /\ fdopen' = fdopen
          /\ "read" \in registered' <=> "read" \in registered \cup {"read"}
      BY <1>1, <1>2, <1>8, <2>1 DEF FDOK
    <3>2. Polled("read", TRUE, registered \cup {"read"}, queue', fdopen)
      BY <1>7, <3>1, PolledAsk
    <3> QED
      BY <3>1, <3>2, PolledSame
  <2>2. CASE ~(rd /\ buffed_read = None)
    <3>1. /\ checkingrd' = checkingrd /\ fdopen' = fdopen
          /\ "read" \in registered' <=> "read" \in registered
      BY <1>1, <1>2, <2>2 DEF FDOK
    <3> QED
      BY <1>7, <3>1, PolledSame
  <2> QED
    BY <2>1, <2>2
<1>12. Polled("write", checkingwr', registered', queue', fdopen')
  <2>1. CASE wr /\ cur_write # None
    <3>1. /\ checkingwr = FALSE /\ checkingwr' = TRUE /\ fdopen' = fdopen
          /\ "write" \in registered' <=> "write" \in registered \cup {"write"}
      BY <1>1, <1>2, <1>8, <2>1 DEF FDOK
    <3>2. Polled("write", TRUE, registered \cup {"write"}, queue', fdopen)
      BY <1>7, <3>1, PolledAsk
    <3> QED
      BY <3>1, <3>2, PolledSame
  <2>2. CASE ~(wr /\ cur_write # None)
    <3>1. /\ checkingwr' = checkingwr /\ fdopen' = fdopen
          /\ "write" \in registered' <=> "write" \in registered
      BY <1>1, <1>2, <2>2 DEF FDOK
    <3> QED
      BY <1>7, <3>1, PolledSame
  <2> QED
    BY <2>1, <2>2
<1>13. ReadPoll'
  BY <1>1, <1>9, <1>11 DEF IInv, ReadPoll
<1>14. WritePoll'
  BY <1>1, <1>9, <1>12 DEF IInv, WritePoll
<1>15. ReadAhead'
  BY <1>1, <1>2, <1>5 DEF IInv, ReadAhead, EngineOK, SameFlow
<1>16. WriteAhead'
  <2>1. checkingwr => cur_write # None
    BY DEF IInv, WritePoll
  <2> QED
    BY <1>1, <1>2, <1>4, <1>5, <1>9, <2>1 DEF IInv, WriteAhead, EngineOK, SameFlow
<1>17. FDOK'
  <2>1. registered' \subseteq Conditions
    BY <1>1, <1>2 DEF FDOK, Conditions
  <2>2. checkingrd' \in BOOLEAN /\ checkingwr' \in BOOLEAN
    BY <1>1
  <2> QED
    BY <1>1, <1>2, <1>5, <1>10, <2>1, <2>2 DEF FDOK
<1>18. (alive => Partial)' /\ BytesIn'
  BY <1>1, <1>2 DEF IInv, Partial, BytesIn, EngineOK, SameFlow
<1> QED
  BY <1>2, <1>13, <1>14, <1>15, <1>16, <1>17, <1>18 DEF IInv, TypeOK, EngineOK

-----------------------------------------------------------------------------
(* The theorems.                                                           *)

LEMMA NextInv == IInv /\ [Next]_vars => IInv'
<1> SUFFICES ASSUME IInv, [Next]_vars PROVE IInv'
  OBVIOUS
<1>1. CASE (Engine \/ Disconnected) /\ UNCHANGED fdvars
  BY <1>1, EngineInv
<1>2. CASE PlugRead \/ PlugWrite \/ EndRead \/ EndWrite
  BY <1>2, PlugReadInv, PlugWriteInv, EndReadInv, EndWriteInv
<1>3. CASE Dispatch
  BY <1>3, DispatchInv
<1>4. CASE World
  <2>1. CASE \E cond \in {"read", "write", "error"} : Posts(cond)
    BY <2>1, PostsInv DEF Conditions
  <2> QED
    BY <1>4, <2>1, ArrivesInv, EndSetsInv DEF World
<1>5. CASE Program
  BY <1>5, PlugIntoInv, ResetErrorInv, DeletePlugInv, DestroyInv DEF Program
<1>6. CASE UNCHANGED vars
  <2>1. UNCHANGED plugvars /\ UNCHANGED fdvars
    BY <1>6 DEF vars
  <2>2. EngineOK
    BY <2>1, PlugsSame
  <2>3. arrived' \in Nat
    BY <2>1 DEF fdvars, reads, IInv, TypeOK, FDOK
  <2> QED
    BY <2>1, <2>2, <2>3, SameInv DEF fdvars, life, errs, watch, reads, writes, far
<1>7. Disconnected => UNCHANGED fdvars
  BY DEF Disconnected
<1> QED
  BY <1>1, <1>2, <1>3, <1>4, <1>5, <1>6, <1>7 DEF Next, Step

\* The invariant the theorems below rest on: the shape of the call stack, what the
\* plug's flags are about to be, and where the poll and the queue stand.
THEOREM Invariant == Spec => []IInv
<1> QED
  BY InitInv, NextInv, PTL DEF Spec

\* Type correctness of the plugs, the descriptor's state and the queue.
THEOREM TypeCorrect == Spec => []TypeOK
<1>1. IInv => TypeOK
  BY DEF IInv
<1> QED
  BY <1>1, Invariant, PTL

\* plugRead hands out each byte that read(2) took once, and doWriteFD gives the
\* descriptor each byte of what was written once: however the reads and writes
\* interleave with errors, resets, and the loops of the two plugs.
THEOREM EachByteOnce == Spec => []BytesOnce
<1>1. IInv => BytesOnce
  <2> SUFFICES ASSUME IInv PROVE BytesOnce
    OBVIOUS
  <2>1. Idle => taken = delivered + Len0(buffed_read)
    <3>1. delivered \in Int /\ Len0(buffed_read) \in Int
      BY DEF IInv, TypeOK, FDOK, Len0, Chunks
    <3> QED
      BY <3>1, AtIdle DEF IInv, BytesIn
  <2>2. alive => written = accepted + left
    BY DEF IInv, Partial
  <2> QED
    BY <2>1, <2>2 DEF BytesOnce
<1> QED
  BY <1>1, Invariant, PTL

\* The asserts at the head of eventRead and eventWrite never fail.
THEOREM AlwaysWorkToDo == Spec => []WokenForSomething
<1>1. IInv => WokenForSomething
  BY DEF IInv, ReadPoll, WritePoll, Polled, WokenForSomething
<1> QED
  BY <1>1, Invariant, PTL

\* Reading and writing never stall without an error: somebody always has it to do
\* next, the poll, an event on the queue, or the plug's flag.
THEOREM NeverStalls == Spec => []GoesOn
<1>1. IInv => GoesOn
  <2> SUFFICES ASSUME IInv, Idle, alive PROVE GoesOn
    BY DEF GoesOn
  <2>1. (WillRead <=> FPlug \in canread) /\ (WillWrite <=> FPlug \in canwrite)
    BY AtIdle
  <2> QED
    BY <2>1 DEF IInv, ReadPoll, ReadAhead, WritePoll, WriteAhead, Polled, GoesOn
<1> QED
  BY <1>1, Invariant, PTL

=============================================================================
