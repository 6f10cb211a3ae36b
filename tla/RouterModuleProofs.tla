------------------------- MODULE RouterModuleProofs -------------------------
(***************************************************************************)
(* What holds of RouterModule for every finite set of plugs, every set of  *)
(* destinations, and every nesting of the calls of plugs and peers.        *)
(***************************************************************************)
EXTENDS RouterModule, ListsProofs, FiniteSetTheorems

Ops == {"in", "out", "deliver", "route", "done", "plugin", "plugout"}

\* The frames that are ever on the stack: only routingDone's has no plug, only
\* that of processIncoming has copies to hand out.
Frames ==
  {f \in [op : Ops, plug : RPlugs \cup {None}, dests : SUBSET RPlugs, skipped : Nat] :
     /\ f.op # "done" => f.plug \in RPlugs
     /\ f.op # "route" => f.dests = {} /\ f.skipped = 0}

Flags == [RPlugs -> BOOLEAN]

ListsOK ==
  /\ allplugs \in Seq(RPlugs) /\ writeable \in Seq(RPlugs)
  /\ nonwriteable \in Seq(RPlugs)

FlagsOK ==
  /\ canread \in Flags /\ canwrite \in Flags /\ deleted \in Flags
  /\ plugged \in Flags /\ peerread \in Flags /\ peerwrite \in Flags

StateOK ==
  /\ routedchunk \in RPlugs \cup {None} /\ outgoingcopies \in Int
  /\ scan_posted \in BOOLEAN /\ inroutingdone \in BOOLEAN
  /\ stack \in Seq(Frames)
  /\ wrote \subseteq RPlugs

TypeOK == ListsOK /\ FlagsOK /\ StateOK

\* A plug that can be written to is on the list processIncoming shuts, and a plug
\* on a list is one the scan keeps, unless it has been deleted; then it is not
\* plugged in, so no loop writes to it.
Listed ==
  \A r \in RPlugs :
    /\ canwrite[r] => deleted[r] \/ r \in ToSet(writeable)
    /\ r \in ToSet(writeable) \/ r \in ToSet(nonwriteable)
         => deleted[r] \/ r \in ToSet(allplugs)
    /\ deleted[r] => ~plugged[r]

\* A plug that has still to be told of the chunk cannot be read, so that telling
\* it adds a reader.
ToldOnce == \A k \in 1..Len(stack) : stack[k].dests \cap Readable = {}

\* No copy is handed out but those counted, no reader is counted but those told.
IInv ==
  /\ TypeOK
  /\ Listed
  /\ ToldOnce
  /\ CopiesAccounted
  /\ ChunkHasReaders
  /\ WriterFindsNoChunk

-----------------------------------------------------------------------------
(* The copies on a call stack.                                             *)

\* HasUnhanded, and none of the plugs still to be told is in R.
Handing(calls, n, R) ==
  /\ HasUnhanded(calls, n)
  /\ \A k \in 1..Len(calls) : calls[k].dests \cap R = {}

Empty(frame) == frame.dests = {} /\ frame.skipped = 0

LEMMA UnhandedType ==
  ASSUME NEW f \in Frames
  PROVE  /\ IsFiniteSet(f.dests) /\ Unhanded(f) \in Nat
         /\ Unhanded(f) = 0 <=> Empty(f)
<1>1. f.dests \in SUBSET RPlugs /\ f.skipped \in Nat
  BY DEF Frames
<1>2. IsFiniteSet(f.dests) /\ Cardinality(f.dests) \in Nat
  BY <1>1, RouterConstants, FS_Subset, FS_CardinalityType
<1>3. Cardinality(f.dests) = 0 <=> f.dests = {}
  BY <1>2, FS_EmptySet
<1>4. \A c, d \in Nat : c + d \in Nat /\ (c + d = 0 <=> c = 0 /\ d = 0)
  OBVIOUS
<1>5. /\ Unhanded(f) \in Nat
      /\ Unhanded(f) = 0 <=> Cardinality(f.dests) = 0 /\ f.skipped = 0
  BY <1>1, <1>2, <1>4 DEF Unhanded
<1> QED
  BY <1>2, <1>3, <1>5 DEF Empty

\* With no copies left every frame is empty.
LEMMA NoneLeft ==
  ASSUME NEW s \in Seq(Frames), HasUnhanded(s, 0)
  PROVE  \A k \in 1..Len(s) : Empty(s[k])
<1> SUFFICES ASSUME NEW k \in 1..Len(s) PROVE Unhanded(s[k]) = 0
  BY UnhandedType
<1> QED
  BY DEF HasUnhanded

LEMMA NoneLeftForAny ==
  ASSUME NEW s \in Seq(Frames), NEW R, HasUnhanded(s, 0)
  PROVE  Handing(s, 0, R)
  BY NoneLeft DEF Handing, Empty

LEMMA PushEmpty ==
  ASSUME NEW s \in Seq(Frames), NEW f \in Frames, NEW n, NEW R,
         Handing(s, n, R), Empty(f)
  PROVE  Handing(<<f>> \o s, n, R)
<1> DEFINE t == <<f>> \o s
<1>1. /\ Len(t) = Len(s) + 1 /\ Len(s) \in Nat /\ t[1] = f
      /\ \A j \in 1..Len(s) : t[j+1] = s[j]
  BY PushedOn
<1> HIDE DEF t
<1>2. Unhanded(f) = 0
  BY UnhandedType
<1>3. ASSUME NEW j \in 1..Len(t) PROVE j = 1 \/ (j - 1 \in 1..Len(s) /\ t[j] = s[j-1])
  BY <1>1
<1>4. PICK k \in 0..Len(s) : /\ \A j \in 1..Len(s) : j # k => Unhanded(s[j]) = 0
                             /\ n = IF k = 0 THEN 0 ELSE Unhanded(s[k])
  BY DEF Handing, HasUnhanded
<1>5. HasUnhanded(t, n)
  <2>1. CASE k = 0
    <3>1. \A j \in 1..Len(t) : Unhanded(t[j]) = 0
      BY <1>1, <1>2, <1>3, <1>4, <2>1
    <3> QED
      BY <1>1, <1>4, <2>1, <3>1, 0 \in 0..Len(t) DEF HasUnhanded
  <2>2. CASE k # 0
    <3>1. k \in 1..Len(s) /\ k + 1 \in 0..Len(t) /\ k + 1 # 0 /\ t[k+1] = s[k]
      BY <1>1, <2>2
    <3>2. ASSUME NEW j \in 1..Len(t), j # k + 1 PROVE Unhanded(t[j]) = 0
      <4>1. CASE j = 1
        BY <1>1, <1>2, <4>1
      <4>2. CASE j - 1 \in 1..Len(s) /\ t[j] = s[j-1]
        BY <1>4, <3>2, <4>2, j - 1 # k
      <4> QED
        BY <1>3, <4>1, <4>2
    <3>3. n = IF k + 1 = 0 THEN 0 ELSE Unhanded(t[k+1])
      BY <1>4, <2>2, <3>1
    <3> QED
      BY <3>1, <3>2, <3>3 DEF HasUnhanded
  <2> QED
    BY <2>1, <2>2
<1>6. \A j \in 1..Len(t) : t[j].dests \cap R = {}
  BY <1>1, <1>3 DEF Handing, Empty
<1> QED
  BY <1>5, <1>6 DEF Handing, t

LEMMA PushBusy ==
  ASSUME NEW s \in Seq(Frames), NEW f \in Frames, NEW R,
         HasUnhanded(s, 0), f.dests \cap R = {}
  PROVE  Handing(<<f>> \o s, Unhanded(f), R)
<1> DEFINE t == <<f>> \o s
<1>1. /\ Len(t) = Len(s) + 1 /\ Len(s) \in Nat /\ t[1] = f
      /\ \A j \in 1..Len(s) : t[j+1] = s[j]
  BY PushedOn
<1> HIDE DEF t
<1>2. \A j \in 1..Len(s) : s[j] \in Frames /\ Empty(s[j]) /\ Unhanded(s[j]) = 0
  BY NoneLeft, UnhandedType
<1>3. ASSUME NEW j \in 1..Len(t) PROVE j = 1 \/ (j - 1 \in 1..Len(s) /\ t[j] = s[j-1])
  BY <1>1
<1>4. HasUnhanded(t, Unhanded(f))
  <2>1. \A j \in 1..Len(t) : j # 1 => Unhanded(t[j]) = 0
    BY <1>2, <1>3
  <2> QED
    BY <1>1, <2>1, 1 \in 0..Len(t) DEF HasUnhanded
<1>5. \A j \in 1..Len(t) : t[j].dests \cap R = {}
  BY <1>1, <1>2, <1>3 DEF Empty
<1> QED
  BY <1>4, <1>5 DEF Handing, t

LEMMA PopFrame ==
  ASSUME NEW s \in Seq(Frames), s # <<>>, NEW n, NEW R, Handing(s, n, R)
  PROVE  \/ Empty(Head(s)) /\ Handing(Tail(s), n, R)
         \/ /\ n = Unhanded(Head(s)) /\ HasUnhanded(Tail(s), 0)
            /\ Head(s).dests \cap R = {}
<1> DEFINE t == Tail(s)
<1>1. /\ Len(s) \in Nat \ {0} /\ Len(t) = Len(s) - 1
      /\ Head(s) = s[1] /\ Head(s) \in Frames
      /\ \A k \in 1..Len(s)-1 : t[k] = s[k+1]
  BY PoppedOff
<1> HIDE DEF t
<1>2. PICK k \in 0..Len(s) : /\ \A j \in 1..Len(s) : j # k => Unhanded(s[j]) = 0
                             /\ n = IF k = 0 THEN 0 ELSE Unhanded(s[k])
  BY DEF Handing, HasUnhanded
<1>3. ASSUME NEW j \in 1..Len(t) PROVE j + 1 \in 1..Len(s) /\ t[j] = s[j+1] /\ j + 1 # 1
  BY <1>1
<1>4. \A j \in 1..Len(t) : t[j].dests \cap R = {}
  BY <1>3 DEF Handing
<1>5. CASE k = 1
  <2>1. \A j \in 1..Len(t) : Unhanded(t[j]) = 0
    BY <1>2, <1>3, <1>5
  <2>2. HasUnhanded(t, 0)
    BY <1>1, <2>1, 0 \in 0..Len(t) DEF HasUnhanded
  <2> QED
    BY <1>1, <1>2, <1>5, <2>2 DEF Handing, t
<1>6. CASE k # 1
  <2>1. Empty(Head(s))
    BY <1>1, <1>2, <1>6, UnhandedType
  <2>2. HasUnhanded(t, n)
    <3>1. CASE k = 0
      <4>1. \A j \in 1..Len(t) : Unhanded(t[j]) = 0
        BY <1>2, <1>3, <3>1
      <4> QED
        BY <1>1, <1>2, <3>1, <4>1, 0 \in 0..Len(t) DEF HasUnhanded
    <3>2. CASE k # 0
      <4>1. k - 1 \in 0..Len(t) /\ k - 1 # 0 /\ n = Unhanded(t[k-1])
        BY <1>1, <1>2, <1>6, <3>2
      <4>2. \A j \in 1..Len(t) : j # k - 1 => Unhanded(t[j]) = 0
        BY <1>2, <1>3
      <4> QED
        BY <4>1, <4>2 DEF HasUnhanded
    <3> QED
      BY <3>1, <3>2
  <2> QED
    BY <1>4, <2>1, <2>2 DEF Handing, t
<1> QED
  BY <1>5, <1>6

\* There are never fewer than no copies.
LEMMA HandingType ==
  ASSUME NEW s \in Seq(Frames), NEW n, HasUnhanded(s, n)
  PROVE  n \in Nat
<1>1. PICK k \in 0..Len(s) : n = IF k = 0 THEN 0 ELSE Unhanded(s[k])
  BY DEF HasUnhanded
<1>2. k # 0 => s[k] \in Frames
  BY <1>1
<1> QED
  BY <1>1, <1>2, UnhandedType

-----------------------------------------------------------------------------
(* Types.                                                                  *)

LEMMA TopFrame ==
  ASSUME stack \in Seq(Frames), stack # <<>>
  PROVE  /\ Top \in Frames /\ Tail(stack) \in Seq(Frames)
         /\ Top.op \in Ops /\ Top.plug \in RPlugs \cup {None}
         /\ Top.dests \in SUBSET RPlugs /\ Top.skipped \in Nat
         /\ Top.op # "done" => Top.plug \in RPlugs
         /\ Top.op # "route" => Empty(Top)
<1>1. Head(stack) \in Frames /\ Tail(stack) \in Seq(Frames)
  BY PoppedOff
<1> QED
  BY <1>1 DEF Top, Frames, Empty

LEMMA NewFrame ==
  ASSUME NEW op \in Ops, NEW r, r \in RPlugs \/ (r = None /\ op = "done")
  PROVE  Frame(op, r) \in Frames /\ Empty(Frame(op, r))
  BY DEF Frame, Frames, Empty

\* A call that starts a loop, or returns, or both.
LEMMA StackTypes ==
  ASSUME stack \in Seq(Frames), NEW f \in Frames, NEW g \in Frames
  PROVE  /\ <<f>> \o stack \in Seq(Frames)
         /\ <<f, g>> \o stack \in Seq(Frames)
         /\ <<f>> \in Seq(Frames)
         /\ <<f, g>> \in Seq(Frames)
         /\ stack # <<>> => /\ Tail(stack) \in Seq(Frames)
                            /\ <<f>> \o Tail(stack) \in Seq(Frames)
                            /\ <<f, g>> \o Tail(stack) \in Seq(Frames)
  OBVIOUS

LEMMA ProgramTypes == TypeOK /\ Program => TypeOK'
<1> SUFFICES ASSUME TypeOK, NEW r \in RPlugs,
                    \/ AddNewPlug(r) \/ PlugInto(r) \/ UnPlug(r) \/ DeletePlug(r)
                    \/ PeerReadable(r) \/ PeerWriteable(r)
             PROVE  TypeOK'
  BY DEF Program
<1> USE DEF TypeOK, ListsOK, FlagsOK, StateOK, Flags, lists, route, peers
<1>1. /\ Frame("in", r) \in Frames /\ Frame("out", r) \in Frames
      /\ Frame("plugin", r) \in Frames /\ Frame("plugout", r) \in Frames
  BY NewFrame DEF Ops
<1>2. CASE AddNewPlug(r)
  <2>1. canwrite' \in Flags
    <3>1. canwrite' = [canwrite EXCEPT ![r] = routedchunk = None]
      BY <1>2 DEF AddNewPlug
    <3>2. \A b \in BOOLEAN : [canwrite EXCEPT ![r] = b] \in Flags
      OBVIOUS
    <3>3. (routedchunk = None) \in BOOLEAN
      BY ONLY Zenon
    <3> HIDE DEF Flags
    <3> QED
      BY ONLY <3>1, <3>2, <3>3, Zenon
  <2>2. /\ allplugs' = Append(allplugs, r)
        /\ writeable' = writeable \/ writeable' = Append(writeable, r)
        /\ nonwriteable' = nonwriteable \/ nonwriteable' = Append(nonwriteable, r)
        /\ UNCHANGED <<route, scan_posted, inroutingdone, canread, deleted, plugged,
                        peers, stack, wrote>>
    BY ONLY <1>2, Zenon DEF AddNewPlug
  <2>3. ListsOK'
    <3>1. \A list \in Seq(RPlugs) : Append(list, r) \in Seq(RPlugs)
      OBVIOUS
    <3> QED
      BY <2>2, <3>1
  <2>4. FlagsOK'
    BY <2>1, <2>2
  <2>5. StateOK'
    BY <2>2
  <2> QED
    BY <2>3, <2>4, <2>5
<1>3. CASE PlugInto(r)
  <2>1. stack' \in Seq(Frames)
    BY <1>1, <1>3, StackTypes DEF PlugInto
  <2> QED
    BY <1>3, <2>1 DEF PlugInto
<1>4. CASE UnPlug(r)
  BY <1>4 DEF UnPlug
<1>5. CASE DeletePlug(r)
  BY <1>5 DEF DeletePlug
<1>6. CASE PeerReadable(r)
  BY <1>1, <1>6, StackTypes DEF PeerReadable
<1>7. CASE PeerWriteable(r)
  BY <1>1, <1>7, StackTypes DEF PeerWriteable
<1> QED
  BY <1>2, <1>3, <1>4, <1>5, <1>6, <1>7

LEMMA ScanTypes == TypeOK /\ DoScan => TypeOK'
<1> SUFFICES ASSUME TypeOK, DoScan PROVE TypeOK'
  OBVIOUS
<1> USE DEF TypeOK, ListsOK, FlagsOK, StateOK, lists, route, peers
<1>1. Kept \in Seq(RPlugs)
  BY OnlyElements DEF Kept
<1>2. ListsOK'
  BY <1>1, OnlyElements DEF DoScan
<1>3. Frame("done", None) \in Frames
  BY NewFrame DEF Ops
<1>4. FlagsOK'
  BY DEF DoScan
<1>5. stack' \in Seq(Frames) /\ inroutingdone' \in BOOLEAN
  BY <1>3, StackTypes DEF DoScan
<1>6. StateOK'
  BY <1>5 DEF DoScan
<1> QED
  BY <1>2, <1>4, <1>6

LEMMA CallTypes == TypeOK /\ Calls => TypeOK'
<1> SUFFICES ASSUME TypeOK, Calls PROVE TypeOK'
  OBVIOUS
<1> USE DEF TypeOK, ListsOK, FlagsOK, StateOK, Flags, lists, route, peers
<1>1. stack # <<>> => /\ Top \in Frames /\ Tail(stack) \in Seq(Frames)
                      /\ Top.plug \in RPlugs \cup {None}
                      /\ Top.dests \in SUBSET RPlugs /\ Top.skipped \in Nat
                      /\ Top.op # "done" => Top.plug \in RPlugs
  BY TopFrame
<1>2. \A op \in Ops, r \in RPlugs : Frame(op, r) \in Frames
  BY NewFrame
<1>3. Frame("done", None) \in Frames
  BY NewFrame DEF Ops
<1>4. {"in", "out", "deliver", "route", "done"} \subseteq Ops
  BY DEF Ops
<1>5. CASE RouteNowhere
  <2>1. stack # <<>> /\ Top.plug \in RPlugs
    BY <1>1, <1>5 DEF RouteNowhere, Running, Top
  <2>2. stack' \in Seq(Frames) /\ inroutingdone' \in BOOLEAN
    BY <1>3, <1>5, StackTypes DEF RouteNowhere
  <2>3. FlagsOK'
    BY <1>5, <2>1 DEF RouteNowhere, RoutesTo
  <2>4. outgoingcopies' \in Int /\ wrote' \subseteq RPlugs /\ scan_posted' \in BOOLEAN
    BY <1>5, <2>1, FS_EmptySet DEF RouteNowhere, RoutesTo
  <2> QED
    BY <1>5, <2>2, <2>3, <2>4 DEF RouteNowhere
<1>6. CASE Route
  <2> DEFINE src == Top.plug
  <2>1. stack # <<>> /\ src \in RPlugs
    BY <1>1, <1>6 DEF Route, Running, Top
  <2>2. PICK dests \in (SUBSET ToSet(allplugs)) \ {{}} :
          /\ RoutesTo(src, dests)
          /\ stack' = <<[Frame("route", src) EXCEPT !.dests = dests]>> \o stack
    BY <1>6 DEF Route
  <2>3. dests \in SUBSET RPlugs
    BY ListElements
  <2>4. [Frame("route", src) EXCEPT !.dests = dests] \in Frames
    BY <2>1, <2>3 DEF Frame, Frames, Ops
  <2>5. stack' \in Seq(Frames)
    BY <2>2, <2>4, StackTypes
  <2>6. outgoingcopies' \in Int /\ wrote' \subseteq RPlugs /\ scan_posted' \in BOOLEAN
    BY <2>1, <2>2, <2>3, RouterConstants, FS_Subset, FS_CardinalityType DEF RoutesTo
  <2>7. Shut(src) \in Seq(RPlugs)
    BY OnlyElements DEF Shut
  <2>8. ListsOK'
    BY <1>6, <2>7 DEF Route
  <2>9. canwrite' \in Flags /\ peerread' \in Flags
    BY <1>6, <2>1, <2>2 DEF Route, RoutesTo
  <2>10. FlagsOK'
    BY <1>6, <2>9 DEF Route
  <2>11. StateOK'
    BY <1>6, <2>1, <2>5, <2>6 DEF Route
  <2> QED
    BY <2>8, <2>10, <2>11
<1>7. CASE InLoopEnds
  BY <1>1, <1>7 DEF InLoopEnds, Running
<1>8. CASE HandOut
  <2>1. stack # <<>> /\ Top \in Frames /\ Top.op = "route"
    BY <1>1, <1>8 DEF HandOut, Running, Top
  <2>2. PICK d \in Top.dests :
          /\ canread' = [canread EXCEPT ![d] = TRUE]
          /\ stack' = (IF OnStack("out", d) THEN <<[Top EXCEPT !.dests = @ \ {d}]>>
                       ELSE <<Frame("out", d), [Top EXCEPT !.dests = @ \ {d}]>>)
                         \o Tail(stack)
    BY <1>8 DEF HandOut
  <2>3. d \in RPlugs
    BY <1>1, <2>1
  <2>4. [Top EXCEPT !.dests = @ \ {d}] \in Frames
    BY <2>1 DEF Frames
  <2>5. stack' \in Seq(Frames)
    BY <1>2, <1>4, <2>1, <2>2, <2>3, <2>4, StackTypes
  <2> QED
    BY <1>8, <2>2, <2>3, <2>5 DEF HandOut
<1>9. CASE Skip
  <2>1. stack # <<>> /\ Top \in Frames /\ Top.op = "route"
    BY <1>1, <1>9 DEF Skip, Running, Top
  <2>2. PICK d \in Top.dests :
          stack' = <<[Top EXCEPT !.dests = @ \ {d}, !.skipped = @ + 1]>> \o Tail(stack)
    BY <1>9 DEF Skip
  <2>3. [Top EXCEPT !.dests = @ \ {d}, !.skipped = @ + 1] \in Frames
    <3>1. Top.skipped + 1 \in Nat /\ Top.dests \ {d} \in SUBSET RPlugs
      BY <1>1, <2>1
    <3> HIDE DEF Top
    <3> QED
      BY <2>1, <3>1 DEF Frames
  <2>4. stack' \in Seq(Frames)
    BY <2>1, <2>2, <2>3, StackTypes
  <2> QED
    BY <1>9, <2>4 DEF Skip
<1>10. CASE Routed
  <2>1. stack # <<>>
    BY <1>10 DEF Routed, Running
  <2>2. stack' \in Seq(Frames) /\ inroutingdone' \in BOOLEAN
    BY <1>3, <1>10, <2>1, StackTypes DEF Routed
  <2>3. outgoingcopies' \in Int /\ routedchunk' \in RPlugs \cup {None}
    BY <1>1, <1>10, <2>1 DEF Routed, CopiesLeft, ChunkLeft
  <2> QED
    BY <1>10, <2>2, <2>3 DEF Routed
<1>11. CASE PlugIntoGoesOn
  <2>1. stack # <<>> /\ Top.plug \in RPlugs
    BY <1>1, <1>11 DEF PlugIntoGoesOn, Running, Top
  <2>2. stack' \in Seq(Frames)
    BY <1>2, <1>4, <1>11, <2>1, StackTypes DEF PlugIntoGoesOn
  <2> QED
    BY <1>11, <2>2 DEF PlugIntoGoesOn
<1>12. CASE Read
  <2>1. stack # <<>> /\ Top.plug \in RPlugs
    BY <1>1, <1>12 DEF Read, Running, Top
  <2>2. stack' \in Seq(Frames) /\ inroutingdone' \in BOOLEAN
    BY <1>2, <1>3, <1>4, <1>12, <2>1, StackTypes DEF Read
  <2>3. outgoingcopies' \in Int /\ routedchunk' \in RPlugs \cup {None}
    BY <1>12 DEF Read, ChunkLeft
  <2>4. canread' \in Flags
    BY <1>12, <2>1 DEF Read
  <2> QED
    BY <1>12, <2>2, <2>3, <2>4 DEF Read
<1>13. CASE Deliver
  BY <1>1, <1>13 DEF Deliver, Running
<1>14. CASE OutLoopEnds
  BY <1>1, <1>14 DEF OutLoopEnds, Running
<1>15. CASE OpenNext
  <2> DEFINE r == Head(nonwriteable)
  <2>1. r \in RPlugs /\ Tail(nonwriteable) \in Seq(RPlugs)
    BY <1>15 DEF OpenNext
  <2>2. stack' \in Seq(Frames)
    BY <1>2, <1>4, <1>15, <2>1, StackTypes DEF OpenNext
  <2>3. canwrite' \in Flags
    BY <1>15, <2>1 DEF OpenNext
  <2>4. writeable' \in Seq(RPlugs)
    BY <1>15, <2>1, AppendElements DEF OpenNext
  <2> QED
    BY <1>15, <2>1, <2>2, <2>3, <2>4 DEF OpenNext
<1>16. CASE RoutingDoneEnds
  BY <1>1, <1>16 DEF RoutingDoneEnds, Running
<1> QED
  BY <1>5, <1>6, <1>7, <1>8, <1>9, <1>10, <1>11, <1>12, <1>13, <1>14, <1>15, <1>16
  DEF Calls

LEMMA NextTypes == TypeOK /\ [Next]_vars => TypeOK'
<1> SUFFICES ASSUME TypeOK, UNCHANGED vars PROVE TypeOK'
  BY ProgramTypes, ScanTypes, CallTypes DEF Next
<1> QED
  BY DEF vars, lists, route, peers, TypeOK, ListsOK, FlagsOK, StateOK, Flags

-----------------------------------------------------------------------------
(* The lists.                                                              *)

LEMMA EmptyElements == ToSet(<<>>) = {}
  BY DEF ToSet

LEMMA ProgramListed == TypeOK /\ Listed /\ Program => Listed'
<1> SUFFICES ASSUME TypeOK, Listed, NEW r \in RPlugs,
                    \/ AddNewPlug(r) \/ PlugInto(r) \/ UnPlug(r) \/ DeletePlug(r)
                    \/ PeerReadable(r) \/ PeerWriteable(r)
             PROVE  Listed'
  BY DEF Program
<1> USE DEF TypeOK, ListsOK, FlagsOK, Flags, lists
<1>1. CASE AddNewPlug(r)
  <2>1. /\ ToSet(Append(allplugs, r)) = ToSet(allplugs) \cup {r}
        /\ ToSet(Append(writeable, r)) = ToSet(writeable) \cup {r}
        /\ ToSet(Append(nonwriteable, r)) = ToSet(nonwriteable) \cup {r}
    BY AppendElements
  <2>2. /\ ToSet(allplugs') = ToSet(allplugs) \cup {r}
        /\ deleted' = deleted /\ plugged' = plugged
    BY <1>1, <2>1 DEF AddNewPlug
  <2>3. \A q \in RPlugs : canwrite'[q] => (q = r /\ routedchunk = None) \/ canwrite[q]
    BY <1>1 DEF AddNewPlug
  <2>4. CASE routedchunk = None
    <3>1. /\ ToSet(writeable') = ToSet(writeable) \cup {r}
          /\ ToSet(nonwriteable') = ToSet(nonwriteable)
      BY <1>1, <2>1, <2>4 DEF AddNewPlug
    <3> QED
      BY <2>2, <2>3, <3>1 DEF Listed
  <2>5. CASE routedchunk # None
    <3>1. /\ ToSet(nonwriteable') = ToSet(nonwriteable) \cup {r}
          /\ ToSet(writeable') = ToSet(writeable)
      BY <1>1, <2>1, <2>5 DEF AddNewPlug
    <3> QED
      BY <2>2, <2>3, <2>5, <3>1 DEF Listed
  <2> QED
    BY <2>4, <2>5
<1>2. CASE PlugInto(r)
  BY <1>2 DEF PlugInto, Listed
<1>3. CASE UnPlug(r)
  BY <1>3 DEF UnPlug, Listed
<1>4. CASE DeletePlug(r)
  BY <1>4 DEF DeletePlug, Listed
<1>5. CASE PeerReadable(r)
  BY <1>5 DEF PeerReadable, Listed
<1>6. CASE PeerWriteable(r)
  BY <1>6 DEF PeerWriteable, Listed
<1> QED
  BY <1>1, <1>2, <1>3, <1>4, <1>5, <1>6

LEMMA ScanListed == TypeOK /\ Listed /\ DoScan => Listed'
<1> SUFFICES ASSUME TypeOK, Listed, DoScan PROVE Listed'
  OBVIOUS
<1> USE DEF TypeOK, ListsOK, FlagsOK, Flags
<1>1. /\ Kept \in Seq(RPlugs)
      /\ ToSet(Kept) = ToSet(allplugs) \cap {r \in RPlugs : ~deleted[r]}
  BY OnlyElements DEF Kept
<1>2. /\ ToSet(writeable') = ToSet(Kept) \cap {r \in RPlugs : canwrite[r]}
      /\ ToSet(nonwriteable') = ToSet(Kept) \cap {r \in RPlugs : ~canwrite[r]}
      /\ allplugs' = Kept
  BY <1>1, OnlyElements DEF DoScan
<1>3. canwrite' = canwrite /\ deleted' = deleted /\ plugged' = plugged
  BY DEF DoScan
<1> QED
  BY <1>1, <1>2, <1>3 DEF Listed

LEMMA CallListed == TypeOK /\ Listed /\ Calls => Listed'
<1> SUFFICES ASSUME TypeOK, Listed, Calls PROVE Listed'
  OBVIOUS
<1> USE DEF TypeOK, ListsOK, FlagsOK, Flags, lists
<1>1. CASE RouteNowhere
  BY <1>1 DEF RouteNowhere, Listed
<1>2. CASE Route
  <2> DEFINE src == Top.plug
  <2>1. /\ Shut(src) \in Seq(RPlugs)
        /\ ToSet(Shut(src)) = ToSet(writeable) \cap {r \in RPlugs : r # src /\ ~deleted[r]}
    BY OnlyElements DEF Shut
  <2>2. ToSet(nonwriteable') = ToSet(nonwriteable) \cup ToSet(Shut(src))
    BY <1>2, <2>1, ConcatElements DEF Route
  <2>3. ToSet(writeable') = {}
    BY <1>2, EmptyElements DEF Route
  <2>4. \A r \in RPlugs : canwrite'[r] => canwrite[r] /\ r # src /\ r \notin ToSet(Shut(src))
    BY <1>2 DEF Route
  <2>5. allplugs' = allplugs /\ deleted' = deleted /\ plugged' = plugged
    BY <1>2 DEF Route
  <2> QED
    BY <2>1, <2>2, <2>3, <2>4, <2>5 DEF Listed
<1>3. CASE OpenNext
  <2> DEFINE r == Head(nonwriteable)
  <2>1. /\ r \in RPlugs /\ Tail(nonwriteable) \in Seq(RPlugs)
        /\ ToSet(nonwriteable) = {r} \cup ToSet(Tail(nonwriteable))
    BY <1>3, TailElements DEF OpenNext
  <2>2. ToSet(writeable') = ToSet(writeable) \cup {r}
    BY <1>3, <2>1, AppendElements DEF OpenNext
  <2>3. ToSet(nonwriteable') = ToSet(Tail(nonwriteable))
    BY <1>3 DEF OpenNext
  <2>4. /\ allplugs' = allplugs /\ deleted' = deleted /\ plugged' = plugged
        /\ canwrite' = [canwrite EXCEPT ![r] = TRUE]
    BY <1>3 DEF OpenNext
  <2> QED
    BY <2>1, <2>2, <2>3, <2>4 DEF Listed
<1>4. CASE UNCHANGED <<lists, canwrite, deleted, plugged>>
  BY <1>4 DEF Listed
<1> QED
  BY <1>1, <1>2, <1>3, <1>4, Zenon
  DEF Calls, InLoopEnds, HandOut, Skip, Routed, PlugIntoGoesOn, Read, Deliver,
      OutLoopEnds, RoutingDoneEnds

LEMMA NextListed == TypeOK /\ Listed /\ [Next]_vars => Listed'
<1> SUFFICES ASSUME Listed, UNCHANGED vars PROVE Listed'
  BY ProgramListed, ScanListed, CallListed DEF Next
<1> QED
  BY DEF vars, lists, Listed

-----------------------------------------------------------------------------
(* The chunk and its copies.                                               *)

\* The copies that are not yet with a reader.
Unread == outgoingcopies - Cardinality(Readable)

\* CopiesAccounted and ToldOnce.
Accounted == Handing(stack, Unread, Readable)

LEMMA ReadableType ==
  /\ IsFiniteSet(Readable) /\ Cardinality(Readable) \in Nat
  /\ Cardinality(Readable) = 0 <=> Readable = {}
<1>1. Readable \in SUBSET RPlugs
  BY DEF Readable
<1> QED
  BY <1>1, RouterConstants, FS_Subset, FS_CardinalityType, FS_EmptySet

\* A chunk that is not there has no reader, and no copy of it is left.
LEMMA NoChunkNoReader ==
  ASSUME TypeOK, Accounted, ChunkHasReaders, routedchunk = None
  PROVE  outgoingcopies = 0 /\ Unread = 0 /\ Readable = {} /\ HasUnhanded(stack, 0)
<1>1. Unread \in Nat
  BY HandingType DEF Accounted, Handing, TypeOK, StateOK
<1>2. outgoingcopies = 0 /\ Cardinality(Readable) = 0
  BY <1>1, ReadableType DEF Unread, ChunkHasReaders, TypeOK, StateOK
<1>3. Unread = 0
  BY <1>2 DEF Unread
<1> QED
  BY <1>2, <1>3, ReadableType DEF Accounted, Handing

LEMMA PopEmpty ==
  ASSUME NEW s \in Seq(Frames), s # <<>>, NEW n, NEW R, Handing(s, n, R),
         Empty(Head(s))
  PROVE  Handing(Tail(s), n, R)
<1>1. Tail(s) \in Seq(Frames) /\ Unhanded(Head(s)) = 0
  BY PoppedOff, UnhandedType
<1> QED
  BY <1>1, PopFrame, NoneLeftForAny

\* A step that hands nothing out and that nobody reads.
LEMMA QuietStep ==
  ASSUME Accounted, ChunkHasReaders, UNCHANGED <<outgoingcopies, routedchunk, canread>>,
         Handing(stack', Unread, Readable)
  PROVE  Accounted' /\ ChunkHasReaders'
<1>1. Readable' = Readable
  BY DEF Readable
<1>2. Unread' = Unread
  BY <1>1 DEF Unread
<1> QED
  BY <1>1, <1>2 DEF Accounted, ChunkHasReaders

\* What the stack of a step may be for that.
LEMMA QuietStacks ==
  ASSUME stack \in Seq(Frames), Accounted,
         NEW f \in Frames, Empty(f), NEW g \in Frames, Empty(g)
  PROVE  /\ Handing(stack, Unread, Readable)
         /\ Handing(<<f>> \o stack, Unread, Readable)
         /\ Handing(<<f, g>> \o stack, Unread, Readable)
         /\ stack # <<>> /\ Empty(Top)
              => /\ Handing(Tail(stack), Unread, Readable)
                 /\ Handing(<<f>> \o Tail(stack), Unread, Readable)
         /\ stack = <<>> => /\ Handing(<<f>>, Unread, Readable)
                            /\ Handing(<<f, g>>, Unread, Readable)
<1>1. Handing(stack, Unread, Readable)
  BY DEF Accounted
<1>2. Handing(<<f>> \o stack, Unread, Readable) /\ Handing(<<g>> \o stack, Unread, Readable)
  BY <1>1, PushEmpty
<1>3. Handing(<<f, g>> \o stack, Unread, Readable)
  <2>1. <<g>> \o stack \in Seq(Frames) /\ <<f, g>> \o stack = <<f>> \o (<<g>> \o stack)
    OBVIOUS
  <2> QED
    BY <1>2, <2>1, PushEmpty
<1>4. ASSUME stack # <<>>, Empty(Top)
      PROVE  /\ Handing(Tail(stack), Unread, Readable)
             /\ Handing(<<f>> \o Tail(stack), Unread, Readable)
  <2>1. Tail(stack) \in Seq(Frames) /\ Handing(Tail(stack), Unread, Readable)
    BY <1>1, <1>4, PoppedOff, PopEmpty DEF Top
  <2> QED
    BY <2>1, PushEmpty
<1>5. stack = <<>> => <<f>> \o stack = <<f>> /\ <<f, g>> \o stack = <<f, g>>
  OBVIOUS
<1> QED
  BY <1>1, <1>2, <1>3, <1>4, <1>5

LEMMA ProgramCopies ==
  TypeOK /\ Accounted /\ ChunkHasReaders /\ Program => Accounted' /\ ChunkHasReaders'
<1> SUFFICES ASSUME TypeOK, Accounted, ChunkHasReaders, NEW r \in RPlugs,
                    \/ AddNewPlug(r) \/ PlugInto(r) \/ UnPlug(r) \/ DeletePlug(r)
                    \/ PeerReadable(r) \/ PeerWriteable(r)
             PROVE  Accounted' /\ ChunkHasReaders'
  BY DEF Program
<1> USE DEF route
<1>1. stack \in Seq(Frames)
  BY DEF TypeOK, StateOK
<1>2. \A op \in {"in", "out", "plugin", "plugout"} :
        Frame(op, r) \in Frames /\ Empty(Frame(op, r))
  BY NewFrame DEF Ops
<1>3. UNCHANGED <<outgoingcopies, routedchunk, canread>>
  BY Zenon DEF AddNewPlug, PlugInto, UnPlug, DeletePlug, PeerReadable, PeerWriteable
<1>4. CASE stack' = stack
  BY <1>3, <1>4, QuietStep DEF Accounted
<1>5. CASE PlugInto(r)
  <2>1. Handing(stack', Unread, Readable)
    BY <1>1, <1>2, <1>5, QuietStacks DEF PlugInto
  <2> QED
    BY <1>3, <2>1, QuietStep
<1>6. CASE PeerReadable(r)
  <2>1. Handing(stack', Unread, Readable)
    BY <1>1, <1>2, <1>6, QuietStacks DEF PeerReadable
  <2> QED
    BY <1>3, <2>1, QuietStep
<1>7. CASE PeerWriteable(r)
  <2>1. Handing(stack', Unread, Readable)
    BY <1>1, <1>2, <1>7, QuietStacks DEF PeerWriteable
  <2> QED
    BY <1>3, <2>1, QuietStep
<1> QED
  BY <1>4, <1>5, <1>6, <1>7, Zenon DEF AddNewPlug, UnPlug, DeletePlug

LEMMA ScanCopies ==
  TypeOK /\ Accounted /\ ChunkHasReaders /\ DoScan => Accounted' /\ ChunkHasReaders'
<1> SUFFICES ASSUME TypeOK, Accounted, ChunkHasReaders, DoScan
             PROVE  Accounted' /\ ChunkHasReaders'
  OBVIOUS
<1>1. Frame("done", None) \in Frames /\ Empty(Frame("done", None))
  BY NewFrame DEF Ops
<1>2. stack \in Seq(Frames)
  BY DEF TypeOK, StateOK
<1>3. stack' = stack \/ (stack = <<>> /\ stack' = <<Frame("done", None)>>)
  BY DEF DoScan
<1>4. Handing(stack', Unread, Readable)
  BY <1>1, <1>2, <1>3, QuietStacks
<1> QED
  BY <1>4, QuietStep DEF DoScan, route

\* The steps that hand copies out, and those that take one.
LEMMA RouteCopies ==
  ASSUME TypeOK, Accounted, ChunkHasReaders, Route, routedchunk = None
  PROVE  Accounted' /\ ChunkHasReaders'
<1> DEFINE src == Top.plug
<1>1. stack \in Seq(Frames) /\ stack # <<>> /\ src \in RPlugs
  BY TopFrame DEF TypeOK, StateOK, Route, Running, Top
<1>2. PICK dests \in (SUBSET ToSet(allplugs)) \ {{}} :
        /\ RoutesTo(src, dests)
        /\ stack' = <<[Frame("route", src) EXCEPT !.dests = dests]>> \o stack
  BY DEF Route
<1>3. dests \in SUBSET RPlugs /\ dests # {}
  <2>1. ToSet(allplugs) \subseteq RPlugs
    BY ListElements DEF TypeOK, ListsOK
  <2> QED
    BY <2>1
<1> DEFINE f == [Frame("route", src) EXCEPT !.dests = dests]
<1>4. f \in Frames /\ f.dests = dests /\ f.skipped = 0
  BY <1>1, <1>3 DEF Frame, Frames, Ops
<1>5. IsFiniteSet(dests) /\ Cardinality(dests) \in Nat /\ Cardinality(dests) # 0
  BY <1>3, RouterConstants, FS_Subset, FS_CardinalityType, FS_EmptySet
<1>6. outgoingcopies' = Cardinality(dests) /\ routedchunk' = src /\ canread' = canread
  BY <1>2 DEF Route, RoutesTo
<1>7. HasUnhanded(stack, 0) /\ Readable = {} /\ Readable' = {}
  BY <1>6, NoChunkNoReader DEF Readable
<1> HIDE DEF f
<1>8. Handing(stack', Unhanded(f), {})
  BY <1>1, <1>2, <1>4, <1>7, PushBusy DEF f
<1>9. Unread' = Unhanded(f)
  BY <1>4, <1>5, <1>6, <1>7, FS_EmptySet DEF Unread, Unhanded
<1>10. src # None
  BY <1>1, RouterConstants
<1> QED
  BY <1>5, <1>6, <1>7, <1>8, <1>9, <1>10 DEF Accounted, ChunkHasReaders

LEMMA HandOutCopies ==
  ASSUME TypeOK, Accounted, ChunkHasReaders, HandOut
  PROVE  Accounted' /\ ChunkHasReaders'
<1>1. /\ stack \in Seq(Frames) /\ stack # <<>> /\ Tail(stack) \in Seq(Frames)
      /\ Top \in Frames /\ Top.op = "route" /\ Top.dests \in SUBSET RPlugs
  BY TopFrame DEF TypeOK, StateOK, HandOut, Running, Top
<1>2. PICK d \in Top.dests :
        /\ canread' = [canread EXCEPT ![d] = TRUE]
        /\ stack' = (IF OnStack("out", d) THEN <<[Top EXCEPT !.dests = @ \ {d}]>>
                     ELSE <<Frame("out", d), [Top EXCEPT !.dests = @ \ {d}]>>) \o Tail(stack)
  BY DEF HandOut
<1> DEFINE rest == [Top EXCEPT !.dests = @ \ {d}]
<1>3. rest \in Frames /\ rest.dests = Top.dests \ {d} /\ rest.skipped = Top.skipped
  BY <1>1 DEF Frames
<1>4. Frame("out", d) \in Frames /\ Empty(Frame("out", d))
  BY <1>1, NewFrame DEF Ops
<1>5. ~ Empty(Top)
  BY DEF Empty
<1>6. Unread = Unhanded(Top) /\ HasUnhanded(Tail(stack), 0) /\ Top.dests \cap Readable = {}
  BY <1>1, <1>5, PopFrame DEF Accounted, Top
<1>7. /\ Readable' = Readable \cup {d}
      /\ Cardinality(Readable') = Cardinality(Readable) + 1
  <2>1. Readable' = Readable \cup {d} /\ d \notin Readable
    BY <1>1, <1>2, <1>6 DEF Readable, TypeOK, FlagsOK, Flags
  <2> QED
    BY <2>1, ReadableType, FS_AddElement
<1>8. Unhanded(rest) = Unhanded(Top) - 1
  <2>1. /\ IsFiniteSet(Top.dests) /\ Cardinality(Top.dests) \in Nat
        /\ Cardinality(Top.dests \ {d}) = Cardinality(Top.dests) - 1
    BY <1>1, RouterConstants, FS_Subset, FS_CardinalityType, FS_RemoveElement
  <2>2. Top.skipped \in Nat
    BY <1>1 DEF Frames
  <2> HIDE DEF rest
  <2> QED
    BY <1>3, <2>1, <2>2 DEF Unhanded
<1> HIDE DEF rest
<1>9. Handing(<<rest>> \o Tail(stack), Unhanded(rest), Readable')
  BY <1>1, <1>3, <1>6, <1>7, PushBusy
<1>10. Handing(stack', Unhanded(rest), Readable')
  <2>1. /\ <<rest>> \o Tail(stack) \in Seq(Frames)
        /\ <<Frame("out", d), rest>> \o Tail(stack) = <<Frame("out", d)>> \o (<<rest>> \o Tail(stack))
    BY <1>1, <1>3, <1>4
  <2>2. Handing(<<Frame("out", d)>> \o (<<rest>> \o Tail(stack)), Unhanded(rest), Readable')
    BY <1>4, <1>9, <2>1, PushEmpty
  <2> QED
    BY <1>2, <1>9, <2>1, <2>2 DEF rest
<1>11. outgoingcopies' = outgoingcopies /\ routedchunk' = routedchunk
  BY DEF HandOut, route
<1>12. Unread' = Unhanded(rest)
  BY <1>6, <1>7, <1>8, <1>11, ReadableType DEF Unread, TypeOK, StateOK
<1> QED
  BY <1>10, <1>11, <1>12 DEF Accounted, ChunkHasReaders

LEMMA SkipCopies ==
  ASSUME TypeOK, Accounted, ChunkHasReaders, Skip
  PROVE  Accounted' /\ ChunkHasReaders'
<1>1. /\ stack \in Seq(Frames) /\ stack # <<>> /\ Tail(stack) \in Seq(Frames)
      /\ Top \in Frames /\ Top.op = "route" /\ Top.dests \in SUBSET RPlugs
      /\ Top.skipped \in Nat
  BY TopFrame DEF TypeOK, StateOK, Skip, Running, Top
<1>2. PICK d \in Top.dests :
        stack' = <<[Top EXCEPT !.dests = @ \ {d}, !.skipped = @ + 1]>> \o Tail(stack)
  BY DEF Skip
<1> DEFINE rest == [Top EXCEPT !.dests = @ \ {d}, !.skipped = @ + 1]
<1>3. rest \in Frames /\ rest.dests = Top.dests \ {d} /\ rest.skipped = Top.skipped + 1
  <2>1. Top.skipped + 1 \in Nat /\ Top.dests \ {d} \in SUBSET RPlugs
    BY <1>1
  <2> QED
    BY <1>1, <2>1 DEF Frames
<1>4. ~ Empty(Top)
  BY DEF Empty
<1>5. Unread = Unhanded(Top) /\ HasUnhanded(Tail(stack), 0) /\ Top.dests \cap Readable = {}
  BY <1>1, <1>4, PopFrame DEF Accounted, Top
<1> HIDE DEF rest
<1>6. Unhanded(rest) = Unhanded(Top)
  <2>1. /\ IsFiniteSet(Top.dests) /\ Cardinality(Top.dests) \in Nat
        /\ Cardinality(Top.dests \ {d}) = Cardinality(Top.dests) - 1
    BY <1>1, RouterConstants, FS_Subset, FS_CardinalityType, FS_RemoveElement
  <2> QED
    BY <1>1, <1>3, <2>1 DEF Unhanded
<1>7. Handing(stack', Unread, Readable)
  BY <1>1, <1>2, <1>3, <1>5, <1>6, PushBusy DEF rest
<1> QED
  BY <1>7, QuietStep DEF Skip, route

LEMMA RoutedCopies ==
  ASSUME TypeOK, Accounted, ChunkHasReaders, Routed
  PROVE  Accounted' /\ ChunkHasReaders'
<1>1. /\ stack \in Seq(Frames) /\ stack # <<>> /\ Tail(stack) \in Seq(Frames)
      /\ Top \in Frames /\ Top.dests = {} /\ Top.skipped \in Nat
      /\ outgoingcopies \in Int
  BY TopFrame DEF TypeOK, StateOK, Routed, Running, Top
<1>2. Frame("done", None) \in Frames /\ Empty(Frame("done", None))
  BY NewFrame DEF Ops
<1>3. stack' = Tail(stack) \/ stack' = <<Frame("done", None)>> \o Tail(stack)
  BY DEF Routed
<1>4. Readable' = Readable
  BY DEF Readable, Routed
<1>5. CASE Top.skipped = 0
  <2>1. Handing(stack', Unread, Readable)
    BY <1>1, <1>2, <1>3, <1>5, QuietStacks DEF Empty
  <2> QED
    BY <1>5, <2>1, QuietStep DEF Routed
<1>6. CASE Top.skipped > 0
  <2>1. Unhanded(Top) = Top.skipped /\ ~ Empty(Top)
    BY <1>1, <1>6, FS_EmptySet DEF Unhanded, Empty
  <2>2. Unread = Top.skipped /\ HasUnhanded(Tail(stack), 0)
    BY <1>1, <2>1, PopFrame DEF Accounted, Top
  <2>3. outgoingcopies = Cardinality(Readable) + Top.skipped
    BY <1>1, <2>2, ReadableType DEF Unread
  <2>4. outgoingcopies' = Cardinality(Readable)
    BY <1>1, <1>6, <2>3, ReadableType DEF Routed, CopiesLeft
  <2>5. routedchunk' = IF outgoingcopies' = 0 THEN None ELSE routedchunk
    BY <1>6 DEF Routed, ChunkLeft
  <2>6. ChunkHasReaders'
    BY <1>1, <1>6, <2>3, <2>4, <2>5, ReadableType DEF ChunkHasReaders
  <2>7. Unread' = 0
    BY <1>4, <2>4, ReadableType DEF Unread
  <2>8. Handing(Tail(stack), 0, Readable)
    BY <1>1, <2>2, NoneLeftForAny
  <2>9. Handing(stack', 0, Readable)
    BY <1>1, <1>2, <1>3, <2>8, PushEmpty
  <2> QED
    BY <1>4, <2>6, <2>7, <2>9 DEF Accounted
<1> QED
  BY <1>1, <1>5, <1>6

LEMMA ReadCopies ==
  ASSUME TypeOK, Accounted, ChunkHasReaders, Read
  PROVE  Accounted' /\ ChunkHasReaders'
<1> DEFINE r == Top.plug
<1>1. /\ stack \in Seq(Frames) /\ stack # <<>> /\ r \in RPlugs
      /\ outgoingcopies \in Int
  BY TopFrame DEF TypeOK, StateOK, Read, Running, Top
<1>2. /\ Frame("done", None) \in Frames /\ Empty(Frame("done", None))
      /\ Frame("deliver", r) \in Frames /\ Empty(Frame("deliver", r))
  BY <1>1, NewFrame DEF Ops
<1>3. /\ outgoingcopies' = outgoingcopies - 1
      /\ routedchunk' = IF outgoingcopies' = 0 THEN None ELSE routedchunk
      /\ canread[r] /\ canread' = [canread EXCEPT ![r] = FALSE]
      /\ \/ stack' = <<Frame("deliver", r)>> \o stack
         \/ stack' = <<Frame("done", None), Frame("deliver", r)>> \o stack
  BY DEF Read, Reads, ChunkLeft
<1> HIDE DEF r
<1>4. r \in Readable /\ Readable' = Readable \ {r}
  BY <1>1, <1>3 DEF Readable, TypeOK, FlagsOK, Flags
<1>5. Cardinality(Readable') = Cardinality(Readable) - 1 /\ Cardinality(Readable) # 0
  BY <1>4, ReadableType, FS_RemoveElement
<1>6. Unread' = Unread
  BY <1>1, <1>3, <1>5, ReadableType DEF Unread
<1>7. Handing(stack', Unread, Readable)
  BY <1>1, <1>2, <1>3, QuietStacks
<1>8. Accounted'
  BY <1>4, <1>6, <1>7 DEF Accounted, Handing
<1>9. Unread \in Nat
  BY <1>1, HandingType DEF Accounted, Handing
<1>10. outgoingcopies > 0
  BY <1>1, <1>5, <1>9, ReadableType DEF Unread
<1>11. ChunkHasReaders'
  BY <1>1, <1>3, <1>10 DEF ChunkHasReaders
<1> QED
  BY <1>8, <1>11

LEMMA CallCopies ==
  ASSUME TypeOK, Accounted, ChunkHasReaders, Calls,
         RouteNowhere \/ Route => routedchunk = None
  PROVE  Accounted' /\ ChunkHasReaders'
<1> USE DEF route
<1>1. stack \in Seq(Frames)
  BY DEF TypeOK, StateOK
<1>2. \A op \in {"in", "out", "deliver"}, r \in RPlugs :
        Frame(op, r) \in Frames /\ Empty(Frame(op, r))
  BY NewFrame DEF Ops
<1>3. Frame("done", None) \in Frames /\ Empty(Frame("done", None))
  BY NewFrame DEF Ops
<1>4. CASE RouteNowhere
  <2>1. outgoingcopies' = outgoingcopies
    BY <1>4, NoChunkNoReader, FS_EmptySet DEF RouteNowhere, RoutesTo
  <2>2. Handing(stack', Unread, Readable)
    BY <1>1, <1>3, <1>4, QuietStacks DEF RouteNowhere
  <2> QED
    BY <1>4, <2>1, <2>2, QuietStep DEF RouteNowhere
<1>5. CASE InLoopEnds \/ Deliver \/ OutLoopEnds \/ RoutingDoneEnds
  <2>1. stack # <<>> /\ Empty(Top) /\ stack' = Tail(stack)
    BY <1>1, <1>5, TopFrame DEF InLoopEnds, Deliver, OutLoopEnds, RoutingDoneEnds,
                                Running, Top
  <2>2. Handing(stack', Unread, Readable)
    BY <1>1, <1>3, <2>1, QuietStacks
  <2>3. UNCHANGED <<outgoingcopies, routedchunk, canread>>
    BY <1>5, Zenon DEF InLoopEnds, Deliver, OutLoopEnds, RoutingDoneEnds
  <2> QED
    BY <2>2, <2>3, QuietStep
<1>6. CASE PlugIntoGoesOn
  <2>1. stack # <<>> /\ Empty(Top) /\ Top.plug \in RPlugs
    BY <1>1, <1>6, TopFrame DEF PlugIntoGoesOn, Running, Top
  <2>2. \/ stack' = <<Frame("in", Top.plug)>> \o Tail(stack)
        \/ stack' = <<Frame("out", Top.plug)>> \o Tail(stack)
    BY <1>6 DEF PlugIntoGoesOn
  <2>3. Handing(stack', Unread, Readable)
    BY <1>1, <1>2, <2>1, <2>2, QuietStacks
  <2> QED
    BY <1>6, <2>3, QuietStep DEF PlugIntoGoesOn
<1>7. CASE OpenNext
  <2>1. Head(nonwriteable) \in RPlugs
    BY <1>7 DEF OpenNext, TypeOK, ListsOK
  <2>2. Handing(stack', Unread, Readable)
    BY <1>1, <1>2, <1>7, <2>1, QuietStacks DEF OpenNext
  <2> QED
    BY <1>7, <2>2, QuietStep DEF OpenNext
<1> QED
  BY <1>4, <1>5, <1>6, <1>7, RouteCopies, HandOutCopies, SkipCopies, RoutedCopies,
     ReadCopies DEF Calls

-----------------------------------------------------------------------------
(* The invariant.                                                          *)

\* A plug that a loop writes to has not been deleted, so no chunk is on its way.
LEMMA MovesFindsNoChunk ==
  ASSUME Listed, WriterFindsNoChunk, NEW r \in RPlugs, Moves(r)
  PROVE  routedchunk = None
  BY DEF Listed, WriterFindsNoChunk, Moves

LEMMA RouteFindsNoChunk ==
  ASSUME TypeOK, Listed, WriterFindsNoChunk, RouteNowhere \/ Route
  PROVE  routedchunk = None
<1>1. stack \in Seq(Frames) /\ stack # <<>> /\ Top.op = "in" /\ Moves(Top.plug)
  BY DEF TypeOK, StateOK, RouteNowhere, Route, Running, Top
<1>2. Top.plug \in RPlugs
  BY <1>1, TopFrame
<1> QED
  BY <1>1, <1>2, MovesFindsNoChunk

LEMMA ProgramWriters == TypeOK /\ WriterFindsNoChunk /\ Program => WriterFindsNoChunk'
<1> SUFFICES ASSUME TypeOK, WriterFindsNoChunk, NEW r \in RPlugs,
                    \/ AddNewPlug(r) \/ PlugInto(r) \/ UnPlug(r) \/ DeletePlug(r)
                    \/ PeerReadable(r) \/ PeerWriteable(r)
             PROVE  WriterFindsNoChunk'
  BY DEF Program
<1> USE DEF TypeOK, FlagsOK, Flags, route
<1>1. routedchunk' = routedchunk
  BY Zenon DEF AddNewPlug, PlugInto, UnPlug, DeletePlug, PeerReadable, PeerWriteable
<1>2. CASE AddNewPlug(r)
  BY <1>1, <1>2 DEF AddNewPlug, WriterFindsNoChunk
<1>3. CASE DeletePlug(r)
  BY <1>1, <1>3 DEF DeletePlug, WriterFindsNoChunk
<1>4. CASE UNCHANGED <<canwrite, deleted>>
  BY <1>1, <1>4 DEF WriterFindsNoChunk
<1> QED
  BY <1>2, <1>3, <1>4, Zenon DEF PlugInto, UnPlug, PeerReadable, PeerWriteable

LEMMA CallWriters ==
  TypeOK /\ Listed /\ WriterFindsNoChunk /\ Calls => WriterFindsNoChunk'
<1> SUFFICES ASSUME TypeOK, Listed, WriterFindsNoChunk, Calls
             PROVE  WriterFindsNoChunk'
  OBVIOUS
<1> USE DEF TypeOK, ListsOK, FlagsOK, Flags, route
<1>1. CASE RouteNowhere
  BY <1>1 DEF RouteNowhere, WriterFindsNoChunk
<1>2. CASE Route
  <2> DEFINE src == Top.plug
  <2>1. ToSet(Shut(src)) = ToSet(writeable) \cap {r \in RPlugs : r # src /\ ~deleted[r]}
    BY OnlyElements DEF Shut
  <2>2. \A r \in RPlugs : canwrite'[r] => canwrite[r] /\ r # src /\ r \notin ToSet(Shut(src))
    BY <1>2 DEF Route
  <2>3. deleted' = deleted
    BY <1>2 DEF Route
  <2> QED
    BY <2>1, <2>2, <2>3 DEF Listed, WriterFindsNoChunk
<1>3. CASE OpenNext
  BY <1>3 DEF OpenNext, WriterFindsNoChunk
<1>4. CASE /\ routedchunk' = routedchunk \/ routedchunk' = None
           /\ UNCHANGED <<canwrite, deleted>>
  BY <1>4 DEF WriterFindsNoChunk
<1>5. CASE Routed
  BY <1>4, <1>5, Zenon DEF Routed, ChunkLeft
<1>6. CASE Read
  BY <1>4, <1>6, Zenon DEF Read, ChunkLeft
<1> QED
  BY <1>1, <1>2, <1>3, <1>4, <1>5, <1>6, Zenon
  DEF Calls, InLoopEnds, HandOut, Skip, PlugIntoGoesOn, Deliver, OutLoopEnds,
      RoutingDoneEnds

LEMMA InitInv == Init => IInv
<1> SUFFICES ASSUME Init PROVE IInv
  OBVIOUS
<1>1. TypeOK
  <2>1. <<>> \in Seq(RPlugs) /\ <<>> \in Seq(Frames)
    OBVIOUS
  <2>2. [r \in RPlugs |-> FALSE] \in Flags
    BY DEF Flags
  <2>3. ListsOK
    BY <2>1 DEF Init, ListsOK
  <2>4. FlagsOK
    BY <2>2, Zenon DEF Init, FlagsOK
  <2>5. StateOK
    <3>1. stack \in Seq(Frames)
      BY <2>1, Zenon DEF Init
    <3>2. scan_posted \in BOOLEAN /\ inroutingdone \in BOOLEAN
      BY Zenon DEF Init
    <3>3. /\ routedchunk \in RPlugs \cup {None} /\ outgoingcopies \in Int
          /\ wrote \subseteq RPlugs
      BY DEF Init
    <3> QED
      BY <3>1, <3>2, <3>3 DEF StateOK
  <2> QED
    BY <2>3, <2>4, <2>5 DEF TypeOK
<1>2. Listed
  BY EmptyElements DEF Init, Listed
<1>3. Len(stack) = 0 /\ Readable = {}
  BY DEF Init, Readable
<1>4. ToldOnce
  BY <1>3 DEF ToldOnce
<1>5. outgoingcopies - Cardinality(Readable) = 0
  BY <1>3, FS_EmptySet DEF Init
<1>6. CopiesAccounted
  BY <1>3, <1>5 DEF CopiesAccounted, HasUnhanded
<1> QED
  BY <1>1, <1>2, <1>4, <1>6 DEF Init, IInv, ChunkHasReaders, WriterFindsNoChunk

LEMMA CopiesAreAccounted == CopiesAccounted /\ ToldOnce <=> Accounted
  BY DEF Accounted, Handing, Unread, CopiesAccounted, ToldOnce

\* Every step keeps it.
LEMMA NextInv == IInv /\ [Next]_vars => IInv'
<1> SUFFICES ASSUME IInv, [Next]_vars PROVE IInv'
  OBVIOUS
<1>1. TypeOK' /\ Listed'
  BY NextTypes, NextListed DEF IInv
<1>2. TypeOK /\ Listed /\ Accounted /\ ChunkHasReaders /\ WriterFindsNoChunk
  BY CopiesAreAccounted DEF IInv
<1>3. Accounted' /\ ChunkHasReaders'
  <2>1. CASE Program
    BY <1>2, <2>1, ProgramCopies
  <2>2. CASE DoScan
    BY <1>2, <2>2, ScanCopies
  <2>3. CASE Calls
    BY <1>2, <2>3, CallCopies, RouteFindsNoChunk
  <2>4. CASE UNCHANGED vars
    BY <1>2, <2>4
    DEF vars, route, Accounted, Handing, HasUnhanded, Unread, Readable, ChunkHasReaders
  <2> QED
    BY <2>1, <2>2, <2>3, <2>4 DEF Next
<1>4. WriterFindsNoChunk'
  <2>1. CASE Program
    BY <1>2, <2>1, ProgramWriters
  <2>2. CASE DoScan
    BY <1>2, <2>2 DEF DoScan, route, WriterFindsNoChunk
  <2>3. CASE Calls
    BY <1>2, <2>3, CallWriters
  <2>4. CASE UNCHANGED vars
    BY <1>2, <2>4 DEF vars, route, WriterFindsNoChunk
  <2> QED
    BY <2>1, <2>2, <2>3, <2>4 DEF Next
<1>5. CopiesAccounted' /\ ToldOnce'
  BY <1>3 DEF Accounted, Handing, Unread, CopiesAccounted, ToldOnce
<1> QED
  BY <1>1, <1>3, <1>4, <1>5 DEF IInv

\* A reader has a copy, so there is a chunk.
LEMMA InvOneChunk == IInv => OneChunkAtATime
<1> SUFFICES ASSUME IInv, NEW r \in RPlugs, canread[r]
             PROVE  routedchunk # None /\ outgoingcopies > 0
  BY DEF IInv, OneChunkAtATime, ReaderFindsChunk
<1>1. stack \in Seq(Frames) /\ outgoingcopies \in Int
  BY DEF IInv, TypeOK, StateOK
<1>2. outgoingcopies - Cardinality(Readable) \in Nat
  BY <1>1, HandingType DEF IInv, CopiesAccounted
<1>3. Readable # {}
  BY DEF Readable
<1>4. outgoingcopies > 0
  BY <1>1, <1>2, <1>3, ReadableType
<1> QED
  BY <1>4 DEF IInv, ChunkHasReaders

-----------------------------------------------------------------------------
(* The theorems.                                                           *)

\* The invariant the others rest on: every plug that can be written to is on the
\* list that the next chunk shuts, and is gone from it when it has been deleted.
THEOREM Invariant == Spec => []IInv
<1>1. Init => IInv
  BY InitInv
<1>2. IInv /\ [Next]_vars => IInv'
  BY NextInv
<1> QED
  BY <1>1, <1>2, PTL DEF Spec

\* outgoingcopies_ is the number of plugs that still have to read the chunk, in
\* the middle of handing it out too, whatever the readers call meanwhile; and
\* never do two calls of processIncoming hand out copies at once.
THEOREM CopiesCounted == Spec => []CopiesAccounted
<1>1. IInv => CopiesAccounted
  BY DEF IInv
<1> QED
  BY <1>1, Invariant, PTL

\* The asserts of RPlug::i_Read and RPlug::i_Write: no plug is readable without
\* a chunk, none is writeable while there is one, for any number of plugs, any
\* destinations and any nesting of their loops.
THEOREM OneChunk == Spec => []OneChunkAtATime
<1>1. IInv => OneChunkAtATime
  BY InvOneChunk
<1> QED
  BY <1>1, Invariant, PTL

\* The chunk is held while a copy of it is counted, and no longer.
THEOREM ChunkLetGo == Spec => []ChunkHasReaders
<1>1. IInv => ChunkHasReaders
  BY DEF IInv
<1> QED
  BY <1>1, Invariant, PTL
=============================================================================
