-------------------------- MODULE SimpleMultiplexer --------------------------
(***************************************************************************)
(* StrMod/SimpleMulti.h and SimpleMulti.cxx: one single plug and any       *)
(* number of multi plugs.  A chunk written to the single plug can be read  *)
(* once from each multi plug that is plugged in; a chunk written to a      *)
(* multi plug goes to what the single plug is plugged into.  A multi plug  *)
(* may write once until the dispatcher has run the module's scan.          *)
(*                                                                         *)
(* Every plug has an end of the program it may be plugged into.            *)
(***************************************************************************)
EXTENDS StreamModule

CONSTANTS SinglePlug, MultiPlugs,
          Peer,       \* by plug, its end
          MayDelete,  \* the multi plugs the program may delete
          MayUnplug,  \* the plugs whose ends the program may unplug
          MaxChunks   \* by end, how many chunks it has to give (a bound)

Ends == {Peer[p] : p \in MultiPlugs \cup {SinglePlug}}
Single == Peer[SinglePlug]

ASSUME MultiConstants ==
  /\ SinglePlug \notin MultiPlugs
  /\ Plugs = MultiPlugs \cup {SinglePlug} \cup Ends
  /\ MaxChunks \in [Ends -> Nat]
  /\ MayDelete \subseteq MultiPlugs

VARIABLES alive,                 \* the module has not been destroyed
          mplugs, delplugs,      \* the lists
          scan_posted, mchunk,
          readable_multis, readable_multiothers, writeable_multiothers,
          has_written, other_isreadable, other_iswriteable, \* flags of multi plugs
          misled,                \* history: the plugs that i_MakePlug has opened
                                 \* wrongly and that have not been told since
          gave,                  \* by end, the chunks it has given
          got                    \* history: by end, the chunks it has got

lists == <<alive, mplugs, delplugs, scan_posted>>
numbers == <<readable_multis, readable_multiothers, writeable_multiothers>>
multiflags == <<has_written, other_isreadable, other_iswriteable, misled>>
multivars == <<lists, mchunk, numbers, multiflags>>
vars == <<plugvars, multivars, gave, got>>

Init ==
  /\ PlugInit({}, Ends \cup {SinglePlug})
  /\ alive = TRUE /\ mplugs = <<>> /\ delplugs = <<>> /\ scan_posted = FALSE /\ mchunk = None
  /\ readable_multis = 0 /\ readable_multiothers = 0 /\ writeable_multiothers = 0
  /\ has_written = {} /\ other_isreadable = {} /\ other_iswriteable = {}
  /\ misled = {}
  /\ gave = [e \in Ends |-> 0] /\ got = [e \in Ends |-> <<>>]

PluggedAble(p, able) == other[p] # None /\ other[p] \in able

-----------------------------------------------------------------------------
(* Shared parts.                                                           *)

\* moveToEnd and postScan.
MovedToEnd(m) == Append(SelectSeq(mplugs, LAMBDA p : p # m), m)
PostScan(m) ==
  scan_posted' = TRUE /\ mplugs' = MovedToEnd(m) /\ UNCHANGED alive

\* Mutant: a plug that has read the chunk stays readable.
StaysReadable(m) == <<Frame("multiCounted", m)>>

\* multiDidRead makes the plug unreadable, then counts it.
MultiDidRead(m) == <<Set("setReadable", m, FALSE), Frame("multiCounted", m)>>

MultiCounted ==
  /\ Running("multiCounted")
  /\ readable_multis' = readable_multis - 1
  /\ IF readable_multis' = 0
     THEN /\ mchunk' = None
          /\ Calls(<<Set("setWriteable", SinglePlug, writeable_multiothers > 0)>>)
     ELSE Return /\ UNCHANGED mchunk
  /\ UNCHANGED <<other, flags, made, ret, lists, readable_multiothers,
                 writeable_multiothers, multiflags, gave, got>>

\* adjustMultiReadables; val is TRUE for ADJ_Up.
AdjustMultiReadables ==
  LET n == IF Top.val THEN readable_multiothers + 1 ELSE readable_multiothers - 1
  IN  /\ Running("adjustReadables")
      /\ readable_multiothers' = n
      /\ Calls(If(Top.val \/ n = 0, <<Set("setReadable", SinglePlug, Top.val)>>))
      /\ UNCHANGED <<other, flags, made, ret, lists, mchunk, readable_multis,
                     writeable_multiothers, multiflags, gave, got>>

\* A chunk that is still to be read keeps the single plug shut.
OpensSingle(up, n) == up /\ mchunk = None

AdjustMultiWriteables ==
  LET n == IF Top.val THEN writeable_multiothers + 1 ELSE writeable_multiothers - 1
  IN  /\ Running("adjustWriteables")
      /\ writeable_multiothers' = n
      /\ Calls(If(OpensSingle(Top.val, n) \/ (~Top.val /\ n = 0),
                  <<Set("setWriteable", SinglePlug, Top.val)>>))
      /\ UNCHANGED <<other, flags, made, ret, lists, mchunk, readable_multis,
                     readable_multiothers, multiflags, gave, got>>

-----------------------------------------------------------------------------
(* MultiPlug.                                                              *)

MultiRead ==
  /\ Running("i_Read") /\ Top.plug \in MultiPlugs
  /\ Calls(MultiDidRead(Top.plug) \o <<Set("return", Top.plug, mchunk)>>)
  /\ UNCHANGED <<other, flags, made, ret, multivars, gave, got>>

MultiWrite ==
  /\ Running("i_Write") /\ Top.plug \in MultiPlugs
  /\ has_written' = has_written \cup {Top.plug}
  /\ ret' = None
  /\ Calls(<<Set("setWriteable", Top.plug, FALSE), Set("multiSpent", Top.plug, ret),
             Frame("written", Top.plug)>>)
  /\ UNCHANGED <<other, flags, made, lists, mchunk, numbers, other_isreadable,
                 other_iswriteable, misled, gave, got>>

\* A plug that has written does not count as one that could be read.
CountedOut(m) == If(m \in other_isreadable, <<Set("adjustReadables", m, FALSE)>>)

MultiSpent ==
  /\ Running("multiSpent")
  /\ Calls(CountedOut(Top.plug) \o <<Set("multiPassesOn", Top.plug, Top.val)>>)
  /\ UNCHANGED <<other, flags, made, ret, multivars, gave, got>>

\* The single plug is marked as read while its peer is written: val keeps the
\* flag it had.
MultiPassesOn ==
  LET o == other[SinglePlug]
  IN  /\ Running("multiPassesOn")
      /\ iswriting' = iswriting \cup {o}
      /\ isreading' = isreading \cup {SinglePlug}
      /\ ret' = Top.val
      /\ Calls(<<Frame("i_Write", o),
                 [With("multiPassedOn", Top.plug, o)
                    EXCEPT !.val = SinglePlug \in isreading]>>)
      /\ UNCHANGED <<other, canread, canwrite, notifyonread, notifyonwrite, made,
                     multivars, gave, got>>

MultiPassedOn ==
  /\ Running("multiPassedOn")
  /\ iswriting' = iswriting \ {Top.peer}
  /\ isreading' = Put(isreading, SinglePlug, Top.val)
  /\ PostScan(Top.plug)
  /\ Return
  /\ UNCHANGED <<other, canread, canwrite, notifyonread, notifyonwrite, made, ret,
                 delplugs, mchunk, numbers, multiflags, gave, got>>

\* A plug that has written is counted again by the scan.
MultiOtherIsReadable ==
  LET m == Top.plug
      new == PluggedAble(m, canread)
  IN  /\ Running("otherIsReadable") /\ m \in MultiPlugs
      /\ other_isreadable' = Put(other_isreadable, m, new)
      /\ Calls(If(new # (m \in other_isreadable) /\ m \notin has_written,
                  <<Set("adjustReadables", m, new)>>))
      /\ UNCHANGED <<other, flags, made, ret, lists, mchunk, numbers, has_written,
                     other_iswriteable, misled, gave, got>>

MultiOtherIsWriteable ==
  LET m == Top.plug
      new == PluggedAble(m, canwrite)
  IN  /\ Running("otherIsWriteable") /\ m \in MultiPlugs
      /\ other_iswriteable' = Put(other_iswriteable, m, new)
      /\ Calls(If(new # (m \in other_iswriteable),
                  <<Set("adjustWriteables", m, new)>>))
      /\ UNCHANGED <<other, flags, made, ret, lists, mchunk, numbers, has_written,
                     other_isreadable, misled, gave, got>>

-----------------------------------------------------------------------------
(* SinglePlug.                                                             *)

\* mpother_readable_p: the multi plugs the single plug could read through.
Candidates ==
  SelectSeq(mplugs, LAMBDA m : m \notin has_written /\ other[m] # None
                               /\ IsReadable(other[m]))

SingleRead ==
  LET m == Head(Candidates)
  IN  /\ Running("i_Read") /\ Top.plug = SinglePlug
      /\ Calls(<<Set("setWriteable", m, FALSE), With("singleChose", m, other[m]),
                 Frame("returnRead", SinglePlug)>>)
      /\ UNCHANGED <<other, flags, made, ret, multivars, gave, got>>

SingleChose ==
  /\ Running("singleChose")
  /\ has_written' = has_written \cup {Top.plug}
  /\ PostScan(Top.plug)
  /\ Calls(<<Set("adjustReadables", Top.plug, FALSE),
             With("singleReadsOther", Top.plug, Top.peer)>>)
  /\ UNCHANGED <<other, flags, made, ret, delplugs, mchunk, numbers,
                 other_isreadable, other_iswriteable, misled, gave, got>>

SingleReadsOther ==
  /\ Running("singleReadsOther")
  /\ isreading' = isreading \cup {Top.peer}
  /\ Calls(<<Frame("i_Read", other[Top.plug]),
             With("singleHasRead", Top.plug, Top.peer)>>)
  /\ UNCHANGED <<other, canread, canwrite, iswriting, notifyonread, notifyonwrite,
                 made, ret, multivars, gave, got>>

SingleHasRead ==
  /\ \/ /\ Running("singleHasRead") /\ isreading' = isreading \ {Top.peer}
     \/ Running("returnRead") /\ UNCHANGED isreading
  /\ Return
  /\ UNCHANGED <<other, canread, canwrite, iswriting, notifyonread, notifyonwrite,
                 made, ret, multivars, gave, got>>

PluggedMultis == SelectSeq(mplugs, LAMBDA m : other[m] # None)

SingleWrite ==
  /\ Running("i_Write") /\ Top.plug = SinglePlug
  /\ mchunk' = ret /\ ret' = None
  /\ readable_multis' = Len(PluggedMultis)
  /\ Calls(<<Set("setWriteable", SinglePlug, FALSE)>>
           \o [k \in 1..Len(PluggedMultis) |-> Frame("singleOffers", PluggedMultis[k])]
           \o <<Frame("written", SinglePlug)>>)
  /\ UNCHANGED <<other, flags, made, lists, readable_multiothers,
                 writeable_multiothers, multiflags, gave, got>>

\* Mutant: a plug unplugged since the chunk was counted is passed over.
PassedOver(m) == <<>>

\* A plug unplugged since the chunk was counted is counted as having read it.
NotThere(m) == MultiDidRead(m)

\* One turn of the loop that makes the multi plugs readable.
SingleOffers ==
  LET m == Top.plug
  IN  /\ Running("singleOffers")
      /\ Calls(IF other[m] # None THEN <<Set("setReadable", m, TRUE)>> ELSE NotThere(m))
      /\ UNCHANGED <<other, flags, made, ret, multivars, gave, got>>

\* mp_written_p: those that have not written yet.
Unwritten == SelectSeq(mplugs, LAMBDA m : m \notin has_written)

\* otherIsWriteable of the single plug.
OpenMultis == [k \in 1..Len(Unwritten) |-> Frame("openMulti", Unwritten[k])]

SingleOtherIsWriteable ==
  /\ Running("otherIsWriteable") /\ Top.plug = SinglePlug
  /\ Calls(OpenMultis)
  /\ UNCHANGED <<other, flags, made, ret, multivars, gave, got>>

OpenMulti ==
  /\ Running("openMulti")
  /\ Calls(<<Set("setWriteable", Top.plug, PluggedAble(SinglePlug, canwrite))>>)
  /\ misled' = misled \ {Top.plug}
  /\ UNCHANGED <<other, flags, made, ret, lists, mchunk, numbers, has_written,
                 other_isreadable, other_iswriteable, gave, got>>

-----------------------------------------------------------------------------
(* The module.                                                             *)

MultiDisconnected ==
  LET m == Top.plug
  IN  /\ Running("plugDisconnected") /\ m \in MultiPlugs
      /\ Calls(If(m \in canread, MultiDidRead(m))
               \o <<Frame("otherIsReadable", m), Frame("otherIsWriteable", m)>>)
      /\ UNCHANGED <<other, flags, made, ret, multivars, gave, got>>

SingleDisconnected ==
  /\ Running("plugDisconnected") /\ Top.plug = SinglePlug
  /\ Calls(OpenMultis)
  /\ UNCHANGED <<other, flags, made, ret, multivars, gave, got>>

\* Mutant: it is enough that there is a plug on the far side.
OpensAnyway == other[SinglePlug] # None

\* What i_MakePlug tells a new multi plug about the plug on the far side: as
\* written, whether that plug can be read, not whether it can be written.
NewWriteable == PluggedAble(SinglePlug, canread)

\* The name of a plug that has been freed may be used for a new one.
MakeMulti(m) ==
  /\ m \notin made
  /\ made' = made \cup {m}
  /\ mplugs' = <<m>> \o mplugs
  /\ canread' = canread \ {m} /\ canwrite' = canwrite \ {m}
  /\ has_written' = has_written \ {m}
  /\ other_isreadable' = other_isreadable \ {m}
  /\ other_iswriteable' = other_iswriteable \ {m}
  /\ misled' = Put(misled, m, PluggedAble(SinglePlug, canread \ canwrite))
  /\ stack' = If(other[SinglePlug] # None, <<Set("setWriteable", m, NewWriteable)>>)
  /\ UNCHANGED <<other, isreading, iswriting, notifyonread, notifyonwrite, ret, alive,
                 delplugs, scan_posted, mchunk, numbers, gave, got>>

\* deletePlug: the plug is freed by the next scan.  made stands for the plugs
\* the program may use.
Deletes(m) == <<Frame("unPlug", m), Frame("multiDeleted", m)>>

DeleteMulti(m) ==
  /\ m \in made
  /\ made' = made \ {m}
  /\ stack' = Deletes(m)
  /\ UNCHANGED <<other, flags, ret, multivars, gave, got>>

MultiDeleted ==
  /\ Running("multiDeleted")
  /\ delplugs' = <<Top.plug>> \o delplugs
  /\ PostScan(Top.plug)
  /\ Return
  /\ UNCHANGED <<other, flags, made, ret, mchunk, numbers, multiflags, gave, got>>

DeleteSingle ==
  /\ SinglePlug \in made
  /\ made' = made \ {SinglePlug}
  /\ stack' = <<Frame("unPlug", SinglePlug)>>
  /\ UNCHANGED <<other, flags, ret, multivars, gave, got>>

\* doScan frees the deleted plugs, then lets the others write again, one by one.
DoScan ==
  /\ Idle /\ scan_posted /\ alive
  /\ scan_posted' = FALSE
  /\ mplugs' = SelectSeq(mplugs, LAMBDA m : m \notin ToSet(delplugs))
  /\ delplugs' = <<>>
  /\ stack' = [k \in 1..Len(mplugs') |-> Frame("scanMulti", mplugs'[k])]
  /\ UNCHANGED <<other, flags, made, ret, alive, mchunk, numbers, multiflags, gave,
                 got>>

\* Mutant: the scan does not count the plugs that can write again.
ScanForgets(m) == FALSE

\* A plug that may write again counts again, if its peer has something.
ScanCounts(m) == m \in has_written /\ PluggedAble(m, canread)

ScanMulti ==
  LET m == Top.plug
  IN  /\ Running("scanMulti")
      /\ has_written' = has_written \ {m}
      /\ Calls(If(ScanCounts(m), <<Set("adjustReadables", m, TRUE)>>)
               \o <<Frame("scanOpens", m)>>)
      /\ UNCHANGED <<other, flags, made, ret, lists, mchunk, numbers,
                     other_isreadable, other_iswriteable, misled, gave, got>>

\* Counting it may have made the single plug read through it at once.
ScanOpens ==
  LET m == Top.plug
  IN  /\ Running("scanOpens")
      /\ Calls(If(m \notin has_written,
                  <<Set("setWriteable", m, PluggedAble(SinglePlug, canwrite))>>))
      /\ misled' = Put(misled, m, m \in misled \cap has_written)
      /\ UNCHANGED <<other, flags, made, ret, lists, mchunk, numbers, has_written,
                     other_isreadable, other_iswriteable, gave, got>>

\* ~SimpleMultiplexer: a scan that is posted finds its parent gone.
Destroy ==
  /\ alive' = FALSE /\ made' = {}
  /\ stack' = <<Frame("unPlug", SinglePlug)>>
               \o [k \in 1..Len(mplugs) |-> Frame("destroyMulti", mplugs[k])]
  /\ UNCHANGED <<other, flags, ret, mplugs, delplugs, scan_posted, mchunk, numbers,
                 multiflags, gave, got>>

DestroyMulti ==
  /\ Running("destroyMulti")
  /\ mplugs' = Tail(mplugs)
  /\ Calls(<<Frame("unPlug", Top.plug)>>)
  /\ UNCHANGED <<other, flags, made, ret, alive, delplugs, scan_posted, mchunk,
                 numbers, multiflags, gave, got>>

MultiCalls ==
  \/ MultiCounted \/ AdjustMultiReadables \/ AdjustMultiWriteables
  \/ MultiRead \/ MultiWrite \/ MultiSpent \/ MultiPassesOn \/ MultiPassedOn
  \/ MultiOtherIsReadable \/ MultiOtherIsWriteable
  \/ SingleRead \/ SingleChose \/ SingleReadsOther \/ SingleHasRead
  \/ SingleWrite \/ SingleOffers \/ SingleOtherIsWriteable \/ OpenMulti
  \/ MultiDisconnected \/ SingleDisconnected \/ MultiDeleted
  \/ ScanMulti \/ ScanOpens \/ DestroyMulti

-----------------------------------------------------------------------------
(* The program and its ends.                                               *)

EndRead ==
  LET e == Top.plug
  IN  /\ Running("i_Read") /\ e \in Ends
      /\ gave' = [gave EXCEPT ![e] = @ + 1]
      /\ \E more \in BOOLEAN :
           /\ gave'[e] = MaxChunks[e] => ~more
           /\ Calls(If(~more, <<Set("setReadable", e, FALSE)>>)
                    \o <<Set("return", e, <<e, gave'[e]>>)>>)
      /\ UNCHANGED <<other, flags, made, ret, multivars, got>>

\* What an end without room for more is written may make the program unplug a plug, or
\* delete it.
EndWrite ==
  LET e == Top.plug
  IN  /\ Running("i_Write") /\ e \in Ends
      /\ got' = [got EXCEPT ![e] = Append(@, ret)]
      /\ ret' = None
      /\ \/ Calls(<<Frame("written", e)>>) /\ UNCHANGED made
         \/ /\ \/ Calls(<<Set("setWriteable", e, FALSE), Frame("written", e)>>)
               \/ \E p \in MayUnplug :
                    /\ other[p] # None
                    /\ Calls(<<Set("setWriteable", e, FALSE), Frame("unPlug", p),
                               Frame("written", e)>>)
            /\ UNCHANGED made
         \/ \E m \in MayDelete \cap made :
              /\ made' = made \ {m}
              /\ Calls(<<Set("setWriteable", e, FALSE)>> \o Deletes(m)
                       \o <<Frame("written", e)>>)
      /\ UNCHANGED <<other, flags, multivars, gave>>

EndDisconnected ==
  /\ Running("plugDisconnected") /\ Top.plug \in Ends
  /\ Return
  /\ UNCHANGED <<other, flags, made, ret, multivars, gave, got>>

EndSpeaksUp(e) ==
  /\ \/ e \notin canread /\ gave[e] < MaxChunks[e] /\ stack' = <<Set("setReadable", e, TRUE)>>
     \/ e \notin canwrite /\ stack' = <<Set("setWriteable", e, TRUE)>>
  /\ UNCHANGED <<other, flags, made, ret, multivars, gave, got>>

Plug(p) ==
  /\ p \in made /\ PlugInto(p, Peer[p])
  /\ UNCHANGED <<multivars, gave, got>>

CallUnPlug(p) ==
  /\ p \in MayUnplug /\ other[p] # None
  /\ stack' = <<Frame("unPlug", p)>>
  /\ UNCHANGED <<other, flags, made, ret, multivars, gave, got>>

Program ==
  /\ Idle /\ alive
  /\ \/ \E m \in MultiPlugs \ ToSet(mplugs) : MakeMulti(m)
     \/ \E m \in MayDelete : DeleteMulti(m)
     \/ SinglePlug \in MayUnplug /\ other[SinglePlug] # None /\ DeleteSingle
     \/ \E p \in MultiPlugs \cup {SinglePlug} : Plug(p) \/ CallUnPlug(p)
     \/ \E e \in Ends : EndSpeaksUp(e)
     \/ MayDelete # {} /\ Destroy

Step == \/ Engine /\ UNCHANGED <<multivars, gave, got>>
        \/ MultiCalls \/ EndRead \/ EndWrite \/ EndDisconnected

Next == Program \/ DoScan \/ Step

Spec == Init /\ [][Next]_vars

-----------------------------------------------------------------------------
(* Properties.                                                             *)

\* The three counts are what they are counts of, whenever everything has
\* returned: a count that is off shuts the single plug for ever or opens it
\* with nobody to read from.
CountsRight ==
  Idle => /\ readable_multis = Cardinality(canread \cap MultiPlugs)
          /\ readable_multiothers = Cardinality(other_isreadable \ has_written)
          /\ writeable_multiothers = Cardinality(other_iswriteable)

\* The asserts of the module, each where the code has it.  A frame is on top when its
\* call, or the rest of it, begins.
SingleTakesWrite == other[SinglePlug] # None /\ IsWriteable(other[SinglePlug])

\* MultiPlug: a chunk is there to be read and its reader counted; a plug that is
\* written has not written since the scan, is marked as being written and can be
\* written.  So can what the single plug is plugged into, before and after the flags
\* and the count have been changed, but for a plug that i_MakePlug has opened because
\* that one could be read, and that has heard of it neither from the single plug nor
\* from a scan.
MultiAsserts ==
  /\ Running("i_Read") /\ Top.plug \in MultiPlugs =>
       mchunk # None /\ readable_multis > 0
  /\ Running("i_Write") /\ Top.plug \in MultiPlugs =>
       /\ Top.plug \notin has_written
       /\ Top.plug \in canwrite \cap iswriting
       /\ Top.plug \notin misled => SingleTakesWrite
  /\ Running("multiPassesOn") /\ Top.plug \notin misled => SingleTakesWrite

\* SinglePlug: there is a plug to read through, which can still be read when the
\* flags and the count have been changed; no chunk overwrites one that is still to be
\* read; only plugs that cannot be read are offered it, and only plugs that have not
\* written are opened.
SingleAsserts ==
  /\ Running("i_Read") /\ Top.plug = SinglePlug => Candidates # <<>>
  /\ Running("singleReadsOther") => IsReadable(Top.peer)
  /\ Running("i_Write") /\ Top.plug = SinglePlug => mchunk = None
  /\ Running("singleOffers") => Top.plug \notin canread
  /\ Running("openMulti") => Top.plug \notin has_written

\* multiDidRead, adjustMultiReadables and adjustMultiWriteables: no count goes below
\* zero or above the number of multi plugs.
CountAsserts ==
  /\ Running("multiCounted") => readable_multis > 0
  /\ Running("singleOffers") /\ other[Top.plug] = None => readable_multis > 0
  /\ Running("plugDisconnected") /\ Top.plug \in MultiPlugs \cap canread
       => readable_multis > 0
  /\ Running("adjustReadables") =>
       IF Top.val THEN readable_multiothers < Len(mplugs) ELSE readable_multiothers > 0
  /\ Running("adjustWriteables") =>
       IF Top.val THEN writeable_multiothers < Len(mplugs) ELSE writeable_multiothers > 0

\* doScan: the plugs it frees are plugged into nothing, and a plug that has written
\* cannot be written.
ScanAsserts ==
  /\ Idle /\ alive => \A m \in ToSet(delplugs) : other[m] = None
  /\ Running("scanMulti") /\ Top.plug \in has_written => Top.plug \notin canwrite

AssertsHold == MultiAsserts /\ SingleAsserts /\ CountAsserts /\ ScanAsserts

\* A chunk that was written to the single plug is let go of when the last multi
\* plug has read it.
ChunkHasReader ==
  Idle => (mchunk # None <=> \E m \in MultiPlugs : m \in canread)

\* Whatever is written to a multi plug reaches the single plug's peer, once and in
\* order.  A chunk written to the single plug reaches the peer of a multi plug once
\* at most, and none overtakes another.
From(e) == SelectSeq(got[Single], LAMBDA c : c[1] = e)
NoneTwice ==
  /\ Idle => \A e \in Ends \ {Single} : From(e) = [n \in 1..gave[e] |-> <<e, n>>]
  /\ \A e \in Ends \ {Single} : \A k \in DOMAIN got[e] :
       got[e][k] # None /\ \A j \in 1..(k - 1) : got[e][j][2] < got[e][k][2]
=============================================================================
