---------------------------- MODULE RouterModule ----------------------------
(***************************************************************************)
(* StrMod/RouterModule.cxx: a module that routes each chunk written to one *)
(* of its plugs to a set of its plugs, one chunk at a time, together with  *)
(* the push and pull loops of StreamModule.cxx that drive it.              *)
(*                                                                         *)
(* The hard part is re-entrance: making a plug readable or writeable runs  *)
(* a loop at once, which calls back into the router.  stack is the call    *)
(* stack, top first; a frame is a function that has started a nested call: *)
(*   in      the loop that moves chunks from a plug's peer into the plug   *)
(*   out     the loop that moves chunks from the plug to its peer          *)
(*   deliver the peer's i_Write, called with the chunk i_Read returned     *)
(*   route   processIncoming, handing the chunk to its destinations        *)
(*   done    routingDone, making plugs writeable again                     *)
(*   plugin, plugout  plugInto, with the in or the out loop still to run   *)
(* isreading_ and iswriting_ of a plug say that its out or in loop is on   *)
(* the stack.  Each plug has one peer, plugged in or not; a peer is the    *)
(* rest of the program: it has chunks to give and room for chunks, or not. *)
(***************************************************************************)
EXTENDS Integers, Sequences, SequencesExt, FiniteSets, Lists

CONSTANTS RPlugs,    \* every plug the router ever makes
          None,
          MayDelete, \* the plugs the program may delete
          MayUnplug  \* the plugs the program may unplug

ASSUME RouterConstants ==
  /\ IsFiniteSet(RPlugs) /\ None \notin RPlugs
  /\ MayDelete \subseteq RPlugs /\ MayUnplug \subseteq RPlugs

VARIABLES allplugs, writeable, nonwriteable, routedchunk, outgoingcopies,
          scan_posted, inroutingdone,
          canread, canwrite, deleted, plugged, \* of the router's plugs
          peerread, peerwrite,                 \* of their peers
          stack,
          wrote      \* history: who wrote since the last scan

lists == <<allplugs, writeable, nonwriteable>>
route == <<routedchunk, outgoingcopies>>
peers == <<peerread, peerwrite>>
vars == <<lists, route, scan_posted, inroutingdone, canread, canwrite, deleted,
          plugged, peers, stack, wrote>>

Frame(op, r) == [op |-> op, plug |-> r, dests |-> {}, skipped |-> 0]
OnStack(op, r) == \E k \in 1..Len(stack) : stack[k].op = op /\ stack[k].plug = r
Running(op) == stack # <<>> /\ Head(stack).op = op
Top == Head(stack)

Init ==
  /\ allplugs = <<>> /\ writeable = <<>> /\ nonwriteable = <<>>
  /\ routedchunk = None /\ outgoingcopies = 0
  /\ scan_posted = FALSE /\ inroutingdone = FALSE
  /\ canread = [r \in RPlugs |-> FALSE] /\ canwrite = [r \in RPlugs |-> FALSE]
  /\ deleted = [r \in RPlugs |-> FALSE] /\ plugged = [r \in RPlugs |-> FALSE]
  /\ peerread = [r \in RPlugs |-> FALSE] /\ peerwrite = [r \in RPlugs |-> FALSE]
  /\ stack = <<>> /\ wrote = {}

-----------------------------------------------------------------------------
(* The rest of the program: code that runs between events or inside a      *)
(* peer's i_Write.                                                         *)

ProgramRuns == stack = <<>> \/ Running("deliver")

AddNewPlug(r) ==
  /\ ProgramRuns
  /\ r \notin ToSet(allplugs) /\ ~deleted[r]
  /\ allplugs' = Append(allplugs, r)
  /\ canwrite' = [canwrite EXCEPT ![r] = routedchunk = None]
  /\ IF routedchunk = None
     THEN writeable' = Append(writeable, r) /\ UNCHANGED nonwriteable
     ELSE nonwriteable' = Append(nonwriteable, r) /\ UNCHANGED writeable
  /\ UNCHANGED <<route, scan_posted, inroutingdone, canread, deleted, plugged,
                 peers, stack, wrote>>

\* plugInto, of either plug, runs the loop of one direction and then that of
\* the other; each ends at once when it has nothing to move.
PlugInto(r) ==
  /\ stack = <<>>
  /\ r \in ToSet(allplugs) /\ ~deleted[r] /\ ~plugged[r]
  /\ plugged' = [plugged EXCEPT ![r] = TRUE]
  /\ stack' \in {<<Frame("in", r), Frame("plugout", r)>>,
                 <<Frame("out", r), Frame("plugin", r)>>}
  /\ UNCHANGED <<lists, route, scan_posted, inroutingdone, canread, canwrite,
                 deleted, peers, wrote>>

PlugIntoGoesOn ==
  /\ Running("plugin") \/ Running("plugout")
  /\ stack' = <<Frame(IF Running("plugin") THEN "in" ELSE "out", Top.plug)>>
              \o Tail(stack)
  /\ UNCHANGED <<lists, route, scan_posted, inroutingdone, canread, canwrite,
                 deleted, plugged, peers, wrote>>

UnPlug(r) ==
  /\ ProgramRuns /\ r \in MayUnplug
  /\ plugged[r]
  /\ plugged' = [plugged EXCEPT ![r] = FALSE]
  /\ UNCHANGED <<lists, route, scan_posted, inroutingdone, canread, canwrite,
                 deleted, peers, stack, wrote>>

\* deletePlug: the plug is only freed by the next scan.
DeletePlug(r) ==
  /\ ProgramRuns /\ r \in MayDelete
  /\ r \in ToSet(allplugs) /\ ~deleted[r]
  /\ deleted' = [deleted EXCEPT ![r] = TRUE]
  /\ plugged' = [plugged EXCEPT ![r] = FALSE]
  /\ scan_posted' = TRUE
  /\ UNCHANGED <<lists, route, inroutingdone, canread, canwrite, peers, stack, wrote>>

\* A peer calls setReadable(true), which runs its push loop.
PeerReadable(r) ==
  /\ ProgramRuns /\ r \in ToSet(allplugs)
  /\ ~peerread[r]
  /\ peerread' = [peerread EXCEPT ![r] = TRUE]
  /\ stack' = IF plugged[r] /\ ~OnStack("in", r)
              THEN <<Frame("in", r)>> \o stack ELSE stack
  /\ UNCHANGED <<lists, route, scan_posted, inroutingdone, canread, canwrite,
                 deleted, plugged, peerwrite, wrote>>

\* A peer calls setWriteable(true), which runs its pull loop.
PeerWriteable(r) ==
  /\ ProgramRuns /\ r \in ToSet(allplugs)
  /\ ~peerwrite[r]
  /\ peerwrite' = [peerwrite EXCEPT ![r] = TRUE]
  /\ stack' = IF plugged[r] /\ ~OnStack("out", r)
              THEN <<Frame("out", r)>> \o stack ELSE stack
  /\ UNCHANGED <<lists, route, scan_posted, inroutingdone, canread, canwrite,
                 deleted, plugged, peerread, wrote>>

Program ==
  \E r \in RPlugs :
    \/ AddNewPlug(r) \/ PlugInto(r) \/ UnPlug(r) \/ DeletePlug(r)
    \/ PeerReadable(r) \/ PeerWriteable(r)

-----------------------------------------------------------------------------
(* RPlug::i_Write and processIncoming.                                     *)

Moves(r) == plugged[r] /\ peerread[r] /\ canwrite[r]

\* Mutant: plugs without a peer are not shut, instead of deleted ones.
ShutPlugged(src) == Only(writeable, {r \in RPlugs : r # src /\ plugged[r]})

\* The plugs processIncoming takes off writeable_ and puts on nonwriteable_.
Shut(src) == Only(writeable, {r \in RPlugs : r # src /\ ~deleted[r]})

\* The peer gives up a chunk, and may or may not have another.
RoutesTo(src, dests) ==
  /\ peerread' \in {peerread, [peerread EXCEPT ![src] = FALSE]}
  /\ scan_posted' = TRUE
  /\ wrote' = wrote \cup {src}
  /\ outgoingcopies' = Cardinality(dests)

\* Nobody wants the chunk.
RouteNowhere ==
  LET src == Top.plug
  IN  /\ Running("in") /\ Moves(src)
      /\ RoutesTo(src, {})
      /\ canwrite' = [canwrite EXCEPT ![src] = FALSE]
      /\ IF inroutingdone
         THEN UNCHANGED <<stack, inroutingdone>>
         ELSE /\ stack' = <<Frame("done", None)>> \o stack
              /\ inroutingdone' = TRUE
      /\ UNCHANGED <<lists, routedchunk, canread, deleted, plugged, peerwrite>>

\* getDestinations, which the subclass provides, may name any of the plugs.
Route ==
  LET src == Top.plug
  IN  /\ Running("in") /\ Moves(src)
      /\ \E dests \in (SUBSET ToSet(allplugs)) \ {{}} :
           /\ RoutesTo(src, dests)
           /\ stack' = <<[Frame("route", src) EXCEPT !.dests = dests]>> \o stack
      /\ routedchunk' = src
      /\ canwrite' = [r \in RPlugs |->
                        canwrite[r] /\ r # src /\ r \notin ToSet(Shut(src))]
      /\ nonwriteable' = nonwriteable \o Shut(src)
      /\ writeable' = <<>>
      /\ UNCHANGED <<allplugs, inroutingdone, canread, deleted, plugged,
                     peerwrite>>

InLoopEnds ==
  /\ Running("in") /\ ~Moves(Top.plug)
  /\ stack' = Tail(stack)
  /\ UNCHANGED <<lists, route, scan_posted, inroutingdone, canread, canwrite,
                 deleted, plugged, peers, wrote>>

\* One turn of the loop over dests: a plug that is plugged in is made readable,
\* which runs its push loop unless that loop is what led here.
HandOut ==
  /\ Running("route")
  /\ \E d \in Top.dests :
       LET rest == [Top EXCEPT !.dests = @ \ {d}]
       IN  /\ ~deleted[d] /\ plugged[d]
           /\ canread' = [canread EXCEPT ![d] = TRUE]
           /\ stack' = (IF OnStack("out", d) THEN <<rest>>
                        ELSE <<Frame("out", d), rest>>) \o Tail(stack)
  /\ UNCHANGED <<lists, route, scan_posted, inroutingdone, canwrite, deleted,
                 plugged, peers, wrote>>

Skip ==
  /\ Running("route")
  /\ \E d \in Top.dests :
       /\ deleted[d] \/ ~plugged[d]
       /\ stack' = <<[Top EXCEPT !.dests = @ \ {d}, !.skipped = @ + 1]>>
                     \o Tail(stack)
  /\ UNCHANGED <<lists, route, scan_posted, inroutingdone, canread, canwrite,
                 deleted, plugged, peers, wrote>>

\* Mutant: the copies nobody will read are still waited for.
CopiesLeftUncut(skipped) == outgoingcopies

\* The copies that were skipped are not waited for.
CopiesLeft(skipped) ==
  IF skipped < outgoingcopies THEN outgoingcopies - skipped ELSE 0

\* Mutant: the chunk is never let go of.
ChunkKept(left) == routedchunk

\* The chunk is let go of with its last copy.
ChunkLeft(left) == IF left = 0 THEN None ELSE routedchunk

\* The end of processIncoming.
Routed ==
  LET left == IF Top.skipped > 0 THEN CopiesLeft(Top.skipped) ELSE outgoingcopies
  IN  /\ Running("route") /\ Top.dests = {}
      /\ outgoingcopies' = left
      /\ routedchunk' = IF Top.skipped > 0 THEN ChunkLeft(left) ELSE routedchunk
      /\ IF left = 0 /\ ~inroutingdone
         THEN /\ stack' = <<Frame("done", None)>> \o Tail(stack)
              /\ inroutingdone' = TRUE
         ELSE stack' = Tail(stack) /\ UNCHANGED inroutingdone
      /\ UNCHANGED <<lists, scan_posted, canread, canwrite, deleted, plugged,
                     peers, wrote>>

-----------------------------------------------------------------------------
(* RPlug::i_Read, called by the out loop, which then writes to the peer.   *)

Reads(r) == plugged[r] /\ canread[r] /\ peerwrite[r]

Read ==
  LET r == Top.plug
  IN  /\ Running("out") /\ Reads(r)
      /\ canread' = [canread EXCEPT ![r] = FALSE]
      /\ outgoingcopies' = outgoingcopies - 1
      /\ routedchunk' = ChunkLeft(outgoingcopies')
      /\ IF outgoingcopies = 1 /\ ~inroutingdone
         THEN /\ stack' = <<Frame("done", None), Frame("deliver", r)>> \o stack
              /\ inroutingdone' = TRUE
         ELSE /\ stack' = <<Frame("deliver", r)>> \o stack
              /\ UNCHANGED inroutingdone
      /\ UNCHANGED <<lists, scan_posted, canwrite, deleted, plugged, peers, wrote>>

\* The peer's i_Write returns; the peer may or may not have room for more.
Deliver ==
  /\ Running("deliver")
  /\ peerwrite' \in {peerwrite, [peerwrite EXCEPT ![Top.plug] = FALSE]}
  /\ stack' = Tail(stack)
  /\ UNCHANGED <<lists, route, scan_posted, inroutingdone, canread, canwrite,
                 deleted, plugged, peerread, wrote>>

OutLoopEnds ==
  /\ Running("out") /\ ~Reads(Top.plug)
  /\ stack' = Tail(stack)
  /\ UNCHANGED <<lists, route, scan_posted, inroutingdone, canread, canwrite,
                 deleted, plugged, peers, wrote>>

-----------------------------------------------------------------------------
(* routingDone and doScan.                                                 *)

\* One turn of routingDone's loop: the plug's pull loop runs at once.
OpenNext ==
  LET r == Head(nonwriteable)
  IN  /\ Running("done") /\ routedchunk = None /\ nonwriteable # <<>>
      /\ nonwriteable' = Tail(nonwriteable)
      /\ writeable' = Append(writeable, r)
      /\ canwrite' = [canwrite EXCEPT ![r] = TRUE]
      /\ stack' = IF plugged[r] /\ ~OnStack("in", r)
                  THEN <<Frame("in", r)>> \o stack ELSE stack
      /\ UNCHANGED <<allplugs, route, scan_posted, inroutingdone, canread,
                     deleted, plugged, peers, wrote>>

RoutingDoneEnds ==
  /\ Running("done")
  /\ routedchunk # None \/ nonwriteable = <<>>
  /\ inroutingdone' = FALSE
  /\ stack' = Tail(stack)
  /\ UNCHANGED <<lists, route, scan_posted, canread, canwrite, deleted,
                 plugged, peers, wrote>>

Kept == Only(allplugs, {r \in RPlugs : ~deleted[r]})

\* The scan event frees the deleted plugs and computes both lists anew.
DoScan ==
  /\ stack = <<>> /\ scan_posted
  /\ scan_posted' = FALSE
  /\ allplugs' = Kept
  /\ writeable' = Only(Kept, {r \in RPlugs : canwrite[r]})
  /\ nonwriteable' = Only(Kept, {r \in RPlugs : ~canwrite[r]})
  /\ wrote' = {}
  /\ IF nonwriteable' = <<>>
     THEN UNCHANGED <<stack, inroutingdone>>
     ELSE stack' = <<Frame("done", None)>> /\ inroutingdone' = TRUE
  /\ UNCHANGED <<route, canread, canwrite, deleted, plugged, peers>>

Calls ==
  \/ RouteNowhere \/ Route \/ InLoopEnds
  \/ HandOut \/ Skip \/ Routed \/ PlugIntoGoesOn
  \/ Read \/ Deliver \/ OutLoopEnds
  \/ OpenNext \/ RoutingDoneEnds

Next == Program \/ DoScan \/ Calls

Spec == Init /\ [][Next]_vars

\* Every call returns, the dispatcher runs the scan, and a peer without room
\* has room again sooner or later.  Strong, as no peer speaks up while the
\* router runs.
FairSpec ==
  /\ Spec
  /\ WF_vars(Calls) /\ SF_vars(DoScan)
  /\ \A r \in RPlugs : SF_vars(PeerWriteable(r))

-----------------------------------------------------------------------------
(* Properties.                                                             *)

Readable == {r \in RPlugs : canread[r]}

\* The copies a call of processIncoming has still to hand out, or has skipped.
Unhanded(frame) == Cardinality(frame.dests) + frame.skipped

\* A call stack on which one call of processIncoming, at most, still has copies,
\* and has n of them.
HasUnhanded(calls, n) ==
  \E k \in 0..Len(calls) :
    /\ \A j \in 1..Len(calls) : j # k => Unhanded(calls[j]) = 0
    /\ n = IF k = 0 THEN 0 ELSE Unhanded(calls[k])

\* outgoingcopies_ counts the plugs that have not read the chunk yet, also in
\* the middle of handing it out, when the plugs told first have read it, made
\* others writeable and let the next chunk in; and no two calls hand out copies
\* at once.  A plug that is deleted with its copy unread keeps its place in the
\* count.
CopiesAccounted == HasUnhanded(stack, outgoingcopies - Cardinality(Readable))

\* RPlug::i_Read's asserts: a plug that can be read has a chunk to read, however
\* the chunk's readers were told and whatever they called while they read it.
ReaderFindsChunk ==
  \A r \in RPlugs : canread[r] => routedchunk # None /\ outgoingcopies > 0

\* RPlug::i_Write's asserts: no plug can be written to while a chunk is being
\* routed, so no chunk overwrites another.
WriterFindsNoChunk ==
  routedchunk # None => \A r \in RPlugs : canwrite[r] => deleted[r]

\* Both at once: no nested call lets a chunk in before the last one has been
\* read, or hands one out that is gone.
OneChunkAtATime == ReaderFindsChunk /\ WriterFindsNoChunk

\* A chunk is let go of as soon as its last reader has it, or at once when
\* it has none.
ChunkHasReaders ==
  routedchunk # None <=> outgoingcopies > 0

\* With room in every peer again and again the routed chunk is delivered and
\* the router goes on, unless a reader of it is deleted or unplugged.
ChunkMovesOn ==
  routedchunk # None
    ~> (routedchunk = None \/ \E r \in Readable : ~plugged[r])

\* RouterModule.h on postScan: data is only allowed in from a particular RPlug
\* once per scan.
OncePerScan == \A r \in wrote : ~canwrite[r]

\* routingDone's assert, when the scan calls it: no chunk is being routed.
ScanAssertHolds == [][DoScan /\ nonwriteable' # <<>> => routedchunk = None]_vars
=============================================================================
