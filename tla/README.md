# A TLA+ verification of StrMod

StrMod is a C++ library for event driven programs that move data through
graphs of modules. `UniEvent` has the event queue, the timers and the poll of
the operating system; `StrMod` has the modules, whose plugs pass chunks of data
to each other; `LCore`, `EHnet++` and `xml` are support. Everything runs in one
thread. What makes it hard is not threads but

* **re-entrance**: setting a flag of a plug runs a loop that moves data, which
  calls other modules, which set flags of other plugs;
* **signals**, which interrupt the dispatcher and the poll between any two steps;
* **bookkeeping that must survive any order of calls**: which queued event is the
  dispatcher's own, how many readers a routed chunk still has, which base a
  timer is counted from.

`PROJECT.json` lists every component, run, mutant, finding, hazard and theorem,
and maps every definition to the lines it translates.

## Inventory

| Component | State | Operations | Works with | Correct when |
|---|---|---|---|---|
| Dispatcher, SimpleDispatcher | main queue, busy poll queue, `internalevnum_`, onempty and oninterrupt slots, interrupted and stop flags, running event | addEvent, addBusyPollEvent, onQueueEmpty, onInterrupt, interrupt (from a signal), stopDispatching, dispatchEvents, dispatchUntilEmpty | calls every event; events call it back | FIFO; the busy poll event enters only a queue of external events; the interrupt event costs no event its turn; the asserts hold |
| RegistryDispatcherGlue | its two events, who is attached | constructor, destructor, doBusyAction, doQEmptyAction, dispatcher() | puts itself back into the dispatcher, calls doPoll | the outside world is polled again and again; one busy event exists |
| UnixEventPoll, UnixEventRegistry | registrations by descriptor, poll list, signals caught, events by signal | registerFDCond, freeFD, onSignal, clearSignal, doPoll, the signal handler | posts to the dispatcher, keeps timers | a registration fires once; a caught signal is posted; no sleep with work to do |
| Timer, TimerEventTracker | two heaps of timers, two bases, their difference | postAt, postExpired, nextExpirationIn | posts to the dispatcher, bounds the poll | a timer is posted when it expires; the poll wakes for the next one |
| StreamModule, Plug | peer, canread/canwrite, isreading/iswriting, notify flags | plugInto, unPlug, setReadable, setWriteable, push and pull loops | every module | a flag set while a loop runs is not lost; loops never nest on one plug |
| RouterModule | three lists of plugs, the routed chunk, unread copies, scan flag | addNewPlug, deletePlug, i_Read, i_Write/processIncoming, routingDone, doScan | the plug loops, a scan event on the dispatcher | one chunk at a time; each reader gets it once; the router goes on |
| StreamFDModule, SocketModule | read buffer, chunk being written, checking flags, byte counts, errors | plugRead, plugWrite, eventRead/Write, resume events, doReadFD, doWriteFD | registry, dispatcher, plug loops | no chunk lost or overwritten; a module with work waits for something |
| SockListenModule | the new module, checking flag, error | doAccept, i_Read, clearError | registry, plug loops | a connection is delivered once; errors do not stall it silently |
| SimpleMultiplexer | plug lists, has_written, three counts, scan flag | i_MakePlug, deletePlug, doScan, plugDisconnected | plug loops, scan event | each multi plug writes once a scan; the single plug's flags follow the counts |
| StreamSplitter, EchoModule, InfiniteModule, StackSwapper | a plug or three | flag forwarding | plug loops | flags follow the peers |
| ProcessorModule, StreamProcessor, PassThrough, choppers | incoming and outgoing chunk, ready flag | setReady handshake, chop | plug loops | no chunk lost or reordered |
| Telnet parser and chunker | parser state, region bounds, the chunks held back | one transition a byte; processIncoming | chunk builder, StreamProcessor | every byte ends in one element, however the stream is cut in chunks |
| SimpleTelnetClient | the chunk held for each side, what it has asked for | i_Read, i_Write of both plugs, processIncoming of a negotiation, reset | plug loops | data passes, every negotiation is answered once |
| Chunks, visitors, iterators, BufferList | bytes and extents, a place in them | length, sub-extents, iteration, startChunk and advanceBy | all modules | every reader meets the same bytes in the same order |
| Serializers | a buffer that grows, an iterator and its error | addX, getX, getChunk | chunks, iterators | what is read is what was written |
| XML lexer | state and substate, the places of the element, the attribute and the value begun | lex | Builder | what is told does not depend on how the text is cut |
| LCore, EHnet++, xml::Tree, examples | support | | | |

Hard behaviour, and where it is covered, is the list of hazards in `PROJECT.json`.

## Modules

The modules form four groups.

    EventQueue  <--refines--  SimpleDispatcher  <--  RegistryDispatcherGlue
    TimerEventTracker                UnixEventPoll
    StreamModule  <--  StreamSplitter, EchoModule, ProcessorModule  <--  PlugRing
                  <--  SimpleMultiplexer, StreamFDModule, SockListenModule, SimpleTelnetClient
    RouterModule, TimerEventTracker, StreamFDModule, SockListenModule  -->  Lists
    LinearExtent  <--  Chunks  <--  CharChopper, TelnetChunker, Serializers  <--  Processors
                       TelnetParser  <--  TelnetChunker       StreamProcessor, XMLLexer  <--  Processors

An arrow `<--` is EXTENDS, or INSTANCE for `EventQueue` and `StreamProcessor`. The
`MC` modules give the constants of a run their values and hold no model. The
`...Proofs` modules hold theorems only, and the definitions of their invariants.
`Lists` has the one loop that several modules share, picking elements from a list.
Recursive operators are confined to the group
of `Chunks` and to `Processors`, which no proof module reaches.

### `EventQueue`: what Dispatcher.h promises

The abstract specification. Its variables are the queues, the slots and the
running event; there is no bookkeeping. Posting the busy poll event is allowed
only while every queued event is external, the onempty event only into an empty
queue, and an interrupt's event runs ahead of the queue without taking a queued
event's turn.

### `SimpleDispatcher`: SimpleDispatcherImp.cxx

One variable per field of `SimpleDispatcher::Imp` and per local of the dispatch
functions; `pc` names the place on the stack, and one action is one stretch of
code between two places where an event or a signal can run. checkEmptyBusy is
split by its branches (`CheckCarriesOn`, `CheckPostsOnEmpty`,
`CheckPostsBusyPoll`, `CheckPretendsInternal`, `CheckFindsNothing`), an event is
`PickQueued` or `PickInterrupt`, then any calls, then `TriggerReturns`.
`Interrupt` is the signal handler and is enabled everywhere. The assert that
opens checkEmptyBusy is `CheckFails`: a build with asserts stops there. The
other asserts are properties.

Left out: an event that dispatches events itself; Event::interrupt() of the
running event, which belongs to the program; the warning of the destructor.

### `RegistryDispatcherGlue`: RegistryDispatcherGlue.cxx on the dispatcher

Extends `SimpleDispatcher` and narrows what events do: the busy and the empty
event put themselves back and poll, external events post external events and may
stop the dispatcher. The constructor's two calls are two steps, in between
which nothing else runs. doPoll is any number of posted external events, which
is all that UnixEventPoll does to the dispatcher.

### `StreamModule`: StreamModule.h and StreamModule.cxx

Re-entrance is the subject, so the call stack is a variable, and the flags are sets
of plugs. A frame is what is left to do of a call. `doReadsAndWrites`, `pushLoop`
and `pullLoop`, the flag setters, the notifications, `plugInto`, `unPlug` and the
destructor of a plug are actions that take the top frame and put what they call in
its place; flags are read when a frame's turn comes, as the code reads them after
each call. The virtual functions (`i_Read`, `i_Write`, `otherIsReadable`,
`otherIsWriteable`, `plugDisconnected`) are frames whose actions the modules that
extend this one give. A program is a set of plugs of modules of its own ("ends"),
which have chunks or room, or not, and may change their mind whenever they are called.

### `StreamSplitter`, `EchoModule`, `ProcessorModule`, composed in `PlugRing`

The virtual functions of these modules and of `InfiniteModule`. `PlugRing` is the
program: a splitter, a processor module and an echo module in a ring, with the ends
or an infinite module at the splitter's open sides; it plugs, unplugs, makes and
deletes plugs in any order. A chunk from the source passes every module twice.

### `SimpleMultiplexer`: SimpleMulti.h and SimpleMulti.cxx

All of it, the deferred deletion and the module's destruction included. Functions
that call setReadable or setWriteable and go on are two or more actions (`MultiSpent`,
`MultiPassesOn`, `MultiPassedOn`), since what they called may have changed anything.
`AssertsHold` has every assert of the file that is about the plugs, the counts and the
chunk, each at the frame that stands for its place. The model goes on where one would
fail, as a build without asserts does. `misled` is a history variable: the plugs that
i_MakePlug has opened although the single plug's peer could not be written (number 8
below), until they are told again.

### `StreamFDModule`: StreamFDModule.h, StreamFDModule.cxx and SocketModule::writeEOF

Bytes are counted; a chunk is its length. The descriptor, the poll and the queue of
the dispatcher are what the module asks of them: each condition is registered or
not, each of the five events queued or not. read and writev return everything
they may: a part, nothing yet, end of file, an error. What the vectors handed to
writev hold is in `Chunks`.

### `SockListenModule`: SockListenModule.h and SockListenModule.cxx

The listener with one connection accepted ahead. Each of accept, fcntl and the calls
of the constructor may fail. Its one plug and the plug of the rest of the program it
is plugged into do not ask to hear of each other's flags (`ListenConstants`): the
listener's plug calls neither notifyOnReadable nor notifyOnWriteable.

### `SimpleTelnetClient`: SimpleTelnetClient.h and SimpleTelnetClient.cxx

Both plugs of the client on the loops of `StreamModule`. A chunk is data or a
negotiation. The three asserts of its plugs stop the program.

### `RouterModule`: RouterModule.cxx with the loops of StreamModule.cxx

This module has a stack of its own, with a frame for the loop
into a plug, the loop out of it, the peer's i_Write, processIncoming,
routingDone and plugInto. A frame is pushed exactly where the code sets a flag
that starts a loop, unless that loop is on the stack already, which is what
isreading_ and iswriting_ say. getDestinations is the subclass's: any set of
plugs. Peers are the rest of the program: they have a chunk or room, or not, and
inside their i_Write the program may add, unplug and delete plugs. The model
goes on where an assert would fail, as a build without asserts does; the asserts
are the properties. `wrote` is a history variable no action reads.

Left out: the router's destructor, a peer whose i_Read makes calls, and
plugging in from inside a peer's i_Write.

### `TimerEventTracker`: TimerEventTracker.cxx and the arithmetic of Timer.cxx

A heap is a sequence of intervals from a base, in multimap order. `Less` and
`Minus` are the operators on absolute times with their dependence on how a time
is split into whole seconds and the rest; the second and the week are constants.
`wanted` is a history of when each event is due.

### `UnixEventPoll`: UnixEventPoll.cxx

doPoll is cut at every point where a signal matters: taking the caught signals
(`Snapshot`, which runs with signals blocked), posting their events, the call of
poll and its sleep, the expired timers, the scan of the reports. `SigOccurred`,
the handler, is enabled at all of them and ends the sleep with EINTR; another
registry's signal does only the latter. `handled_by` is the table all registries
share, `known` the size of `hdlrinfo_`, on which clearSignal's early return
depends. A registration stands for its event; the timers of `TimerEventTracker`
are one event that is pending or due. poll(2) is what the man page says: it
reports errors and hang-ups unasked, returns at once when there is something to
report, and is interrupted only while it sleeps. `waiting` and `owed` are history.

Left out: poll failing for want of memory, sigaction failing, signal numbers out
of range (an exception, nothing changes), and the "bad signal" branch of the
handler, which needs a handler nobody registered.

### `LinearExtent` and `Chunks`

`LinearExtent` is the class of that name with unsigned numbers that wrap around at
`UMax`. `Chunks` has the three forms of chunks (a buffer, a part of a chunk, a
group), the traversal that UseTrackingVisitor makes of them, with the stack of
positions and extents it swaps as arguments, and the three users of that
traversal: for_each, the iterators, and the list of vectors from which StreamFDModule
writes. `Content` says, without a traversal, what the bytes of a chunk are.

### `StreamProcessor`, `CharChopper`, `TelnetParser`, `TelnetChunker`

`StreamProcessor` is the protocol of a processor with one incoming and one outgoing
chunk; its processIncoming is a parameter. A processor is a record with one field per
member; `ChopIncoming` and `ChunkIncoming` are the two processIncomings, of a build without
asserts: the telnet chunker goes on where one would fail, and stops only where it uses a
NULL pointer (`crashed`). The telnet
parser is one function per state and byte. A byte is a name (`"IAC"`, `"SE"`,
`"a"`); `Commands` and `Negotiations` say which bytes are which.

### `Serializers` and `XMLLexer`

A serializer writes numbers in network order to the base `Base`, which stands for
256, and strings with a length of one byte or three. The lexer is one step per byte
of a state machine whose states have the names of the code's; `told` is what it has
told its builder in one call.

### `Processors`

Feeds the four of them a stream in pieces of every length, each piece as a buffer,
a part, a group, or a part of a part, and interleaves the reader. The second half of
the module is a grammar for each kind of stream, written over the whole stream and
without states, which is the reference the properties compare with. What a telnet chunker
gives also depends on where it gave up what was under way; the grammar reads that from
where the stream was cut (`cuts`), not from the parser.

## Runs

| Run | Instance | Shows |
|---|---|---|
| `dispatcher` | an event of every kind, signals, queues of 3, requests up to 3 | no event is taken from an empty queue, the count is one too high at most and only with an empty queue |
| `glue` | 2 external events, queue of 4, fair | the assert holds here, the dispatcher implements `EventQueue`, one busy event, the world is polled for ever |
| `router` | 2 plugs, one of which may be unplugged and deleted, fair | copies are accounted for, one chunk at a time, chunks move on |
| `timer` | half seconds, a week of 2 seconds, 6 seconds, timers less than a week ahead | everything due is posted, nothing else; the poll's timeout is right |
| `poll` | one descriptor with a reader and a watcher of its end, 2 signals, one of which another registry handles too, a timer, fair | nothing ready, caught or expired is forgotten or posted twice; no sleep on posted work |
| `plug_ring` | the ring, 2 chunks, plugged in 5 times | no two loops on one plug, no chunk lost or left where it could move, the splitter's flags right |
| `streamfd` | blocks of 1 byte, 2 bytes before a turn of the dispatcher, 2 bytes each way, one error, one reset, with end-of-file chunks | no byte lost or doubled by short writes and errors; the module never waits for nothing |
| `multiplexer` | a single plug and 2 multi plugs; the single plug's end and one other have 2 chunks; all are made at any time; one multi plug may be deleted, at rest or while a chunk is written | the three counts are right, the asserts hold but for number 8 below, chunks arrive once and in order |
| `listener` | 3 connections, one failure of any call but F_SETFL, one clearError, fair | each connection is handed out once, none waits for ever |
| `processors` | every stream of `MCProcessors` in up to 3 pieces | what comes out is what the grammars above say, and a telnet chunker fails on an empty suboption only (number 9 below) |
| `telnet_client` | 4 negotiations, 2 chunks from each side, one reset | data passes, all is answered, in order |
| `telnet_client_assert` | the same | the finding, below |

**Bounds.** `MaxQueue` bounds what the program keeps queued, `MaxRequest` the
argument of dispatchEvents, `MaxClock` the clock. Three queued events are
enough for a chunk to end before, at and behind the internal event with another
one waiting; a request of three is cut to the queue and cuts it. Two router plugs
with deletion cover every fate of one reader beside one that stays. The timer's clock
passes three replacements of the base with timers pending.

In `timer` timers are at most 3 half seconds ahead: a week less the fraction of
a second that the base drops. Beyond that a timer can be pending through two
replacements, where the code is wrong (number 4 below).

In `poll` a signal comes only while fewer than `MaxPosts` of its events are
queued. Two signals are needed for one to be caught while another is posted, and
a signal number below another for clearSignal to look at an entry that was never
registered; two registrations of one descriptor for them to fire apart and
together. More descriptors only repeat the scan, whose rounds are independent.

`MaxPlugIns` lets each of the five joints of the ring be made, or four of them and
one of those again after an unplug. In `streamfd` two bytes in blocks of one make a
read that takes a part of what there is, a chunk kept while the plug is not read, and
the turn given to the dispatcher; a chunk of two bytes is written in one, two or
three tries. In `multiplexer` one multi plug only reads. The other writes twice, which
needs a scan in between, and is the one whose deletion waits for that scan.

In `processors` `BufSize` is 2 and `FirstSize` 3 for the chopper's buffer to be made,
to grow and to fill within a stream; `Base` is 4, so that strings of 13 to 16 bytes
lie about the longest one (`Base * Base - 2` bytes, where a length in one byte ends);
a suboption may have `MaxSuboptSize` = 4 bytes; a name of three characters is the
longest the lexer takes. The telnet streams are pairs from a list of every kind of
element, complete, escaped, or cut off; three pieces put a cut anywhere in both. The
iterators are compared on what passes through the chopper, whose chunks have every
form; there `UMax` is 63, above every position.

**Deadlock** is checked in `glue` and `poll`. The other instances may stop: the
dispatcher by its assert, a router without plugs or work, a clock at its bound, a
program whose ends have nothing more to give.

**Fairness.** In `glue`: a handler puts itself back and returns, the dispatch
functions run on, and the program calls the dispatcher again, as its main loop
does. Nothing is assumed of the external events: they may repost each other for
ever. In `router`: calls return (weak fairness of the steps of the thread), the
dispatcher runs a posted scan, and a peer without room has room again some day.
The last two are strong, because a peer or an event only gets control when the
router is not running, which happens again and again but not for ever. In `poll`:
doPoll runs on (poll always has a timeout, 1073741 seconds at most), time passes,
and the program polls again, which is what `WorldPolled` says of the glue. A
signal that arrives between postSigEvents and poll is posted only because of that
timeout: `SignalPosted` says that it is posted, not that it is posted soon. In
`listener`: calls return, queued events run, the poll reports what is there, and the
end without room has room again. `GoesOn` of `streamfd` and `NothingStuck` of
`processors` need no fairness: they say that whenever everything has returned,
somebody will be woken for what is left to do, or there is nothing.

## Finding

`telnet_client_assert`. updatePlugFlags makes the user's plug writeable, which
reads the user at once. A user whose i_Read sets its own flag makes updatePlugFlags
run again, which opens the server's plug; the server's waiting negotiation is
answered into `toserver_`, and the chunk just read from the user is then written to
a UPlug whose assert says that `toserver_` is empty (SimpleTelnetClient.cxx:232).

## Where the code does not keep what it says

These are not runs. Each is reproduced by the change of a run's configuration that is
described.

1. `CheckAssertHolds` as an invariant of `MCSimpleDispatcher.cfg`, with `IntHandlers = {}` and
   `Signals = FALSE`. The break for a
   busy poll event in i_dispatchNEvents comes
   before `--i`: the event that ran is not counted. If it was the last one, the
   next checkEmptyBusy fails its assert. A call dispatchEvents(1) may then also
   dispatch more than one event. The glue avoids this because only its own
   event adds busy poll events, and that one never runs in a watched chunk.
2. `ScanAssertHolds` as a property of `MCRouterModule.cfg`, with `MayDelete = {}` and
   `MayUnplug = {}`. doScan expects to run while a chunk waits for its
   readers (it says so in its own assert) and then calls routingDone, which asserts
   that none does. One plug and a slow peer are enough.
3. `OncePerScan` as an invariant of the same instance. A plug whose chunk had no destination stays on
   `writeable_` and is opened again by the next chunk. A build with asserts stops
   at RouterModule.cxx:218 on the way.
4. `Horizon = 9` in `MCTimerEventTracker.cfg`: `PostsTheExpired` and `NextIsNext` fail. The base difference is added where it should be
   subtracted. The
   comparison at TimerEventTracker.cxx:119 has the same sign, so timers of
   different bases may be posted out of order; no document promises an order.
5. `NowAccepted` as an invariant of `MCTimerEventTracker.cfg`. `operator <` of absolute times is `<=` within a
   second, so a first now that equals the base is refused.
6. `OneRegistryPerSignal` as an invariant of `MCUnixEventPoll.cfg`. clearSignal(signo, event) does not look whether this
   registry handles the signal (clearSignal(signo) does): it restores the default
   action and clears the other registry's place in `handled_by_S`.
7. `"setfl"` added to `Failures` in `MCSockListenModule.cfg`: when F_SETFL fails, doAccept returns
   early and leaves the plug readable without a connection; `OneReadEvent` fails.
8. i_MakePlug takes the new plug's writeable flag from the single peer's canread_
   (SimpleMulti.cxx:516). A plug that is opened because that peer can be read, though it
   cannot be written, takes a chunk for which there is no room, and the assert of
   SimpleMulti.cxx:161, or 177, fails. The run `multiplexer` makes such plugs (`misled`), and
   `AssertsHold` excepts them from these two asserts and from no other; without the
   exception in `MultiAsserts` it fails.
9. `AssertsHold` of `Processors` as an invariant of `MCProcessors.cfg` fails in four ways.
   The assert at
   TelnetParser.cxx:131 compares curpos_, which stays at the beginning of the block, with
   a region that has moved on. The one at TelnetChunker.cxx:159 fails for a suboption without
   data (IAC SB x IAC SE); without asserts the Suboption's constructor then calls Length of
   no chunk (TelnetChunkerData.h:195), where the model stops. The one at TelnetChunker.cxx:313
   fails for a chunk that completes no element, for which there is nothing to hand out;
   without asserts no harm is done. `Parses` says for which streams and
   cuts the last two fail, that only the empty suboption stops the chunker, and that all that
   was complete before has been handed out. An OutSerializer made from an empty state has no
   buffer and writes through NULL (OutSerializer.cxx:72-81).
10. Met while reading, and modelled as it is: with `MaxUnplugs` above 0 a plug of the telnet
   client that is unplugged while a chunk is held for it makes SPlug::i_Read read through a
   NULL pointer. The model stops where the program would (the first conjunct of
   `EndsThere`); no run of the list gets there. An EOF chunk stays in `cur_write_` after it has been
   written, so the plug is never writeable again (StreamFDModule.cxx:717; `GoesOn` says
   so). EchoModule::deletePlug of a plug that is plugged in fails the assert of
   plugDisconnected (EchoModule.cxx:60, `EchoDisconnectAssert`), which the ring's program runs
   into: the model goes on, as a build without asserts does. CharChopper.cxx:63-77 appends to a
   group it has received as a chunk, which whoever wrote it may still hold, although
   StrChunk.h:45 says that "StrChunks are supposed to be immutable after they're created":
   `ChunksStay` as an invariant of `MCProcessors.cfg` fails. A suboption given up in the
   middle of an escape ends in an odd IAC, which swallows the IAC of its end when it is
   sent on (`MidEscape`); Lexer.h:42 documents lex's result the wrong way round, and
   `Keeps` follows the code.

The asserts of i_Read and i_Write of the router's plugs (RouterModule.cxx) are not among them:
they are proved for any number of plugs, `OneChunk` below.

## Proofs

### The dispatcher: `DispatcherProofs`

For every set of events, every bound and every interleaving with signals:

* `TypeCorrect`: `Spec => []TypeOK`;
* `PickFinds`: the queue is never empty when an event is taken;
* `UndercountBounded`: `internalevnum_` is at most one too high, with an empty queue;

and without signals:

* `RecordedPlace`: the internal event lies at the recorded place;
* `Implements`: `SimpleDispatcher` implements `EventQueue`.

The assumptions are those of the module: the kinds of events are disjoint where
the dispatcher tells them apart, and the bounds are naturals.

`PickFindsEvent` is not inductive: that the queue covers a chunk
depends on how the chunk was started and on what was taken since. `ChunkInv`
therefore says, at each place of the dispatch loop, how many events the queue
must still hold: `i` at least while a chunk runs, `i - 1` while an event of it
runs. Events only append and an interrupt takes none, so all calls preserve it,
and a chunk is started with the smaller of the request and the queue. For the
refinement, `Quiet` adds that the internal event is `internalevnum_ - Popped`
places into the queue. That is why a recorded count of zero means a queue of
external events, which is the guard under which `EventQueue` posts a busy poll
event. Interrupts break exactly this, since they are counted like queued events,
and so the two theorems assume `~Signals`.

### The glue: `DispatcherProofs`, second part

Without signals, for every set of external events:

* `AssertHolds`: the assert that fails for the dispatcher alone (number 1 above) never fails here;
* `OneBusy`: the busy event is in one place, or nowhere when there is no glue;
* `GlueRecordedPlace`: the internal event lies at the recorded place;
* `GlueImplements`: the dispatcher as the glue uses it, the glue's constructor and
  destructor included, implements `EventQueue`.

The lemma `GlueStep` says that every step of the glue is a step of the dispatcher, so
`QuietInv` carries over, and with it the last two. `GlueInv` adds two things. `BusyPlace` says where the busy
event is: in its slot, in the queue or running, never two of them. `WatchedChunk` says
that a chunk that is left when a busy poll event turns up (`checkbusy`) contains no
internal event and starts with an empty slot; since only the busy event fills the slot,
the break that forgets to count is never taken, and the count is never above the queue.
The second needs the first: that the busy event is not in the queue as well.

### The poll: `UnixEventPollProofs`

For any registrations, conditions, signals, and signals that other registries handle:

* `TypeCorrect`, which says also that a signal is registered exactly while it has events;
* `FiresOnce`: a registration is posted once at most, and none that watches for the
  end of its descriptor is dropped unheard;
* `NeverSleepsOnEvents`: doPoll never sleeps on a posted event.

It assumes `EventsApart`: registrations, the events of signals and the timer are
different things. The invariant adds `SleepInv`, which follows one round: while doPoll
means to wait nothing has been posted, and a round that ended in EINTR has nothing
reported, so that the next one may wait.

### The router: `RouterModuleProofs`

For any plugs, any of which may be unplugged or deleted, and peers that call back
into the router from their i_Write:

* `CopiesCounted`: `outgoingcopies_` is the number of plugs that can be read and of
  copies that one call of processIncoming still has to hand out;
* `OneChunk`: the asserts of i_Read and i_Write hold, in any nesting of the calls;
* `ChunkLetGo`: a chunk is kept exactly while a copy of it is waited for.

It assumes that `RPlugs` is finite. The first is an induction over call stacks: a plug
that is told of a chunk may read it and open the router, so that the next chunk is
handed out by a processIncoming above the one that is still running. `HasUnhanded` says
that there is one call at most with copies left, wherever it is on the stack. That the
others have none left is not the code's bookkeeping but follows: a call that has copies
left keeps the count above zero, hence the chunk, hence every plug shut, so that nothing
can call processIncoming above it. What that argument needs makes up the rest of `IInv`:
a plug that can be written to is on `writeable_` or deleted, and none can while a chunk
is routed. `CopiesAccounted` says "there is such a call" and not "the sum over the stack
is", since only the former can be stated without a recursion over the stack.

### The timers: `TimerEventTrackerProofs`

For any events, lengths of the second and the week, and any horizon of the timers with
`WithinAWeek`, that is, no timer further ahead than a week less the fraction of a second
the base drops:

* `PostsExpired`: postExpired posts the timers that are due, all of them and no others;
* `NextExpiration`: nextExpirationIn is the time to the earliest one;
* `PostsInOrder`: timers of one base that expire together are posted in order.

`WithinAWeek` is needed: beyond it the code is wrong (number 4 above). The
invariant says that each heap is in the order of its offsets and holds only timers that
were set under its own base, with the offset from that base; that `base_diff_` is the
difference of the two bases, which are whole seconds; and that no timer of the old heap is
wanted later than `Horizon` after the second in which the base was last replaced. So they
have all been posted when that base is replaced in turn: this is where the hypothesis enters.
That putting a timer into a heap and cutting off what has expired keep the order are
lemmas of `ListsProofs`.

### The descriptor: `StreamFDModuleProofs`

For any block size, limits, chunk sizes, either writeEOF, and any number of bytes, errors
and resets:

* `EachByteOnce`: no byte is lost or doubled on its way through the module;
* `AlwaysWorkToDo`: the asserts of eventRead and eventWrite hold;
* `NeverStalls`: without an error somebody, the poll, the queue or the flag of the plug,
  stands for whatever is left to do.

The call stack is part of the invariant. `Shaped` lists the six forms it takes: nothing on
it moves a chunk or sets a flag (`Quiet`); a flag is about to be set above that; a chunk is
about to be read, or has been read while i_Read stops the reading, or is about to be
returned, or to be written, with the write of it next below in every case. Below these few
frames everything is quiet, however deep the loops are nested, so a step needs to know no
more than the top of the stack. `WillRead` and `WillWrite` are what the plug's flags will be
once the call on top has set them: the module decides to set a flag some steps before it
is set, and what must agree with the read-ahead chunk at every moment is the decision. `Polled` says
where a condition stands: registered with the poll or on the queue, in one place only and
only while `checkingrd` (`checkingwr`) says so, and certainly in one of them while the
descriptor is open. The bytes are counted with the chunk in flight between the two plugs
(`Flight`) and the bytes left of a chunk begun (`Partial`). Each action is a lemma; `DoRead`
and `DoWrite` say once what a read and a write come to, for the plug and for the event.

### The listener: `SockListenModuleProofs`

For any number of connections, failures and errors cleared, and any order in which the two
plugs are plugged, filled, emptied and unplugged, as long as F_SETFL does not fail
(number 7 above):

* `HandedOutOnce`: every connection accepted is handed out once and in order, or was closed
  because a call on it failed;
* `EventRegisteredOnce`: `checking_read_` is true exactly when the read event is with the
  poll or on the queue, and no connection waits meanwhile;
* `ReadsWhatIsThere`: i_Read is only called when there is a connection to return;
* `NoWakeupMissed`: when all calls have returned, no chunk is left where it could move;
* `NeverTwoReaders`: no plug is read, or written, by two calls at once.

The last two are `NothingLeftToMove` and `OneReaderOneWriter`, which the run `plug_ring` checks
on plugs of several modules. Here they are proved for one plug and its peer. They are about the
loops of `StreamModule`, and so is the part of the invariant that gives them, `Plugged`:

* `Nested` says that above a loop there is no other one and no call that may start one, and
  `MarksOK` that the plugs marked as read and written are those of the loop that runs. The
  second is why the first holds: a call that would start a loop finds the plug marked.
* `Covered` says that as long as a connection could move, a loop is on the stack or about to
  be. "No chunk is left over" speaks of an empty stack only and is not inductive by itself:
  a flag set to true must leave behind the call that looks at it, and a loop that returns
  must have found a flag false. `Symmetric` is needed for that, since a loop asks the peer:
  the two plugs agree on whether they are connected, but in the middle of unPlug.
* `Shaped` lists the forms of the stack, as for the descriptor: nothing on it moves a chunk;
  a flag is being set; or a connection is about to be read, shown, returned or written, with
  the write of it next below and the loop below that.

On top of it, `Flow` follows a connection from `newmodule_` over the value returned by i_Read to
the peer, `ReadAhead` says that a connection waits exactly if the flag is set or will be by the
call on top of the stack, and `Poll` counts the read event. F_SETFL failing breaks `ReadAhead`.
Each kind of call is a lemma, which says what it does to the plugs (`Plugged`) apart from what it
does to the module; `EngineStep` gathers those that leave the module alone. TLC found each part of the
invariant to hold on the instance of `listener` before it was proved.

### Lists: `ListsProofs`

Facts about lists that the proofs of the router, the timers, the descriptor and the
listener share. What `Only` keeps, and in which order, is proved by induction on the
length, from `LeastNat`: a nonempty set of numbers has a least one. `OnlyGrown`,
`OnlyAppend` and `OnlyTail` say what becomes of it when the list grows at its end, or
loses its first element.

### Extents: `LinearExtentProofs`

For every width of an unsigned int, and extents that `Fit` (do not reach past the
largest position; the code's sums wrap around otherwise):

* `SubExtentIsPart`: what a part of an extent covers, in positions of the whole;
* `IntersectionIsShared`: intersection covers what both cover, and commutes;
* `LeftKeepsTheEnd`, `MovesKeepTheLength`: lengthening or shortening on the left keeps the
  end, moving keeps the length.

These are the facts the traversal in `Chunks` rests on; that its recursion composes
them rightly is what `IteratorsRight` checks on the instance.

### Only model-checked

* All liveness: `WorldPolled`, `ChunkMovesOn`, `SignalPosted`, `ReadyIsPosted`,
  `TimerPosted` and `Served` need fairness, which is beyond the prover.
* Whatever is computed by a recursive operator: chunks, parsers, serializers and the lexer.
* The ring, the multiplexer and the telnet client. They nest loops of several plugs, since the
  echo and the splitter set flags of a second plug from the i_Read and i_Write of the first one,
  so their stacks have no short list of shapes as those of one plug and its peer have.
  `NothingLeftToMove` and `OneReaderOneWriter` are proved for the listener and its peer only.
* The counts and asserts of the multiplexer.

## Not modelled

* Nested dispatch: an event that calls dispatchEvents. The two calls share
  `internalevnum_` and `curevt_`; the model's locals would need a stack.
* Re-attaching a glue with dispatcher() or eventRegistry().
* Timer's operator == and the formatting of times.
* SocketModule's connect (system calls and an address), FDUtil (wrappers of fcntl).
* GraphVizVisitor, printing of extents and addresses, comparison of iterators and of
  telnet chunks. Operator < of iterators (ChunkIterator.cxx:251) is not used by the library.
* The sizes in bytes of S4Byte and U4Byte: GenTypes.h:84-93 makes them `long`, eight bytes
  on a 64-bit system, while the serializers write four. The model takes four. With eight,
  hton writes behind the four bytes, and a negative S4Byte is not read back as it was written.
* Exceptions: the timers throw when the clock has been set back (TimerEventTracker.cxx:96 and
  160), in the middle of doPoll and of the dispatch loop. Time does not run backward in the
  models.
* The lexer's states for entities, which no byte leads to; xml::Tree.
* UNIXError, StackSwapper, the decorators, LCore and EHnet++: values, formatting and
  support without behaviour of their own.

## What could follow

1. `UnixEventPoll` composed with the glue in place of its stand-in and with
   `TimerEventTracker` in place of its one timer, which would also say that an expired timer is
   dispatched in time.
2. An abstract channel of chunks that `StreamModule`'s loops implement, and a multicast
   register for the router.
3. `NoWakeupMissed` and `NeverTwoReaders` for modules that nest loops, from `Covered` and `MarksOK`
   plug by plug, and the counts of the multiplexer.
4. Nested dispatch, and re-attaching the glue.
