--------------------------- MODULE StreamFDModule ---------------------------
(***************************************************************************)
(* StrMod/StreamFDModule.h, StreamFDModule.cxx and SocketModule.cxx: a     *)
(* plug on a non-blocking file descriptor.  It reads one chunk ahead       *)
(* (buffed_read_), keeps the chunk it could not write to the end           *)
(* (cur_write_), and lets the dispatcher have a turn after so many bytes.  *)
(*                                                                         *)
(* Bytes are counted, not told apart; a chunk is its length.  The          *)
(* descriptor, the poll that watches it and the dispatcher that runs the   *)
(* module's five events are modelled by what this module asks of them.     *)
(* End is the plug the module's plug is plugged into.                      *)
(***************************************************************************)
EXTENDS StreamModule, Lists

CONSTANTS FPlug, End,
          IsSocket,   \* SocketModule's writeEOF, or StreamFDModule's
          MaxBlock,   \* max_block_size_
          MaxBytes,   \* S_max_bytes_without_dispatch
          ChunkEOF,   \* flags_.chunkeof
          ChunkSizes,  \* how long the chunks are that End has to give
          MaxIn, MaxOut, MaxErrors, MaxResets  \* bounds of the environment

ASSUME FDConstants ==
  /\ Plugs = {FPlug, End} /\ FPlug # End /\ None \notin [len : Nat, eof : BOOLEAN]
  /\ IsSocket \in BOOLEAN /\ ChunkEOF \in BOOLEAN
  /\ MaxBlock \in Nat \ {0} /\ MaxBytes \in Nat \ {0} /\ ChunkSizes \subseteq Nat \ {0}

VARIABLES
  alive,                    \* the module has not been destroyed
  fdopen,                   \* fd_ >= 0
  checkingrd, checkingwr, eofwritten,
  used,                     \* errorinfo_.used_
  readeof,                  \* the error kept for ErrRead is an end of file
  onerror,                  \* the errors with an event in errorinfo_.events_
  buffed_read, since_read,  \* since_read: read_since_read_posted_
  cur_write, since_write,   \* since_write: written_since_write_posted_
  left,                     \* curbuflist_.bytesLeft()
  registered,               \* external: the conditions the poll looks for
  queue,                    \* external: the dispatcher's queue
  arrived, farclosed,       \* external: bytes not read yet, end of file
  came, gave, errors, resets,         \* counts for the bounds
  taken, delivered, accepted, written \* history: bytes, in and out

life == <<alive, fdopen, eofwritten>>
errs == <<used, readeof, onerror>>
watch == <<checkingrd, checkingwr, registered, queue>>
reads == <<buffed_read, since_read, arrived, taken>>
writes == <<cur_write, since_write, left, accepted>>
far == <<farclosed, came, gave, errors, resets, delivered, written>>
fdvars == <<life, errs, watch, reads, writes, far>>
vars == <<plugvars, fdvars>>

\* The constructor, with CheckBoth and nothing to read yet; the program has an
\* event for read errors.
Init ==
  /\ PlugInit({FPlug, End}, Plugs)
  /\ alive = TRUE /\ fdopen = TRUE /\ eofwritten = FALSE
  /\ used = {} /\ readeof = FALSE /\ onerror = {"ErrRead"}
  /\ checkingrd = TRUE /\ checkingwr = FALSE
  /\ registered = {"error", "read"} /\ queue = <<>>
  /\ buffed_read = None /\ since_read = 0 /\ arrived = 0 /\ taken = 0
  /\ cur_write = None /\ since_write = 0 /\ left = 0 /\ accepted = 0
  /\ farclosed = FALSE /\ came = 0 /\ gave = 0 /\ errors = 0 /\ resets = 0
  /\ delivered = 0 /\ written = 0

Chunk(n) == [len |-> n, eof |-> FALSE]
EOFStrChunk == [len |-> 0, eof |-> TRUE]
Len0(chunk) == IF chunk = None THEN 0 ELSE chunk.len

ErrTypes == {"ErrRead", "ErrWrite", "ErrGeneral", "ErrFatal"}
ReadErrors == {"ErrRead", "ErrGeneral", "ErrFatal"}
WriteErrors == {"ErrWrite", "ErrGeneral", "ErrFatal"}
HasErrorIn(set) == used \cap set # {}

\* setErrorIn, called for one error after another.  The event that waits for an
\* error is queued, once; Told is what is queued.
SetErrorIn(list) ==
  /\ used' = used \cup ToSet(list)
  /\ onerror' = onerror \ ToSet(list)
Told(list) == Only(list, onerror)

\* The program's event asks for the next error of that kind.
OnErrorIn(e) ==
  /\ onerror' = onerror \cup {e}
  /\ queue' = Tail(queue)
  /\ UNCHANGED <<plugvars, life, used, readeof, checkingrd, checkingwr, registered,
                 reads, writes, far>>

-----------------------------------------------------------------------------
(* Reading.                                                                *)

ReadOf(chunk, list) == [chunk |-> chunk, errors |-> list, eof |-> FALSE, again |-> FALSE]

\* What doReadFD comes to, by what read(2) returns.
ReadResults ==
  IF ~fdopen \/ HasErrorIn(ReadErrors) THEN {ReadOf(None, <<>>)}
  ELSE (IF arrived > 0
        THEN {ReadOf(Chunk(n), <<>>) : n \in {k \in 1..MaxBlock : k <= arrived}}
        ELSE IF farclosed
        THEN {[ReadOf(IF ChunkEOF THEN EOFStrChunk ELSE None, <<"ErrRead">>)
                 EXCEPT !.eof = TRUE]}
        ELSE {[ReadOf(None, <<>>) EXCEPT !.again = TRUE]})
       \cup (IF errors < MaxErrors THEN {ReadOf(None, <<"ErrRead">>)} ELSE {})

\* Mutants: the poll is not asked; it is asked after every read.
NeverAsks(again) == registered
AlwaysAsks(again) == registered \cup {"read"}

\* On EAGAIN the poll is asked, unless it has been.
AsksPoll(again) == IF again THEN registered \cup {"read"} ELSE registered

DoReadFD(res, checking) ==
  /\ buffed_read' = res.chunk
  /\ arrived' = arrived - Len0(res.chunk)
  /\ taken' = taken + Len0(res.chunk)
  /\ SetErrorIn(res.errors)
  /\ readeof' = IF res.errors = <<>> THEN readeof ELSE res.eof
  /\ errors' = IF res.errors # <<>> /\ ~res.eof THEN errors + 1 ELSE errors
  /\ checkingrd' = (checking \/ res.again)
  /\ registered' = AsksPoll(res.again /\ ~checking)
  /\ UNCHANGED <<life, checkingwr, farclosed, came, gave, resets>>

\* Past the limit the plug is not readable until the dispatcher has had a turn.
ResumesRead(since) == If(since >= MaxBytes, <<"resumeread">>)

\* plugRead: the next chunk is read before this one is handed out.
PlugRead ==
  /\ Running("i_Read") /\ Top.plug = FPlug
  /\ \E res \in ReadResults :
       /\ DoReadFD(res, checkingrd)
       /\ since_read' = since_read + buffed_read.len
       /\ queue' = queue \o Told(res.errors) \o ResumesRead(since_read')
       /\ Calls(If(res.chunk = None \/ since_read' >= MaxBytes,
                   <<Set("setReadable", FPlug, FALSE)>>)
                \o <<Set("return", FPlug, buffed_read)>>)
  /\ UNCHANGED <<other, flags, made, ret, writes, delivered, written>>

EventRead ==
  /\ \E res \in ReadResults :
       /\ DoReadFD(res, FALSE)
       /\ queue' = Tail(queue) \o Told(res.errors)
       /\ stack' = If(res.chunk # None, <<Set("setReadable", FPlug, TRUE)>>)
  /\ since_read' = 0
  /\ UNCHANGED <<other, flags, made, ret, writes, delivered, written>>

EventResumeRead ==
  /\ since_read' = 0
  /\ queue' = Tail(queue)
  /\ stack' = If(buffed_read # None, <<Set("setReadable", FPlug, TRUE)>>)
  /\ UNCHANGED <<other, flags, made, ret, life, errs, checkingrd, checkingwr,
                 registered, buffed_read, arrived, taken, writes, far>>

-----------------------------------------------------------------------------
(* Writing.                                                                *)

WriteOf(chunk, n, list) ==
  [chunk |-> chunk, left |-> n, errors |-> list, again |-> FALSE, closes |-> FALSE]

\* writeEOF of StreamFDModule closes; that of SocketModule does so once the
\* other side has closed, and else shuts its own direction down.
WriteEOF(chunk) ==
  IF IsSocket /\ ~("ErrRead" \in used /\ readeof)
  THEN WriteOf(chunk, 0, <<"ErrWrite">>)
  ELSE [WriteOf(chunk, 0, <<"ErrWrite", "ErrFatal", "ErrRead">>) EXCEPT !.closes = TRUE]

\* Mutant: the chunk is started anew each time there is room again.
Restarted(chunk) == chunk.len

\* The bytes still to be written: startChunk is called when none are left.
BytesLeft(chunk) == IF left = 0 THEN chunk.len ELSE left

\* What doWriteFD comes to, by what the last writev(2) returns.  An EOF chunk
\* stays in cur_write_ for ever.
WriteResults(chunk) ==
  IF ~fdopen \/ (chunk.eof /\ eofwritten) THEN {WriteOf(chunk, left, <<>>)}
  ELSE IF chunk.eof THEN {WriteEOF(chunk)}
  ELSE {WriteOf(None, 0, <<>>)}
       \cup {[WriteOf(chunk, n, <<>>) EXCEPT !.again = TRUE] : n \in 1..BytesLeft(chunk)}
       \cup {WriteOf(chunk, n, <<"ErrWrite">>) :
               n \in IF errors < MaxErrors THEN 1..BytesLeft(chunk) ELSE {}}

DoWriteFD(chunk, res, checking) ==
  /\ cur_write' = res.chunk
  /\ left' = res.left
  /\ accepted' = accepted + (IF fdopen THEN BytesLeft(chunk) - res.left ELSE 0)
  /\ SetErrorIn(res.errors)
  /\ readeof' = (readeof /\ ~res.closes)
  /\ errors' = IF res.errors # <<>> /\ ~chunk.eof THEN errors + 1 ELSE errors
  /\ checkingwr' = (checking \/ res.again)
  /\ registered' = IF res.closes THEN {}
                   ELSE IF res.again /\ ~checking THEN registered \cup {"write"}
                   ELSE registered
  /\ fdopen' = (fdopen /\ ~res.closes)
  /\ eofwritten' = (eofwritten \/ (chunk.eof /\ fdopen))
  /\ UNCHANGED <<alive, checkingrd, farclosed, came, gave, resets>>

ResumesWrite(since) == If(since > MaxBytes, <<"resumewrite">>)

PlugWrite ==
  /\ Running("i_Write") /\ Top.plug = FPlug
  /\ \E res \in WriteResults(ret) :
       /\ DoWriteFD(ret, res, checkingwr)
       /\ since_write' = since_write + ret.len
       /\ queue' = queue \o Told(res.errors) \o ResumesWrite(since_write')
       /\ Calls(If(res.chunk # None \/ since_write' > MaxBytes,
                   <<Set("setWriteable", FPlug, FALSE)>>)
                \o <<Frame("written", FPlug)>>)
  /\ ret' = None
  /\ written' = written + ret.len
  /\ UNCHANGED <<other, flags, made, reads, delivered>>

\* After an error the plug is not made writeable.
Opens(res) ==
  res.chunk = None /\ fdopen /\ (used \cup ToSet(res.errors)) \cap WriteErrors = {}

EventWrite ==
  /\ \E res \in WriteResults(cur_write) :
       /\ DoWriteFD(cur_write, res, FALSE)
       /\ queue' = Tail(queue) \o Told(res.errors)
       /\ stack' = If(Opens(res), <<Set("setWriteable", FPlug, TRUE)>>)
  /\ since_write' = 0
  /\ UNCHANGED <<other, flags, made, ret, reads, delivered, written>>

EventResumeWrite ==
  /\ since_write' = 0
  /\ queue' = Tail(queue)
  /\ stack' = If(cur_write = None, <<Set("setWriteable", FPlug, TRUE)>>)
  /\ UNCHANGED <<other, flags, made, ret, life, errs, checkingrd, checkingwr,
                 registered, reads, cur_write, left, accepted, far>>

-----------------------------------------------------------------------------
(* Errors, and the end.                                                    *)

EventError ==
  /\ SetErrorIn(<<"ErrFatal">>)
  /\ queue' = Tail(queue) \o Told(<<"ErrFatal">>)
  /\ UNCHANGED <<plugvars, life, readeof, checkingrd, checkingwr, registered,
                 reads, writes, far>>

\* What resetErrorIn asks for in a direction that is free of errors again.
Reads(rest) == fdopen /\ ~checkingrd /\ rest \cap ReadErrors = {}
Writes(rest) == fdopen /\ ~checkingwr /\ rest \cap WriteErrors = {}

ResetErrorIn(e) ==
  LET rest == used \ {e}
      rd == e \in {"ErrGeneral", "ErrRead"} /\ Reads(rest)
      wr == e \in {"ErrGeneral", "ErrWrite"} /\ Writes(rest)
  IN  /\ e \in used \ {"ErrFatal"}
      /\ used' = rest
      /\ checkingrd' = (checkingrd \/ (rd /\ buffed_read = None))
      /\ checkingwr' = (checkingwr \/ (wr /\ cur_write # None))
      /\ registered' = registered
                         \cup (IF rd /\ buffed_read = None THEN {"read"} ELSE {})
                         \cup (IF wr /\ cur_write # None THEN {"write"} ELSE {})
      /\ queue' = queue \o If(rd /\ buffed_read # None, <<"resumeread">>)
                        \o If(wr /\ cur_write = None, <<"resumewrite">>)
      /\ resets < MaxResets /\ resets' = resets + 1
      /\ UNCHANGED <<plugvars, life, readeof, onerror, reads, writes, farclosed,
                     came, gave, errors, delivered, written>>

\* deletePlug only marks the plug as not made; the program unplugs it.
DeletePlug ==
  /\ FPlug \in made /\ other[FPlug] # None
  /\ made' = made \ {FPlug}
  /\ stack' = <<Frame("unPlug", FPlug)>>
  /\ UNCHANGED <<other, flags, ret, fdvars>>

\* ~StreamFDModule: the events that are queued find their parent gone.
Destroy ==
  /\ alive
  /\ alive' = FALSE /\ fdopen' = FALSE
  /\ registered' = {} /\ used' = {}
  /\ DestroyPlug(FPlug)
  /\ UNCHANGED <<canread, canwrite, isreading, iswriting, made, ret, eofwritten,
                 readeof, onerror, checkingrd, checkingwr, queue, reads, writes, far>>

-----------------------------------------------------------------------------
(* External: the dispatcher, the poll, the descriptor and the other plug.  *)

Dispatch ==
  /\ Idle /\ queue # <<>>
  /\ IF alive
     THEN CASE Head(queue) = "read" -> EventRead
            [] Head(queue) = "write" -> EventWrite
            [] Head(queue) = "error" -> EventError
            [] Head(queue) = "resumeread" -> EventResumeRead
            [] Head(queue) = "resumewrite" -> EventResumeWrite
            [] OTHER -> OnErrorIn(Head(queue))
     ELSE /\ queue' = Tail(queue)
          /\ UNCHANGED <<plugvars, life, errs, checkingrd, checkingwr, registered,
                         reads, writes, far>>

\* A condition that is registered and holds is posted and forgotten.
Posts(cond) ==
  /\ Idle /\ cond \in registered
  /\ cond = "read" => arrived > 0 \/ farclosed
  /\ cond = "error" => farclosed
  /\ registered' = registered \ {cond}
  /\ queue' = Append(queue, cond)
  /\ UNCHANGED <<plugvars, life, errs, checkingrd, checkingwr, reads, writes, far>>

ByteArrives ==
  /\ Idle /\ fdopen /\ ~farclosed /\ came < MaxIn
  /\ came' = came + 1 /\ arrived' = arrived + 1
  /\ UNCHANGED <<plugvars, life, errs, watch, buffed_read, since_read, taken, writes,
                 farclosed, gave, errors, resets, delivered, written>>

FarCloses ==
  /\ Idle /\ fdopen /\ ~farclosed
  /\ farclosed' = TRUE
  /\ UNCHANGED <<plugvars, life, errs, watch, reads, writes, came, gave, errors,
                 resets, delivered, written>>

EndRead ==
  /\ Running("i_Read") /\ Top.plug = End
  /\ gave' = gave + 1
  /\ \E chunk \in {Chunk(n) : n \in ChunkSizes} \cup {EOFStrChunk}, more \in BOOLEAN :
       /\ gave' = MaxOut => ~more
       /\ Calls(If(~more, <<Set("setReadable", End, FALSE)>>)
                \o <<Set("return", End, chunk)>>)
  /\ UNCHANGED <<other, flags, made, ret, life, errs, watch, reads, writes,
                 farclosed, came, errors, resets, delivered, written>>

EndWrite ==
  /\ Running("i_Write") /\ Top.plug = End
  /\ delivered' = delivered + ret.len
  /\ ret' = None
  /\ \E room \in BOOLEAN :
       Calls(If(~room, <<Set("setWriteable", End, FALSE)>>) \o <<Frame("written", End)>>)
  /\ UNCHANGED <<other, flags, made, life, errs, watch, reads, writes,
                 farclosed, came, gave, errors, resets, written>>

Disconnected ==
  /\ Running("plugDisconnected")
  /\ Return
  /\ UNCHANGED <<other, flags, made, ret, fdvars>>

EndCalls(frame) == stack' = <<frame>> /\ UNCHANGED <<other, flags, made, ret, fdvars>>
EndGives == /\ Idle /\ alive /\ End \notin canread /\ gave < MaxOut
            /\ EndCalls(Set("setReadable", End, TRUE))
EndHasRoom == /\ Idle /\ alive /\ End \notin canwrite
              /\ EndCalls(Set("setWriteable", End, TRUE))

Program ==
  /\ Idle /\ alive
  /\ \/ FPlug \in made /\ PlugInto(FPlug, End) /\ UNCHANGED fdvars
     \/ \E e \in ErrTypes : ResetErrorIn(e)
     \/ DeletePlug
     \/ Destroy

Step == \/ Engine /\ UNCHANGED fdvars
        \/ PlugRead \/ PlugWrite \/ EndRead \/ EndWrite \/ Disconnected

World == \/ ByteArrives \/ FarCloses \/ EndGives \/ EndHasRoom
         \/ \E cond \in {"read", "write", "error"} : Posts(cond)

Next == Program \/ Step \/ Dispatch \/ World

Spec == Init /\ [][Next]_vars

-----------------------------------------------------------------------------
(* Properties.                                                             *)

\* No byte is lost or handed on twice on its way from the descriptor to the plug's
\* reader; and however often writev takes only a part or fails and is tried again,
\* the descriptor has got what was written to the plug but for the bytes left.
BytesOnce ==
  /\ Idle => taken = delivered + Len0(buffed_read)
  /\ Idle /\ alive => written = accepted + left

\* The asserts of eventRead and eventWrite: the poll is only ever asked to
\* wake a module that has something to do.
WokenForSomething ==
  /\ "read" \in registered \cup ToSet(queue) => buffed_read = None
  /\ "write" \in registered \cup ToSet(queue) => cur_write # None

\* Without an error the module never stalls.  With nothing read ahead the poll is
\* watching the descriptor; with a chunk read ahead the plug is readable, or will
\* be when the resume event runs.  With a chunk to write the poll is watching, and
\* without one the plug is writeable, or will be.
GoesOn ==
  Idle /\ alive =>
    /\ buffed_read = None /\ fdopen /\ ~HasErrorIn(ReadErrors)
         => "read" \in registered \cup ToSet(queue)
    /\ buffed_read # None
         => FPlug \in canread \/ "resumeread" \in ToSet(queue)
    /\ fdopen /\ ~HasErrorIn(WriteErrors) =>
         /\ cur_write # None /\ ~cur_write.eof
              => "write" \in registered \cup ToSet(queue)
         /\ cur_write = None
              => FPlug \in canwrite \/ "resumewrite" \in ToSet(queue)
=============================================================================
