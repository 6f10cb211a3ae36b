-------------------------- MODULE SockListenModule --------------------------
(***************************************************************************)
(* StrMod/SockListenModule.h and SockListenModule.cxx: a plug that hands   *)
(* out the connections a listening socket accepts, each in a chunk of its  *)
(* own.  One connection is accepted ahead (newmodule_).                    *)
(*                                                                         *)
(* Connections are numbered in the order they come.  The socket, the poll  *)
(* that watches it and the dispatcher that runs the module's two events    *)
(* are modelled by what this module asks of them.  End is the plug the     *)
(* module's plug is plugged into; neither asks to hear of the other's      *)
(* flags.                                                                  *)
(***************************************************************************)
EXTENDS StreamModule, Lists

CONSTANTS LPlug, End,
          Failures,        \* the calls that may fail: "socket", "accept", "family",
                           \* "getfl", "setfl"
          MaxConnections, MaxFailures, MaxClears  \* bounds of the environment

ASSUME ListenConstants ==
  /\ Plugs = {LPlug, End} /\ LPlug # End /\ None \notin Nat
  /\ NotifyReadable = {} /\ NotifyWriteable = {}
  /\ Failures \subseteq {"socket", "accept", "family", "getfl", "setfl"}

VARIABLES
  sockopen,        \* sockfd_ >= 0
  alive,           \* the module has not been destroyed
  has_error, checking_read,
  newmodule,       \* the connection accepted ahead, or None
  registered,      \* external: how often each condition is registered
  queue,           \* external: the dispatcher's queue
  came, accepted,  \* external: the connections that came, that were accepted
  clears,          \* how often the program cleared the error
  got,             \* history: the connections handed out
  dropped,         \* history: those closed because of a failure
  failures         \* history: how many calls have failed

listener == <<sockopen, alive, has_error, checking_read, newmodule>>
socketvars == <<registered, queue, came, accepted>>
history == <<clears, got, dropped, failures>>
vars == <<plugvars, listener, socketvars, history>>

\* The constructor; one of its calls may fail.
Init ==
  /\ PlugInit({End}, {End})
  /\ sockopen \in (IF "socket" \in Failures THEN BOOLEAN ELSE {TRUE})
  /\ alive = TRUE
  /\ has_error = ~sockopen /\ checking_read = sockopen
  /\ newmodule = None
  /\ registered = [cond \in {"read", "error"} |-> IF sockopen THEN 1 ELSE 0]
  /\ queue = <<>> /\ came = 0 /\ accepted = 0
  /\ clears = 0 /\ got = <<>> /\ dropped = {} /\ failures = 0

-----------------------------------------------------------------------------
(* Accepting.                                                              *)

May(call) == call \in Failures /\ failures < MaxFailures

\* What doAccept comes to.  conn: the connection accepted, kept: newmodule_,
\* shows: it goes on to tell the plug, which it does not when F_SETFL fails.
Outcome(conn, fails) == [conn |-> conn, kept |-> None, fails |-> fails,
                         again |-> FALSE, shows |-> TRUE]

Outcomes ==
  (IF May("accept") THEN {Outcome(None, TRUE)} ELSE {})
  \cup
  (IF accepted = came THEN {[Outcome(None, FALSE) EXCEPT !.again = TRUE]}
   ELSE LET conn == accepted + 1
        IN  {[Outcome(conn, FALSE) EXCEPT !.kept = conn]}
            \cup (IF May("family") \/ May("getfl") THEN {Outcome(conn, TRUE)} ELSE {})
            \cup (IF May("setfl")
                  THEN {[Outcome(conn, TRUE) EXCEPT !.shows = FALSE]}
                  ELSE {}))

\* Mutant: getNewModule does not forget the connection it hands out.
KeepsOld(out) == IF out.kept = None THEN newmodule ELSE out.kept

\* getNewModule has cleared newmodule_; eventRead found it cleared.
Keeps(out) == out.kept

\* On EAGAIN the socket is registered, unless it is.
DoAccept(out, checking) ==
  /\ newmodule' = Keeps(out)
  /\ accepted' = IF out.conn = None THEN accepted ELSE out.conn
  /\ checking_read' = (checking \/ out.again)
  /\ registered' = [registered EXCEPT !["read"] =
                      IF out.again /\ ~checking THEN @ + 1 ELSE @]
  /\ has_error' = (has_error \/ out.fails)
  /\ failures' = IF out.fails THEN failures + 1 ELSE failures
  /\ dropped' = IF out.fails /\ out.conn # None THEN dropped \cup {out.conn} ELSE dropped
  /\ UNCHANGED <<sockopen, alive, came, clears>>

\* Mutant: the plug is only told of a connection.
ShowsOnlyNew(out) == If(out.kept # None, <<Set("setReadable", LPlug, TRUE)>>)

Shows(out) == If(out.shows, <<Set("setReadable", LPlug, out.kept # None)>>)

\* Mutant: eventRead leaves checking_read_ as it was.
StillChecking == checking_read

\* checking_read_ once eventRead has begun.
Checking == FALSE

\* eventRead does not accept over a connection that has not been read.
EventRead ==
  /\ IF newmodule = None
     THEN \E out \in Outcomes : DoAccept(out, Checking) /\ stack' = Shows(out)
     ELSE /\ checking_read' = Checking
          /\ UNCHANGED <<sockopen, alive, has_error, newmodule, registered, came,
                         accepted, clears, dropped, failures, stack>>
  /\ queue' = Tail(queue)
  /\ UNCHANGED <<other, flags, made, ret, got>>

EventError ==
  /\ has_error' = TRUE
  /\ queue' = Tail(queue)
  /\ UNCHANGED <<plugvars, sockopen, alive, checking_read, newmodule, registered,
                 came, accepted, history>>

\* getNewModule: the next connection is accepted as this one is handed out.
GetNewModule(rest) ==
  IF newmodule # None
  THEN \E out \in Outcomes : DoAccept(out, checking_read) /\ stack' = Shows(out) \o rest
  ELSE /\ stack' = rest
       /\ UNCHANGED <<listener, registered, came, accepted, clears, dropped, failures>>

Read ==
  /\ Running("i_Read") /\ Top.plug = LPlug
  /\ GetNewModule(<<Set("return", LPlug, newmodule)>> \o Tail(stack))
  /\ UNCHANGED <<other, flags, made, ret, queue, got>>

\* The program may call getConnection itself.
GetConnection ==
  /\ newmodule # None
  /\ GetNewModule(<<>>)
  /\ got' = Append(got, newmodule)
  /\ UNCHANGED <<other, flags, made, ret, queue>>

-----------------------------------------------------------------------------
(* The plug, errors, and the end of the module.                            *)

MakePlug ==
  /\ LPlug \notin made /\ ~has_error
  /\ made' = made \cup {LPlug}
  /\ UNCHANGED <<other, flags, stack, ret, listener, socketvars, history>>

DeletePlug ==
  /\ LPlug \in made
  /\ made' = made \ {LPlug}
  /\ stack' = <<Frame("unPlug", LPlug)>>
  /\ UNCHANGED <<other, flags, ret, listener, socketvars, history>>

ClearError ==
  /\ has_error /\ clears < MaxClears
  /\ has_error' = FALSE /\ clears' = clears + 1
  /\ UNCHANGED <<plugvars, sockopen, alive, checking_read, newmodule, socketvars,
                 got, dropped, failures>>

\* ~SockListenModule: events that are queued find their parent gone.
Destroy ==
  /\ alive' = FALSE /\ sockopen' = FALSE
  /\ registered' = [cond \in {"read", "error"} |-> 0]
  /\ DestroyPlug(LPlug)
  /\ UNCHANGED <<canread, canwrite, isreading, iswriting, made, ret, has_error,
                 checking_read, newmodule, queue, came, accepted, history>>

-----------------------------------------------------------------------------
(* External: the dispatcher, the poll, the socket and the other plug.      *)

Dispatch ==
  /\ Idle /\ queue # <<>>
  /\ \/ alive /\ Head(queue) = "read" /\ EventRead
     \/ alive /\ Head(queue) = "error" /\ EventError
     \/ /\ ~alive
        /\ queue' = Tail(queue)
        /\ UNCHANGED <<plugvars, listener, registered, came, accepted, history>>

Posts(cond) ==
  /\ Idle /\ registered[cond] > 0
  /\ cond = "read" => accepted < came
  /\ registered' = [registered EXCEPT ![cond] = @ - 1]
  /\ queue' = Append(queue, cond)
  /\ UNCHANGED <<plugvars, listener, came, accepted, history>>

ConnectionComes ==
  /\ Idle /\ sockopen /\ came < MaxConnections
  /\ came' = came + 1
  /\ UNCHANGED <<plugvars, listener, registered, queue, accepted, history>>

\* The other plug may be out of room then, and unplug itself.
EndWrite ==
  /\ Running("i_Write") /\ Top.plug = End
  /\ got' = Append(got, ret) /\ Len(got) < MaxConnections + 1
  /\ ret' = None
  /\ \E room, stays \in BOOLEAN :
       /\ room => stays
       /\ Calls(If(~room, <<Set("setWriteable", End, FALSE)>>)
                \o If(~stays, <<Frame("unPlug", End)>>) \o <<Frame("written", End)>>)
  /\ UNCHANGED <<other, flags, made, listener, socketvars, clears, dropped, failures>>

Disconnected ==
  /\ Running("plugDisconnected")
  /\ Return
  /\ UNCHANGED <<other, flags, made, ret, listener, socketvars, history>>

EndHasRoom ==
  /\ Idle /\ End \notin canwrite
  /\ stack' = <<Set("setWriteable", End, TRUE)>>
  /\ UNCHANGED <<other, flags, made, ret, listener, socketvars, history>>

Program ==
  /\ Idle /\ alive
  /\ \/ MakePlug \/ DeletePlug \/ ClearError \/ GetConnection \/ Destroy
     \/ /\ LPlug \in made /\ PlugInto(LPlug, End)
        /\ UNCHANGED <<listener, socketvars, history>>

Step == \/ Engine /\ UNCHANGED <<listener, socketvars, history>>
        \/ Read \/ EndWrite \/ Disconnected

Next == \/ Program \/ Step \/ Dispatch \/ ConnectionComes \/ EndHasRoom
        \/ \E cond \in {"read", "error"} : Posts(cond)

\* Calls end and the dispatcher runs what is queued; the poll reports what is
\* there; the other plug has room again some time.
Spec ==
  /\ Init /\ [][Next]_vars
  /\ WF_vars(Step) /\ WF_vars(Dispatch) /\ WF_vars(Posts("read")) /\ WF_vars(EndHasRoom)

-----------------------------------------------------------------------------
(* Properties.                                                             *)

\* Every connection accepted is handed out once, in the order they came, or was
\* closed because of a failure: none is accepted over or handed out twice.
Kept == Only([n \in 1..accepted |-> n], (1..accepted) \ dropped)
ConnectionsOnce ==
  Idle => got \o (IF newmodule = None THEN <<>> ELSE <<newmodule>>) = Kept

\* checking_read_ is right: the read event is with the poll or in the queue at
\* most once, and never while a connection waits to be read, which is what the
\* plug's flag says.
Pending == registered["read"] + Len(Only(queue, {"read"}))
OneReadEvent ==
  alive => /\ Pending = (IF checking_read THEN 1 ELSE 0)
           /\ newmodule # None => Pending = 0
           /\ Idle /\ sockopen => (newmodule # None <=> LPlug \in canread)

\* Whoever reads the plug gets a connection.
ReadsAConnection ==
  Running("i_Read") /\ Top.plug = LPlug => newmodule # None

\* A connection that has come is accepted, unless the module has failed, is
\* destroyed or is not plugged into anything.
Served ==
  (accepted < came) ~> \/ accepted = came \/ failures > 0 \/ ~alive
                       \/ other[LPlug] = None
=============================================================================
