------------------------- MODULE SimpleTelnetClient -------------------------
(***************************************************************************)
(* StrMod/SimpleTelnetClient.h and SimpleTelnetClient.cxx: a plug to the   *)
(* server and a plug to the user.  Data passes; the server's negotiations  *)
(* are answered, and the client asks for two options of its own.  The      *)
(* module holds one chunk for each side (toserver, touser).                *)
(*                                                                         *)
(* A chunk is a pair of what it is and a number: <<"data", n>>, or a       *)
(* request and the option it is about.  User and Server are ends, plugs of *)
(* modules of the program.                                                 *)
(***************************************************************************)
EXTENDS StreamModule

CONSTANTS UPlug, SPlug, User, Server,
          Requests,     \* the negotiations the server may send
          MaxFromUser, MaxFromServer, MaxResets, MaxUnplugs  \* bounds

ASSUME ClientConstants == Plugs = {UPlug, SPlug, User, Server}

VARIABLES
  sent_do_supga, sent_do_echo,
  toserver, touser,      \* the chunk held, or None
  fromserver, fromuser,  \* what the ends have given
  atserver, atuser,      \* history: what has arrived at the ends
  resets, unplugs

client == <<sent_do_supga, sent_do_echo, toserver, touser>>
ends == <<fromserver, fromuser, atserver, atuser, resets, unplugs>>
vars == <<plugvars, client, ends>>

Echo == 1
SuppressGoAhead == 3

\* The constructor calls reset, so the first request waits to be read.
Init ==
  /\ other = [p \in Plugs |-> None] /\ made = {User, Server}
  /\ canread = {SPlug} /\ canwrite = {User, Server}
  /\ isreading = {} /\ iswriting = {} /\ notifyonread = {} /\ notifyonwrite = {}
  /\ stack = <<>> /\ ret = None
  /\ sent_do_supga = TRUE /\ sent_do_echo = FALSE
  /\ toserver = <<"DO", SuppressGoAhead>> /\ touser = None
  /\ fromserver = <<>> /\ fromuser = 0 /\ atserver = <<>> /\ atuser = <<>>
  /\ resets = 0 /\ unplugs = 0

CanReadOther == other[UPlug] # None /\ other[UPlug] \in canread
CanWriteOther == other[SPlug] # None /\ other[SPlug] \in canwrite

\* The asserts of SPlug::i_Read, UPlug::i_Write and serverWrite: there is something
\* to read, somewhere to write to, and no room taken.  Where one fails the program
\* stops.
EndsThere ==
  /\ Running("i_Read") /\ Top.plug = SPlug /\ toserver = None =>
       /\ UPlug \in made /\ other[UPlug] # None
       /\ other[UPlug] \in canread \ isreading
  /\ Running("i_Write") /\ Top.plug = UPlug =>
       /\ toserver = None /\ SPlug \in made
       /\ other[SPlug] # None /\ other[SPlug] \in canwrite
  /\ Running("i_Write") /\ Top.plug = SPlug => toserver = None

-----------------------------------------------------------------------------
(* doProtocol, updatePlugFlags and what calls them.                        *)

\* Mutant: the server may write while data waits to be read by the user.
WritesOver(p) ==
  IF p = SPlug THEN toserver = None
  ELSE toserver = None /\ SPlug \in made /\ CanWriteOther

ShouldRead(p) ==
  IF p = SPlug THEN toserver # None \/ (UPlug \in made /\ CanReadOther)
  ELSE touser # None

ShouldWrite(p) ==
  IF p = SPlug THEN touser = None /\ toserver = None
  ELSE toserver = None /\ SPlug \in made /\ CanWriteOther

\* Each flag is computed when its turn comes, after the calls the one before
\* led to.
UpdatePlugFlags ==
  <<Frame("updateReadable", SPlug), Frame("updateWriteable", UPlug),
    Frame("updateReadable", UPlug), Frame("updateWriteable", SPlug)>>

UpdateGoesOn ==
  LET p == Top.plug
  IN  /\ \/ /\ Running("updateReadable")
            /\ Calls(<<Set("setReadable", p, ShouldRead(p))>>)
         \/ /\ Running("updateWriteable")
            /\ Calls(<<Set("setWriteable", p, ShouldWrite(p))>>)
      /\ UNCHANGED <<other, flags, made, ret, client>>

\* Whether doProtocol has something to send, held being toserver_.
Asks(held) == held = None /\ (~sent_do_supga \/ ~sent_do_echo)

\* held is toserver_ when doProtocol is called; yes is what is called next if it
\* returns TRUE, no if it returns FALSE.
DoProtocol(held, yes, no) ==
  IF Asks(held)
  THEN /\ toserver' = <<"DO", IF sent_do_supga THEN Echo ELSE SuppressGoAhead>>
       /\ sent_do_supga' = TRUE
       /\ sent_do_echo' = sent_do_supga
       /\ Calls(yes)
  ELSE toserver' = held /\ Calls(no) /\ UNCHANGED <<sent_do_supga, sent_do_echo>>

DoReset ==
  /\ Running("reset")
  /\ DoProtocol(toserver, UpdatePlugFlags, <<>>)
  /\ UNCHANGED <<other, flags, made, ret, touser>>

UPlugRead ==
  /\ Running("i_Read") /\ Top.plug = UPlug
  /\ touser' = None
  /\ Calls(UpdatePlugFlags \o <<Set("return", UPlug, touser)>>)
  /\ UNCHANGED <<other, flags, made, ret, sent_do_supga, sent_do_echo, toserver>>

\* What the client answers to a chunk of the server's, None for nothing.
Answer(chnk) ==
  CASE chnk[1] = "WILL" /\ chnk[2] \notin {Echo, SuppressGoAhead} -> <<"DONT", chnk[2]>>
    [] chnk[1] = "DO" -> <<IF chnk[2] = SuppressGoAhead THEN "WILL" ELSE "WONT", chnk[2]>>
    [] chnk[1] = "DONT" -> <<"WONT", chnk[2]>>
    [] OTHER -> None

\* serverWrite
SPlugWrite ==
  /\ Running("i_Write") /\ Top.plug = SPlug /\ EndsThere
  /\ IF ret[1] = "data" THEN touser' = ret /\ UNCHANGED toserver
     ELSE /\ toserver' = IF Answer(ret) = None THEN toserver ELSE Answer(ret)
          /\ UNCHANGED touser
  /\ ret' = None
  /\ Calls(UpdatePlugFlags \o <<Frame("written", SPlug)>>)
  /\ UNCHANGED <<other, flags, made, sent_do_supga, sent_do_echo>>

\* What waits in toserver_ goes first; then a chunk is read from the user.
SPlugRead ==
  /\ Running("i_Read") /\ Top.plug = SPlug /\ EndsThere
  /\ \/ /\ toserver # None
        /\ DoProtocol(None, <<Set("return", SPlug, toserver)>>,
                      UpdatePlugFlags \o <<Set("return", SPlug, toserver)>>)
        /\ UNCHANGED isreading
     \/ /\ toserver = None
        /\ isreading' = isreading \cup {other[UPlug]}
        /\ Calls(<<Frame("i_Read", other[UPlug]), With("clientRead", SPlug, other[UPlug])>>)
        /\ UNCHANGED <<sent_do_supga, sent_do_echo, toserver>>
  /\ UNCHANGED <<other, canread, canwrite, iswriting, notifyonread, notifyonwrite,
                 made, ret, touser>>

\* A chunk of the user's is written to the server, or kept while the server is
\* being written.
UPlugWrite ==
  LET o == other[SPlug]
  IN  /\ Running("i_Write") /\ Top.plug = UPlug /\ EndsThere
      /\ IF o \in iswriting
         THEN /\ toserver' = ret /\ ret' = None
              /\ Calls(<<Set("setWriteable", UPlug, FALSE), Frame("written", UPlug)>>)
              /\ UNCHANGED iswriting
         ELSE /\ iswriting' = iswriting \cup {o}
              /\ Calls(<<Frame("i_Write", o), With("clientWritten", SPlug, o),
                         Frame("written", UPlug)>>)
              /\ UNCHANGED <<toserver, ret>>
      /\ UNCHANGED <<other, canread, canwrite, isreading, notifyonread, notifyonwrite,
                     made, sent_do_supga, sent_do_echo, touser>>

Unmarks ==
  /\ \/ /\ Running("clientRead")
        /\ isreading' = isreading \ {Top.peer} /\ UNCHANGED iswriting
     \/ /\ Running("clientWritten")
        /\ iswriting' = iswriting \ {Top.peer} /\ UNCHANGED isreading
  /\ Return
  /\ UNCHANGED <<other, canread, canwrite, notifyonread, notifyonwrite, made, ret, client>>

\* otherIsReadable of UPlug and otherIsWriteable of SPlug, and plugDisconnected,
\* which the module does not have.
Notified ==
  /\ \/ /\ Running("otherIsReadable") \/ Running("otherIsWriteable")
        /\ Calls(UpdatePlugFlags)
     \/ Running("plugDisconnected") /\ Return
  /\ UNCHANGED <<other, flags, made, ret, client>>

-----------------------------------------------------------------------------
(* The program and the ends.                                               *)

MakePlug(p) ==
  /\ p \in {UPlug, SPlug} \ made
  /\ made' = made \cup {p}
  /\ UNCHANGED <<other, flags, stack, ret, client, ends>>

CallReset ==
  /\ resets < MaxResets /\ resets' = resets + 1
  /\ sent_do_supga' = FALSE /\ sent_do_echo' = FALSE
  /\ stack' = <<Frame("reset", SPlug)>>
  /\ UNCHANGED <<other, flags, made, ret, toserver, touser, fromserver, fromuser,
                 atserver, atuser, unplugs>>

\* unPlug by the program, or deletePlug, which takes the plug back first.
Unplugs(p) ==
  /\ other[p] # None /\ unplugs < MaxUnplugs /\ unplugs' = unplugs + 1
  /\ stack' = <<Frame("unPlug", p)>>
  /\ made' \in (IF p \in {UPlug, SPlug} THEN {made, made \ {p}} ELSE {made})
  /\ UNCHANGED <<other, flags, ret, client, fromserver, fromuser, atserver, atuser, resets>>

EndSpeaksUp ==
  /\ \/ User \notin canread /\ fromuser < MaxFromUser
        /\ stack' = <<Set("setReadable", User, TRUE)>>
     \/ Server \notin canread /\ Len(fromserver) < MaxFromServer
        /\ stack' = <<Set("setReadable", Server, TRUE)>>
     \/ \E p \in {User, Server} \ canwrite : stack' = <<Set("setWriteable", p, TRUE)>>
  /\ UNCHANGED <<other, flags, made, ret, client, ends>>

Program ==
  /\ Idle
  /\ \/ \E p \in Plugs : MakePlug(p) \/ Unplugs(p)
     \/ CallReset \/ EndSpeaksUp
     \/ \E pair \in {<<UPlug, User>>, <<Server, SPlug>>} :
          /\ pair[1] \in made /\ pair[2] \in made
          /\ PlugInto(pair[1], pair[2])
          /\ UNCHANGED <<client, ends>>

\* An end may have no more chunks, or no room for more, after each.
EndRead ==
  /\ Running("i_Read") /\ Top.plug \in {User, Server}
  /\ \E more \in BOOLEAN, chnk \in Requests \cup {<<"data", n>> : n \in 1..MaxFromUser} :
       LET last == IF Top.plug = User THEN fromuser + 1 >= MaxFromUser
                   ELSE Len(fromserver) + 1 >= MaxFromServer
       IN  /\ last => ~more
           /\ IF Top.plug = User
              THEN /\ chnk = <<"data", fromuser + 1>>
                   /\ fromuser' = fromuser + 1 /\ UNCHANGED fromserver
              ELSE fromserver' = Append(fromserver, chnk) /\ UNCHANGED fromuser
           /\ Calls(If(~more, <<Set("setReadable", Top.plug, FALSE)>>)
                    \o <<Set("return", Top.plug, chnk)>>)
  /\ UNCHANGED <<other, flags, made, ret, client, atserver, atuser, resets, unplugs>>

EndWrite ==
  /\ Running("i_Write") /\ Top.plug \in {User, Server}
  /\ IF Top.plug = User THEN atuser' = Append(atuser, ret) /\ UNCHANGED atserver
     ELSE atserver' = Append(atserver, ret) /\ UNCHANGED atuser
  /\ ret' = None
  /\ \E room \in BOOLEAN :
       Calls(If(~room, <<Set("setWriteable", Top.plug, FALSE)>>)
             \o <<Frame("written", Top.plug)>>)
  /\ UNCHANGED <<other, flags, made, client, fromserver, fromuser, resets, unplugs>>

Next ==
  \/ Program
  \/ Engine /\ UNCHANGED <<client, ends>>
  \/ UpdateGoesOn /\ UNCHANGED ends
  \/ (DoReset \/ UPlugRead \/ SPlugWrite \/ SPlugRead \/ UPlugWrite \/ Unmarks \/ Notified)
       /\ UNCHANGED ends
  \/ EndRead \/ EndWrite

Spec == Init /\ [][Next]_vars

-----------------------------------------------------------------------------
(* Properties.                                                             *)

Some(chnk) == IF chnk = None THEN <<>> ELSE <<chnk>>
IsData(chnk) == chnk[1] = "data"
ToServer == atserver \o Some(toserver)

\* Data passes both ways, each chunk once and in order; every request of the
\* server's that calls for an answer gets one, in order: none is overwritten by
\* what the user writes or by another; and once the client has begun to ask for its
\* two options it goes on until it has asked for both.
PassesAndAnswers ==
  Idle =>
    /\ SelectSeq(ToServer, IsData) = [n \in 1..fromuser |-> <<"data", n>>]
    /\ atuser \o Some(touser) = SelectSeq(fromserver, IsData)
    /\ SelectSeq(ToServer, LAMBDA chnk : chnk[1] \in {"WILL", "WONT", "DONT"})
         = LET asked == SelectSeq(fromserver, LAMBDA chnk : Answer(chnk) # None)
           IN  [n \in DOMAIN asked |-> Answer(asked[n])]
    /\ sent_do_supga # sent_do_echo => toserver # None
=============================================================================
