-------------------------- MODULE MCUnixEventPoll --------------------------
EXTENDS UnixEventPoll

MCConds == {"FD_Readable", "FD_Closed"}

\* A descriptor with a reader and somebody who watches its end.
MCRegistrations ==
  {[fd |-> 1, condset |-> {"FD_Readable"}, name |-> "read"],
   [fd |-> 1, condset |-> {"FD_Closed"}, name |-> "error"]}
=============================================================================
