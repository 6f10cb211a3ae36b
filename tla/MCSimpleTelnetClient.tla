------------------------ MODULE MCSimpleTelnetClient ------------------------
EXTENDS SimpleTelnetClient, TLC

MCRequests == {<<"WILL", 1>>, <<"WILL", 9>>, <<"DO", 3>>, <<"DONT", 9>>}
=============================================================================
