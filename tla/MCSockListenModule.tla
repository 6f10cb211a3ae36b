------------------------- MODULE MCSockListenModule -------------------------
EXTENDS SockListenModule, TLC
=============================================================================
