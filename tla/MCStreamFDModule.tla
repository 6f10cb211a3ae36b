-------------------------- MODULE MCStreamFDModule --------------------------
EXTENDS StreamFDModule, TLC
=============================================================================
