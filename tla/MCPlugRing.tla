----------------------------- MODULE MCPlugRing -----------------------------
EXTENDS PlugRing, TLC
=============================================================================
