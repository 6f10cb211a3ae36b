------------------------- MODULE MCSimpleMultiplexer -------------------------
EXTENDS SimpleMultiplexer, TLC

CONSTANTS s, a, b, es, ea, eb
EndOf == s :> es @@ a :> ea @@ b :> eb
\* One multi plug only reads; the other may write twice.
MCChunks == es :> 2 @@ ea :> 0 @@ eb :> 2
Everything == {s, a, b, es, ea, eb}
=============================================================================
