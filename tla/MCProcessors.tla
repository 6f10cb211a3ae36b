---------------------------- MODULE MCProcessors ----------------------------
EXTENDS Processors

MCIsChopChar(byte) == byte = "g"
MCChopStreams == {<<"a", "b", "g", "g", "c">>, <<"g", "a", "b", "c", "g">>}

\* What the streams are put together from.
Pieces == {<<"a">>, <<"IAC", "IAC">>, <<"IAC", "a">>, <<"IAC", "NOP">>, <<"IAC", "WILL", "a">>,
           <<"IAC", "SB", "IAC">>, <<"IAC", "SB", "a", "IAC", "SE">>,
           <<"IAC", "SB", "a", "b", "IAC", "SE">>,
           <<"IAC", "SB", "a", "IAC", "IAC", "SE", "b", "IAC", "SE">>,
           <<"IAC", "SB", "a", "SE", "IAC", "a">>}
MCTelnetStreams == {a \o b \o <<"c">> : a \in Pieces,
                        b \in Pieces \ {<<"a">>, <<"IAC", "a">>, <<"IAC", "IAC">>, <<"IAC", "NOP">>,
                                 <<"IAC", "SB", "a", "b", "IAC", "SE">>}}

\* What the texts are put together from.
XMLFirst == {<<"n", " ">>, <<"<", "n", "1", ">">>, <<"<", "/", "n", "-", " ", ">">>,
             <<"<", "n", " ", "n", "=", "'", "\"", "'", "n", " ", "=", " ", "\"", "-", "\"", ">">>,
             <<"<", "!", "-", "-", "n", "-", "-", "-", ">", "-", "-", ">">>}
XMLSecond == {<<"<", "n", "/", ">">>, <<"<", "n", " ", "n", "=", "'", "<">>, <<"<", "/", "1">>,
              <<"<", "!", "-", "-", "-", "n", "-", "-", ">">>, <<"<", "n", "n", "n", "n">>}
MCXMLStreams == {a \o b : a \in XMLFirst \cup XMLSecond, b \in XMLSecond}

\* Values at the ends of what a number can be, and strings about the longest one.
Ends == {[type |-> "u1", is |-> 3], [type |-> "s1", is |-> -2], [type |-> "u2", is |-> 11],
         [type |-> "s2", is |-> 7], [type |-> "s2", is |-> -8], [type |-> "u4", is |-> 228],
         [type |-> "s4", is |-> -127], [type |-> "bool", is |-> TRUE],
         [type |-> "raw", is |-> <<3, 0>>], [type |-> "string", is |-> <<>>],
         [type |-> "string", is |-> <<2, 1>>]}
Strings == {[type |-> "string", is |-> [n \in 1..len |-> n % Base]] : len \in 13..16}
MCValueStreams == {<<a, b>> : a \in Ends, b \in Ends} \cup {<<a, b>> : a \in Strings, b \in Ends}
=============================================================================
