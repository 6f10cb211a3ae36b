------------------------------- MODULE Lists -------------------------------
(***************************************************************************)
(* What the loops that pick elements from a list have in common, written   *)
(* as a recursive function so that its properties can be proved.           *)
(***************************************************************************)
EXTENDS Integers, Sequences

\* The elements of s that are in S, in their order.
Only(s, S) ==
  LET kept[n \in 0..Len(s)] ==
        IF n = 0 THEN <<>>
        ELSE IF s[n] \in S THEN Append(kept[n-1], s[n]) ELSE kept[n-1]
  IN  kept[Len(s)]
=============================================================================
