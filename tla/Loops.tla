-------------------------------- MODULE Loops --------------------------------
(***************************************************************************)
(* The two loops over a slice that the providers are written with, as      *)
(* recursive functions: the one that appends some of the items to a        *)
(* result, and the one that adds up a count.                               *)
(***************************************************************************)
EXTENDS Integers, Sequences

\* The items of s that are in S, in their order.
Filter(s, S) ==
  LET kept[i \in 0..Len(s)] ==
        IF i = 0 THEN <<>>
        ELSE IF s[i] \in S THEN Append(kept[i - 1], s[i]) ELSE kept[i - 1]
  IN  kept[Len(s)]

\* The sum of a sequence of numbers.
Total(counts) ==
  LET sum[i \in 0..Len(counts)] == IF i = 0 THEN 0 ELSE sum[i - 1] + counts[i]
  IN  sum[Len(counts)]
=============================================================================
