---------------------------- MODULE MCFileStore ----------------------------
(* FileStore with small constants for TLC. *)
EXTENDS FileStore

CONSTANTS short, long  \* two token sets of different length

TwoValues == {short, long}
Sizes     == [v \in TwoValues |-> IF v = short THEN 1 ELSE 2]
=============================================================================
