--------------------------- MODULE MCChunkStream ---------------------------
(* Completion, and with it ChunkStream, with small constants for TLC. *)
EXTENDS Completion

\* Nothing reported; no cache; a prompt written to the cache; one read from it.
SmallUsages ==
  {[input |-> 0, create |-> 0, read |-> 0, output |-> 0],
   [input |-> 3, create |-> 0, read |-> 0, output |-> 1],
   [input |-> 1, create |-> 2, read |-> 0, output |-> 2],
   [input |-> 0, create |-> 0, read |-> 4, output |-> 1]}
SomePrice   == [input |-> 1, output |-> 5]
=============================================================================
