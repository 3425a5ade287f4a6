--------------------------- MODULE MCRequestFlow ---------------------------
(* RequestFlow with small constants for TLC. *)
EXTENDS RequestFlow, TLC

Rotating      == {Rotate}
ChatOnly      == {Chat}
StreamOnly    == {Stream}
Keeping       == {Keep}
AllKinds      == {Chat, Stream, Models}

Symmetry == Permutations(Requests)
=============================================================================
