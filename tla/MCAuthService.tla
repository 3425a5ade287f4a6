--------------------------- MODULE MCAuthService ---------------------------
(* AuthService with small constants for TLC. *)
EXTENDS AuthService, TLC

AllAnswers   == {Rotate, Keep, Blank}
RotateOrKeep == {Rotate, Keep}

\* Callers are interchangeable, and so are login processes.
Symmetry == Permutations(Callers) \cup Permutations(Logins)
=============================================================================
