------------------------------ MODULE LoginCode ------------------------------
(***************************************************************************)
(* normalizeCode (internal/adapters/cli/run.go): the authorization code in *)
(* the line that the operator pastes at the prompt of a login.  A line is  *)
(* a sequence of the tokens normalizeCode tells apart: "?", "&", "#", the  *)
(* names of parameters with their "=", and what stands between these.      *)
(***************************************************************************)
EXTENDS Sequences, SequencesExt

Holds(line, token) == \E i \in DOMAIN line : line[i] = token

\* The line before the first of the separators.
Until(line, separators) ==
  LET first == SelectInSeq(line, LAMBDA t : t \in separators) IN
  IF first = 0 THEN line ELSE SubSeq(line, 1, first - 1)

\* The line after the first such token, nothing if it is not there.
After(line, token) ==
  LET first == SelectInSeq(line, LAMBDA t : t = token) IN
  IF first = 0 THEN <<>> ELSE SubSeq(line, first + 1, Len(line))

\* url.Parse, Query().Get("code"): between "?" and "#", the first parameter "code".
QueryCode(line) == Until(After(After(Until(line, {"#"}), "?"), "code="), {"&"})

\* The fragment left in place.
NormalizeCodeKeepingFragment(line) ==
  LET rest == IF Holds(line, "code=") THEN After(line, "code=") ELSE line IN
  IF QueryCode(line) # <<>> THEN QueryCode(line) ELSE Until(rest, {"&"})

\* The parameter of a URL, otherwise what follows "code=" or the line itself, up
\* to "&" and "#".
NormalizeCode(line) ==
  LET rest == IF Holds(line, "code=") THEN After(line, "code=") ELSE line IN
  IF QueryCode(line) # <<>> THEN QueryCode(line) ELSE Until(rest, {"&", "#"})

\* A line as the operator copies it: the code alone or right after the only "code="
\* of the line, at its end or followed by a further parameter or the fragment.
CarriesCode(line, token) ==
  \E p \in DOMAIN line :
    /\ line[p] = token
    /\ \A i \in DOMAIN line : line[i] = "code=" <=> i = p - 1
    /\ p = Len(line) \/ line[p + 1] \in {"&", "#"}
=============================================================================
